------------------------------ MODULE MacroReads ------------------------------
(***************************************************************************)
(* The macro routes.  One series takes two statements, its existence and   *)
(* its observations; the regime takes two, the columns its table has and   *)
(* its newest row.  Observations are unique per series and timestamp.      *)
(***************************************************************************)
EXTENDS ReadRequests

CONSTANT CategoryOf     \* MACRO_SERIES_METADATA: registered codes to categories

Observations(code) == {o \in db.macro_indicators : o.code = code}
NewestOf(rows) == {o \in rows : \A p \in rows : p.at <= o.at}

SeriesStats ==
    {[code |-> c, count |-> Cardinality(Observations(c)), latest |-> NewestOf(Observations(c))]
        : c \in {o.code : o \in db.macro_indicators}}

(* A category keeps the registered series of it, and no other. *)
ListSeries ==
    Answers("macro-series",
        {{s \in SeriesStats : \A c \in call.categories :
            s.code \in DOMAIN CategoryOf /\ CategoryOf[s.code] = c}})

SeriesExists(code) == Observations(code) # {}

SeriesObservations(code, start, end, limit) ==
    Newest({o \in Observations(code) : InRange(DayOf(o.at), start, end)}, limit)

(* Null: the series is unknown, 404. *)
GetSeries ==
    \/ /\ At("macro-observations", 1)
       /\ IF SeriesExists(call.code) THEN Hold({}) ELSE Reply("NOT_FOUND", {})
    \/ /\ At("macro-observations", 2)
       /\ \E rows \in SeriesObservations(call.code, call.start, call.end, call.limit) :
            Reply("OK", rows)

(* A list of codes that is blank once split stands for every series. *)
LatestPoints(codes) ==
    UNION {NewestOf(Observations(c)) : c \in
        {o.code : o \in {p \in db.macro_indicators : codes = {} \/ p.code \in codes}}}

GetLatest == Answers("macro-latest", {LatestPoints(call.codes)})

(***************************************************************************)
(* The regime's table may lack columns; without as_of_date there is no     *)
(* regime, and computed_at breaks ties only if it is there.                *)
(***************************************************************************)
RegimeColumns == db.regime_columns

LatestRegime(columns) ==
    LET Before(a, b) == \/ a.at > b.at
                        \/ /\ a.at = b.at
                           /\ "computed_at" \in columns
                           /\ SortKey(a.computed) > SortKey(b.computed)
    IN  First(db.macro_regime_snapshots, Before, 1)

GetMacroRegime ==
    \/ /\ At("macro-regime", 1)
       /\ IF "as_of_date" \in RegimeColumns THEN Hold(RegimeColumns)
          ELSE Reply("NOT_FOUND", {})
    \/ /\ At("macro-regime", 2)
       /\ held \subseteq RegimeColumns      \* or the statement fails
       /\ \E rows \in LatestRegime(held) :
            Reply(IF rows = {} THEN "NOT_FOUND" ELSE "OK", rows)

MacroNext == ListSeries \/ GetSeries \/ GetLatest \/ GetMacroRegime
===============================================================================
