----------------------------- MODULE DataTables -----------------------------
(***************************************************************************)
(* The generic table API: a caller lists the tables, lists the columns of  *)
(* one or reads rows of it.  What the statement may name is looked up in   *)
(* information_schema first, in statements of their own: a migration may   *)
(* change the table before the rows are read, which fails the last one.    *)
(*                                                                         *)
(* db.schema gives the columns of each table there is, db.dates those that *)
(* are dates or timestamps, and db.data its rows, a row's dates by column. *)
(***************************************************************************)
EXTENDS ReadRequests, Sequences

CONSTANTS
    BasicTables,        \* BASIC_DATA_TABLES
    HighVolumeTables,   \* _HIGH_VOLUME_TABLES
    HighVolumeLimit,    \* 500
    BasicReadScopes,    \* _BASIC_READ_SCOPES, and the scopes that cover one
    AdminRead,          \* admin:read, and the scopes that cover it
    FilterOps           \* _FILTER_OPS, as relations

ASSUME HighVolumeIsBasic == HighVolumeTables \subseteq BasicTables

(* Tables are finite, dates can be compared; a limit is a number. *)
ASSUME DataAssumption ==
    /\ HighVolumeLimit \in Nat
    /\ \A c \in Calls : c.op = "data-rows" =>
            c.limit \in Nat /\ c.start \subseteq Int /\ c.end \subseteq Int
    /\ \A d \in Databases["data-rows"] : \A table \in DOMAIN d.schema :
            /\ IsFiniteSet(d.data[table])
            /\ \A row \in d.data[table], column \in d.dates[table] :
                    row.dates[column] \in Int

IsAdmin(caller) == caller.scopes \intersect AdminRead # {}
MayReadBasic(caller) == caller.scopes \intersect BasicReadScopes # {}

(* Listing: the scope of a reader is checked after the tables are read. *)
ListTables ==
    /\ At("data-tables", 1)
    /\ \/ call.caller.delegated /\ Reply("FORBIDDEN", {})
       \/ /\ ~ call.caller.delegated /\ IsAdmin(call.caller)
          /\ Reply("OK", DOMAIN db.schema)
       \/ /\ ~ call.caller.delegated /\ ~ IsAdmin(call.caller)
          /\ IF MayReadBasic(call.caller)
             THEN Reply("OK", DOMAIN db.schema \intersect BasicTables)
             ELSE Reply("FORBIDDEN", {})

(* Mutant: a delegated token reads what its scopes allow. *)
TableVisibleByScope ==
    \/ IsAdmin(call.caller)
    \/ MayReadBasic(call.caller) /\ call.table \in BasicTables

TableVisible ==
    /\ ~ call.caller.delegated
    /\ \/ IsAdmin(call.caller)
       \/ MayReadBasic(call.caller) /\ call.table \in BasicTables

(* Mutant: one end of the range is enough. *)
HighVolumeHalfBounded ==
    call.table \in HighVolumeTables =>
        call.symbol # {} /\ Cardinality(call.start \union call.end) > 0
            /\ call.limit <= HighVolumeLimit

HighVolumeBounded ==
    call.table \in HighVolumeTables =>
        /\ call.symbol # {} /\ call.start # {} /\ call.end # {}
        /\ \A first \in call.start, last \in call.end : first <= last
        /\ call.limit <= HighVolumeLimit

Columns(table) == IF table \in DOMAIN db.schema THEN db.schema[table] ELSE {}

(* A table without columns is told from one that is not there. *)
ListColumns ==
    \/ /\ At("data-columns", 1)
       /\ IF ~ TableVisible THEN Reply("FORBIDDEN", {})
          ELSE IF Columns(call.table) # {} THEN Reply("OK", Columns(call.table))
          ELSE Hold({})
    \/ /\ At("data-columns", 2)
       /\ Reply(IF call.table \in DOMAIN db.schema THEN "OK" ELSE "NOT_FOUND", {})

(***************************************************************************)
(* What a statement for the rows is built from, given the columns.         *)
(***************************************************************************)
DateColumns == <<"ts", "date", "calendar_date", "as_of_date", "published_at",
                 "created_at", "updated_at">>
IdColumns == <<"id", "symbol", "instrument_id">>

FirstOf(candidates, columns) ==
    {candidates[n] : n \in {m \in DOMAIN candidates :
        /\ candidates[m] \in columns
        /\ \A l \in 1 .. m - 1 : candidates[l] \notin columns}}

DefaultDateColumn(columns) == FirstOf(DateColumns, columns)

DefaultOrderColumns(columns) ==
    LET byDate == DefaultDateColumn(columns)
        byId == FirstOf(IdColumns, columns)
    IN  IF byDate # {} THEN byDate ELSE IF byId # {} THEN byId
        ELSE {c \in columns : \A d \in columns : Alphabet[c] <= Alphabet[d]}

SymbolColumn(columns) == FirstOf(<<"instrument_id", "ticker_id", "symbol">>, columns)

Ranged == call.start # {} \/ call.end # {}
DateColumn(columns) ==
    IF call.dateColumn # {} THEN call.dateColumn ELSE DefaultDateColumn(columns)
OrderColumn(columns) ==
    IF call.orderBy # {} THEN call.orderBy ELSE DefaultOrderColumns(columns)

Valid(columns) ==
    /\ \A f \in call.filters : f.column \in columns /\ f.op \in DOMAIN FilterOps
    /\ call.symbol # {} => SymbolColumn(columns) # {}
    /\ Ranged => DateColumn(columns) # {} /\ DateColumn(columns) \subseteq columns
    /\ OrderColumn(columns) \subseteq columns

(* What the statement needs of the table when it runs. *)
ColumnsNamed(columns) ==
    {f.column : f \in call.filters} \union OrderColumn(columns)
        \union (IF call.symbol # {} THEN SymbolColumn(columns) ELSE {})
        \union (IF Ranged THEN DateColumn(columns) ELSE {})

(***************************************************************************)
(* A symbol may belong to several instruments.  Through instrument_id the  *)
(* statement takes the rows of any one of them, through ticker_id those of *)
(* all, and a symbol column is compared itself.                            *)
(***************************************************************************)
InstrumentsNamed(symbol) == {i.id : i \in {j \in db.instruments : SameText(j.symbol, symbol)}}

SymbolChoices(columns) ==
    LET ids == UNION {InstrumentsNamed(s) : s \in call.symbol}
        OfIds(some) == {row \in db.data[call.table] : row.inst \in some}
    IN  IF call.symbol = {} THEN {db.data[call.table]}
        ELSE IF SymbolColumn(columns) # {"instrument_id"} THEN {OfIds(ids)}
        ELSE IF ids = {} THEN {{}}
        ELSE {OfIds({id}) : id \in ids}

(* Of a row's columns its dates are kept, and those that are filtered: any *)
(* other orders it in any way.  A day is compared as its midnight.         *)
Midnights(days) == {AtMidnight(day) : day \in days}

InDates(row, columns) ==
    \A column \in DateColumn(columns) :
        /\ row.dates[column] # Null
        /\ InRange(row.dates[column], Midnights(call.start), Midnights(call.end))

Asked(rows, columns) ==
    {row \in rows :
        /\ \A f \in call.filters : <<row[f.column], f.value>> \in FilterOps[f.op]
        /\ Ranged => InDates(row, columns)}

Page(rows, columns) ==
    LET Later(a, b) == \E column \in OrderColumn(columns) \intersect db.dates[call.table] :
                            SortKey(a.dates[column]) > SortKey(b.dates[column])
        Before(a, b) == IF call.descending THEN Later(a, b) ELSE Later(b, a)
    IN  UNION {First(rows \ skipped, Before, call.limit) :
                    skipped \in First(rows, Before, call.offset)}

RowChoices(columns) ==
    UNION {Page(Asked(rows, columns), columns) : rows \in SymbolChoices(columns)}

QueryRows ==
    \/ /\ At("data-rows", 1)
       /\ IF ~ TableVisible \/ ~ HighVolumeBounded THEN Reply("FORBIDDEN", {})
          ELSE IF call.table \in DOMAIN db.schema THEN Hold({}) ELSE Reply("NOT_FOUND", {})
    \/ /\ At("data-rows", 2)
       /\ IF Columns(call.table) # {} /\ Valid(Columns(call.table))
          THEN Hold(Columns(call.table))
          ELSE \/ Columns(call.table) # {} /\ Reply("INVALID", {})
               \/ Columns(call.table) = {} /\ Hold({})
    \/ /\ At("data-rows", 3) /\ held = {}       \* is the table there at all?
       /\ Reply(IF call.table \in DOMAIN db.schema THEN "INVALID" ELSE "NOT_FOUND", {})
    \/ /\ At("data-rows", 3) /\ held # {}
       /\ call.table \in DOMAIN db.schema       \* or the statement fails
       /\ ColumnsNamed(held) \subseteq Columns(call.table)
       /\ Ranged => DateColumn(held) \subseteq db.dates[call.table]
       /\ \E rows \in RowChoices(held) : Reply("OK", rows)

DataNext == ListTables \/ ListColumns \/ QueryRows
===============================================================================
