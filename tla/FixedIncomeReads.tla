--------------------------- MODULE FixedIncomeReads ---------------------------
(***************************************************************************)
(* The fixed-income routes, all about the US.  A regime is put together by *)
(* five statements: is the table of metrics there, its newest row, is the  *)
(* table of signals there, the signals of that row's day, and the prices   *)
(* of the bond ETFs.  The jobs that compute these may commit in between.   *)
(***************************************************************************)
EXTENDS ReadRequests

Country == "US"
MetricsTable == "fixed_income_curve_metrics"
SignalsTable == "fixed_income_signals"

TableExists(table) == table \in db.present

(* Metrics are unique per day and country. *)
MetricsOf(country) == {m \in db.fixed_income_curve_metrics : m.country = country}
LatestMetric == First(MetricsOf(Country), LAMBDA a, b : a.at > b.at, 1)

MetricsHistory(start, end, limit) ==
    Newest({m \in MetricsOf(Country) : InRange(m.at, start, end)}, limit)

(* Mutant: the newest signals of any day. *)
SignalsOfAnyDay(country, asOf, limit) ==
    Newest({s \in db.fixed_income_signals : s.country = country}, limit)

Signals(country, asOf, limit) ==
    LET asked == {s \in db.fixed_income_signals :
                    s.country = country /\ \A day \in asOf : s.at = day}
        Before(a, b) == \/ a.at > b.at
                        \/ a.at = b.at /\ Alphabet[a.name] < Alphabet[b.name]
    IN  First(asked, Before, limit)

(* The bars of a symbol are numbered from the newest, those of one time in *)
(* any order: two active ETFs of a symbol share its row.  Its change is    *)
(* the ratio to the close of the second bar, when that is above zero.      *)
ProxySymbols == {"SHY", "IEF", "TLT", "TIP", "BND", "AGG"}

EtfProxyPrices ==
    LET BarsOf(symbol) == {p \in db.prices_daily : \E i \in db.instruments :
                            i.id = p.inst /\ i.symbol = symbol /\ i.etf /\ i.active}
        Change(last, before) == {<<last.close, b.close>> : b \in {c \in before : c.close > 0}}
        Proxies(symbol) == UNION {
            {[symbol |-> symbol, bar |-> last, change |-> Change(last, before)]
                : before \in Newest(BarsOf(symbol) \ {last}, 1)}
            : last \in UNION Newest(BarsOf(symbol), 1)}
        traded == {symbol \in ProxySymbols : BarsOf(symbol) # {}}
    IN  {rows \in SUBSET UNION {Proxies(symbol) : symbol \in traded} :
            \A symbol \in traded : \E row \in rows :
                \A other \in rows : other.symbol = symbol <=> other = row}

GetRegime ==
    \/ /\ At("fixed-income-regime", 1)
       /\ IF TableExists(MetricsTable) THEN Hold({}) ELSE Reply("NOT_FOUND", {})
    \/ /\ At("fixed-income-regime", 2)
       /\ TableExists(MetricsTable)
       /\ \E metric \in LatestMetric :
            IF metric = {} THEN Reply("NOT_FOUND", {}) ELSE Hold([metric |-> metric])
    \/ /\ At("fixed-income-regime", 3)
       /\ held' = [metric |-> held.metric, signals |-> {}]
       /\ step' = IF TableExists(SignalsTable) THEN 4 ELSE 5
       /\ UNCHANGED <<db, call, answer, writes>>
    \/ /\ At("fixed-income-regime", 4)
       /\ TableExists(SignalsTable)
       /\ \E m \in held.metric : \E signals \in Signals(m.country, {m.at}, 50) :
            Hold([metric |-> {m}, signals |-> signals])
    \/ /\ At("fixed-income-regime", 5)
       /\ \E proxies \in EtfProxyPrices :
            Reply("OK", {[metric |-> held.metric, signals |-> held.signals,
                          proxies |-> proxies]})

GetHistory ==
    \/ /\ At("fixed-income-history", 1)
       /\ IF TableExists(MetricsTable) THEN Hold({}) ELSE Reply("OK", {})
    \/ /\ At("fixed-income-history", 2)
       /\ TableExists(MetricsTable)
       /\ \E rows \in MetricsHistory(call.start, call.end, call.limit) : Reply("OK", rows)

GetSignals ==
    \/ /\ At("fixed-income-signals", 1)
       /\ IF TableExists(SignalsTable) THEN Hold({}) ELSE Reply("OK", {})
    \/ /\ At("fixed-income-signals", 2)
       /\ TableExists(SignalsTable)
       /\ \E rows \in Signals(Country, {}, call.limit) : Reply("OK", rows)

FixedIncomeNext == GetRegime \/ GetHistory \/ GetSignals
===============================================================================
