-------------------------------- MODULE Reads --------------------------------
(***************************************************************************)
(* All the reads of the API: one request of any kind, the statements it    *)
(* runs and what commits between them; with what its answer promises.      *)
(***************************************************************************)
EXTENDS MarketDataService, AdvisorReads, AdminDashboard, MacroReads,
        FixedIncomeReads, DataTables

Next ==
    \/ MarketNext \/ AdvisorNext \/ DashboardNext
    \/ MacroNext \/ FixedIncomeNext \/ DataNext
    \/ StatementFails \/ OthersCommit

Spec == Init /\ [][Next]_vars

Answered(op) == call.op = op /\ answer.status = "OK"

(* Operations that take a limit on the rows they answer, at least one; for *)
(* most of them, the table that the rows are cut from.                     *)
TableCut(op, d) ==
    CASE op = "search" -> d.instruments
      [] op = "technical" -> d.ind_technical_daily
      [] op = "risk" -> d.ind_risk_daily
      [] op = "valuation" -> d.ind_valuation_daily
      [] op = "returns" -> d.returns_snapshot_daily
      [] op = "income" -> d.fund_income_q
      [] op = "balance" -> d.fund_balance_q
      [] op = "cashflow" -> d.fund_cashflow_q
      [] op = "quality" -> d.fundamentals
      [] op = "price-ticks" -> d.price_ticks
      [] op = "ticker-news" -> d.ticker_news
      [] op = "market-news" -> d.market_news
      [] op = "corporate-actions" -> d.corporate_actions
      [] op = "calendar" -> d.trading_calendar
      [] op = "price-history" -> d.prices_daily
      [] op = "sector-daily" -> d.sector_daily
      [] op = "universe" -> d.market_cap_daily
      [] op = "cap-events" -> d.audit_cap_events
      [] op = "signals" -> d.latest_snapshots
      [] op = "audit-events" -> d.audit_events
      [] op = "macro-observations" -> d.macro_indicators
      [] op = "fixed-income-history" -> d.fixed_income_curve_metrics
      [] op = "fixed-income-signals" -> d.fixed_income_signals

CutOps == {"search", "technical", "risk", "valuation", "returns", "income", "balance",
           "cashflow", "quality", "price-ticks", "ticker-news", "market-news",
           "corporate-actions", "calendar", "price-history", "sector-daily", "universe",
           "cap-events", "signals", "audit-events", "macro-observations",
           "fixed-income-history", "fixed-income-signals"}
LimitedOps == CutOps \union {"named-query", "portfolio", "context", "data-rows"}

ASSUME LimitAssumption ==
    /\ MaxWrites \in Nat
    /\ \A c \in Calls : c.op \in LimitedOps => c.limit \in Nat \ {0}
    /\ \A op \in CutOps : \A d \in Databases[op] : IsFiniteSet(TableCut(op, d))
    /\ \A d \in Databases["named-query"] : \A name \in DOMAIN CuratedQueries :
            IsFiniteSet(d[CuratedQueries[name]])

(* An answer is of a kind its routes have: an error carries no rows, and   *)
(* the rows are no more than were asked for.                               *)
TypeOK ==
    /\ call \in Calls
    /\ db \in Databases[call.op]
    /\ answer.status \in Statuses \union {"pending"}
    /\ answer.status # "OK" => answer.rows = {}
    /\ step \in Nat \ {0} /\ writes \in 0 .. MaxWrites
    /\ call.op \in LimitedOps => Cardinality(answer.rows) <= call.limit

(* A price history has one bar a day, the day's newest, and its limit      *)
(* counts days: with more days recorded than asked for, it has as many as  *)
(* asked for, and none of them is older than one that is left out.         *)
(* (get_price_history: DISTINCT ON before LIMIT.)                          *)
HistoryIsDaily ==
    Answered("price-history") /\ Cardinality(Named(call.ticker)) = 1 /\ writes = 0 =>
        LET bars == {b \in OfTicker(db.prices_daily, call.ticker) :
                        InRange(DayOf(b.at), call.start, call.end)}
            given == {DayOf(b.at) : b \in answer.rows}
            left == {DayOf(b.at) : b \in bars} \ given
        IN  /\ Cardinality(given) = Cardinality(answer.rows)
            /\ \A g \in answer.rows, b \in bars : DayOf(b.at) = DayOf(g.at) => b.at <= g.at
            /\ left # {} => Cardinality(given) = call.limit
            /\ \A day \in given, older \in left : older < day

(* Adjusting for splits and dividends keeps a recorded bar a bar, up to    *)
(* the rounding of a float: its open stays between its low and its high,   *)
(* and its close is at most one float outside.  (_adjust_price_day         *)
(* multiplies three prices by a rounded ratio and sets the close exactly,  *)
(* so a close at the high may end up above it.)                            *)
AdjustedBarsMoveTogether ==
    Answered("price-history") =>
        \A bar \in answer.rows :
            /\ bar.low <= bar.open /\ bar.open <= bar.high
            /\ Between(bar.high, bar.close) = {} /\ Between(bar.close, bar.low) = {}

(* A symbol is in the universe by its newest capitalisation: one that fell *)
(* below the minimum is not there by an older row.                         *)
(* (get_universe_active: DISTINCT ON inside, the minimum outside.)         *)
UniverseIsCurrent ==
    Answered("universe") =>
        \A row \in answer.rows, other \in db.market_cap_daily :
            other.symbol = row.symbol => other.at <= row.at

(* A search that is cut off by its limit keeps an instrument whose symbol  *)
(* is the query before any whose symbol is not.                            *)
(* (search_symbols: the CASE of its ORDER BY.)                             *)
SearchKeepsExactMatch ==
    Answered("search") =>
        LET exact == {i \in db.instruments :
                        i.active /\ SameText(i.symbol, Stripped[call.text])}
        IN  exact \subseteq answer.rows \/ answer.rows \subseteq exact

(* A symbol that resolves names one listed instrument, so the rows a       *)
(* series returns for it are all that instrument's.  (resolve_symbol looks *)
(* at all instruments, active or not, as the series do; it skips those     *)
(* without an exchange.)                                                   *)
SeriesOps == {"technical", "risk", "valuation", "returns", "income", "balance",
              "cashflow", "quality", "corporate-actions", "price-ticks", "ticker-news",
              "price-history"}
ASSUME InstrumentAssumption ==
    \A op \in SeriesOps : \A d \in Databases[op] :
        IsFiniteSet(d.instruments) /\ \A i \in d.instruments : i.id \in Nat

Resolves(ticker) ==
    \A matches \in ResolveSymbol(ticker) : Cardinality(matches) = 1
Listed == \A i \in db.instruments : \E e \in db.exchanges : e.id = i.exchange

ResolvedNameIsOneInstrument ==
    answer.status = "OK" /\ call.op \in SeriesOps /\ writes = 0
            /\ Listed /\ Resolves(call.ticker) =>
        \A row, other \in answer.rows : row.inst = other.inst

(* The signals of a regime are of the day of its metric, whatever the jobs *)
(* that compute them commit while it is put together.                      *)
(* (get_regime passes as_of_date on to get_signals.)                       *)
RegimeIsOneDay ==
    Answered("fixed-income-regime") =>
        \A regime \in answer.rows : \A m \in regime.metric, s \in regime.signals :
            s.at = m.at /\ s.country = m.country

(* Table access is not for delegated tokens, and without admin:read it is  *)
(* for the basic tables only, in each of its three forms.                  *)
(* (_ensure_table_visible and _visible_tables.)                            *)
DataOps == {"data-tables", "data-columns", "data-rows"}
BasicReaderConfined ==
    answer.status = "OK" /\ call.op \in DataOps =>
        /\ ~ call.caller.delegated
        /\ IsAdmin(call.caller)
              \/ IF call.op = "data-tables" THEN answer.rows \subseteq BasicTables
                 ELSE call.table \in BasicTables

(* The rows of a high-volume table are few, of one symbol, and of the days *)
(* asked for by one date column, the one the caller names if he names one, *)
(* whatever he filters, orders and skips.                                  *)
(* (_validate_high_volume_query, with the clauses of query_rows.)          *)
HighVolumeReadsAreBounded ==
    Answered("data-rows") /\ call.table \in HighVolumeTables =>
        /\ Cardinality(answer.rows) <= HighVolumeLimit
        /\ \A row \in answer.rows :
            /\ \E symbol \in call.symbol : row.inst \in InstrumentsNamed(symbol)
            /\ \E column \in DateColumn(held) :
                /\ \E day \in call.start : row.dates[column] >= AtMidnight(day)
                /\ \E day \in call.end : DayOf(row.dates[column]) <= day

(* The dashboard is there whatever fails: each of its sections is shown or *)
(* a placeholder.  (Every error a method raises is one that                *)
(* get_dashboard_data catches.)                                            *)
DashboardAlwaysAnswers ==
    call.op = "dashboard" =>
        /\ answer.status \in {"pending", "OK"}
        /\ answer.status = "OK" =>
            {Sections[n] : n \in DOMAIN Sections} \ {"version"}
                \subseteq {part.section : part \in answer.rows}

(* What docs/API_REFERENCE.md says of the dashboard: service_clients holds *)
(* the registered service clients.                                         *)
DashboardListsClients ==
    Answered("dashboard") /\ call.faults = {} =>
        \A part \in answer.rows :
            part.section = "clients" => part.rows = db.service_clients
===============================================================================
