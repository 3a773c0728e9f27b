------------------------------- MODULE MCReads -------------------------------
(***************************************************************************)
(* An instance of Reads: three days, at most four instruments, two of them *)
(* with the same symbol, and for each operation the contents of the tables *)
(* it reads that tell its cases apart.                                     *)
(***************************************************************************)
EXTENDS Reads, TLC

Days == 1 .. 3
SubsetsUpTo(n, S) == {s \in SUBSET S : Cardinality(s) <= n}
Maybe(S) == {{}} \union {{x} : x \in S}

(***************************************************************************)
(* Texts: "ab" is "AB" in another case, " AB " has blanks around it.       *)
(***************************************************************************)
Texts == {NoText, "AB", "ab", " AB ", "ABA", "B", "Abel", "Alma", "S1", "S2", "X", "Y", "z"}
ColumnNames == {"ts", "ingested_at", "id", "symbol", "instrument_id", "ticker_id", "kind"}
MCUpper == [t \in Texts |-> IF t = "ab" THEN "AB" ELSE t]
MCStripped == [t \in Texts |-> IF t = " AB " THEN "AB" ELSE t]
Ordered == <<NoText, " AB ", "AB", "ab", "ABA", "Abel", "Alma", "B", "S1", "S2", "X", "Y", "z">>
MCAlphabet ==
    [t \in Texts \union ColumnNames |->
        IF t \in ColumnNames THEN 20 ELSE CHOOSE n \in DOMAIN Ordered : Ordered[n] = t]
MCLength == [t \in Texts |-> IF t = NoText THEN 0 ELSE IF t \in {"B", "z"} THEN 1
                             ELSE IF t \in {"AB", "ab"} THEN 2 ELSE 3]
MCStartingWith == [t \in Texts |-> CASE t = NoText -> Texts
                                     [] t \in {"AB", "ab"} -> {"AB", "ab", "ABA", "Abel"}
                                     [] t = "B" -> {"B"}
                                     [] OTHER -> {t}]
MCContaining == [t \in Texts |-> IF t \in {"AB", "ab"} THEN {"AB", "ab", "ABA", "Abel"} ELSE {t}]

(***************************************************************************)
(* Rows.                                                                   *)
(***************************************************************************)
Instrument(id, symbol, name, exchange, sector, industry, active, etf) ==
    [id |-> id, symbol |-> symbol, name |-> name, exchange |-> exchange,
     sector |-> sector, industry |-> industry, active |-> active, etf |-> etf]

I1 == Instrument(1, "AB", "Alma", 1, "S1", "X", TRUE, FALSE)
I2 == Instrument(2, "ab", "B", 2, "S2", "Y", TRUE, FALSE)
I2Gone == [I2 EXCEPT !.active = FALSE]
I3 == Instrument(3, "ABA", "Abel", 1, "S2", NoText, TRUE, FALSE)
I4 == Instrument(4, "B", "AB", 1, "S1", "Y", TRUE, TRUE)
InstrumentSets == {{}, {I1}, {I1, I2}, {I1, I2Gone}, {I1, I3}}
Listings == {{I1, I2, I3, I4}, {I1, I3, I4}, {I3, I4}, {I2Gone, I3}, {I2, I4}, {}}

AllExchanges == {[id |-> 1, country |-> "US", currency |-> "USD"],
                 [id |-> 2, country |-> "SE", currency |-> "SEK"]}
ExchangeSets == SUBSET AllExchanges

DatedRows == [inst : {1}, at : 1 .. 3] \union [inst : {2}, at : {2}]

(***************************************************************************)
(* Floats of four significant bits, rounded to the nearest, ties to an     *)
(* even significand; a factor is in units of 1/One.                        *)
(***************************************************************************)
One == 64
Binary(significands) == {0} \union {m * 2^e : m \in significands, e \in 0 .. 5}
MCFloats == Binary(8 .. 15)
MCPrices == {0} \union {f \in MCFloats : 32 <= f /\ f <= 120}

Round(num, den) ==
    LET Error(f) == IF f * den < num THEN num - f * den ELSE f * den - num
        least == Min({Error(f) : f \in MCFloats})
        nearest == {f \in MCFloats : Error(f) = least}
    IN  CHOOSE f \in nearest : Cardinality(nearest) = 1 \/ f \in Binary({8, 10, 12, 14})

Quotients == [pair \in (MCPrices \ {0}) \X (MCPrices \ {0}) |-> Round(pair[1] * One, pair[2])]
Products == [pair \in MCPrices \X {Quotients[p] : p \in DOMAIN Quotients} |->
                Round(pair[1] * pair[2], One)]
MCQuotient(x, y) == Quotients[<<x, y>>]
MCProduct(x, y) == Products[<<x, y>>]

(* Day 2 has two bars; "adj" of 0 is none.  The first bar closes at its    *)
(* high, the third at its low; adjusted, each close is outside of its bar. *)
Bar(inst, at, open, high, low, close, adj) ==
    [inst |-> inst, at |-> at, open |-> open, high |-> high, low |-> low,
     close |-> close, adj |-> adj]
Bars == {Bar(1, 2, 72, 80, 64, 80, 52), Bar(1, 4, 72, 80, 64, 72, 0),
         Bar(1, 5, 80, 88, 72, 72, 52), Bar(1, 6, 64, 80, 56, 72, 112),
         Bar(2, 4, 72, 80, 64, 72, 40)}

Caps == {[symbol |-> "AB", at |-> 1, cap |-> 3], [symbol |-> "AB", at |-> 2, cap |-> 1],
         [symbol |-> "ABA", at |-> 1, cap |-> 2], [symbol |-> "ABA", at |-> 3, cap |-> 4]}

Snapshot(inst, at, updated, eps, price, signal) ==
    [inst |-> inst, at |-> at, updated |-> updated, eps |-> eps, price |-> price,
     signal |-> signal]
Snapshots == {Snapshot(1, 2, 1, 3, 2, TRUE), Snapshot(1, 0, 2, 0, 2, TRUE),
              Snapshot(2, 3, 0, 0, 1, FALSE)}
SnapshotSets == {s \in SUBSET Snapshots : \A a, b \in s : a.inst = b.inst => a = b}

Quarters == {[inst |-> 1, at |-> 1, eps |-> 4], [inst |-> 1, at |-> 2, eps |-> 0]}

Positions == {[inst |-> 1, at |-> 1, value |-> 0, qty |-> 2],
              [inst |-> 2, at |-> 2, value |-> 3, qty |-> 1]}

News == {[id |-> 1, at |-> 1], [id |-> 2, at |-> 0], [id |-> 3, at |-> 2]}
Events == [at : {1, 2}, category : {"auth", "job"}]
Stats == {[count |-> 1], [count |-> 2]}
Workers == {[id |-> 1, at |-> 1], [id |-> 2, at |-> 1]}
SectorRows == {[sector |-> "S1", at |-> 1, rank |-> 1], [sector |-> "S1", at |-> 2, rank |-> 0],
               [sector |-> "S2", at |-> 2, rank |-> 1]}
CapEventRows == [id : {1, 2}, at : {1, 2}]

Macro == [code : {"CPI", "NEW"}, at : {2, 3, 5}]
MCCategoryOf == [c \in {"CPI"} |-> "inflation"]
Regimes == [at : {1, 2}, computed : {0, 1, 2}]
RegimeColumnSets == {{"as_of_date", "computed_at"}, {"as_of_date"}, {"computed_at"}}

Metrics == [at : {1, 2}, country : {"US"}] \union {[at |-> 2, country |-> "DE"]}
CurveSignals == [at : {1, 2}, country : {"US"}, name : {"X", "Y"}]
CurveTables == {MetricsTable, SignalsTable}
(* Two active ETFs of one symbol, with a bar of the same time. *)
Bonds == {Instrument(4, "TLT", "AB", 1, "S1", "Y", TRUE, TRUE),
          Instrument(5, "TLT", "AB", 2, "S1", "Y", TRUE, TRUE),
          Instrument(6, "AGG", "B", 1, "S2", "Y", FALSE, TRUE)}
Closes == {[inst |-> 4, at |-> 1, close |-> 3], [inst |-> 4, at |-> 2, close |-> 5],
           [inst |-> 5, at |-> 2, close |-> 0], [inst |-> 6, at |-> 2, close |-> 5]}

(***************************************************************************)
(* The generic tables.  A migration drops a column, or a table.            *)
(***************************************************************************)
Schemas ==
    {[prices_daily |-> prices, price_ticks |-> {"ts", "ticker_id"}, exchanges |-> exchanges,
      orders |-> {"id", "kind"}]
        : prices \in {{"instrument_id", "ts", "ingested_at", "kind"},
                      {"instrument_id", "ts", "kind"}, {"instrument_id", "ts", "ingested_at"}},
          exchanges \in {{}, {"symbol", "kind"}}}
    \union {[prices_daily |-> {"instrument_id", "ts", "ingested_at", "kind"}]}
Dates(columns) == columns \intersect {"ts", "ingested_at"}
DataRow(inst, ts, ingested, kind, columns) ==
    [inst |-> inst, kind |-> kind,
     dates |-> [c \in Dates(columns) |-> IF c = "ts" THEN ts ELSE ingested]]
DataRows(columns) ==
    {DataRow(1, 2, 4, 1, columns), DataRow(1, 4, 6, 1, columns), DataRow(1, 5, 2, 2, columns),
     DataRow(2, 2, 2, 1, columns), DataRow(2, 4, 4, 1, columns)}
MCBasicTables == {"prices_daily", "price_ticks", "exchanges"}
MCHighVolumeTables == {"prices_daily", "price_ticks"}
MCFilterOps == [eq |-> {<<1, 1>>, <<2, 2>>}, gt |-> {<<2, 1>>}]
DataDatabases ==
    {[schema |-> schema, instruments |-> {I1, I2},
      dates |-> [t \in DOMAIN schema |-> Dates(schema[t])],
      data |-> [t \in DOMAIN schema |-> DataRows(schema[t])]] : schema \in Schemas}

Caller(delegated, scopes) == [delegated |-> delegated, scopes |-> scopes]
Callers == {Caller(TRUE, {"market:read"}), Caller(FALSE, {"market:read"}),
            Caller(FALSE, {"admin:read"}), Caller(FALSE, {"accounts:write"})}

RowsCall == [op |-> "data-rows", caller |-> Caller(FALSE, {"market:read"}),
             table |-> "prices_daily", limit |-> 2, offset |-> 0, orderBy |-> {},
             descending |-> TRUE, filters |-> {}, symbol |-> {"AB"}, dateColumn |-> {},
             start |-> {1}, end |-> {2}]
Filter(column, op) == [column |-> column, op |-> op, value |-> 1]
RowsCalls ==
    {[RowsCall EXCEPT !.caller = c, !.table = t] :
        c \in Callers, t \in {"prices_daily", "price_ticks", "exchanges", "orders", "none"}}
    \union {[RowsCall EXCEPT !.start = {2}, !.end = e] : e \in {{}, {1}, {2}}}
    \union {[RowsCall EXCEPT !.limit = l, !.offset = o] : l \in {1, 3}, o \in {0, 1}}
    \union {[RowsCall EXCEPT !.symbol = s, !.start = e, !.end = e, !.descending = FALSE,
                             !.caller = Caller(FALSE, {"admin:read"}), !.table = t] :
                s \in {{}, {"z"}}, e \in {{}, {2}}, t \in {"exchanges", "orders"}}
    \union {[RowsCall EXCEPT !.filters = {f}] :
                f \in {Filter("kind", "eq"), Filter("kind", "gt"), Filter("kind", "is"),
                       Filter("id", "eq")}}
    \union {[RowsCall EXCEPT !.orderBy = o, !.dateColumn = d] :
                o \in {{}, {"kind"}, {"ingested_at"}}, d \in {{"ts"}, {"ingested_at"}, {"kind"}}}

(***************************************************************************)
(* What each operation meets.                                              *)
(***************************************************************************)
SeriesRelation ==
    [technical |-> "ind_technical_daily", risk |-> "ind_risk_daily",
     valuation |-> "ind_valuation_daily", returns |-> "returns_snapshot_daily",
     income |-> "fund_income_q", balance |-> "fund_balance_q",
     cashflow |-> "fund_cashflow_q", quality |-> "fundamentals"]
     @@ ("ticker-news" :> "ticker_news") @@ ("price-ticks" :> "price_ticks")
Ranges == {"technical", "risk", "valuation", "returns"}

Instruments(sets) == {[instruments |-> i] : i \in sets}
Only(relation, sets) == {relation :> rows : rows \in sets}

SeriesDatabases(relation) ==
    {[instruments |-> i, exchanges |-> AllExchanges] @@ (relation :> rows) :
        i \in InstrumentSets, rows \in SUBSET DatedRows}

ReferenceOps == {"countries", "currencies", "exchanges"}

MCDatabases ==
    [op \in DOMAIN SeriesRelation |-> SeriesDatabases(SeriesRelation[op])]
    @@ [op \in ReferenceOps |-> Only("exchanges", ExchangeSets)]
    @@ [op \in {"sectors", "industries", "ticker"} |-> Instruments(Listings)]
    @@ [op \in DataOps |-> DataDatabases]
    @@ [op \in {"macro-series", "macro-observations", "macro-latest"} |->
            Only("macro_indicators", SUBSET Macro)]
    @@ [op \in {"context", "chat"} |->
            {[instruments |-> i, latest_snapshots |-> s, fund_income_q |-> Quarters,
              market_news |-> n] :
                i \in {{I1}, {I1, I2}}, s \in {{}, {Snapshot(1, 2, 1, 0, 2, TRUE)}},
                n \in {{}, News}}]
    @@ ("quotes" :> {[instruments |-> i, latest_snapshots |-> s, fund_income_q |-> q] :
            i \in InstrumentSets, s \in SnapshotSets, q \in SUBSET Quarters})
    @@ ("snapshot" :> {[instruments |-> i, latest_snapshots |-> s, fund_income_q |-> q] :
            i \in InstrumentSets, s \in SnapshotSets, q \in SUBSET Quarters})
    @@ ("signals" :> {[instruments |-> {I1, I2}, latest_snapshots |-> s] : s \in SnapshotSets})
    @@ ("portfolio" :> {[instruments |-> {I1, I2}, latest_snapshots |-> s, positions |-> p] :
            s \in SnapshotSets, p \in SUBSET Positions})
    @@ ("search" :> Instruments(Listings))
    @@ ("resolve" :> {[instruments |-> i, exchanges |-> e] : i \in Listings, e \in ExchangeSets})
    @@ ("calendar" :> Only("trading_calendar", SUBSET [at : Days]))
    @@ ("price-history" :> {[instruments |-> i, exchanges |-> AllExchanges,
            prices_daily |-> p, corporate_actions |-> {}] :
                i \in {{I1}, {I1, I2}}, p \in SUBSET Bars})
    @@ ("corporate-actions" :> {[instruments |-> i, exchanges |-> AllExchanges,
            corporate_actions |-> {[inst |-> r.inst, at |-> r.at, num |-> 2, den |-> d]
                                    : r \in rows}] :
                i \in InstrumentSets, rows \in SUBSET DatedRows, d \in {0, 1}})
    @@ ("fundamentals" :> {[instruments |-> i, fundamentals_company |-> f] :
            i \in InstrumentSets, f \in SUBSET [inst : {1, 2}]})
    @@ ("market-news" :> Only("market_news", SUBSET News))
    @@ ("etl-jobs" :> Only("provider_sync_runs", SUBSET Workers))
    @@ ("engine-status" :> Only("trask_components", SUBSET Workers))
    @@ ("worker-heartbeats" :> Only("worker_heartbeats", SUBSET Workers))
    @@ ("sector-daily" :> Only("sector_daily", SUBSET SectorRows))
    @@ ("universe" :> Only("market_cap_daily", SUBSET Caps))
    @@ ("cap-events" :> Only("audit_cap_events", SUBSET CapEventRows))
    @@ ("audit-events" :> Only("audit_events", SUBSET Events))
    @@ ("named-query" :> {[instruments |-> {I1, I4}, latest_snapshots |-> s, orders |-> Workers,
            positions |-> Positions, audit_log |-> Workers, market_news |-> News,
            worker_heartbeats |-> Workers, pg_stat_user_tables |-> Stats] : s \in SnapshotSets})
    @@ ("health" :> Only("instruments", {{}}))
    @@ ("dashboard" :> {[instruments |-> i, worker_heartbeats |-> Workers,
            pg_stat_user_tables |-> Stats, service_clients |-> {[id |-> 1]}, audit_events |-> e] :
                i \in {{}, {I1, I2Gone}}, e \in SubsetsUpTo(1, Events)})
    @@ ("macro-regime" :> {[regime_columns |-> c, macro_regime_snapshots |-> r] :
            c \in RegimeColumnSets, r \in SubsetsUpTo(2, Regimes)})
    @@ ("fixed-income-regime" :> {[present |-> t, fixed_income_curve_metrics |-> m,
            fixed_income_signals |-> s, instruments |-> Bonds, prices_daily |-> Closes] :
                t \in {{}, {MetricsTable}, CurveTables}, m \in SubsetsUpTo(2, Metrics),
                s \in SubsetsUpTo(2, CurveSignals)})
    @@ ("fixed-income-history" :> {[present |-> t, fixed_income_curve_metrics |-> m] :
            t \in SUBSET CurveTables, m \in SUBSET Metrics})
    @@ ("fixed-income-signals" :> {[present |-> t, fixed_income_signals |-> s] :
            t \in SUBSET CurveTables, s \in SUBSET CurveSignals})

(***************************************************************************)
(* The requests.                                                           *)
(***************************************************************************)
Tickers == {"AB", "ab", "ABA"}
Limits == {1, 2}
Plain(ops) == [op : ops]
Limited(ops) == [op : ops, limit : Limits]

DashboardCalls == [op : {"dashboard"}, faults : SUBSET {"health", "version", "tables",
                    "workers", "tickers", "events"}]

MCCalls ==
    Plain(ReferenceOps \union {"sectors", "etl-jobs", "engine-status", "worker-heartbeats",
                               "macro-regime", "fixed-income-regime"})
    \union Limited({"market-news"})
    \union [op : (DOMAIN SeriesRelation \ Ranges) \union {"corporate-actions"},
            ticker : Tickers, limit : Limits]
    \union [op : Ranges, ticker : {"AB"}, limit : Limits, start : Maybe({2}), end : Maybe({2})]
    \union [op : {"quotes"}, tickers : {<<"AB">>, <<"ab", "z">>, <<"AB", "ABA">>}]
    \union [op : {"snapshot", "ticker", "fundamentals"}, ticker : Tickers]
    \union [op : {"search"}, text : Texts, limit : 1 .. 3]
    \union [op : {"resolve"}, text : Texts]
    \union [op : {"industries"}, sectorIds : Maybe({1, 2, 3})]
    \union [op : {"calendar", "fixed-income-history"}, start : Maybe({2}), end : Maybe({2}),
            limit : Limits]
    \union [op : {"price-history"}, ticker : {"AB"}, adjust : BOOLEAN, start : Maybe({2}),
            end : Maybe({2}), limit : Limits]
    \union [op : {"sector-daily"}, sectors : Maybe({"S1"}), limit : Limits]
    \union [op : {"universe"}, minCap : {0, 2}, limit : Limits]
    \union [op : {"cap-events"}, start : Maybe({2}), limit : Limits]
    \union [op : {"signals"}, about : Maybe({"AB"}), limit : Limits]
    \union [op : {"portfolio"}, principal : {"user", "service"}, subject : {"u"},
            owner : Maybe({"u", "v"}), limit : Limits]
    \union [op : {"context"}, about : Maybe({"AB", "z"}), limit : Limits]
    \union [op : {"chat"}, about : Maybe({"AB", "z"}), limit : {2}, safe : BOOLEAN,
            openai : BOOLEAN]
    \union [op : {"health"}, redis : BOOLEAN]
    \union [op : {"audit-events"}, categories : Maybe({"auth"}), limit : Limits]
    \union [op : {"named-query"}, name : DOMAIN CuratedQueries \union {"other"}, limit : Limits]
    \union [op : {"macro-series"}, categories : Maybe({"inflation"})]
    \union [op : {"macro-observations"}, code : {"CPI", "GDP"}, start : Maybe({2}),
            end : Maybe({1}), limit : Limits]
    \union [op : {"macro-latest"}, codes : {{}, {"CPI"}, {"CPI", "GDP"}}]
    \union [op : {"fixed-income-signals"}, limit : Limits]
    \union [op : {"data-tables"}, caller : Callers]
    \union [op : {"data-columns"}, caller : Callers,
            table : {"prices_daily", "exchanges", "orders", "none"}]
    \union RowsCalls \union DashboardCalls
===============================================================================
