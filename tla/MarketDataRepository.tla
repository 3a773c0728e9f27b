------------------------ MODULE MarketDataRepository ------------------------
(***************************************************************************)
(* The SELECTs of SQLMarketDataRepository, each as the set of results the  *)
(* database may return.  Rows of an instrument carry its id in "inst",     *)
(* rows that are sorted by a date or timestamp carry it in "at".           *)
(***************************************************************************)
EXTENDS ReadRequests

CONSTANTS
    Stripped,       \* a query without surrounding blanks
    Length,         \* of a text
    StartingWith,   \* texts LIKE 'query%', upper-cased
    Containing      \* texts LIKE '%query%', upper-cased

(* LIKE 'query%' finds the query itself, in any case: a symbol has no      *)
(* backslash, which would stand for the character after it.                *)
ASSUME SearchAssumption ==
    /\ \A c \in Calls : c.op = "search" => Stripped[c.text] \in DOMAIN StartingWith
    /\ \A d \in Databases["search"] : \A i \in d.instruments : i.symbol \in DOMAIN Upper
    /\ \A query \in DOMAIN StartingWith : \A symbol \in DOMAIN Upper :
            SameText(symbol, query) => symbol \in StartingWith[query]

(* Instruments with a ticker: symbols are unique per exchange only. *)
Named(ticker) == {i \in db.instruments : SameText(i.symbol, ticker)}
IdsOf(ticker) == {i.id : i \in Named(ticker)}
OfTicker(rows, ticker) == {row \in rows : row.inst \in IdsOf(ticker)}

Alphabetically(a, b) == Alphabet[a.symbol] < Alphabet[b.symbol]

ActiveTickers(limit) ==
    First({i \in db.instruments : i.active}, Alphabetically, limit)

(***************************************************************************)
(* Search: an exact symbol first, then an exact name, a symbol with the    *)
(* prefix, a name with it, and other names, which need two characters.     *)
(***************************************************************************)
SearchTierNone(i, query) == 5       \* Mutant: by length and symbol alone

SearchTier(i, query) ==
    LET match == <<SameText(i.symbol, query), SameText(i.name, query),
                   i.symbol \in StartingWith[query], i.name \in StartingWith[query]>>
    IN  Min({5} \union {tier \in 1 .. 4 : match[tier]})

SearchSymbols(text, limit) ==
    LET query == Stripped[text]
        found == {i \in db.instruments :
                    /\ i.active
                    /\ \/ i.symbol \in StartingWith[query]
                       \/ Length[query] >= 2 /\ i.name \in Containing[query]}
        Rank(i) == <<SearchTier(i, query), Length[i.symbol], Alphabet[i.symbol]>>
        Before(a, b) == \E n \in 1 .. 3 :
            Rank(a)[n] < Rank(b)[n] /\ \A m \in 1 .. n - 1 : Rank(a)[m] = Rank(b)[m]
    IN  First(found, Before, limit)

(* Mutant: only active instruments are counted. *)
ResolveActive(symbol) ==
    LET listed == {i \in Named(symbol) : i.active /\ \E e \in db.exchanges : e.id = i.exchange}
    IN  First(listed, LAMBDA a, b : a.id < b.id, 2)

(* At most two matches, enough to tell that a symbol is ambiguous. *)
ResolveSymbol(symbol) ==
    LET listed == {i \in Named(symbol) : \E e \in db.exchanges : e.id = i.exchange}
    IN  First(listed, LAMBDA a, b : a.id < b.id, 2)

(***************************************************************************)
(* Snapshots: eps falls back on the newest quarter that has one.  (So does *)
(* the price-earnings ratio, on the company's fundamentals.)               *)
(***************************************************************************)
QuarterlyEps(inst) ==
    LET known == {q \in db.fund_income_q : q.inst = inst /\ q.eps # Null}
    IN  IF known = {} THEN {Null}
        ELSE {q.eps : q \in UNION First(known, LAMBDA a, b : a.at > b.at, 1)}

LatestSnapshot(ticker) ==
    UNION {LET known == IF s.eps # Null THEN {s.eps} ELSE QuarterlyEps(s.inst)
           IN  {[s EXCEPT !.eps = eps] : eps \in known}
              : s \in OfTicker(db.latest_snapshots, ticker)}

(* Mutant: no LIMIT. *)
AllNews(limit) == {db.market_news}

RecentNews(limit) == Newest(db.market_news, limit)

LatestSignals(limit, tickers) ==
    LET signalled == {s \in db.latest_snapshots :
                        s.signal /\ \A ticker \in tickers : s.inst \in IdsOf(ticker)}
        SymbolOf(s) == (CHOOSE i \in db.instruments : i.id = s.inst).symbol
        Before(a, b) == \/ AboveOrNull(a.at, b.at)
                        \/ a.at = b.at /\ Alphabet[SymbolOf(a)] < Alphabet[SymbolOf(b)]
    IN  First(signalled, Before, limit)

(* The sums skip NULLs; without any market value there is no valuation. *)
PortfolioValuation ==
    LET valued == {p \in db.positions : p.value # Null}
    IN  IF valued = {} THEN {}
        ELSE {[total |-> MapThenSumSet(LAMBDA p : p.value, valued)]}

PortfolioPositions(limit) ==
    LET LastPrice(p) == Max({Null} \union
            {s.price : s \in {t \in db.latest_snapshots : t.inst = p.inst}})
        Value(p) == IF p.value # Null THEN p.value ELSE p.qty * LastPrice(p)
        SymbolOf(p) == (CHOOSE i \in db.instruments : i.id = p.inst).symbol
        Before(a, b) ==
            \/ AboveOrNull(Value(a), Value(b))
            \/ Value(a) = Value(b) /\ Alphabet[SymbolOf(a)] < Alphabet[SymbolOf(b)]
    IN  First(db.positions, Before, limit)

AdminAuditEvents(limit, categories) ==
    Newest({e \in db.audit_events : \A c \in categories : e.category = c}, limit)

WorkerHeartbeats == db.worker_heartbeats

(***************************************************************************)
(* Curated queries: what each reads, and by what it is sorted.             *)
(***************************************************************************)
CuratedQueries ==
    [all_tickers |-> "instruments", latest_prices |-> "latest_snapshots",
     latest_signals |-> "latest_snapshots", orders |-> "orders",
     portfolio |-> "positions", command_log |-> "audit_log",
     market_news |-> "market_news", heartbeats |-> "worker_heartbeats",
     table_stats |-> "pg_stat_user_tables"]

NamedQuery(name, limit) ==
    LET relation == CuratedQueries[name]
        rows == db[relation]
    IN  CASE name = "all_tickers" -> First(rows, Alphabetically, limit)
          [] name = "latest_signals" -> Newest({s \in rows : s.signal}, limit)
          [] name = "latest_prices" ->
                First(rows, LAMBDA a, b : SortKey(a.updated) > SortKey(b.updated), limit)
          [] name = "portfolio" ->
                First(rows, LAMBDA a, b : AboveOrNull(a.value, b.value), limit)
          [] name = "heartbeats" -> First(rows, LAMBDA a, b : a.id < b.id, limit)
          [] name = "table_stats" ->
                First(rows, LAMBDA a, b : a.count > b.count, limit)
          [] OTHER -> Newest(rows, limit)

(***************************************************************************)
(* Reference data.  Sector and industry ids are ranks, computed by the     *)
(* SELECT: an industry's within what WHERE left.                           *)
(***************************************************************************)
Countries == {e.country : e \in db.exchanges}
Currencies == {e.currency : e \in db.exchanges}
Exchanges == db.exchanges

NoText == ""
SectorNames == {i.sector : i \in db.instruments} \ {NoText}
SectorId(name) == Cardinality({s \in SectorNames : Alphabet[s] <= Alphabet[name]})
Sectors == {[id |-> SectorId(s), name |-> s] : s \in SectorNames}

Industries(sectorIds) ==
    LET classified == {i \in db.instruments : i.sector # NoText /\ i.industry # NoText}
        pairs == {<<SectorId(i.sector), i.industry>> : i \in classified}
        kept == {p \in pairs : \A id \in sectorIds : p[1] = id}
        AtMost(a, b) == \/ a[1] < b[1]
                        \/ a[1] = b[1] /\ Alphabet[a[2]] <= Alphabet[b[2]]
    IN  {[id |-> Cardinality({o \in kept : AtMost(o, p)}), sector |-> p[1], name |-> p[2]]
            : p \in kept}

TradingCalendar(start, end, limit) ==
    Newest({d \in db.trading_calendar : InRange(d.at, start, end)}, limit)

(* No LIMIT and no ORDER BY: .first() takes whichever row comes first. *)
TickerDetail(ticker) == Named(ticker)

(***************************************************************************)
(* Prices: a day may have several bars, of which the newest is kept.       *)
(***************************************************************************)
(* Mutant: LIMIT applies to the bars, before a day's are reduced to one. *)
LimitedHistory(ticker, start, end, limit) ==
    LET bars == {b \in OfTicker(db.prices_daily, ticker) :
                    InRange(DayOf(b.at), start, end)}
    IN  {{b \in kept : \A o \in kept : DayOf(o.at) = DayOf(b.at) => o.at <= b.at}
            : kept \in Newest(bars, limit)}

PriceHistory(ticker, start, end, limit) ==
    LET bars == {b \in OfTicker(db.prices_daily, ticker) :
                    InRange(DayOf(b.at), start, end)}
        days == {DayOf(b.at) : b \in bars}
        newest == {b \in bars : \A o \in bars : DayOf(o.at) = DayOf(b.at) => o.at <= b.at}
        deduped == {kept \in SUBSET newest :
                        \A day \in days : Cardinality({b \in kept : DayOf(b.at) = day}) = 1}
    IN  UNION {Newest(kept, limit) : kept \in deduped}

SplitRatio(action) ==
    IF action.num # Null /\ action.den # Null THEN <<action.num, action.den>> ELSE <<>>

CorporateActions(ticker, limit) ==
    {{[at |-> a.at, inst |-> a.inst, ratio |-> SplitRatio(a)] : a \in kept}
        : kept \in Newest(OfTicker(db.corporate_actions, ticker), limit)}

CompanyFundamentals(ticker) == OfTicker(db.fundamentals_company, ticker)

(***************************************************************************)
(* Quarterly statements and metrics.                                       *)
(***************************************************************************)
IncomeStatements(ticker, limit) == Newest(OfTicker(db.fund_income_q, ticker), limit)
BalanceSheets(ticker, limit) == Newest(OfTicker(db.fund_balance_q, ticker), limit)
CashFlows(ticker, limit) == Newest(OfTicker(db.fund_cashflow_q, ticker), limit)
QualityMetrics(ticker, limit) == Newest(OfTicker(db.fundamentals, ticker), limit)

(***************************************************************************)
(* Daily indicators, with an inclusive range of dates.                     *)
(***************************************************************************)
DateRange(rows, ticker, start, end) ==
    {row \in OfTicker(rows, ticker) : InRange(row.at, start, end)}

TechnicalIndicators(ticker, start, end, limit) ==
    Newest(DateRange(db.ind_technical_daily, ticker, start, end), limit)
RiskIndicators(ticker, start, end, limit) ==
    Newest(DateRange(db.ind_risk_daily, ticker, start, end), limit)
ValuationIndicators(ticker, start, end, limit) ==
    Newest(DateRange(db.ind_valuation_daily, ticker, start, end), limit)
ReturnsSnapshot(ticker, start, end, limit) ==
    Newest(DateRange(db.returns_snapshot_daily, ticker, start, end), limit)

TickerNews(ticker, limit) == Newest(OfTicker(db.ticker_news, ticker), limit)
EtlJobStates == db.provider_sync_runs
EngineStatus == db.trask_components
PriceTicks(ticker, limit) == Newest(OfTicker(db.price_ticks, ticker), limit)

(***************************************************************************)
(* Sectors and the universe.  A symbol's place in the universe goes by its *)
(* newest capitalisation alone.                                            *)
(***************************************************************************)
SectorDaily(sectors, limit) ==
    LET AscNullsLast(rank) == IF rank = Null THEN 1 + Cardinality(db.sector_daily) ELSE rank
        Before(a, b) == \/ a.at > b.at
                        \/ a.at = b.at /\ AscNullsLast(a.rank) < AscNullsLast(b.rank)
    IN  First({r \in db.sector_daily : \A s \in sectors : r.sector = s}, Before, limit)

LargestFirst(a, b) == a.cap > b.cap

(* Mutant: the minimum is applied before the newest row is picked. *)
UniverseOnceActive(minCap, limit) ==
    LET large == {r \in db.market_cap_daily : r.cap >= minCap}
    IN  First({r \in large : \A o \in large : o.symbol = r.symbol => o.at <= r.at},
              LargestFirst, limit)

UniverseActive(minCap, limit) ==
    LET latest == {r \in db.market_cap_daily :
                    \A o \in db.market_cap_daily : o.symbol = r.symbol => o.at <= r.at}
    IN  First({r \in latest : r.cap >= minCap}, LargestFirst, limit)

CapEvents(since, limit) ==
    LET Before(a, b) == \/ a.at > b.at
                        \/ a.at = b.at /\ a.id > b.id
    IN  First({e \in db.audit_cap_events : InRange(e.at, since, {})}, Before, limit)
===============================================================================
