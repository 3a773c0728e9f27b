-------------------------- MODULE MarketDataService --------------------------
(***************************************************************************)
(* The market, analytics and reference use-cases: the routes under         *)
(* tickers, financials, indicators, symbols, market-data, analytics, news, *)
(* reference, sectors and universe, and the admin reads of the same        *)
(* service.  Most are one SELECT; quotes run one for each symbol, and an   *)
(* adjusted price history runs a second for the corporate actions.         *)
(***************************************************************************)
EXTENDS MarketDataRepository, Sequences

CONSTANTS
    Prices,             \* in the tables, as floats
    Floats,             \* in a unit of which all are multiples
    Quotient(_, _),     \* x / y, rounded to a float
    Product(_, _)       \* x * y, rounded to a float

GetQuotes ==
    /\ call.op = "quotes"
    /\ answer = Pending
    /\ IF step > Len(call.tickers) THEN Reply("OK", held)
       ELSE LET quotes == LatestSnapshot(call.tickers[step])
            IN  \/ quotes = {} /\ Hold(held)
                \/ \E quote \in quotes : Hold(held \union {quote})

GetSearch == Answers("search", SearchSymbols(call.text, call.limit))

(* Only a symbol of exactly one listed instrument resolves. *)
GetResolve ==
    /\ At("resolve", 1)
    /\ LET symbol == Stripped[call.text]
       IN  \/ symbol = NoText /\ Reply("INVALID", {})
           \/ symbol # NoText /\ \E matches \in ResolveSymbol(symbol) :
                \/ matches = {} /\ Reply("NOT_FOUND", {})
                \/ Cardinality(matches) = 1 /\ Reply("OK", matches)
                \/ Cardinality(matches) > 1 /\ Reply("CONFLICT", {})

(* An absent snapshot is an answer here, not a 404. *)
GetAnalyticsSnapshot ==
    /\ At("snapshot", 1)
    /\ LET snapshots == LatestSnapshot(call.ticker)
       IN  \/ snapshots = {} /\ Reply("OK", {})
           \/ \E s \in snapshots : Reply("OK", {s})

GetCountries == Answers("countries", {Countries})
GetCurrencies == Answers("currencies", {Currencies})
GetExchanges == Answers("exchanges", {Exchanges})
GetSectors == Answers("sectors", {Sectors})
GetIndustries == Answers("industries", {Industries(call.sectorIds)})
GetTradingCalendar ==
    Answers("calendar", TradingCalendar(call.start, call.end, call.limit))

GetTickerDetail == AnswersOne("ticker", TickerDetail(call.ticker))

(* Prices are not negative, and a bar is of a day; a limit is a number.    *)
(* Only "adj" may be missing.                                              *)
ASSUME PriceAssumption ==
    /\ \A c \in Calls : c.op = "price-history" => c.limit \in Nat
    /\ \A d \in Databases["price-history"] :
        /\ IsFiniteSet(d.prices_daily)
        /\ d.prices_daily \subseteq [inst : Nat, at : Nat \ {Null}, open : Prices,
                                      high : Prices, low : Prices, close : Prices, adj : Prices]

(* What IEEE 754 gives for prices, which have at most 18 digits and so do  *)
(* not underflow: rounding keeps the order of products, and two roundings  *)
(* lead from adj / close * close back to adj or to the float next to it.   *)
Between(x, y) == {f \in Floats : x < f /\ f < y}

ASSUME RoundingAssumption ==
    /\ Prices \subseteq Floats /\ Floats \subseteq Nat
    /\ \A adj, close \in Prices \ {Null} :
        LET factor == Quotient(adj, close)
            again == Product(close, factor)
        IN  /\ \A p \in Prices : Product(p, factor) \in Floats
            /\ \A p, q \in Prices : p <= q => Product(p, factor) <= Product(q, factor)
            /\ Between(again, adj) = {} /\ Between(adj, again) = {}

(* Mutant: only the close is replaced. *)
AdjustClose(bar) == IF bar.adj = Null THEN bar ELSE [bar EXCEPT !.close = bar.adj]

(* Rescaled by adj_close / close, if both are there and not zero. *)
AdjustPriceDay(bar) ==
    LET factor == Quotient(bar.adj, bar.close)
    IN  IF bar.close = Null \/ bar.adj = Null THEN bar
        ELSE [bar EXCEPT !.open = Product(@, factor), !.high = Product(@, factor),
                         !.low = Product(@, factor), !.close = bar.adj]

GetPriceHistory ==
    LET history == PriceHistory(call.ticker, call.start, call.end, call.limit)
    IN  \/ At("price-history", 1) /\ ~ call.adjust /\ \E bars \in history : Reply("OK", bars)
        \/ At("price-history", 1) /\ call.adjust /\ \E bars \in history :
                Hold({AdjustPriceDay(b) : b \in bars})
        \/ At("price-history", 2) /\ \E actions \in CorporateActions(call.ticker, 500) :
                Reply("OK", held)

GetCorporateActions ==
    Answers("corporate-actions", CorporateActions(call.ticker, call.limit))
GetCompanyFundamentals == AnswersOne("fundamentals", CompanyFundamentals(call.ticker))

GetIncomeStatements == Answers("income", IncomeStatements(call.ticker, call.limit))
GetBalanceSheets == Answers("balance", BalanceSheets(call.ticker, call.limit))
GetCashFlows == Answers("cashflow", CashFlows(call.ticker, call.limit))
GetQualityMetrics == Answers("quality", QualityMetrics(call.ticker, call.limit))

GetTechnicalIndicators == Answers("technical",
    TechnicalIndicators(call.ticker, call.start, call.end, call.limit))
GetRiskIndicators == Answers("risk",
    RiskIndicators(call.ticker, call.start, call.end, call.limit))
GetValuationIndicators == Answers("valuation",
    ValuationIndicators(call.ticker, call.start, call.end, call.limit))
GetReturnsSnapshot == Answers("returns",
    ReturnsSnapshot(call.ticker, call.start, call.end, call.limit))

GetTickerNews == Answers("ticker-news", TickerNews(call.ticker, call.limit))
GetMarketNews == Answers("market-news", RecentNews(call.limit))
GetEtlJobStates == Answers("etl-jobs", {EtlJobStates})
GetEngineStatus == Answers("engine-status", {EngineStatus})
GetPriceTicks == Answers("price-ticks", PriceTicks(call.ticker, call.limit))
GetSectorDaily == Answers("sector-daily", SectorDaily(call.sectors, call.limit))
GetUniverseActive == Answers("universe", UniverseActive(call.minCap, call.limit))
GetCapEvents == Answers("cap-events", CapEvents(call.start, call.limit))

(* The repository swallows a failure here: no workers are reported. *)
GetWorkerHeartbeats ==
    Answers("worker-heartbeats", {WorkerHeartbeats, {}})

MarketNext ==
    \/ GetQuotes \/ GetSearch \/ GetResolve \/ GetAnalyticsSnapshot
    \/ GetCountries \/ GetCurrencies \/ GetExchanges \/ GetSectors \/ GetIndustries
    \/ GetTradingCalendar \/ GetTickerDetail
    \/ GetPriceHistory \/ GetCorporateActions \/ GetCompanyFundamentals
    \/ GetIncomeStatements \/ GetBalanceSheets \/ GetCashFlows \/ GetQualityMetrics
    \/ GetTechnicalIndicators \/ GetRiskIndicators
    \/ GetValuationIndicators \/ GetReturnsSnapshot
    \/ GetTickerNews \/ GetMarketNews
    \/ GetEtlJobStates \/ GetEngineStatus \/ GetPriceTicks
    \/ GetSectorDaily \/ GetUniverseActive \/ GetCapEvents \/ GetWorkerHeartbeats
===============================================================================
