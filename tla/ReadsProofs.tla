----------------------------- MODULE ReadsProofs -----------------------------
(***************************************************************************)
(* What the reads promise whatever the tables hold, whatever commits       *)
(* between their statements and whatever is asked: table access stays      *)
(* confined, a fixed-income regime is of one day, a price history has one  *)
(* sound bar a day, the universe goes by the newest capitalisation, a      *)
(* search keeps an exact match, a symbol that resolves names one           *)
(* instrument, the dashboard is always answered, and an answer is no more  *)
(* than was asked for.                                                     *)
(*                                                                         *)
(* A request stays the one it is, and only the actions of its operation    *)
(* advance it.  So each invariant is about the actions of one operation:   *)
(* what its first statement checked, or returned, still holds when a later *)
(* one answers.                                                            *)
(***************************************************************************)
EXTENDS Reads, FiniteSetTheorems, TLAPS

Common == StatementFails \/ OthersCommit

(***************************************************************************)
(* An action is for the requests of its operation ...                      *)
(***************************************************************************)
LEMMA MarketActions ==
    /\ GetQuotes => call.op = "quotes"
    /\ GetSearch => call.op = "search"
    /\ GetResolve => call.op = "resolve"
    /\ GetAnalyticsSnapshot => call.op = "snapshot"
    /\ GetCountries => call.op = "countries"
    /\ GetCurrencies => call.op = "currencies"
    /\ GetExchanges => call.op = "exchanges"
    /\ GetSectors => call.op = "sectors"
    /\ GetIndustries => call.op = "industries"
    /\ GetTradingCalendar => call.op = "calendar"
    /\ GetTickerDetail => call.op = "ticker"
    /\ GetPriceHistory => call.op = "price-history"
    /\ GetCorporateActions => call.op = "corporate-actions"
    /\ GetCompanyFundamentals => call.op = "fundamentals"
    /\ GetIncomeStatements => call.op = "income"
    /\ GetBalanceSheets => call.op = "balance"
    /\ GetCashFlows => call.op = "cashflow"
    /\ GetQualityMetrics => call.op = "quality"
    /\ GetTechnicalIndicators => call.op = "technical"
    /\ GetRiskIndicators => call.op = "risk"
    /\ GetValuationIndicators => call.op = "valuation"
    /\ GetReturnsSnapshot => call.op = "returns"
    /\ GetTickerNews => call.op = "ticker-news"
    /\ GetMarketNews => call.op = "market-news"
    /\ GetEtlJobStates => call.op = "etl-jobs"
    /\ GetEngineStatus => call.op = "engine-status"
    /\ GetPriceTicks => call.op = "price-ticks"
    /\ GetSectorDaily => call.op = "sector-daily"
    /\ GetUniverseActive => call.op = "universe"
    /\ GetCapEvents => call.op = "cap-events"
    /\ GetWorkerHeartbeats => call.op = "worker-heartbeats"
<1> USE DEF At, Answers
<1>1. /\ GetQuotes => call.op = "quotes"
      /\ GetSearch => call.op = "search"
      /\ GetResolve => call.op = "resolve"
      /\ GetAnalyticsSnapshot => call.op = "snapshot"
  BY DEF GetQuotes, GetSearch, GetResolve, GetAnalyticsSnapshot
<1>2. /\ GetCountries => call.op = "countries"
      /\ GetCurrencies => call.op = "currencies"
      /\ GetExchanges => call.op = "exchanges"
      /\ GetSectors => call.op = "sectors"
      /\ GetIndustries => call.op = "industries"
      /\ GetTradingCalendar => call.op = "calendar"
  BY DEF GetCountries, GetCurrencies, GetExchanges, GetSectors, GetIndustries,
         GetTradingCalendar
<1>3. /\ GetTickerDetail => call.op = "ticker"
      /\ GetPriceHistory => call.op = "price-history"
      /\ GetCorporateActions => call.op = "corporate-actions"
      /\ GetCompanyFundamentals => call.op = "fundamentals"
  BY DEF GetTickerDetail, GetPriceHistory, GetCorporateActions, GetCompanyFundamentals,
         AnswersOne
<1>4. /\ GetIncomeStatements => call.op = "income"
      /\ GetBalanceSheets => call.op = "balance"
      /\ GetCashFlows => call.op = "cashflow"
      /\ GetQualityMetrics => call.op = "quality"
  BY DEF GetIncomeStatements, GetBalanceSheets, GetCashFlows, GetQualityMetrics
<1>5. /\ GetTechnicalIndicators => call.op = "technical"
      /\ GetRiskIndicators => call.op = "risk"
      /\ GetValuationIndicators => call.op = "valuation"
      /\ GetReturnsSnapshot => call.op = "returns"
  BY DEF GetTechnicalIndicators, GetRiskIndicators, GetValuationIndicators,
         GetReturnsSnapshot
<1>6. /\ GetTickerNews => call.op = "ticker-news"
      /\ GetMarketNews => call.op = "market-news"
      /\ GetEtlJobStates => call.op = "etl-jobs"
      /\ GetEngineStatus => call.op = "engine-status"
      /\ GetPriceTicks => call.op = "price-ticks"
  BY DEF GetTickerNews, GetMarketNews, GetEtlJobStates, GetEngineStatus, GetPriceTicks
<1>7. /\ GetSectorDaily => call.op = "sector-daily"
      /\ GetUniverseActive => call.op = "universe"
      /\ GetCapEvents => call.op = "cap-events"
      /\ GetWorkerHeartbeats => call.op = "worker-heartbeats"
  BY DEF GetSectorDaily, GetUniverseActive, GetCapEvents, GetWorkerHeartbeats
<1> QED
  BY <1>1, <1>2, <1>3, <1>4, <1>5, <1>6, <1>7

LEMMA OtherActions ==
    /\ AdvisorNext => call.op \in {"signals", "portfolio", "context", "chat", "health",
                                   "audit-events", "named-query"}
    /\ DashboardNext => call.op = "dashboard"
    /\ MacroNext => call.op \in {"macro-series", "macro-observations", "macro-latest",
                                 "macro-regime"}
    /\ GetRegime => call.op = "fixed-income-regime"
    /\ GetHistory \/ GetSignals => call.op \in {"fixed-income-history", "fixed-income-signals"}
    /\ DataNext => call.op \in DataOps
<1> USE DEF At, Answers
<1>1. AdvisorNext => call.op \in {"signals", "portfolio", "context", "chat", "health",
                                  "audit-events", "named-query"}
  <2>1. GetLatestSignals \/ GetPortfolioState \/ GetHealth \/ GetAuditEvents
            \/ ExecuteNamedQuery
        => call.op \in {"signals", "portfolio", "health", "audit-events", "named-query"}
    BY DEF GetLatestSignals, GetPortfolioState, GetHealth, GetAuditEvents, ExecuteNamedQuery
  <2>2. GetContext => call.op \in {"context", "chat"}
    BY DEF GetContext
  <2> QED
    BY <2>1, <2>2 DEF AdvisorNext
<1>2. DashboardNext => call.op = "dashboard"
  BY DEF DashboardNext, FillSection, SectionFails, ShowDashboard
<1>3. MacroNext => call.op \in {"macro-series", "macro-observations", "macro-latest",
                                "macro-regime"}
  BY DEF MacroNext, ListSeries, GetSeries, GetLatest, GetMacroRegime
<1>4. /\ GetRegime => call.op = "fixed-income-regime"
      /\ GetHistory \/ GetSignals => call.op \in {"fixed-income-history", "fixed-income-signals"}
  BY DEF GetRegime, GetHistory, GetSignals
<1>5. DataNext => call.op \in DataOps
  BY DEF DataNext, ListTables, ListColumns, QueryRows, DataOps
<1> QED
  BY <1>1, <1>2, <1>3, <1>4, <1>5

(* ... so a request is advanced by those of its own, and by nothing else.  *)
LEMMA DataStep ==
    ASSUME Next, call.op \in DataOps
    PROVE  DataNext \/ Common
BY MarketActions, OtherActions DEF Next, MarketNext, FixedIncomeNext, Common, DataOps

LEMMA RegimeStep ==
    ASSUME Next, call.op = "fixed-income-regime"
    PROVE  GetRegime \/ Common
BY MarketActions, OtherActions DEF Next, MarketNext, FixedIncomeNext, Common, DataOps

LEMMA UniverseStep ==
    ASSUME Next, call.op = "universe"
    PROVE  GetUniverseActive \/ Common
BY MarketActions, OtherActions DEF Next, MarketNext, FixedIncomeNext, Common, DataOps

LEMMA SearchStep ==
    ASSUME Next, call.op = "search"
    PROVE  GetSearch \/ Common
BY MarketActions, OtherActions DEF Next, MarketNext, FixedIncomeNext, Common, DataOps

LEMMA HistoryStep ==
    ASSUME Next, call.op = "price-history"
    PROVE  GetPriceHistory \/ Common
BY MarketActions, OtherActions DEF Next, MarketNext, FixedIncomeNext, Common, DataOps

LEMMA DashboardStep ==
    ASSUME Next, call.op = "dashboard"
    PROVE  DashboardNext \/ Common
BY MarketActions, OtherActions DEF Next, MarketNext, FixedIncomeNext, Common, DataOps

SeriesNext ==
    \/ GetTechnicalIndicators \/ GetRiskIndicators \/ GetValuationIndicators
    \/ GetReturnsSnapshot \/ GetIncomeStatements \/ GetBalanceSheets \/ GetCashFlows
    \/ GetQualityMetrics \/ GetCorporateActions \/ GetPriceTicks \/ GetTickerNews

LEMMA SeriesStep ==
    ASSUME Next, call.op \in SeriesOps \ {"price-history"}
    PROVE  SeriesNext \/ Common
BY MarketActions, OtherActions
DEF Next, MarketNext, FixedIncomeNext, Common, DataOps, SeriesOps, SeriesNext

(* A request stays the one it is, and its database one that such a request *)
(* may meet: only others change it.                                        *)
LEMMA MarketKeepsInputs == MarketNext => UNCHANGED <<db, call, writes>>
<1>1. GetQuotes => UNCHANGED <<db, call, writes>>
  BY DEF GetQuotes, Reply, Hold
<1>2. GetSearch \/ GetResolve \/ GetAnalyticsSnapshot => UNCHANGED <<db, call, writes>>
  BY DEF GetSearch, GetResolve, GetAnalyticsSnapshot, Answers, Reply
<1>3. GetCountries \/ GetCurrencies \/ GetExchanges \/ GetSectors \/ GetIndustries
        => UNCHANGED <<db, call, writes>>
  BY DEF GetCountries, GetCurrencies, GetExchanges, GetSectors, GetIndustries,
         Answers, Reply
<1>4. GetTradingCalendar \/ GetTickerDetail \/ GetPriceHistory \/ GetCorporateActions
        \/ GetCompanyFundamentals => UNCHANGED <<db, call, writes>>
  BY DEF GetTradingCalendar, GetTickerDetail, GetPriceHistory, GetCorporateActions,
         GetCompanyFundamentals, Answers, AnswersOne, Reply, Hold
<1>5. GetIncomeStatements \/ GetBalanceSheets \/ GetCashFlows \/ GetQualityMetrics
        => UNCHANGED <<db, call, writes>>
  BY DEF GetIncomeStatements, GetBalanceSheets, GetCashFlows, GetQualityMetrics,
         Answers, Reply
<1>6. GetTechnicalIndicators \/ GetRiskIndicators \/ GetValuationIndicators
        \/ GetReturnsSnapshot => UNCHANGED <<db, call, writes>>
  BY DEF GetTechnicalIndicators, GetRiskIndicators, GetValuationIndicators,
         GetReturnsSnapshot, Answers, Reply
<1>7. GetTickerNews \/ GetMarketNews \/ GetEtlJobStates \/ GetEngineStatus
        \/ GetPriceTicks => UNCHANGED <<db, call, writes>>
  BY DEF GetTickerNews, GetMarketNews, GetEtlJobStates, GetEngineStatus,
         GetPriceTicks, Answers, Reply
<1>8. GetSectorDaily \/ GetUniverseActive \/ GetCapEvents \/ GetWorkerHeartbeats
        => UNCHANGED <<db, call, writes>>
  BY DEF GetSectorDaily, GetUniverseActive, GetCapEvents, GetWorkerHeartbeats,
         Answers, Reply
<1> QED
  BY <1>1, <1>2, <1>3, <1>4, <1>5, <1>6, <1>7, <1>8 DEF MarketNext

LEMMA AdvisorKeepsInputs == AdvisorNext \/ DashboardNext => UNCHANGED <<db, call, writes>>
<1>1. GetLatestSignals \/ GetPortfolioState \/ GetHealth \/ GetAuditEvents
        \/ ExecuteNamedQuery => UNCHANGED <<db, call, writes>>
  BY DEF GetLatestSignals, GetPortfolioState, GetHealth, GetAuditEvents,
         ExecuteNamedQuery, Answers, Reply, Hold
<1>2. GetContext => UNCHANGED <<db, call, writes>>
  BY DEF GetContext, Advise, Reply, Hold
<1>3. DashboardNext => UNCHANGED <<db, call, writes>>
  BY DEF DashboardNext, FillSection, SectionFails, ShowDashboard, Fill, Reply
<1> QED
  BY <1>1, <1>2, <1>3 DEF AdvisorNext

LEMMA OthersKeepInputs == MacroNext \/ FixedIncomeNext \/ DataNext => UNCHANGED <<db, call, writes>>
<1>1. MacroNext => UNCHANGED <<db, call, writes>>
  BY DEF MacroNext, ListSeries, GetSeries, GetLatest, GetMacroRegime, Answers, Reply, Hold
<1>2. GetRegime => UNCHANGED <<db, call, writes>>
  BY DEF GetRegime, Reply, Hold
<1>3. GetHistory \/ GetSignals => UNCHANGED <<db, call, writes>>
  BY DEF GetHistory, GetSignals, Reply, Hold
<1>4. DataNext => UNCHANGED <<db, call, writes>>
  BY DEF DataNext, ListTables, ListColumns, QueryRows, Reply, Hold
<1> QED
  BY <1>1, <1>2, <1>3, <1>4 DEF FixedIncomeNext

LEMMA CallStays == [Next]_vars => UNCHANGED call
<1>1. Common => UNCHANGED call
  BY DEF Common, StatementFails, OthersCommit, Reply
<1> QED
  BY <1>1, MarketKeepsInputs, AdvisorKeepsInputs, OthersKeepInputs DEF Next, Common, vars

InputsStay == call \in Calls /\ db \in Databases[call.op]

LEMMA InputsStayStep == InputsStay /\ [Next]_vars => InputsStay'
<1>1. Common /\ InputsStay => InputsStay'
  BY DEF Common, StatementFails, OthersCommit, Reply, InputsStay
<1>2. UNCHANGED <<db, call, writes>> /\ InputsStay => InputsStay'
  BY DEF InputsStay
<1> QED
  BY <1>1, <1>2, MarketKeepsInputs, AdvisorKeepsInputs, OthersKeepInputs DEF Next, Common, vars

LEMMA SpecInputs == Spec => []InputsStay
<1>1. Init => InputsStay
  BY DEF Init, InputsStay
<1> QED
  BY <1>1, InputsStayStep, PTL DEF Spec

(***************************************************************************)
(* Table access.  The first statement of a read of one table is reached    *)
(* only through the check of the caller, which depends on nothing that     *)
(* changes.                                                                *)
(***************************************************************************)
TablesConfined ==
    call.op = "data-tables" /\ answer.status = "OK" =>
        /\ ~ call.caller.delegated
        /\ IsAdmin(call.caller) \/ answer.rows \subseteq BasicTables

OneTableVisible ==
    call.op \in {"data-columns", "data-rows"} /\ (step # 1 \/ answer.status = "OK") =>
        TableVisible

LEMMA ConfinedInit == Init => TablesConfined /\ OneTableVisible
  BY DEF Init, Pending, TablesConfined, OneTableVisible

LEMMA TablesConfinedStep ==
    ASSUME TablesConfined, [Next]_vars
    PROVE  TablesConfined'
<1> SUFFICES ASSUME call.op = "data-tables", (answer.status = "OK")'
             PROVE  /\ ~ call.caller.delegated
                    /\ IsAdmin(call.caller) \/ answer'.rows \subseteq BasicTables
  BY CallStays DEF TablesConfined, IsAdmin
<1>1. CASE UNCHANGED vars
  BY <1>1 DEF vars, TablesConfined
<1>2. CASE Common
  BY <1>2 DEF Common, StatementFails, OthersCommit, Reply, TablesConfined
<1>3. CASE ListTables
  BY <1>3 DEF ListTables, Reply
<1>4. ~ ListColumns /\ ~ QueryRows
  BY DEF ListColumns, QueryRows, At
<1> QED
  BY <1>1, <1>2, <1>3, <1>4, DataStep DEF DataNext, DataOps

LEMMA OneTableVisibleStep ==
    ASSUME OneTableVisible, [Next]_vars
    PROVE  OneTableVisible'
<1> SUFFICES ASSUME call.op \in {"data-columns", "data-rows"},
                    step' # 1 \/ (answer.status = "OK")'
             PROVE  TableVisible
  BY CallStays DEF OneTableVisible, TableVisible, IsAdmin, MayReadBasic
<1>1. CASE UNCHANGED vars
  BY <1>1 DEF vars, OneTableVisible
<1>2. CASE Common
  BY <1>2 DEF Common, StatementFails, OthersCommit, Reply, OneTableVisible
<1>3. CASE ListColumns
  BY <1>3 DEF ListColumns, At, Reply, Hold, OneTableVisible
<1>4. CASE QueryRows
  <2>1. step = 1 \/ step # 1
    OBVIOUS
  <2> QED
    BY <1>4, <2>1 DEF QueryRows, At, Reply, Hold, OneTableVisible
<1>5. ~ ListTables
  BY DEF ListTables, At
<1> QED
  BY <1>1, <1>2, <1>3, <1>4, <1>5, DataStep DEF DataNext, DataOps

(* Table access is not for delegated tokens, and without admin:read it is  *)
(* for the basic tables only, whatever the tables are and whoever asks.    *)
THEOREM TableAccessIsConfined == Spec => []BasicReaderConfined
<1>1. TablesConfined /\ OneTableVisible => BasicReaderConfined
  BY DEF TablesConfined, OneTableVisible, BasicReaderConfined, DataOps, TableVisible
<1>2. TablesConfined /\ OneTableVisible /\ [Next]_vars
        => TablesConfined' /\ OneTableVisible'
  BY TablesConfinedStep, OneTableVisibleStep
<1> QED
  BY <1>1, <1>2, ConfinedInit, PTL DEF Spec

(***************************************************************************)
(* A regime.  Its signals are selected by the day of the metric it holds.  *)
(***************************************************************************)
HeldIsOneDay ==
    call.op = "fixed-income-regime" /\ step = 5 =>
        \A m \in held.metric, s \in held.signals : s.at = m.at /\ s.country = m.country

LEMMA HeldIsOneDayStep ==
    ASSUME HeldIsOneDay, [Next]_vars
    PROVE  HeldIsOneDay'
<1> SUFFICES ASSUME call.op = "fixed-income-regime", step' = 5,
                    NEW m \in held'.metric, NEW s \in held'.signals
             PROVE  s.at = m.at /\ s.country = m.country
  BY CallStays DEF HeldIsOneDay
<1>1. CASE UNCHANGED vars
  BY <1>1 DEF vars, HeldIsOneDay
<1>2. CASE Common
  BY <1>2 DEF Common, StatementFails, OthersCommit, Reply, HeldIsOneDay
<1>3. CASE GetRegime
  <2>1. CASE At("fixed-income-regime", 3)
    BY <1>3, <2>1 DEF GetRegime, At
  <2>2. CASE At("fixed-income-regime", 4)
    <3>1. PICK n \in held.metric : \E signals \in Signals(n.country, {n.at}, 50) :
            held' = [metric |-> {n}, signals |-> signals]
      <4>1. \A k \in {1, 2, 3, 5} : ~At("fixed-income-regime", k)
        BY <2>2 DEF At
      <4>2. \E n \in held.metric : \E signals \in Signals(n.country, {n.at}, 50) :
              Hold([metric |-> {n}, signals |-> signals])
        BY <1>3, <4>1 DEF GetRegime
      <4> QED  BY <4>2 DEF Hold
    <3>2. PICK signals \in Signals(n.country, {n.at}, 50) :
            held' = [metric |-> {n}, signals |-> signals]
      BY <3>1
    <3>3. m = n /\ s \in signals
      BY <3>2
    <3>4. s.at = n.at /\ s.country = n.country
      BY <3>3 DEF Signals, First, kSubset
    <3> QED
      BY <3>3, <3>4
  <2>3. CASE At("fixed-income-regime", 5)
    BY <1>3, <2>3 DEF GetRegime, At, Reply, HeldIsOneDay
  <2>4. At("fixed-income-regime", 3) \/ At("fixed-income-regime", 4)
            \/ At("fixed-income-regime", 5)
    BY <1>3 DEF GetRegime, At, Reply, Hold
  <2> QED
    BY <2>1, <2>2, <2>3, <2>4
<1> QED
  BY <1>1, <1>2, <1>3, RegimeStep

LEMMA RegimeIsOneDayStep ==
    ASSUME HeldIsOneDay, RegimeIsOneDay, [Next]_vars
    PROVE  RegimeIsOneDay'
<1> SUFFICES ASSUME call.op = "fixed-income-regime", (answer.status = "OK")',
                    NEW regime \in answer'.rows, NEW m \in regime.metric,
                    NEW s \in regime.signals
             PROVE  s.at = m.at /\ s.country = m.country
  BY CallStays DEF RegimeIsOneDay, Answered
<1>1. CASE UNCHANGED vars
  BY <1>1 DEF vars, RegimeIsOneDay, Answered
<1>2. CASE Common
  BY <1>2 DEF Common, StatementFails, OthersCommit, Reply, RegimeIsOneDay, Answered
<1>3. CASE GetRegime
  <2>1. CASE At("fixed-income-regime", 5)
    BY <1>3, <2>1 DEF GetRegime, At, Reply, HeldIsOneDay
  <2>2. CASE ~ At("fixed-income-regime", 5)
    <3>1. answer' = answer \/ answer' = [status |-> "NOT_FOUND", rows |-> {}]
      BY <1>3, <2>2 DEF GetRegime, Reply, Hold
    <3>2. answer = Pending
      BY <1>3 DEF GetRegime, At
    <3> QED
      BY <3>1, <3>2 DEF Pending
  <2> QED
    BY <2>1, <2>2
<1> QED
  BY <1>1, <1>2, <1>3, RegimeStep

(* The signals of a regime are of the day and country of its metric,       *)
(* whatever commits between the statements that select them.               *)
THEOREM RegimesAreOfOneDay == Spec => []RegimeIsOneDay
<1>1. Init => HeldIsOneDay /\ RegimeIsOneDay
  BY DEF Init, Pending, HeldIsOneDay, RegimeIsOneDay, Answered
<1>2. HeldIsOneDay /\ RegimeIsOneDay /\ [Next]_vars => HeldIsOneDay' /\ RegimeIsOneDay'
  BY HeldIsOneDayStep, RegimeIsOneDayStep
<1> QED
  BY <1>1, <1>2, PTL DEF Spec

(***************************************************************************)
(* High-volume tables.  The bounds are checked before the first statement; *)
(* that the rows keep them is a matter of how the last one is built.       *)
(***************************************************************************)
LEMMA LesserIsOne == \A a, b \in Int : Min({a, b}) \in {a, b} /\ Min({a, b}) <= a
<1> SUFFICES ASSUME NEW a \in Int, NEW b \in Int
             PROVE  Min({a, b}) \in {a, b} /\ Min({a, b}) <= a
  OBVIOUS
<1>1. \E x \in {a, b} : \A y \in {a, b} : x <= y
  <2>1. a <= b \/ b <= a
    OBVIOUS
  <2> QED
    BY <2>1
<1> QED
  BY <1>1 DEF Min

(* The rows a symbol stands for are of one of its instruments. *)
LEMMA RowsOfTheSymbol ==
    ASSUME NEW columns, NEW chosen \in SymbolChoices(columns), call.symbol # {}
    PROVE  /\ chosen \subseteq db.data[call.table]
           /\ \A row \in chosen : \E symbol \in call.symbol : row.inst \in InstrumentsNamed(symbol)
  BY DEF SymbolChoices

(* A page is cut from what is left of the rows once some are skipped. *)
LEMMA PageOfRows ==
    ASSUME NEW all, NEW columns, NEW rows \in Page(all, columns)
    PROVE  \E left \in SUBSET all :
                rows \subseteq left /\ Cardinality(rows) = Min({call.limit, Cardinality(left)})
  BY DEF Page, First, kSubset

LEMMA RowsBounded ==
    ASSUME InputsStay, HighVolumeBounded,
           call.op = "data-rows", call.table \in HighVolumeTables,
           call.table \in DOMAIN db.schema,
           NEW columns, NEW rows \in RowChoices(columns), Valid(columns),
           Ranged => DateColumn(columns) \subseteq db.dates[call.table]
    PROVE  /\ Cardinality(rows) <= HighVolumeLimit
           /\ \A row \in rows :
                /\ \E symbol \in call.symbol : row.inst \in InstrumentsNamed(symbol)
                /\ \E column \in DateColumn(columns) :
                    /\ \E day \in call.start : row.dates[column] >= AtMidnight(day)
                    /\ \E day \in call.end : DayOf(row.dates[column]) <= day
<1>1. PICK chosen \in SymbolChoices(columns) : rows \in Page(Asked(chosen, columns), columns)
  BY DEF RowChoices
<1>2. PICK left \in SUBSET Asked(chosen, columns) :
            rows \subseteq left /\ Cardinality(rows) = Min({call.limit, Cardinality(left)})
  BY <1>1, PageOfRows
<1>3. call.symbol # {} /\ call.start # {} /\ call.end # {} /\ call.limit <= HighVolumeLimit
  BY DEF HighVolumeBounded
<1>4. /\ chosen \subseteq db.data[call.table]
      /\ \A row \in chosen : \E symbol \in call.symbol : row.inst \in InstrumentsNamed(symbol)
  BY <1>3, RowsOfTheSymbol
<1>5. left \subseteq chosen
  BY <1>2 DEF Asked
<1>6. /\ IsFiniteSet(db.data[call.table])
      /\ \A row \in db.data[call.table], column \in db.dates[call.table] :
            row.dates[column] \in Int
      /\ call.limit \in Nat /\ call.start \subseteq Int /\ call.end \subseteq Int
      /\ HighVolumeLimit \in Nat
  BY DataAssumption DEF InputsStay
<1>7. Cardinality(rows) <= HighVolumeLimit
  <2>1. Cardinality(left) \in Nat
    BY <1>4, <1>5, <1>6, FS_Subset, FS_CardinalityType
  <2>2. IsFiniteSet(rows)
    BY <1>2, <1>4, <1>5, <1>6, FS_Subset
  <2>3. Cardinality(rows) <= call.limit
    BY <1>2, <1>6, <2>1, LesserIsOne
  <2> QED
    BY <1>3, <1>6, <2>2, <2>3, FS_CardinalityType
<1>8. PICK column \in DateColumn(columns) : column \in db.dates[call.table]
  BY <1>3 DEF Valid, Ranged
<1>9. ASSUME NEW row \in rows
      PROVE  /\ \E symbol \in call.symbol : row.inst \in InstrumentsNamed(symbol)
             /\ \E day \in call.start : row.dates[column] >= AtMidnight(day)
             /\ \E day \in call.end : DayOf(row.dates[column]) <= day
  <2> DEFINE date == row.dates[column]
  <2>1. row \in Asked(chosen, columns) /\ row \in chosen /\ date \in Int
    BY <1>2, <1>4, <1>5, <1>6, <1>8
  <2>2. InRange(date, Midnights(call.start), Midnights(call.end))
    BY <1>3, <1>8, <2>1 DEF Asked, Ranged, InDates
  <2> HIDE DEF date
  <2>3. PICK first \in call.start, last \in call.end : TRUE
    BY <1>3
  <2>4. date >= AtMidnight(first) /\ date <= AtMidnight(last)
    BY <2>2, <2>3 DEF InRange, Midnights
  <2>5. first \in Int /\ last \in Int
    BY <1>6, <2>3
  <2>6. DayOf(date) <= last
    BY <2>1, <2>4, <2>5 DEF DayOf, AtMidnight
  <2> QED
    BY <1>4, <2>1, <2>3, <2>4, <2>6 DEF date
<1> QED
  BY <1>7, <1>8, <1>9

BoundsChecked ==
    call.op = "data-rows" =>
        /\ step # 1 \/ answer.status = "OK" => HighVolumeBounded
        /\ step = 3 /\ held # {} => Valid(held)

(* What makes columns valid is the request alone. *)
LEMMA ColumnsStay ==
    ASSUME call' = call
    PROVE  /\ Valid(held)' <=> Valid(held')
           /\ DateColumn(held)' = DateColumn(held')
<1>1. DateColumn(held)' = DateColumn(held')
  BY DEF DateColumn, DefaultDateColumn
<1>2. OrderColumn(held)' = OrderColumn(held')
  BY DEF OrderColumn, DefaultOrderColumns, DefaultDateColumn
<1>3. SymbolColumn(held)' = SymbolColumn(held') /\ Ranged' = Ranged
  BY DEF SymbolColumn, Ranged
<1> QED
  BY <1>1, <1>2, <1>3 DEF Valid

LEMMA BoundsCheckedStep ==
    ASSUME BoundsChecked, [Next]_vars
    PROVE  BoundsChecked'
<1> SUFFICES ASSUME call.op = "data-rows", call' = call
             PROVE  /\ step' # 1 \/ (answer.status = "OK")' => HighVolumeBounded
                    /\ (step = 3 /\ held # {})' => Valid(held)'
  BY CallStays DEF BoundsChecked, HighVolumeBounded
<1>1. CASE UNCHANGED vars
  BY <1>1, ColumnsStay DEF vars, BoundsChecked
<1>2. CASE Common
  BY <1>2, ColumnsStay DEF Common, StatementFails, OthersCommit, Reply, BoundsChecked
<1>3. CASE QueryRows
  <2>1. step' # 1 \/ (answer.status = "OK")' => HighVolumeBounded
    <3>1. step = 1 \/ step # 1
      OBVIOUS
    <3> QED
      BY <1>3, <3>1 DEF QueryRows, At, Reply, Hold, BoundsChecked
  <2>2. ASSUME (step = 3 /\ held # {})' PROVE Valid(held')
    BY <1>3, <2>2 DEF QueryRows, At, Reply, Hold, BoundsChecked
  <2> QED
    BY <2>1, <2>2, ColumnsStay
<1>4. ~ ListTables /\ ~ ListColumns
  BY DEF ListTables, ListColumns, At
<1> QED
  BY <1>1, <1>2, <1>3, <1>4, DataStep DEF DataNext, DataOps

LEMMA HighVolumeStep ==
    ASSUME InputsStay, BoundsChecked, HighVolumeReadsAreBounded, [Next]_vars
    PROVE  HighVolumeReadsAreBounded'
<1> SUFFICES ASSUME call.op = "data-rows", (answer.status = "OK")',
                    call.table \in HighVolumeTables, call' = call
             PROVE  HighVolumeReadsAreBounded'
  BY CallStays DEF HighVolumeReadsAreBounded, Answered
<1>1. CASE UNCHANGED vars
  BY <1>1, ColumnsStay DEF vars, HighVolumeReadsAreBounded, Answered, InstrumentsNamed, SameText
<1>2. ~ StatementFails
  BY DEF StatementFails, Reply
<1>3. ~ OthersCommit
  BY DEF OthersCommit, Pending
<1>4. ~ ListTables /\ ~ ListColumns
  BY DEF ListTables, ListColumns, At
<1>5. CASE QueryRows
  <2>1. /\ step = 3 /\ held # {} /\ UNCHANGED <<db, call, held>>
        /\ call.table \in DOMAIN db.schema
        /\ Ranged => DateColumn(held) \subseteq db.dates[call.table]
        /\ \E rows \in RowChoices(held) : answer' = [status |-> "OK", rows |-> rows]
    BY <1>5 DEF QueryRows, At, Reply, Hold, Pending
  <2>2. PICK rows \in RowChoices(held) : answer' = [status |-> "OK", rows |-> rows]
    BY <2>1
  <2>3. HighVolumeBounded /\ Valid(held)
    BY <2>1 DEF BoundsChecked
  <2>4. /\ Cardinality(rows) <= HighVolumeLimit
        /\ \A row \in rows :
            /\ \E symbol \in call.symbol : row.inst \in InstrumentsNamed(symbol)
            /\ \E column \in DateColumn(held) :
                /\ \E day \in call.start : row.dates[column] >= AtMidnight(day)
                /\ \E day \in call.end : DayOf(row.dates[column]) <= day
    BY <2>1, <2>2, <2>3, RowsBounded
  <2>5. answer'.rows = rows
    BY <2>2
  <2> QED
    BY <2>1, <2>4, <2>5, ColumnsStay DEF HighVolumeReadsAreBounded, Answered, InstrumentsNamed, SameText
<1> QED
  BY <1>1, <1>2, <1>3, <1>4, <1>5, DataStep DEF DataNext, DataOps, Common

(* However a high-volume table is read, the rows are within the limit, of  *)
(* the symbol and of the days asked for.                                   *)
THEOREM HighVolumeStaysBounded == Spec => []HighVolumeReadsAreBounded
<1>1. Init => BoundsChecked /\ HighVolumeReadsAreBounded
  BY DEF Init, Pending, BoundsChecked, HighVolumeReadsAreBounded, Answered
<1>2. InputsStay /\ BoundsChecked /\ HighVolumeReadsAreBounded /\ [Next]_vars
        => BoundsChecked' /\ HighVolumeReadsAreBounded'
  BY BoundsCheckedStep, HighVolumeStep
<1> QED
  BY <1>1, <1>2, SpecInputs, PTL DEF Spec

(***************************************************************************)
(* A failure is no answer, and what others commit comes before it: what an *)
(* answer is about is the database it was selected from.                   *)
(***************************************************************************)
LEMMA CommonIsNoAnswer ==
    ASSUME Common
    PROVE  answer'.status # "OK"
BY DEF Common, StatementFails, OthersCommit, Reply, Pending

LEMMA AnsweredBy ==
    ASSUME NEW op, NEW results, Answers(op, results)
    PROVE  /\ answer' \in {[status |-> "OK", rows |-> rows] : rows \in results}
           /\ answer.status # "OK" /\ UNCHANGED <<db, call, step, held, writes>>
BY DEF Answers, At, Reply, Pending

(* The minimum drops rows and the limit drops rows; neither brings an      *)
(* older one back.                                                         *)
LEMMA UniverseRows ==
    ASSUME NEW minCap, NEW limit, NEW rows \in UniverseActive(minCap, limit),
           NEW row \in rows, NEW other \in db.market_cap_daily, other.symbol = row.symbol
    PROVE  other.at <= row.at
BY DEF UniverseActive, First, kSubset

(* No instrument is in the universe by a capitalisation that a newer one   *)
(* of the same symbol has replaced, whatever is recorded of it.            *)
THEOREM UniverseStaysCurrent == Spec => []UniverseIsCurrent
<1>1. Init => UniverseIsCurrent
  BY DEF Init, Pending, UniverseIsCurrent, Answered
<1>2. UniverseIsCurrent /\ [Next]_vars => UniverseIsCurrent'
  <2> SUFFICES ASSUME UniverseIsCurrent, [Next]_vars, call.op = "universe",
                      answer'.status = "OK",
                      NEW row \in answer'.rows, NEW other \in db'.market_cap_daily,
                      other.symbol = row.symbol
               PROVE  other.at <= row.at
    BY CallStays DEF UniverseIsCurrent, Answered
  <2>1. CASE UNCHANGED vars
    BY <2>1 DEF vars, UniverseIsCurrent, Answered
  <2>2. CASE GetUniverseActive
    <3>1. /\ answer'.rows \in UniverseActive(call.minCap, call.limit)
          /\ UNCHANGED db
      BY <2>2, AnsweredBy DEF GetUniverseActive
    <3> QED
      BY <3>1, UniverseRows
  <2> QED
    BY <2>1, <2>2, UniverseStep, CommonIsNoAnswer
<1> QED
  BY <1>1, <1>2, PTL DEF Spec

(***************************************************************************)
(* Search.  The tier of a row is the first test it passes, the exact       *)
(* symbol being the first of all.                                          *)
(***************************************************************************)
LEMMA LeastOfFive ==
    ASSUME NEW S \in SUBSET (1 .. 5), 5 \in S
    PROVE  Min(S) \in S /\ \A n \in S : Min(S) <= n
<1>1. \E least \in S : \A n \in S : least <= n
  <2>1. CASE 1 \in S
    BY <2>1
  <2>2. CASE 1 \notin S /\ 2 \in S
    <3>1. \A n \in S : 2 <= n
      BY <2>2
    <3> QED BY <2>2, <3>1
  <2>3. CASE 1 \notin S /\ 2 \notin S /\ 3 \in S
    <3>1. \A n \in S : 3 <= n
      BY <2>3
    <3> QED BY <2>3, <3>1
  <2>4. CASE 1 \notin S /\ 2 \notin S /\ 3 \notin S /\ 4 \in S
    <3>1. \A n \in S : 4 <= n
      BY <2>4
    <3> QED BY <2>4, <3>1
  <2>5. CASE 1 \notin S /\ 2 \notin S /\ 3 \notin S /\ 4 \notin S
    <3>1. \A n \in S : 5 <= n
      BY <2>5
    <3> QED BY <3>1
  <2> QED BY <2>1, <2>2, <2>3, <2>4, <2>5
<1> QED
  BY <1>1 DEF Min

LEMMA ExactIsFirstTier ==
    ASSUME NEW i, NEW query
    PROVE  /\ SearchTier(i, query) \in 1 .. 5
           /\ SearchTier(i, query) = 1 <=> SameText(i.symbol, query)
<1> DEFINE match == <<SameText(i.symbol, query), SameText(i.name, query),
                      i.symbol \in StartingWith[query], i.name \in StartingWith[query]>>
           passed == {5} \union {tier \in 1 .. 4 : match[tier]}
<1>1. SearchTier(i, query) = Min(passed)
  BY DEF SearchTier
<1>2. passed \in SUBSET (1 .. 5) /\ 5 \in passed
  OBVIOUS
<1>3. Min(passed) \in passed /\ \A n \in passed : Min(passed) <= n
  BY <1>2, LeastOfFive
<1>4. 1 \in passed <=> match[1]
  OBVIOUS
<1>5. Min(passed) = 1 <=> 1 \in passed
  <2> DEFINE least == Min(passed)
  <2>1. least \in passed /\ least \in 1 .. 5 /\ (1 \in passed => least <= 1)
    BY <1>2, <1>3
  <2> HIDE DEF passed, least
  <2>2. least = 1 <=> 1 \in passed
    BY <2>1
  <2> QED BY <2>2 DEF least
<1>6. match[1] <=> SameText(i.symbol, query)
  OBVIOUS
<1> HIDE DEF passed, match
<1> QED BY <1>1, <1>2, <1>3, <1>4, <1>5, <1>6

LEMMA SearchRows ==
    ASSUME InputsStay, call.op = "search",
           NEW rows \in SearchSymbols(call.text, call.limit)
    PROVE  LET exact == {i \in db.instruments :
                            i.active /\ SameText(i.symbol, Stripped[call.text])}
           IN  exact \subseteq rows \/ rows \subseteq exact
<1> DEFINE query == Stripped[call.text]
           exact == {i \in db.instruments : i.active /\ SameText(i.symbol, query)}
           found == {i \in db.instruments :
                        /\ i.active
                        /\ \/ i.symbol \in StartingWith[query]
                           \/ Length[query] >= 2 /\ i.name \in Containing[query]}
           Rank(i) == <<SearchTier(i, query), Length[i.symbol], Alphabet[i.symbol]>>
           Before(a, b) == \E n \in 1 .. 3 :
               Rank(a)[n] < Rank(b)[n] /\ \A m \in 1 .. n - 1 : Rank(a)[m] = Rank(b)[m]
<1>1. rows \subseteq found /\ \A row \in rows, other \in found \ rows : ~ Before(other, row)
  BY DEF SearchSymbols, First, kSubset
<1>2. exact \subseteq found
  BY SearchAssumption DEF InputsStay
<1>3. ASSUME NEW e \in exact, e \notin rows, NEW row \in rows, row \notin exact
      PROVE  FALSE
  <2>1. SameText(e.symbol, query) /\ ~ SameText(row.symbol, query)
    BY <1>1, <1>3
  <2>2. SearchTier(e, query) = 1 /\ SearchTier(row, query) \in 2 .. 5
    BY <2>1, ExactIsFirstTier
  <2>3. Rank(e)[1] < Rank(row)[1]
    BY <2>2
  <2>4. Before(e, row)
    <3>1. \A m \in 1 .. 1 - 1 : Rank(e)[m] = Rank(row)[m]
      OBVIOUS
    <3> HIDE DEF Rank
    <3> QED BY <2>3, <3>1
  <2> QED
    BY <1>1, <1>2, <1>3, <2>4
<1> QED
  BY <1>3

(* However many instruments match a query and however few are asked for,   *)
(* no other one takes the place of one whose symbol is the query.          *)
THEOREM ExactMatchIsKept == Spec => []SearchKeepsExactMatch
<1>1. Init => SearchKeepsExactMatch
  BY DEF Init, Pending, SearchKeepsExactMatch, Answered
<1>2. InputsStay /\ SearchKeepsExactMatch /\ [Next]_vars => SearchKeepsExactMatch'
  <2> SUFFICES ASSUME InputsStay, SearchKeepsExactMatch, [Next]_vars, call.op = "search",
                      answer'.status = "OK"
               PROVE  LET exact == {i \in db'.instruments :
                                i.active /\ SameText(i.symbol, Stripped[call.text])}
                      IN  exact \subseteq answer'.rows \/ answer'.rows \subseteq exact
    BY CallStays DEF SearchKeepsExactMatch, Answered, SameText
  <2>1. CASE UNCHANGED vars
    BY <2>1 DEF vars, SearchKeepsExactMatch, Answered
  <2>2. CASE GetSearch
    <3>1. answer'.rows \in SearchSymbols(call.text, call.limit) /\ UNCHANGED db
      BY <2>2, AnsweredBy DEF GetSearch
    <3> QED
      BY <3>1, SearchRows
  <2> QED
    BY <2>1, <2>2, SearchStep, CommonIsNoAnswer
<1> QED
  BY <1>1, <1>2, SpecInputs, PTL DEF Spec

(***************************************************************************)
(* The dashboard.  Its sections are filled in their order, each with its   *)
(* rows or with a placeholder; the version alone may be skipped, being the *)
(* one after the check of the connection.                                  *)
(***************************************************************************)
FilledSoFar ==
    call.op = "dashboard" =>
        /\ step \in 1 .. 8
        /\ \A n \in 1 .. 7 : n < step /\ n # 2 =>
                \E part \in held : part.section = Sections[n]

LEMMA SectionsNumbered ==
    /\ DOMAIN Sections = 1 .. 7
    /\ Sections[1] = "health" /\ Sections[2] = "version"
    /\ \A n \in 1 .. 7 : Sections[n] = "health" <=> n = 1
BY DEF Sections

LEMMA FillAdvances ==
    ASSUME FilledSoFar, call.op = "dashboard", step \in 1 .. 7,
           NEW part, part.section = Section, NEW skipped,
           skipped = 0 \/ (skipped = 1 /\ step = 1), Fill(part, skipped)
    PROVE  FilledSoFar'
<1>1. /\ held' = held \union {part} /\ step' = step + 1 + skipped /\ call' = call
  BY DEF Fill
<1>2. step' \in 1 .. 8
  BY <1>1
<1>3. ASSUME NEW n \in 1 .. 7, n < step', n # 2
      PROVE  \E filled \in held' : filled.section = Sections[n]
  <2>1. CASE n = step
    BY <1>1, <2>1 DEF Section
  <2>2. CASE n < step
    BY <1>1, <1>3, <2>2 DEF FilledSoFar
  <2> QED
    BY <1>1, <1>3, <2>1, <2>2
<1> QED
  BY <1>1, <1>2, <1>3 DEF FilledSoFar

LEMMA DashboardProceeds ==
    ASSUME FilledSoFar, call.op = "dashboard", DashboardNext
    PROVE  /\ FilledSoFar'
           /\ \/ answer' = answer
              \/ step \notin 1 .. 7 /\ answer' = [status |-> "OK", rows |-> held]
<1>1. CASE FillSection
  <2>1. PICK rows \in SectionRows(Section) : Fill(Shown(rows), 0)
    BY <1>1 DEF FillSection
  <2>2. step \in 1 .. 7
    BY <1>1, SectionsNumbered DEF FillSection
  <2>3. Shown(rows).section = Section
    BY DEF Shown
  <2>4. PICK part, skipped : /\ part = Shown(rows) /\ skipped = 0
                             /\ Fill(part, skipped)
    BY <2>1
  <2>5. FilledSoFar'
    BY <2>2, <2>3, <2>4, FillAdvances
  <2> QED
    BY <2>1, <2>5 DEF Fill
<1>2. CASE SectionFails
  <2>1. step \in 1 .. 7
    BY <1>2, SectionsNumbered DEF SectionFails
  <2>2. Raises \ Caught = {}
    BY DEF Raises, Caught
  <2>3. PICK skipped : /\ skipped = IF Section = "health" THEN 1 ELSE 0
                       /\ Fill(Placeholder, skipped)
    BY <1>2, <2>2 DEF SectionFails
  <2>4. skipped = 0 \/ (skipped = 1 /\ step = 1)
    <3>1. CASE step = 1
      BY <2>3, <3>1
    <3>2. CASE step # 1
      BY <2>1, <2>3, <3>2, SectionsNumbered DEF Section
    <3> QED
      BY <3>1, <3>2
  <2>5. Placeholder.section = Section
    BY DEF Placeholder
  <2>6. FilledSoFar'
    BY <2>1, <2>3, <2>4, <2>5, FillAdvances
  <2> QED
    BY <2>3, <2>6 DEF Fill
<1>3. CASE ShowDashboard
  BY <1>3, SectionsNumbered DEF ShowDashboard, Reply, FilledSoFar
<1> QED
  BY <1>1, <1>2, <1>3 DEF DashboardNext

(* Whatever statements fail, by themselves or by the transaction another   *)
(* one has aborted, the dashboard is answered, and no section but the      *)
(* version is missing from it.                                             *)
THEOREM DashboardIsAlwaysShown == Spec => []DashboardAlwaysAnswers
<1>1. Init => FilledSoFar /\ DashboardAlwaysAnswers
  BY DEF Init, Pending, FilledSoFar, DashboardAlwaysAnswers
<1>2. FilledSoFar /\ DashboardAlwaysAnswers /\ [Next]_vars
        => FilledSoFar' /\ DashboardAlwaysAnswers'
  <2> SUFFICES ASSUME FilledSoFar, DashboardAlwaysAnswers, [Next]_vars, call.op = "dashboard"
               PROVE  FilledSoFar' /\ DashboardAlwaysAnswers'
    BY CallStays DEF FilledSoFar, DashboardAlwaysAnswers
  <2>1. CASE UNCHANGED vars
    BY <2>1 DEF vars, FilledSoFar, DashboardAlwaysAnswers
  <2>2. CASE Common
    <3>1. ~ StatementFails
      BY DEF StatementFails, Tolerant
    <3>2. UNCHANGED <<call, step, held, answer>>
      BY <2>2, <3>1 DEF Common, OthersCommit
    <3> QED
      BY <3>2 DEF FilledSoFar, DashboardAlwaysAnswers
  <2>3. CASE DashboardNext
    <3>1. FilledSoFar'
      BY <2>3, DashboardProceeds
    <3>2. CASE answer' = answer
      BY <3>1, <3>2, CallStays DEF DashboardAlwaysAnswers
    <3>3. CASE step \notin 1 .. 7 /\ answer' = [status |-> "OK", rows |-> held]
      <4>1. \A n \in 1 .. 7 : n # 2 => \E part \in held : part.section = Sections[n]
        BY <3>3 DEF FilledSoFar
      <4>2. {Sections[n] : n \in DOMAIN Sections} \ {"version"}
                \subseteq {part.section : part \in held}
        BY <4>1, SectionsNumbered
      <4>3. answer'.status = "OK" /\ answer'.rows = held
        BY <3>3
      <4> QED
        BY <3>1, <4>2, <4>3 DEF DashboardAlwaysAnswers
    <3> QED
      BY <2>3, <3>1, <3>2, <3>3, DashboardProceeds
  <2> QED
    BY <2>1, <2>2, <2>3, DashboardStep
<1> QED
  BY <1>1, <1>2, PTL DEF Spec

(***************************************************************************)
(* Prices.  A bar that is adjusted keeps its instrument and its day.       *)
(***************************************************************************)
PriceBars == [inst : Nat, at : Nat \ {Null}, open : Prices, high : Prices, low : Prices,
              close : Prices, adj : Prices]

RecordedBars == {b \in OfTicker(db.prices_daily, call.ticker) :
                    InRange(DayOf(b.at), call.start, call.end)}

DayBars == {b \in RecordedBars :
                \A o \in RecordedBars : DayOf(o.at) = DayOf(b.at) => o.at <= b.at}

LEMMA HistoryRows ==
    ASSUME NEW rows \in PriceHistory(call.ticker, call.start, call.end, call.limit)
    PROVE  \E kept \in SUBSET DayBars :
             /\ \A day \in {DayOf(b.at) : b \in RecordedBars} :
                    Cardinality({b \in kept : DayOf(b.at) = day}) = 1
             /\ rows \subseteq kept
             /\ Cardinality(rows) = Min({call.limit, Cardinality(kept)})
             /\ \A row \in rows, other \in kept \ rows : ~ NewestFirst(other, row)
<1> USE DEF RecordedBars, DayBars
<1>1. PICK kept \in SUBSET DayBars :
            /\ \A day \in {DayOf(b.at) : b \in RecordedBars} :
                    Cardinality({b \in kept : DayOf(b.at) = day}) = 1
            /\ rows \in Newest(kept, call.limit)
  BY DEF PriceHistory
<1> HIDE DEF RecordedBars, DayBars
<1>2. /\ rows \subseteq kept
      /\ Cardinality(rows) = Min({call.limit, Cardinality(kept)})
      /\ \A row \in rows, other \in kept \ rows : ~ NewestFirst(other, row)
  BY <1>1 DEF Newest, First, kSubset
<1> QED
  BY <1>1, <1>2

LEMMA RecordedBarsTyped ==
    ASSUME InputsStay, call.op = "price-history"
    PROVE  RecordedBars \subseteq PriceBars /\ IsFiniteSet(RecordedBars)
<1>1. db.prices_daily \subseteq PriceBars /\ IsFiniteSet(db.prices_daily)
  BY PriceAssumption DEF InputsStay, PriceBars
<1>2. RecordedBars \in SUBSET db.prices_daily
  BY DEF RecordedBars, OfTicker
<1> QED
  BY <1>1, <1>2, FS_Subset

(* A recorded bar, and what is left of it when its prices are rounded. *)
Sound(bar) ==
    /\ bar.low <= bar.open /\ bar.open <= bar.high
    /\ bar.low <= bar.close /\ bar.close <= bar.high

SoundUpToRounding(bar) ==
    /\ bar.low <= bar.open /\ bar.open <= bar.high
    /\ Between(bar.high, bar.close) = {} /\ Between(bar.close, bar.low) = {}

LEMMA FloatsAreNumbers == Floats \subseteq Nat /\ Prices \subseteq Nat
  BY RoundingAssumption

(* The fewer floats are between two numbers the closer these are. *)
LEMMA BetweenShrinks ==
    ASSUME NEW x \in Nat, NEW y \in Nat, NEW z \in Nat
    PROVE  /\ x <= y => Between(y, z) \subseteq Between(x, z)
           /\ y <= z => Between(x, y) \subseteq Between(x, z)
           /\ y <= x => Between(x, y) = {}
<1> SUFFICES ASSUME NEW f \in Nat
             PROVE  /\ x <= y /\ y < f => x < f
                    /\ y <= z /\ f < y => f < z
                    /\ y <= x => ~ (x < f /\ f < y)
  BY FloatsAreNumbers, Zenon DEF Between
<1> QED
  OBVIOUS

LEMMA SoundBar ==
    ASSUME NEW bar \in PriceBars, Sound(bar)
    PROVE  SoundUpToRounding(bar)
<1>1. bar.low \in Nat /\ bar.high \in Nat /\ bar.close \in Nat
  BY FloatsAreNumbers DEF PriceBars
<1> QED
  BY <1>1, BetweenShrinks DEF Sound, SoundUpToRounding

(* The factor keeps the order of the four prices; it takes the close to    *)
(* the adjusted close or to the float next to it.                          *)
LEMMA AdjustedPrices ==
    ASSUME NEW open \in Prices, NEW high \in Prices, NEW low \in Prices,
           NEW close \in Prices \ {Null}, NEW adj \in Prices \ {Null},
           NEW factor, factor = Quotient(adj, close),
           low <= open, open <= high, low <= close, close <= high
    PROVE  /\ Product(low, factor) <= Product(open, factor)
           /\ Product(open, factor) <= Product(high, factor)
           /\ Between(Product(high, factor), adj) = {}
           /\ Between(adj, Product(low, factor)) = {}
<1> DEFINE again == Product(close, factor)
<1>1. /\ \A p \in Prices : Product(p, factor) \in Floats
      /\ \A p, q \in Prices : p <= q => Product(p, factor) <= Product(q, factor)
      /\ Between(again, adj) = {} /\ Between(adj, again) = {}
  BY RoundingAssumption
<1>2. /\ Product(low, factor) <= Product(open, factor)
      /\ Product(open, factor) <= Product(high, factor)
      /\ Product(low, factor) <= again /\ again <= Product(high, factor)
  BY <1>1
<1>3. /\ again \in Nat /\ adj \in Nat
      /\ Product(low, factor) \in Nat /\ Product(high, factor) \in Nat
  BY <1>1, FloatsAreNumbers
<1> HIDE DEF again
<1>4. /\ Between(Product(high, factor), adj) \subseteq Between(again, adj)
      /\ Between(adj, Product(low, factor)) \subseteq Between(adj, again)
  BY <1>2, <1>3, BetweenShrinks
<1> QED
  BY <1>1, <1>2, <1>4

LEMMA AdjustedBar ==
    ASSUME NEW bar \in PriceBars
    PROVE  /\ AdjustPriceDay(bar).at = bar.at
           /\ AdjustPriceDay(bar).inst = bar.inst
           /\ Sound(bar) => SoundUpToRounding(AdjustPriceDay(bar))
<1>1. CASE bar.close = Null \/ bar.adj = Null
  BY <1>1, SoundBar DEF AdjustPriceDay
<1>2. CASE bar.close # Null /\ bar.adj # Null
  <2> DEFINE factor == Quotient(bar.adj, bar.close)
             new == AdjustPriceDay(bar)
  <2>1. /\ new.at = bar.at /\ new.inst = bar.inst
        /\ new.open = Product(bar.open, factor)
        /\ new.high = Product(bar.high, factor)
        /\ new.low = Product(bar.low, factor) /\ new.close = bar.adj
    BY <1>2 DEF AdjustPriceDay, PriceBars
  <2>2. /\ bar.open \in Prices /\ bar.high \in Prices /\ bar.low \in Prices
        /\ bar.close \in Prices \ {Null} /\ bar.adj \in Prices \ {Null}
    BY <1>2 DEF PriceBars
  <2> HIDE DEF new
  <2>3. Sound(bar) => SoundUpToRounding(new)
    BY <2>1, <2>2, AdjustedPrices DEF Sound, SoundUpToRounding
  <2> QED
    BY <2>1, <2>3 DEF new
<1> QED
  BY <1>1, <1>2

(* The open and close of a recorded bar are between its low and its high.  *)
RecordedBarsAreSound ==
    \A d \in Databases["price-history"] : \A bar \in d.prices_daily : Sound(bar)

HeldBarsAreSound ==
    call.op = "price-history" /\ step = 2 => \A bar \in held : SoundUpToRounding(bar)

LEMMA HistoryIsSound ==
    ASSUME RecordedBarsAreSound, InputsStay, call.op = "price-history",
           NEW rows \in PriceHistory(call.ticker, call.start, call.end, call.limit),
           NEW bar \in rows
    PROVE  bar \in PriceBars /\ Sound(bar)
<1>1. bar \in RecordedBars
  BY HistoryRows DEF DayBars
<1>2. bar \in db.prices_daily
  BY <1>1 DEF RecordedBars, OfTicker
<1> QED
  BY <1>1, <1>2, RecordedBarsTyped DEF RecordedBarsAreSound, InputsStay

(* The first of two statements holds a history, adjusted. *)
LEMMA HistoryIsAdjusted ==
    ASSUME GetPriceHistory, At("price-history", 1), call.adjust
    PROVE  \E rows \in PriceHistory(call.ticker, call.start, call.end, call.limit) :
                Hold({AdjustPriceDay(b) : b \in rows})
<1>1. \/ ~ call.adjust \/ At("price-history", 2)
      \/ \E rows \in PriceHistory(call.ticker, call.start, call.end, call.limit) :
            Hold({AdjustPriceDay(b) : b \in rows})
  BY Zenon DEF GetPriceHistory
<1>2. ~ At("price-history", 2)
  BY DEF At
<1> QED
  BY <1>1, <1>2

(* Where every recorded bar is sound every bar answered is, adjusted or    *)
(* not, up to the rounding of one float: the open, high and low move by    *)
(* one rounded factor, the close to the adjusted close itself.             *)
THEOREM AdjustedBarsStaySound ==
    ASSUME RecordedBarsAreSound
    PROVE  Spec => []AdjustedBarsMoveTogether
<1>1. Init => HeldBarsAreSound /\ AdjustedBarsMoveTogether
  BY DEF Init, Pending, HeldBarsAreSound, AdjustedBarsMoveTogether, Answered
<1>2. InputsStay /\ HeldBarsAreSound /\ AdjustedBarsMoveTogether /\ [Next]_vars
        => HeldBarsAreSound' /\ AdjustedBarsMoveTogether'
  <2> SUFFICES ASSUME InputsStay, HeldBarsAreSound, AdjustedBarsMoveTogether, [Next]_vars,
                      call.op = "price-history"
               PROVE  HeldBarsAreSound' /\ AdjustedBarsMoveTogether'
    BY CallStays DEF HeldBarsAreSound, AdjustedBarsMoveTogether, Answered
  <2> USE DEF HeldBarsAreSound, AdjustedBarsMoveTogether, Answered
  <2>1. CASE UNCHANGED vars
    BY <2>1 DEF vars, SoundUpToRounding
  <2>2. CASE Common
    BY <2>2, CommonIsNoAnswer DEF Common, StatementFails, OthersCommit, Reply, SoundUpToRounding
  <2>3. CASE GetPriceHistory
    <3>1. CASE At("price-history", 2)
      BY <2>3, <3>1 DEF GetPriceHistory, At, Reply, SoundUpToRounding
    <3>2. CASE At("price-history", 1) /\ ~ call.adjust
      <4>1. PICK rows \in PriceHistory(call.ticker, call.start, call.end, call.limit) :
                Reply("OK", rows)
        BY <2>3, <3>2 DEF GetPriceHistory, At
      <4>2. answer'.rows = rows /\ step' = 1
        BY <3>2, <4>1 DEF Reply, At
      <4> QED
        BY <4>2, HistoryIsSound, SoundBar DEF SoundUpToRounding
    <3>3. CASE At("price-history", 1) /\ call.adjust
      <4>1. PICK rows \in PriceHistory(call.ticker, call.start, call.end, call.limit) :
                Hold({AdjustPriceDay(b) : b \in rows})
        BY <2>3, <3>3, HistoryIsAdjusted
      <4>2. held' = {AdjustPriceDay(b) : b \in rows} /\ answer' = Pending
        BY <3>3, <4>1 DEF Hold, At
      <4>3. \A bar \in held' : SoundUpToRounding(bar)
        BY <4>2, HistoryIsSound, AdjustedBar
      <4> QED
        BY <4>2, <4>3 DEF Pending
    <3> QED
      BY <2>3, <3>1, <3>2, <3>3 DEF GetPriceHistory
  <2> QED
    BY <2>1, <2>2, <2>3, HistoryStep
<1> QED
  BY <1>1, <1>2, SpecInputs, PTL DEF Spec

(***************************************************************************)
(* A history.  While nothing is committed under the request, what it holds *)
(* and what it answers is one result of the first statement, adjusted or   *)
(* not.                                                                    *)
(***************************************************************************)
OfHistory(bars) ==
    \E rows \in PriceHistory(call.ticker, call.start, call.end, call.limit) :
        bars = rows \/ bars = {AdjustPriceDay(b) : b \in rows}

AnsweredFromHistory ==
    /\ writes \in Nat
    /\ call.op = "price-history" /\ writes = 0 =>
        /\ step = 2 => OfHistory(held)
        /\ answer.status = "OK" => OfHistory(answer.rows)

LEMMA HistoryStays ==
    ASSUME UNCHANGED <<db, call>>
    PROVE  \A bars : OfHistory(bars)' <=> OfHistory(bars)
<1> DEFINE history == PriceHistory(call.ticker, call.start, call.end, call.limit)
           days(bars) == {DayOf(b.at) : b \in bars}
           newest(bars) == {b \in bars : \A o \in bars : DayOf(o.at) = DayOf(b.at) => o.at <= b.at}
           deduped(bars) == {kept \in SUBSET newest(bars) :
                \A day \in days(bars) : Cardinality({b \in kept : DayOf(b.at) = day}) = 1}
           Of(bars, limit) == UNION {Newest(kept, limit) : kept \in deduped(bars)}
<1>1. history = Of(RecordedBars, call.limit) /\ history' = Of(RecordedBars', call'.limit)
  BY DEF PriceHistory, RecordedBars
<1>2. RecordedBars' = RecordedBars
  BY DEF RecordedBars, OfTicker, IdsOf, Named
<1> HIDE DEF Of
<1>3. history' = history
  BY <1>1, <1>2
<1> HIDE DEF history
<1> QED
  BY <1>3 DEF OfHistory, history

LEMMA AnsweredFromHistoryStep ==
    ASSUME AnsweredFromHistory, [Next]_vars
    PROVE  AnsweredFromHistory'
<1>1. CASE UNCHANGED vars
  BY <1>1, HistoryStays DEF vars, AnsweredFromHistory
<1>2. CASE Common
  <2>1. CASE StatementFails
    <3>1. UNCHANGED <<db, call, step, held, writes>> /\ answer'.status # "OK"
      BY <2>1 DEF StatementFails, Reply
    <3> QED
      BY <3>1, HistoryStays DEF AnsweredFromHistory
  <2>2. CASE OthersCommit
    BY <2>2 DEF OthersCommit, AnsweredFromHistory
  <2> QED
    BY <1>2, <2>1, <2>2 DEF Common
<1>3. CASE Next /\ ~ Common
  <2>1. UNCHANGED <<db, call, writes>>
    BY <1>3, MarketKeepsInputs, AdvisorKeepsInputs, OthersKeepInputs DEF Next, Common
  <2>2. CASE call.op # "price-history"
    BY <2>1, <2>2 DEF AnsweredFromHistory
  <2>3. CASE call.op = "price-history"
    <3>1. GetPriceHistory
      BY <1>3, <2>3, HistoryStep
    <3>2. \A bars : OfHistory(bars) => OfHistory(bars)'
      BY <2>1, HistoryStays
    <3>3. CASE At("price-history", 2)
      <4>1. step' = 2 /\ held' = held /\ answer'.rows = held
        BY <3>1, <3>3 DEF GetPriceHistory, At, Reply
      <4> QED
        BY <2>1, <3>2, <3>3, <4>1 DEF AnsweredFromHistory, At
    <3>4. CASE At("price-history", 1) /\ ~ call.adjust
      <4>1. PICK rows \in PriceHistory(call.ticker, call.start, call.end, call.limit) :
                Reply("OK", rows)
        BY <3>1, <3>4 DEF GetPriceHistory, At
      <4>2. answer'.rows = rows /\ step' = 1
        BY <3>4, <4>1 DEF Reply, At
      <4>3. OfHistory(rows)
        BY DEF OfHistory
      <4> QED
        BY <2>1, <3>2, <4>2, <4>3 DEF AnsweredFromHistory
    <3>5. CASE At("price-history", 1) /\ call.adjust
      <4>1. PICK rows \in PriceHistory(call.ticker, call.start, call.end, call.limit) :
                Hold({AdjustPriceDay(b) : b \in rows})
        BY <3>1, <3>5, HistoryIsAdjusted
      <4>2. held' = {AdjustPriceDay(b) : b \in rows} /\ answer'.status # "OK"
        BY <3>5, <4>1 DEF Hold, At, Pending
      <4>3. OfHistory(held')
        BY <4>2 DEF OfHistory
      <4> QED
        BY <2>1, <3>2, <4>2, <4>3 DEF AnsweredFromHistory
    <3> QED
      BY <3>1, <3>3, <3>4, <3>5 DEF GetPriceHistory
  <2> QED
    BY <2>2, <2>3
<1> QED
  BY <1>1, <1>2, <1>3

LEMMA SpecHistory == Spec => []AnsweredFromHistory
<1>1. Init => AnsweredFromHistory
  BY DEF Init, Pending, AnsweredFromHistory
<1> QED
  BY <1>1, AnsweredFromHistoryStep, PTL DEF Spec

(* Things of different days are as many as the days they are of.           *)
LEMMA AsManyDays ==
    ASSUME NEW R, IsFiniteSet(R), \A a, b \in R : DayOf(a.at) = DayOf(b.at) => a = b
    PROVE  Cardinality({DayOf(r.at) : r \in R}) = Cardinality(R)
<1> DEFINE days == {DayOf(r.at) : r \in R}
           f == [r \in R |-> DayOf(r.at)]
<1>1. f \in Surjection(R, days)
  BY DEF Surjection
<1>2. f \in Injection(R, days)
  BY DEF Injection, IsInjective
<1> QED
  BY <1>1, <1>2, FS_Surjection

(* One bar of each recorded day is there to choose from, and what is left  *)
(* out is not newer than what is answered.                                 *)
LEMMA HistoryByDay ==
    ASSUME InputsStay, call.op = "price-history", NEW bars, OfHistory(bars)
    PROVE  LET given == {DayOf(b.at) : b \in bars}
               left == {DayOf(b.at) : b \in RecordedBars} \ given
           IN  /\ Cardinality(given) = Cardinality(bars)
               /\ \A g \in bars, b \in RecordedBars : DayOf(b.at) = DayOf(g.at) => b.at <= g.at
               /\ left # {} => Cardinality(given) = call.limit
               /\ \A day \in given, older \in left : older < day
<1> DEFINE given == {DayOf(b.at) : b \in bars}
           recorded == {DayOf(b.at) : b \in RecordedBars}
           left == recorded \ given
<1>1. PICK rows \in PriceHistory(call.ticker, call.start, call.end, call.limit) :
            bars = rows \/ bars = {AdjustPriceDay(b) : b \in rows}
  BY DEF OfHistory
<1>2. PICK kept \in SUBSET DayBars :
        /\ \A day \in recorded : Cardinality({b \in kept : DayOf(b.at) = day}) = 1
        /\ rows \subseteq kept
        /\ Cardinality(rows) = Min({call.limit, Cardinality(kept)})
        /\ \A row \in rows, other \in kept \ rows : ~ NewestFirst(other, row)
  BY HistoryRows
<1>3. RecordedBars \subseteq PriceBars /\ IsFiniteSet(RecordedBars)
  BY RecordedBarsTyped
<1>4. kept \subseteq RecordedBars /\ IsFiniteSet(kept) /\ IsFiniteSet(rows)
  BY <1>2, <1>3, FS_Subset DEF DayBars
<1>5. \A b \in RecordedBars : b.at \in Nat \ {Null}
  BY <1>3 DEF PriceBars
<1>6. ASSUME NEW day \in recorded
      PROVE  \E b \in kept : {c \in kept : DayOf(c.at) = day} = {b}
  <2> DEFINE ofDay == {c \in kept : DayOf(c.at) = day}
  <2>1. IsFiniteSet(ofDay) /\ Cardinality(ofDay) = 1
    BY <1>2, <1>4, FS_Subset
  <2>2. PICK b : ofDay = {b}
    BY <2>1, FS_Singleton
  <2> QED
    BY <2>2
<1>7. \A a, b \in kept : DayOf(a.at) = DayOf(b.at) => a = b
  BY <1>4, <1>6
<1>8. ASSUME bars = {AdjustPriceDay(b) : b \in rows}
      PROVE  IsFiniteSet(bars) /\ Cardinality(bars) = Cardinality(rows)
  <2> DEFINE f == [b \in rows |-> AdjustPriceDay(b)]
  <2>1. f \in Surjection(rows, bars)
    BY <1>8 DEF Surjection
  <2>2. ASSUME NEW a \in rows, NEW b \in rows, f[a] = f[b] PROVE a = b
    <3>1. a.at = b.at
      BY <1>2, <1>3, <1>4, <2>2, AdjustedBar
    <3> QED
      BY <1>2, <1>7, <3>1
  <2>3. f \in Injection(rows, bars)
    BY <1>8, <2>2 DEF Injection, IsInjective
  <2> QED
    BY <1>4, <2>1, <2>3, FS_Surjection
<1>9. IsFiniteSet(bars) /\ Cardinality(bars) = Cardinality(rows)
  BY <1>1, <1>4, <1>8
<1>10. /\ \A g \in bars : \E r \in rows : g.at = r.at
       /\ \A r \in rows : \E g \in bars : g.at = r.at
  BY <1>1, <1>2, <1>3, <1>4, AdjustedBar
<1>11. given = {DayOf(r.at) : r \in rows}
  BY <1>10
<1>12. Cardinality(given) = Cardinality(bars)
  BY <1>2, <1>4, <1>7, <1>9, <1>11, AsManyDays
<1>13. ASSUME NEW g \in bars, NEW b \in RecordedBars, DayOf(b.at) = DayOf(g.at)
       PROVE  b.at <= g.at
  BY <1>2, <1>10, <1>13 DEF DayBars
<1>14. ASSUME NEW older \in left
       PROVE  \E b \in kept \ rows : DayOf(b.at) = older
  <2>1. PICK b \in kept : {c \in kept : DayOf(c.at) = older} = {b}
    BY <1>6
  <2> QED
    BY <1>11, <2>1
<1>15. ASSUME left # {} PROVE Cardinality(given) = call.limit
  <2>1. rows # kept
    BY <1>14, <1>15
  <2>2. Cardinality(rows) # Cardinality(kept)
    BY <1>2, <1>4, <2>1, FS_Subset
  <2>3. call.limit \in Nat /\ Cardinality(kept) \in Nat
    BY <1>4, PriceAssumption, FS_CardinalityType DEF InputsStay
  <2>4. Min({call.limit, Cardinality(kept)}) \in {call.limit, Cardinality(kept)}
    BY <2>3, LesserIsOne
  <2> QED
    BY <1>2, <1>9, <1>12, <2>2, <2>4
<1>16. ASSUME NEW day \in given, NEW older \in left PROVE older < day
  <2>1. PICK b \in kept \ rows : DayOf(b.at) = older
    BY <1>14
  <2>2. PICK r \in rows : DayOf(r.at) = day
    BY <1>11
  <2>3. b.at \in Nat \ {Null} /\ r.at \in Nat \ {Null}
    BY <1>2, <1>4, <1>5
  <2>4. ~ NewestFirst(b, r)
    BY <1>2, <2>1
  <2>5. b.at <= r.at
    BY <2>3, <2>4 DEF NewestFirst, SortKey
  <2>6. older <= day /\ older \in Int /\ day \in Int
    BY <2>1, <2>2, <2>3, <2>5 DEF DayOf
  <2> QED
    BY <1>16, <2>6
<1> QED
  BY <1>12, <1>13, <1>15, <1>16

(* However many bars a day has and however many are recorded, a price      *)
(* history is the newest bar of each of the newest days.                   *)
THEOREM HistoryStaysDaily == Spec => []HistoryIsDaily
<1>1. InputsStay /\ AnsweredFromHistory => HistoryIsDaily
  <2> SUFFICES ASSUME InputsStay, AnsweredFromHistory, Answered("price-history"), writes = 0
               PROVE  HistoryIsDaily
    BY DEF HistoryIsDaily
  <2>1. OfHistory(answer.rows) /\ call.op = "price-history"
    BY DEF AnsweredFromHistory, Answered
  <2> QED
    BY <2>1, HistoryByDay DEF HistoryIsDaily, RecordedBars
<1> QED
  BY <1>1, SpecInputs, SpecHistory, PTL

(***************************************************************************)
(* Symbols.  Were there two instruments of a symbol, the two of the least  *)
(* ids would be found, and the symbol would not resolve.                   *)
(***************************************************************************)
LEMMA LeastId ==
    ASSUME NEW N, IsFiniteSet(N), N # {}, \A i \in N : i.id \in Nat
    PROVE  \E i \in N : \A j \in N : ~ (j.id < i.id)
<1> DEFINE Below(i) == {j \in N : j.id < i.id}
           T == {Below(i) : i \in N}
           R == StrictSubsetOrdering(N)
<1>1. IsWellFoundedOn(R, SUBSET N)
  BY FS_StrictSubsetOrderingWellFounded, FS_FiniteSubsetsOfFinite
<1>2. T \subseteq SUBSET N /\ T # {}
  OBVIOUS
<1>3. \E S \in T : \A U \in T : ~(<<U, S>> \in R)
  <2> HIDE DEF T, R
  <2> QED BY <1>1, <1>2, WFMin
<1>4. PICK i \in N : \A j \in N : ~(<<Below(j), Below(i)>> \in R)
  BY <1>3
<1>5. ASSUME NEW j \in N, j.id < i.id PROVE FALSE
  <2>1. j.id \in Nat /\ i.id \in Nat
    OBVIOUS
  <2>2. ASSUME NEW k \in Below(j) PROVE k \in Below(i)
    <3>1. k \in N /\ k.id \in Nat /\ k.id < j.id
      OBVIOUS
    <3>2. k.id < i.id
      BY <1>5, <2>1, <3>1
    <3> QED BY <3>1, <3>2
  <2>3. j \in Below(i) /\ j \notin Below(j)
    BY <1>5, <2>1
  <2>4. Below(j) \in SUBSET N /\ Below(i) \in SUBSET N /\ Below(j) # Below(i)
    BY <2>3
  <2>5. <<Below(j), Below(i)>> \in R
    <3> HIDE DEF Below
    <3> QED BY <2>2, <2>4 DEF StrictSubsetOrdering
  <2> QED BY <1>4, <2>5
<1> QED BY <1>5

LEMMA TwoAreFound ==
    ASSUME NEW N, IsFiniteSet(N), \A i \in N : i.id \in Nat,
           NEW a \in N, NEW b \in N, a # b
    PROVE  \E matches \in First(N, LAMBDA i, j : i.id < j.id, 2) : Cardinality(matches) = 2
<1>1. PICK m \in N : \A j \in N : ~ (j.id < m.id)
  BY LeastId
<1>2. IsFiniteSet(N \ {m}) /\ N \ {m} # {}
  BY FS_RemoveElement
<1>3. PICK n \in N \ {m} : \A j \in N \ {m} : ~ (j.id < n.id)
  <2> DEFINE M == N \ {m}
  <2>1. IsFiniteSet(M) /\ M # {} /\ \A i \in M : i.id \in Nat
    BY <1>2
  <2> HIDE DEF M
  <2>2. \E i \in M : \A j \in M : ~ (j.id < i.id)
    BY <2>1, LeastId
  <2> QED
    BY <2>2 DEF M
<1>4. IsFiniteSet({m, n}) /\ Cardinality({m, n}) = 2
  <2>1. IsFiniteSet({m}) /\ Cardinality({m}) = 1
    BY FS_Singleton
  <2>2. IsFiniteSet({m} \union {n}) /\ Cardinality({m} \union {n}) = 2
    <3>1. n \notin {m}
      BY <1>3
    <3>2. Cardinality({m} \cup {n}) = Cardinality({m}) + 1 /\ IsFiniteSet({m} \cup {n})
      BY <2>1, <3>1, FS_AddElement, Zenon
    <3> QED
      BY <2>1, <3>2
  <2>3. {m} \union {n} = {m, n}
    OBVIOUS
  <2> QED
    BY <2>2, <2>3
<1>5. Min({2, Cardinality(N)}) = 2
  <2>1. 2 <= Cardinality(N) /\ Cardinality(N) \in Nat
    BY <1>3, <1>4, FS_Subset, FS_CardinalityType
  <2>2. Min({2, Cardinality(N)}) \in {2, Cardinality(N)} /\ Min({2, Cardinality(N)}) <= 2
    BY <2>1, LesserIsOne
  <2> QED
    BY <2>1, <2>2
<1>6. {m, n} \in kSubset(Min({2, Cardinality(N)}), N)
  BY <1>3, <1>4, <1>5 DEF kSubset
<1>7. \A row \in {m, n}, other \in N \ {m, n} : ~ (other.id < row.id)
  BY <1>1, <1>3
<1> QED
  BY <1>4, <1>6, <1>7 DEF First

LEMMA OneOfTheName ==
    ASSUME InputsStay, call.op \in SeriesOps, Listed, NEW ticker, Resolves(ticker)
    PROVE  \A i, j \in IdsOf(ticker) : i = j
<1> DEFINE N == {i \in Named(ticker) : \E e \in db.exchanges : e.id = i.exchange}
<1>1. N = Named(ticker)
  BY DEF Listed, Named
<1>2. IsFiniteSet(db.instruments) /\ \A i \in db.instruments : i.id \in Nat
  BY InstrumentAssumption DEF InputsStay
<1>3. IsFiniteSet(N) /\ \A i \in N : i.id \in Nat
  BY <1>2, FS_Subset DEF Named
<1>4. ResolveSymbol(ticker) = First(N, LAMBDA i, j : i.id < j.id, 2)
  BY DEF ResolveSymbol
<1>5. \A matches \in ResolveSymbol(ticker) : Cardinality(matches) # 2
  BY DEF Resolves
<1>6. ASSUME NEW a \in N, NEW b \in N, a # b PROVE FALSE
  <2> HIDE DEF N
  <2> QED BY <1>3, <1>4, <1>5, <1>6, TwoAreFound
<1> QED
  BY <1>1, <1>6 DEF IdsOf

(* The rows a series is cut from are of the symbol asked for.              *)
SeriesOfTicker ==
    call.op \in SeriesOps \ {"price-history"} /\ answer.status = "OK" =>
        \A row \in answer.rows : row.inst \in IdsOf(call.ticker)

LEMMA NewestOfTicker ==
    ASSUME NEW all, NEW ticker, NEW limit, NEW rows \in Newest(OfTicker(all, ticker), limit)
    PROVE  \A row \in rows : row.inst \in IdsOf(ticker)
BY DEF Newest, First, kSubset, OfTicker

LEMMA NewestInRange ==
    ASSUME NEW all, NEW ticker, NEW start, NEW end, NEW limit,
           NEW rows \in Newest(DateRange(all, ticker, start, end), limit)
    PROVE  \A row \in rows : row.inst \in IdsOf(ticker)
BY DEF Newest, First, kSubset, DateRange, OfTicker

LEMMA ActionsOfTicker ==
    ASSUME NEW ticker, NEW limit, NEW rows \in CorporateActions(ticker, limit)
    PROVE  \A row \in rows : row.inst \in IdsOf(ticker)
<1>1. PICK kept \in Newest(OfTicker(db.corporate_actions, ticker), limit) :
            rows = {[at |-> a.at, inst |-> a.inst, ratio |-> SplitRatio(a)] : a \in kept}
  BY DEF CorporateActions
<1> QED
  BY <1>1, NewestOfTicker

LEMMA SeriesAnswered ==
    ASSUME SeriesNext
    PROVE  /\ \A row \in answer'.rows : row.inst \in IdsOf(call.ticker)
           /\ UNCHANGED <<db, call>>
<1>1. CASE GetTechnicalIndicators \/ GetRiskIndicators
  BY <1>1, AnsweredBy, NewestInRange
  DEF GetTechnicalIndicators, GetRiskIndicators, TechnicalIndicators, RiskIndicators
<1>2. CASE GetValuationIndicators \/ GetReturnsSnapshot
  BY <1>2, AnsweredBy, NewestInRange
  DEF GetValuationIndicators, GetReturnsSnapshot, ValuationIndicators, ReturnsSnapshot
<1>3. CASE GetIncomeStatements \/ GetBalanceSheets
  BY <1>3, AnsweredBy, NewestOfTicker
  DEF GetIncomeStatements, GetBalanceSheets, IncomeStatements, BalanceSheets
<1>4. CASE GetCashFlows \/ GetQualityMetrics
  BY <1>4, AnsweredBy, NewestOfTicker DEF GetCashFlows, GetQualityMetrics, CashFlows, QualityMetrics
<1>5. CASE GetPriceTicks \/ GetTickerNews
  BY <1>5, AnsweredBy, NewestOfTicker DEF GetPriceTicks, GetTickerNews, PriceTicks, TickerNews
<1>6. CASE GetCorporateActions
  BY <1>6, AnsweredBy, ActionsOfTicker DEF GetCorporateActions
<1> QED
  BY <1>1, <1>2, <1>3, <1>4, <1>5, <1>6 DEF SeriesNext

LEMMA SpecSeries == Spec => []SeriesOfTicker
<1>1. Init => SeriesOfTicker
  BY DEF Init, Pending, SeriesOfTicker
<1>2. SeriesOfTicker /\ [Next]_vars => SeriesOfTicker'
  <2> SUFFICES ASSUME SeriesOfTicker, [Next]_vars,
                      call.op \in SeriesOps \ {"price-history"}, answer'.status = "OK",
                      NEW row \in answer'.rows
               PROVE  row.inst \in IdsOf(call.ticker)'
    BY CallStays DEF SeriesOfTicker
  <2>1. CASE UNCHANGED vars
    BY <2>1 DEF vars, SeriesOfTicker, IdsOf, Named
  <2>2. CASE SeriesNext
    <3>1. UNCHANGED <<db, call>> /\ row.inst \in IdsOf(call.ticker)
      BY <2>2, SeriesAnswered
    <3> QED
      BY <3>1 DEF IdsOf, Named
  <2> QED
    BY <2>1, <2>2, SeriesStep, CommonIsNoAnswer
<1> QED
  BY <1>1, <1>2, PTL DEF Spec

LEMMA HistoryOfTicker ==
    ASSUME InputsStay, call.op = "price-history", NEW bars, OfHistory(bars)
    PROVE  \A bar \in bars : bar.inst \in IdsOf(call.ticker)
<1>1. PICK rows \in PriceHistory(call.ticker, call.start, call.end, call.limit) :
            bars = rows \/ bars = {AdjustPriceDay(b) : b \in rows}
  BY DEF OfHistory
<1>2. \A b \in rows : b \in PriceBars /\ b.inst \in IdsOf(call.ticker)
  <2>1. rows \subseteq RecordedBars
    BY HistoryRows DEF DayBars
  <2> QED
    BY <2>1, RecordedBarsTyped DEF RecordedBars, OfTicker
<1> QED
  BY <1>1, <1>2, AdjustedBar

(* Of a symbol that resolves a series has the rows of one instrument, even *)
(* where symbols are unique per exchange only.                             *)
THEOREM ResolvedNamesOneInstrument == Spec => []ResolvedNameIsOneInstrument
<1>1. InputsStay /\ AnsweredFromHistory /\ SeriesOfTicker => ResolvedNameIsOneInstrument
  <2> SUFFICES ASSUME InputsStay, AnsweredFromHistory, SeriesOfTicker,
                      answer.status = "OK", call.op \in SeriesOps, writes = 0,
                      Listed, Resolves(call.ticker),
                      NEW row \in answer.rows, NEW other \in answer.rows
               PROVE  row.inst = other.inst
    BY DEF ResolvedNameIsOneInstrument
  <2>1. CASE call.op = "price-history"
    BY <2>1, HistoryOfTicker, OneOfTheName DEF AnsweredFromHistory
  <2>2. CASE call.op # "price-history"
    BY <2>2, OneOfTheName DEF SeriesOfTicker
  <2> QED
    BY <2>1, <2>2
<1> QED
  BY <1>1, SpecInputs, SpecHistory, SpecSeries, PTL

(***************************************************************************)
(* Types.  What a step makes of an answer is proper: it leaves it pending, *)
(* or gives it one of the statuses, and rows only with OK.                 *)
(***************************************************************************)
Proper ==
    /\ step' \in Nat \ {0}
    /\ \/ answer' = answer
       \/ answer'.status \in Statuses /\ (answer'.status # "OK" => answer'.rows = {})

LEMMA RepliesAreProper ==
    ASSUME step \in Nat \ {0}
    PROVE  /\ \A rows : Reply("OK", rows) => Proper
           /\ \A status \in Statuses : Reply(status, {}) => Proper
           /\ \A rows : Hold(rows) => Proper
           /\ \A op, results : Answers(op, results) => Proper
           /\ \A op, rows : AnswersOne(op, rows) => Proper
<1>1. \A rows : Reply("OK", rows) => Proper
  BY DEF Reply, Proper, Statuses
<1>2. \A status \in Statuses : Reply(status, {}) => Proper
  BY DEF Reply, Proper
<1>3. \A rows : Hold(rows) => Proper
  BY DEF Hold, Proper
<1>4. "NOT_FOUND" \in Statuses
  BY DEF Statuses
<1> QED
  BY <1>1, <1>2, <1>3, <1>4 DEF Answers, AnswersOne

LEMMA KindsOfReply ==
    /\ "OK" \in Statuses /\ "NOT_FOUND" \in Statuses /\ "CONFLICT" \in Statuses
    /\ "INVALID" \in Statuses /\ "FORBIDDEN" \in Statuses /\ "UNAVAILABLE" \in Statuses
BY DEF Statuses

LEMMA MarketIsProper ==
    ASSUME step \in Nat \ {0}, MarketNext
    PROVE  Proper
<1>1. GetQuotes => Proper
  BY RepliesAreProper DEF GetQuotes
<1>2. GetSearch \/ GetResolve \/ GetAnalyticsSnapshot => Proper
  BY RepliesAreProper, KindsOfReply DEF GetSearch, GetResolve, GetAnalyticsSnapshot, At, Reply,
     Proper
<1>3. GetCountries \/ GetCurrencies \/ GetExchanges \/ GetSectors \/ GetIndustries
        \/ GetTradingCalendar \/ GetTickerDetail => Proper
  BY RepliesAreProper DEF GetCountries, GetCurrencies, GetExchanges, GetSectors,
     GetIndustries, GetTradingCalendar, GetTickerDetail
<1>4. GetPriceHistory => Proper
  BY RepliesAreProper DEF GetPriceHistory
<1>5. GetCorporateActions \/ GetCompanyFundamentals \/ GetIncomeStatements
        \/ GetBalanceSheets \/ GetCashFlows \/ GetQualityMetrics => Proper
  BY RepliesAreProper DEF GetCorporateActions, GetCompanyFundamentals,
     GetIncomeStatements, GetBalanceSheets, GetCashFlows, GetQualityMetrics
<1>6. GetTechnicalIndicators \/ GetRiskIndicators \/ GetValuationIndicators
        \/ GetReturnsSnapshot \/ GetTickerNews \/ GetMarketNews => Proper
  BY RepliesAreProper DEF GetTechnicalIndicators, GetRiskIndicators,
     GetValuationIndicators, GetReturnsSnapshot, GetTickerNews, GetMarketNews
<1>7. GetEtlJobStates \/ GetEngineStatus \/ GetPriceTicks \/ GetSectorDaily
        \/ GetUniverseActive \/ GetCapEvents \/ GetWorkerHeartbeats => Proper
  BY RepliesAreProper DEF GetEtlJobStates, GetEngineStatus, GetPriceTicks,
     GetSectorDaily, GetUniverseActive, GetCapEvents, GetWorkerHeartbeats
<1> QED
  BY <1>1, <1>2, <1>3, <1>4, <1>5, <1>6, <1>7 DEF MarketNext

LEMMA OthersAreProper ==
    ASSUME step \in Nat \ {0},
           AdvisorNext \/ DashboardNext \/ MacroNext \/ FixedIncomeNext \/ DataNext
    PROVE  Proper
<1>1. AdvisorNext => Proper
  <2>1. GetLatestSignals \/ GetPortfolioState \/ GetHealth \/ GetAuditEvents => Proper
    BY RepliesAreProper, KindsOfReply
    DEF GetLatestSignals, GetPortfolioState, GetHealth, GetAuditEvents
  <2>2. ExecuteNamedQuery => Proper
    BY RepliesAreProper, KindsOfReply DEF ExecuteNamedQuery
  <2>3. \A snapshot : Advise(snapshot) => Proper
    BY RepliesAreProper DEF Advise
  <2>4. GetContext => Proper
    BY RepliesAreProper, <2>3 DEF GetContext
  <2> QED
    BY <2>1, <2>2, <2>4 DEF AdvisorNext
<1>2. DashboardNext => Proper
  <2>1. \A part : Fill(part, 0) \/ Fill(part, 1) => Proper
    BY DEF Fill, Proper
  <2> QED
    BY <2>1, RepliesAreProper, KindsOfReply
    DEF DashboardNext, FillSection, SectionFails, ShowDashboard
<1>3. MacroNext => Proper
  <2>1. ListSeries \/ GetSeries \/ GetLatest => Proper
    BY RepliesAreProper, KindsOfReply DEF ListSeries, GetSeries, GetLatest
  <2>2. GetMacroRegime => Proper
    BY RepliesAreProper, KindsOfReply DEF GetMacroRegime, Reply, Proper
  <2> QED
    BY <2>1, <2>2 DEF MacroNext
<1>4. FixedIncomeNext => Proper
  <2>1. GetRegime => Proper
    <3>1. CASE step = 3
      BY <3>1 DEF GetRegime, At, Proper
    <3>2. CASE step # 3
      BY <3>2, RepliesAreProper, KindsOfReply DEF GetRegime, At
    <3> QED
      BY <3>1, <3>2
  <2> QED
    BY <2>1, RepliesAreProper DEF FixedIncomeNext, GetHistory, GetSignals
<1>5. DataNext => Proper
  <2>1. ListTables \/ ListColumns => Proper
    BY RepliesAreProper, KindsOfReply DEF ListTables, ListColumns
  <2>2. QueryRows => Proper
    BY RepliesAreProper, KindsOfReply DEF QueryRows
  <2> QED
    BY <2>1, <2>2 DEF DataNext
<1> QED
  BY <1>1, <1>2, <1>3, <1>4, <1>5

(* What a LIMIT keeps of a finite table is no more than the limit.         *)
LEMMA CutIsShort ==
    ASSUME NEW all, IsFiniteSet(all), NEW from \in SUBSET all, NEW limit \in Nat \ {0},
           NEW rows \in SUBSET from, Cardinality(rows) = Min({limit, Cardinality(from)})
    PROVE  IsFiniteSet(rows) /\ Cardinality(rows) <= limit
<1>1. IsFiniteSet(from)
  BY FS_Subset
<1>2. Cardinality(from) \in Nat /\ IsFiniteSet(rows)
  BY <1>1, FS_Subset, FS_CardinalityType
<1> QED
  BY <1>2, LesserIsOne

LEMMA NewestIsShort ==
    ASSUME NEW all, IsFiniteSet(all), NEW from \in SUBSET all, NEW limit \in Nat \ {0},
           NEW rows \in Newest(from, limit)
    PROVE  IsFiniteSet(rows) /\ Cardinality(rows) <= limit
<1>1. rows \in SUBSET from /\ Cardinality(rows) = Min({limit, Cardinality(from)})
  BY DEF Newest, First, kSubset
<1> QED
  BY <1>1, CutIsShort

(* A mapping of rows makes no more of them. *)
LEMMA AdjustedAreAsMany ==
    ASSUME NEW rows, IsFiniteSet(rows)
    PROVE  \A limit \in Nat : Cardinality(rows) <= limit =>
                Cardinality({AdjustPriceDay(b) : b \in rows}) <= limit
<1> DEFINE f == [b \in rows |-> AdjustPriceDay(b)]
           adjusted == {AdjustPriceDay(b) : b \in rows}
<1>1. f \in Surjection(rows, adjusted)
  BY DEF Surjection
<1> HIDE DEF f, adjusted
<1>2. IsFiniteSet(adjusted) /\ Cardinality(adjusted) <= Cardinality(rows)
  BY <1>1, FS_Surjection
<1>3. Cardinality(adjusted) \in Nat /\ Cardinality(rows) \in Nat
  BY <1>2, FS_CardinalityType
<1>4. \A limit \in Nat : Cardinality(rows) <= limit => Cardinality(adjusted) <= limit
  BY <1>2, <1>3
<1> QED
  BY <1>4 DEF adjusted

WithinLimit == call.op \in LimitedOps => Cardinality(answer.rows) <= call.limit

HeldWithinLimit ==
    call.op = "price-history" /\ step = 2 => Cardinality(held) <= call.limit

LEMMA LimitIsNumber ==
    ASSUME InputsStay, call.op \in LimitedOps
    PROVE  call.limit \in Nat \ {0} /\ Cardinality({}) <= call.limit
BY LimitAssumption, FS_EmptySet DEF InputsStay

LEMMA SplitsAreAsMany ==
    ASSUME NEW kept, IsFiniteSet(kept), NEW rows,
           rows = {[at |-> a.at, inst |-> a.inst, ratio |-> SplitRatio(a)] : a \in kept}
    PROVE  IsFiniteSet(rows) /\ Cardinality(rows) <= Cardinality(kept)
<1> DEFINE f == [a \in kept |-> [at |-> a.at, inst |-> a.inst, ratio |-> SplitRatio(a)]]
<1>1. f \in Surjection(kept, rows)
  BY DEF Surjection
<1> QED
  BY <1>1, FS_Surjection

(* The series of an instrument, ... *)
LEMMA SeriesWithinLimit ==
    ASSUME InputsStay, SeriesNext
    PROVE  Cardinality(answer'.rows) <= call.limit
<1> USE LimitAssumption DEF InputsStay, TableCut, CutOps, LimitedOps
<1>1. CASE GetTechnicalIndicators
  <2>1. answer'.rows \in TechnicalIndicators(call.ticker, call.start, call.end, call.limit)
    BY <1>1, AnsweredBy DEF GetTechnicalIndicators
  <2>2. IsFiniteSet(db.ind_technical_daily) /\ call.limit \in Nat \ {0}
    BY <1>1, MarketActions
  <2> QED
    BY <2>1, <2>2, NewestIsShort DEF TechnicalIndicators, DateRange, OfTicker
<1>2. CASE GetRiskIndicators
  <2>1. answer'.rows \in RiskIndicators(call.ticker, call.start, call.end, call.limit)
    BY <1>2, AnsweredBy DEF GetRiskIndicators
  <2>2. IsFiniteSet(db.ind_risk_daily) /\ call.limit \in Nat \ {0}
    BY <1>2, MarketActions
  <2> QED
    BY <2>1, <2>2, NewestIsShort DEF RiskIndicators, DateRange, OfTicker
<1>3. CASE GetValuationIndicators
  <2>1. answer'.rows \in ValuationIndicators(call.ticker, call.start, call.end, call.limit)
    BY <1>3, AnsweredBy DEF GetValuationIndicators
  <2>2. IsFiniteSet(db.ind_valuation_daily) /\ call.limit \in Nat \ {0}
    BY <1>3, MarketActions
  <2> QED
    BY <2>1, <2>2, NewestIsShort DEF ValuationIndicators, DateRange, OfTicker
<1>4. CASE GetReturnsSnapshot
  <2>1. answer'.rows \in ReturnsSnapshot(call.ticker, call.start, call.end, call.limit)
    BY <1>4, AnsweredBy DEF GetReturnsSnapshot
  <2>2. IsFiniteSet(db.returns_snapshot_daily) /\ call.limit \in Nat \ {0}
    BY <1>4, MarketActions
  <2> QED
    BY <2>1, <2>2, NewestIsShort DEF ReturnsSnapshot, DateRange, OfTicker
<1>5. CASE GetIncomeStatements
  <2>1. answer'.rows \in IncomeStatements(call.ticker, call.limit)
    BY <1>5, AnsweredBy DEF GetIncomeStatements
  <2>2. IsFiniteSet(db.fund_income_q) /\ call.limit \in Nat \ {0}
    BY <1>5, MarketActions
  <2> QED
    BY <2>1, <2>2, NewestIsShort DEF IncomeStatements, OfTicker
<1>6. CASE GetBalanceSheets
  <2>1. answer'.rows \in BalanceSheets(call.ticker, call.limit)
    BY <1>6, AnsweredBy DEF GetBalanceSheets
  <2>2. IsFiniteSet(db.fund_balance_q) /\ call.limit \in Nat \ {0}
    BY <1>6, MarketActions
  <2> QED
    BY <2>1, <2>2, NewestIsShort DEF BalanceSheets, OfTicker
<1>7. CASE GetCashFlows
  <2>1. answer'.rows \in CashFlows(call.ticker, call.limit)
    BY <1>7, AnsweredBy DEF GetCashFlows
  <2>2. IsFiniteSet(db.fund_cashflow_q) /\ call.limit \in Nat \ {0}
    BY <1>7, MarketActions
  <2> QED
    BY <2>1, <2>2, NewestIsShort DEF CashFlows, OfTicker
<1>8. CASE GetQualityMetrics
  <2>1. answer'.rows \in QualityMetrics(call.ticker, call.limit)
    BY <1>8, AnsweredBy DEF GetQualityMetrics
  <2>2. IsFiniteSet(db.fundamentals) /\ call.limit \in Nat \ {0}
    BY <1>8, MarketActions
  <2> QED
    BY <2>1, <2>2, NewestIsShort DEF QualityMetrics, OfTicker
<1>9. CASE GetPriceTicks
  <2>1. answer'.rows \in PriceTicks(call.ticker, call.limit)
    BY <1>9, AnsweredBy DEF GetPriceTicks
  <2>2. IsFiniteSet(db.price_ticks) /\ call.limit \in Nat \ {0}
    BY <1>9, MarketActions
  <2> QED
    BY <2>1, <2>2, NewestIsShort DEF PriceTicks, OfTicker
<1>10. CASE GetTickerNews
  <2>1. answer'.rows \in TickerNews(call.ticker, call.limit)
    BY <1>10, AnsweredBy DEF GetTickerNews
  <2>2. IsFiniteSet(db.ticker_news) /\ call.limit \in Nat \ {0}
    BY <1>10, MarketActions
  <2> QED
    BY <2>1, <2>2, NewestIsShort DEF TickerNews, OfTicker
<1>11. CASE GetCorporateActions
  <2>1. PICK kept \in Newest(OfTicker(db.corporate_actions, call.ticker), call.limit) :
            answer'.rows = {[at |-> a.at, inst |-> a.inst, ratio |-> SplitRatio(a)] : a \in kept}
    BY <1>11, AnsweredBy DEF GetCorporateActions, CorporateActions
  <2>2. IsFiniteSet(db.corporate_actions) /\ call.limit \in Nat \ {0}
    BY <1>11, MarketActions
  <2>3. IsFiniteSet(kept) /\ Cardinality(kept) <= call.limit
    BY <2>1, <2>2, NewestIsShort DEF OfTicker
  <2>4. Cardinality(answer'.rows) <= Cardinality(kept) /\ IsFiniteSet(answer'.rows)
    BY <2>1, <2>3, SplitsAreAsMany
  <2> QED
    BY <2>2, <2>3, <2>4, FS_CardinalityType
<1> QED
  BY <1>1, <1>2, <1>3, <1>4, <1>5, <1>6, <1>7, <1>8, <1>9, <1>10, <1>11 DEF SeriesNext

(* ... the other reads of the market, ... *)
LEMMA MarketWithinLimit ==
    ASSUME InputsStay,
           \/ GetSearch \/ GetSectorDaily \/ GetUniverseActive \/ GetCapEvents
           \/ GetTradingCalendar \/ GetMarketNews
    PROVE  Cardinality(answer'.rows) <= call.limit
<1> USE LimitAssumption DEF InputsStay, TableCut, CutOps, LimitedOps
<1>1. CASE GetSearch
  <2>1. answer'.rows \in SearchSymbols(call.text, call.limit)
    BY <1>1, AnsweredBy DEF GetSearch
  <2>2. IsFiniteSet(db.instruments) /\ call.limit \in Nat \ {0}
    BY <1>1, MarketActions
  <2>3. \E from \in SUBSET db.instruments :
            /\ answer'.rows \in SUBSET from
            /\ Cardinality(answer'.rows) = Min({call.limit, Cardinality(from)})
    BY <2>1 DEF SearchSymbols, Newest, First, kSubset
  <2> QED
    BY <2>2, <2>3, CutIsShort
<1>2. CASE GetSectorDaily
  <2>1. answer'.rows \in SectorDaily(call.sectors, call.limit)
    BY <1>2, AnsweredBy DEF GetSectorDaily
  <2>2. IsFiniteSet(db.sector_daily) /\ call.limit \in Nat \ {0}
    BY <1>2, MarketActions
  <2>3. \E from \in SUBSET db.sector_daily :
            /\ answer'.rows \in SUBSET from
            /\ Cardinality(answer'.rows) = Min({call.limit, Cardinality(from)})
    BY <2>1 DEF SectorDaily, Newest, First, kSubset
  <2> QED
    BY <2>2, <2>3, CutIsShort
<1>3. CASE GetUniverseActive
  <2>1. answer'.rows \in UniverseActive(call.minCap, call.limit)
    BY <1>3, AnsweredBy DEF GetUniverseActive
  <2>2. IsFiniteSet(db.market_cap_daily) /\ call.limit \in Nat \ {0}
    BY <1>3, MarketActions
  <2>3. \E from \in SUBSET db.market_cap_daily :
            /\ answer'.rows \in SUBSET from
            /\ Cardinality(answer'.rows) = Min({call.limit, Cardinality(from)})
    BY <2>1 DEF UniverseActive, Newest, First, kSubset
  <2> QED
    BY <2>2, <2>3, CutIsShort
<1>4. CASE GetCapEvents
  <2>1. answer'.rows \in CapEvents(call.start, call.limit)
    BY <1>4, AnsweredBy DEF GetCapEvents
  <2>2. IsFiniteSet(db.audit_cap_events) /\ call.limit \in Nat \ {0}
    BY <1>4, MarketActions
  <2>3. \E from \in SUBSET db.audit_cap_events :
            /\ answer'.rows \in SUBSET from
            /\ Cardinality(answer'.rows) = Min({call.limit, Cardinality(from)})
    BY <2>1 DEF CapEvents, Newest, First, kSubset
  <2> QED
    BY <2>2, <2>3, CutIsShort
<1>5. CASE GetTradingCalendar
  <2>1. answer'.rows \in TradingCalendar(call.start, call.end, call.limit)
    BY <1>5, AnsweredBy DEF GetTradingCalendar
  <2>2. IsFiniteSet(db.trading_calendar) /\ call.limit \in Nat \ {0}
    BY <1>5, MarketActions
  <2>3. \E from \in SUBSET db.trading_calendar :
            /\ answer'.rows \in SUBSET from
            /\ Cardinality(answer'.rows) = Min({call.limit, Cardinality(from)})
    BY <2>1 DEF TradingCalendar, Newest, First, kSubset
  <2> QED
    BY <2>2, <2>3, CutIsShort
<1>6. CASE GetMarketNews
  <2>1. answer'.rows \in RecentNews(call.limit)
    BY <1>6, AnsweredBy DEF GetMarketNews
  <2>2. IsFiniteSet(db.market_news) /\ call.limit \in Nat \ {0}
    BY <1>6, MarketActions
  <2>3. \E from \in SUBSET db.market_news :
            /\ answer'.rows \in SUBSET from
            /\ Cardinality(answer'.rows) = Min({call.limit, Cardinality(from)})
    BY <2>1 DEF RecentNews, Newest, First, kSubset
  <2> QED
    BY <2>2, <2>3, CutIsShort
<1> QED
  BY <1>1, <1>2, <1>3, <1>4, <1>5, <1>6

(* ... of the smaller services, ... *)
LEMMA SignalsWithinLimit ==
    ASSUME InputsStay, GetLatestSignals \/ GetAuditEvents
    PROVE  Cardinality(answer'.rows) <= call.limit
<1> USE LimitAssumption DEF InputsStay, TableCut, CutOps, LimitedOps
<1>1. CASE GetLatestSignals
  <2>1. answer'.rows \in LatestSignals(call.limit, call.about)
    BY <1>1, AnsweredBy DEF GetLatestSignals
  <2>2. IsFiniteSet(db.latest_snapshots) /\ call.limit \in Nat \ {0}
    BY <1>1 DEF GetLatestSignals, Answers, At
  <2>3. \E from \in SUBSET db.latest_snapshots :
            /\ answer'.rows \in SUBSET from
            /\ Cardinality(answer'.rows) = Min({call.limit, Cardinality(from)})
    BY <2>1 DEF LatestSignals, First, kSubset
  <2> QED
    BY <2>2, <2>3, CutIsShort
<1>2. CASE GetAuditEvents
  <2>1. answer'.rows \in AdminAuditEvents(call.limit, call.categories)
    BY <1>2, AnsweredBy DEF GetAuditEvents
  <2>2. IsFiniteSet(db.audit_events) /\ call.limit \in Nat \ {0}
    BY <1>2 DEF GetAuditEvents, Answers, At
  <2> QED
    BY <2>1, <2>2, NewestIsShort DEF AdminAuditEvents
<1> QED
  BY <1>1, <1>2

LEMMA NamedWithinLimit ==
    ASSUME InputsStay, ExecuteNamedQuery, answer'.status = "OK"
    PROVE  Cardinality(answer'.rows) <= call.limit
<1>1. /\ call.op = "named-query" /\ call.name \in DOMAIN CuratedQueries
      /\ answer'.rows \in NamedQuery(call.name, call.limit)
  BY AnsweredBy DEF ExecuteNamedQuery, Reply, At
<1> DEFINE table == db[CuratedQueries[call.name]]
<1>2. IsFiniteSet(table) /\ call.limit \in Nat \ {0}
  BY <1>1, LimitAssumption DEF InputsStay, LimitedOps
<1> HIDE DEF table
<1>3. \E from \in SUBSET table :
        /\ answer'.rows \in SUBSET from
        /\ Cardinality(answer'.rows) = Min({call.limit, Cardinality(from)})
  BY <1>1 DEF NamedQuery, Newest, First, kSubset, table
<1> QED
  BY <1>2, <1>3, CutIsShort

(* A portfolio, like a context, is one row, whatever it lists. *)
LEMMA OneRowWithinLimit ==
    ASSUME InputsStay, call.op \in LimitedOps, GetPortfolioState \/ GetContext,
           answer'.status = "OK"
    PROVE  Cardinality(answer'.rows) <= call.limit
<1>1. answer' = answer \/ \E row : answer'.rows = {row}
  <2>1. \A row : Reply("OK", {row}) => answer'.rows = {row}
    BY DEF Reply
  <2>2. \A rows : Hold(rows) => answer' = answer
    BY DEF Hold
  <2>3. \A status \in {"FORBIDDEN", "INVALID"} : ~ Reply(status, {})
    BY DEF Reply
  <2>4. CASE GetPortfolioState
    BY <2>1, <2>2, <2>3, <2>4 DEF GetPortfolioState
  <2>5. \A snapshot : Advise(snapshot) => \E row : answer'.rows = {row}
    BY <2>1 DEF Advise
  <2>6. CASE GetContext
    BY <2>2, <2>5, <2>6 DEF GetContext
  <2> QED
    BY <2>4, <2>6
<1>2. answer.status # "OK"
  BY DEF GetPortfolioState, GetContext, At, Pending
<1> QED
  BY <1>1, <1>2, LimitIsNumber, FS_Singleton

(* ... of the macro series and the fixed income, ... *)
LEMMA MacroWithinLimit ==
    ASSUME InputsStay, GetSeries, answer'.status = "OK"
    PROVE  Cardinality(answer'.rows) <= call.limit
<1>1. /\ call.op = "macro-observations"
      /\ answer'.rows \in SeriesObservations(call.code, call.start, call.end, call.limit)
  BY DEF GetSeries, At, Reply, Hold, Pending
<1>2. IsFiniteSet(db.macro_indicators) /\ call.limit \in Nat \ {0}
  BY <1>1, LimitAssumption DEF InputsStay, TableCut, CutOps, LimitedOps
<1> QED
  BY <1>1, <1>2, NewestIsShort DEF SeriesObservations, Observations

LEMMA FixedIncomeWithinLimit ==
    ASSUME InputsStay, GetHistory \/ GetSignals, answer'.status = "OK"
    PROVE  Cardinality(answer'.rows) <= call.limit
<1> USE LimitAssumption DEF InputsStay, TableCut, CutOps, LimitedOps
<1>1. CASE answer'.rows = {}
  BY <1>1, LimitIsNumber DEF GetHistory, GetSignals, At
<1>2. CASE GetHistory /\ answer'.rows # {}
  <2>1. /\ call.op = "fixed-income-history"
        /\ answer'.rows \in MetricsHistory(call.start, call.end, call.limit)
    BY <1>2 DEF GetHistory, At, Reply, Hold, Pending
  <2>2. IsFiniteSet(db.fixed_income_curve_metrics) /\ call.limit \in Nat \ {0}
    BY <2>1
  <2> QED
    BY <2>1, <2>2, NewestIsShort DEF MetricsHistory, MetricsOf
<1>3. CASE GetSignals /\ answer'.rows # {}
  <2>1. /\ call.op = "fixed-income-signals"
        /\ answer'.rows \in Signals(Country, {}, call.limit)
    BY <1>3 DEF GetSignals, At, Reply, Hold, Pending
  <2>2. IsFiniteSet(db.fixed_income_signals) /\ call.limit \in Nat \ {0}
    BY <2>1
  <2>3. \E from \in SUBSET db.fixed_income_signals :
            /\ answer'.rows \in SUBSET from
            /\ Cardinality(answer'.rows) = Min({call.limit, Cardinality(from)})
    BY <2>1 DEF Signals, First, kSubset
  <2> QED
    BY <2>2, <2>3, CutIsShort
<1> QED
  BY <1>1, <1>2, <1>3

(* ... of a table, ... *)
LEMMA RowsWithinLimit ==
    ASSUME InputsStay, QueryRows, answer'.status = "OK"
    PROVE  Cardinality(answer'.rows) <= call.limit
<1>1. call.op = "data-rows" /\ call.table \in DOMAIN db.schema
  BY DEF QueryRows, At, Reply, Hold, Pending
<1>2. PICK rows \in RowChoices(held) : answer'.rows = rows
  BY DEF QueryRows, At, Reply, Hold, Pending
<1>3. PICK chosen \in SymbolChoices(held) : rows \in Page(Asked(chosen, held), held)
  BY <1>2 DEF RowChoices
<1>4. PICK left \in SUBSET Asked(chosen, held) :
        rows \subseteq left /\ Cardinality(rows) = Min({call.limit, Cardinality(left)})
  BY <1>3, PageOfRows
<1>5. left \subseteq db.data[call.table]
  BY <1>3, <1>4 DEF Asked, SymbolChoices
<1>6. IsFiniteSet(db.data[call.table])
  BY <1>1, DataAssumption DEF InputsStay
<1>7. call.limit \in Nat \ {0}
  BY <1>1, LimitIsNumber DEF LimitedOps
<1> QED
  BY <1>2, <1>4, <1>5, <1>6, <1>7, CutIsShort

(* ... and of a price history, whose limit counts days before it adjusts   *)
(* them.                                                                   *)
LEMMA HistoryWithinLimit ==
    ASSUME InputsStay, HeldWithinLimit, GetPriceHistory
    PROVE  /\ answer'.status = "OK" => Cardinality(answer'.rows) <= call.limit
           /\ HeldWithinLimit'
<1>1. call.op = "price-history" /\ call.limit \in Nat \ {0} /\ call' = call
  BY LimitIsNumber, MarketActions DEF CutOps, LimitedOps, GetPriceHistory, Reply, Hold
<1>2. \A rows \in PriceHistory(call.ticker, call.start, call.end, call.limit) :
        IsFiniteSet(rows) /\ Cardinality(rows) <= call.limit
  <2> SUFFICES ASSUME NEW rows \in PriceHistory(call.ticker, call.start, call.end, call.limit)
               PROVE  IsFiniteSet(rows) /\ Cardinality(rows) <= call.limit
    OBVIOUS
  <2>1. PICK kept \in SUBSET DayBars :
            rows \subseteq kept /\ Cardinality(rows) = Min({call.limit, Cardinality(kept)})
    BY HistoryRows
  <2>2. kept \subseteq db.prices_daily
    BY <2>1 DEF DayBars, RecordedBars, OfTicker
  <2>3. IsFiniteSet(db.prices_daily)
    BY <1>1, PriceAssumption DEF InputsStay
  <2> QED
    BY <1>1, <2>1, <2>2, <2>3, CutIsShort
<1>3. CASE At("price-history", 2)
  BY <1>1, <1>3 DEF GetPriceHistory, At, Reply, HeldWithinLimit
<1>4. CASE At("price-history", 1) /\ ~ call.adjust
  BY <1>1, <1>2, <1>4 DEF GetPriceHistory, At, Reply, HeldWithinLimit
<1>5. CASE At("price-history", 1) /\ call.adjust
  <2>1. PICK rows \in PriceHistory(call.ticker, call.start, call.end, call.limit) :
            Hold({AdjustPriceDay(b) : b \in rows})
    BY <1>5, HistoryIsAdjusted
  <2>2. held' = {AdjustPriceDay(b) : b \in rows} /\ answer'.status # "OK"
    BY <1>5, <2>1 DEF Hold, At, Pending
  <2>3. Cardinality(held') <= call.limit
    BY <1>1, <1>2, <2>1, <2>2, AdjustedAreAsMany
  <2> QED
    BY <1>1, <2>2, <2>3 DEF HeldWithinLimit
<1> QED
  BY <1>3, <1>4, <1>5 DEF GetPriceHistory

LimitedNext ==
    \/ SeriesNext \/ GetPriceHistory \/ GetSearch \/ GetSectorDaily \/ GetUniverseActive
    \/ GetCapEvents \/ GetTradingCalendar \/ GetMarketNews
    \/ GetLatestSignals \/ GetAuditEvents \/ ExecuteNamedQuery
    \/ GetPortfolioState \/ GetContext
    \/ GetSeries \/ GetHistory \/ GetSignals \/ QueryRows

LEMMA LimitedStep ==
    ASSUME Next, call.op \in LimitedOps
    PROVE  LimitedNext \/ Common
<1> USE DEF LimitedOps, CutOps, LimitedNext
<1>1. CASE MarketNext
  BY <1>1, MarketActions DEF MarketNext, SeriesNext
<1>2. CASE AdvisorNext
  BY <1>2 DEF AdvisorNext, GetHealth, At
<1>3. CASE DashboardNext
  BY <1>3, OtherActions
<1>4. CASE MacroNext
  BY <1>4 DEF MacroNext, ListSeries, GetLatest, GetMacroRegime, Answers, At
<1>5. CASE FixedIncomeNext
  BY <1>5, OtherActions DEF FixedIncomeNext
<1>6. CASE DataNext
  BY <1>6 DEF DataNext, ListTables, ListColumns, At
<1> QED
  BY <1>1, <1>2, <1>3, <1>4, <1>5, <1>6 DEF Next, Common

AnswerTyped ==
    /\ step \in Nat \ {0}
    /\ writes \in 0 .. MaxWrites
    /\ answer.status \in Statuses \union {"pending"}
    /\ answer.status # "OK" => answer.rows = {}

LEMMA AnswerTypedStep ==
    ASSUME AnswerTyped, [Next]_vars
    PROVE  AnswerTyped'
<1>1. CASE UNCHANGED vars
  BY <1>1 DEF vars, AnswerTyped
<1>2. CASE OthersCommit
  BY <1>2, LimitAssumption DEF OthersCommit, AnswerTyped
<1>3. CASE StatementFails
  BY <1>3, KindsOfReply DEF StatementFails, Reply, AnswerTyped
<1>4. CASE Next /\ ~ Common
  <2>1. Proper
    BY <1>4, MarketIsProper, OthersAreProper DEF Next, Common, AnswerTyped
  <2>2. UNCHANGED <<db, call, writes>>
    BY <1>4, MarketKeepsInputs, AdvisorKeepsInputs, OthersKeepInputs DEF Next, Common
  <2> QED
    BY <2>1, <2>2 DEF Proper, AnswerTyped
<1> QED
  BY <1>1, <1>2, <1>3, <1>4 DEF Common

LEMMA WithinLimitStep ==
    ASSUME InputsStay, WithinLimit, HeldWithinLimit, [Next]_vars, AnswerTyped'
    PROVE  WithinLimit' /\ HeldWithinLimit'
<1>1. HeldWithinLimit'
  <2> SUFFICES ASSUME call.op = "price-history"
               PROVE  HeldWithinLimit'
    BY CallStays DEF HeldWithinLimit
  <2>1. CASE UNCHANGED vars \/ Common
    BY <2>1 DEF vars, Common, StatementFails, OthersCommit, Reply, HeldWithinLimit
  <2>2. CASE GetPriceHistory
    BY <2>2, HistoryWithinLimit
  <2> QED
    BY <2>1, <2>2, HistoryStep
<1>2. WithinLimit'
  <2> SUFFICES ASSUME call.op \in LimitedOps
               PROVE  Cardinality(answer'.rows) <= call.limit
    BY CallStays DEF WithinLimit
  <2>1. CASE UNCHANGED vars
    BY <2>1 DEF vars, WithinLimit
  <2>2. CASE Common
    BY <2>2, LimitIsNumber DEF Common, StatementFails, OthersCommit, Reply, WithinLimit
  <2>3. CASE answer'.status # "OK"
    <3>1. answer'.rows = {}
      BY <2>3 DEF AnswerTyped
    <3> QED
      BY <3>1, LimitIsNumber
  <2>4. CASE LimitedNext /\ answer'.status = "OK"
    BY <2>4, SeriesWithinLimit, MarketWithinLimit, SignalsWithinLimit, NamedWithinLimit,
       OneRowWithinLimit, MacroWithinLimit, FixedIncomeWithinLimit, RowsWithinLimit,
       HistoryWithinLimit
    DEF LimitedNext
  <2> QED
    BY <2>1, <2>2, <2>3, <2>4, LimitedStep
<1> QED
  BY <1>1, <1>2

(* Whatever is asked and whatever commits meanwhile, an answer is of a     *)
(* kind its routes have, an error carries no rows, and no answer has more  *)
(* rows than were asked for.                                               *)
THEOREM AnswersTypeCorrect == Spec => []TypeOK
<1> DEFINE IInv == AnswerTyped /\ WithinLimit /\ HeldWithinLimit
<1>1. Init => IInv
  <2> SUFFICES ASSUME Init
               PROVE  IInv
    OBVIOUS
  <2>1. AnswerTyped
    BY LimitAssumption DEF Init, Pending, AnswerTyped
  <2>2. answer.rows = {} /\ InputsStay /\ step # 2
    BY DEF Init, Pending, InputsStay
  <2> QED
    BY <2>1, <2>2, LimitIsNumber DEF WithinLimit, HeldWithinLimit
<1>2. InputsStay /\ IInv /\ [Next]_vars => IInv'
  BY AnswerTypedStep, WithinLimitStep
<1>3. InputsStay /\ IInv => TypeOK
  BY DEF InputsStay, AnswerTyped, WithinLimit, TypeOK
<1> QED
  BY <1>1, <1>2, <1>3, SpecInputs, PTL DEF Spec
===============================================================================
