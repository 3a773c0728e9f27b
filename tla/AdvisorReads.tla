---------------------------- MODULE AdvisorReads ----------------------------
(***************************************************************************)
(* The signals, portfolio, advisor, health and admin reads: those of the   *)
(* smaller services, over the same repository as the market data.          *)
(*                                                                         *)
(* The chat hands its context to OpenAI, which answers or fails; the       *)
(* request keeps its database session until then.  What the process is     *)
(* configured with (an OpenAI key, a Redis) is part of the call, and so is *)
(* whether the guard takes the question for safe.                          *)
(***************************************************************************)
EXTENDS MarketDataRepository

GetLatestSignals == Answers("signals", LatestSignals(call.limit, call.about))

(***************************************************************************)
(* Portfolio.  The owner is checked and named, but there is one portfolio: *)
(* no SELECT mentions an owner.                                            *)
(***************************************************************************)
OfAnother == call.principal = "user" /\ call.owner \ {call.subject} # {}
OfNobody == call.principal = "service" /\ call.owner = {}
EffectiveOwner == IF call.principal = "user" THEN {call.subject} ELSE call.owner

GetPortfolioState ==
    \/ At("portfolio", 1) /\ OfAnother /\ Reply("FORBIDDEN", {})
    \/ At("portfolio", 1) /\ OfNobody /\ Reply("INVALID", {})
    \/ At("portfolio", 1) /\ ~ OfAnother /\ ~ OfNobody /\ Hold(PortfolioValuation)
    \/ /\ At("portfolio", 2)
       /\ \E positions \in PortfolioPositions(call.limit) :
            Reply("OK", {[owner |-> EffectiveOwner, valuation |-> held,
                          positions |-> positions]})

(***************************************************************************)
(* Advisor: tickers, then news, then the snapshot of the ticker asked      *)
(* about, if any.  A chat gathers the same for its question.               *)
(***************************************************************************)
TickerLimit == call.limit
NewsLimit == call.limit
NoSnapshot == {}

(* The refusal comes after the context: it is gathered for nothing. *)
ChatAnswers(snapshot) ==
    IF ~ call.safe THEN {"refusal"}
    ELSE IF ~ call.openai
         THEN IF snapshot = NoSnapshot THEN {"unconfigured"} ELSE {"snapshot"}
         ELSE {"generated", "unavailable"}

Advise(snapshot) ==
    LET context == [tickers |-> held.tickers, news |-> held.news, snapshot |-> snapshot]
    IN  \/ call.op = "context" /\ Reply("OK", {context})
        \/ call.op = "chat" /\ \E said \in ChatAnswers(snapshot) :
            Reply("OK", {[said |-> said,
                          rows |-> Cardinality(context.news) + Cardinality(snapshot)]})

GetContext ==
    \E op \in {"context", "chat"} :
        \/ /\ At(op, 1)
           /\ \E tickers \in ActiveTickers(TickerLimit) : Hold([tickers |-> tickers])
        \/ /\ At(op, 2)
           /\ \E news \in RecentNews(NewsLimit) :
                Hold([tickers |-> held.tickers, news |-> news])
        \/ At(op, 3) /\ call.about = {} /\ Advise(NoSnapshot)
        \/ /\ At(op, 3)
           /\ \E ticker \in call.about :
                LET snapshots == LatestSnapshot(ticker)
                IN  \/ snapshots = {} /\ Advise(NoSnapshot)
                    \/ \E s \in snapshots : Advise({s})

(***************************************************************************)
(* Health: always "healthy"; it says what of the rest is reachable.        *)
(***************************************************************************)
CheckRedis == IF call.redis THEN {"up", "down"} ELSE {"none"}

GetHealth ==
    /\ At("health", 1)
    /\ \E reachable \in BOOLEAN, redis \in CheckRedis :
        Reply("OK", {[database |-> reachable, redis |-> redis]})

(***************************************************************************)
(* Admin.                                                                  *)
(***************************************************************************)
GetAuditEvents == Answers("audit-events", AdminAuditEvents(call.limit, call.categories))

ExecuteNamedQuery ==
    \/ /\ At("named-query", 1)
       /\ call.name \notin DOMAIN CuratedQueries
       /\ Reply("INVALID", {})
    \/ /\ call.op = "named-query" /\ call.name \in DOMAIN CuratedQueries
       /\ Answers("named-query", NamedQuery(call.name, call.limit))

AdvisorNext ==
    \/ GetLatestSignals \/ GetPortfolioState \/ GetContext \/ GetHealth
    \/ GetAuditEvents \/ ExecuteNamedQuery
===============================================================================
