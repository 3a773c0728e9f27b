--------------------------- MODULE AdminDashboard ---------------------------
(***************************************************************************)
(* The admin dashboard: seven statements in the one session of a request,  *)
(* each filling a section.  A section whose statement fails is shown as a  *)
(* placeholder, by the repository's method or by the service that calls    *)
(* it.  Neither rolls the transaction back, so the statements after the    *)
(* failed one fail too.  Which statements the database fails by itself is  *)
(* chosen with the request, in call.faults.                                *)
(***************************************************************************)
EXTENDS MarketDataRepository

CONSTANT ScopeColumns   \* of iam.service_client_scopes, as deployed

Sections == <<"health", "version", "tables", "workers", "tickers", "clients", "events">>
Section == Sections[step]

RaisesMore == {"health", "tables", "tickers", "events"}     \* Mutant: the count raises

(* Which methods raise an error, and which errors the service catches.     *)
Raises == {"health", "tables", "events"}
Caught == {"health", "tables", "events"}

Placeholder == [section |-> Section, failed |-> TRUE, rows |-> {}]
Shown(rows) == [section |-> Section, failed |-> FALSE, rows |-> rows]

(* The subquery counts the scopes by client_id. *)
ClientSummaryRuns == "client_id" \in ScopeColumns

SectionRows(section) ==
    CASE section = "health" -> {{[up |-> TRUE]}}
      [] section = "version" -> {{[version |-> 1]}}
      [] section = "tables" -> {db.pg_stat_user_tables}
      [] section = "workers" -> {WorkerHeartbeats}
      [] section = "tickers" ->
            {{[count |-> Cardinality({i \in db.instruments : i.active})]}}
      [] section = "clients" -> {db.service_clients}
      [] OTHER -> AdminAuditEvents(10, {})

Aborted == \E part \in held : part.failed /\ part.section # "health"

Runs ==
    /\ ~ Aborted
    /\ Section \notin call.faults
    /\ Section = "clients" => ClientSummaryRuns

Fill(part, skipped) ==
    /\ held' = held \union {part}
    /\ step' = step + 1 + skipped
    /\ UNCHANGED <<db, call, answer, writes>>

(***************************************************************************)
(* The check of the connection is the first statement.  When it fails the  *)
(* version is skipped, and the next statement connects anew: there was no  *)
(* transaction yet.                                                        *)
(***************************************************************************)
FillSection ==
    /\ call.op = "dashboard" /\ answer = Pending
    /\ step \in DOMAIN Sections
    /\ Runs
    /\ \E rows \in SectionRows(Section) : Fill(Shown(rows), 0)

SectionFails ==
    /\ call.op = "dashboard" /\ answer = Pending
    /\ step \in DOMAIN Sections
    /\ ~ Runs
    /\ IF Section \in Raises \ Caught THEN Reply("UNAVAILABLE", {})
       ELSE Fill(Placeholder, IF Section = "health" THEN 1 ELSE 0)

ShowDashboard ==
    /\ call.op = "dashboard" /\ answer = Pending
    /\ step \notin DOMAIN Sections
    /\ Reply("OK", held)

DashboardNext == FillSection \/ SectionFails \/ ShowDashboard
===============================================================================
