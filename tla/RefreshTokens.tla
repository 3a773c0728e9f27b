---------------------------- MODULE RefreshTokens ----------------------------
(***************************************************************************)
(* POST /api/v1/auth/service-token and POST /api/v1/auth/refresh, with the *)
(* table iam.refresh_tokens they share (app/api/routes/auth.py,            *)
(* app/services/auth_token_service.py,                                     *)
(* app/repositories/sql_refresh_tokens.py).                                *)
(*                                                                         *)
(* Every request runs in a thread, and on a database session, of its own;  *)
(* PostgreSQL runs the sessions at READ COMMITTED.  So one action is one   *)
(* SQL statement with the Python up to the next statement, and:            *)
(*   - a statement reads the rows committed when it starts;                *)
(*   - SELECT ... FOR UPDATE, and an UPDATE of a row, wait while another   *)
(*     transaction holds the row, then look at the row again as committed; *)
(*   - what a transaction wrote is seen by others only once it commits,    *)
(*     which also releases the rows it holds.                              *)
(*                                                                         *)
(* A row of the table is named by its position in the order of commits     *)
(* (the code's uuid and the raw token's hash both identify it).  Raw       *)
(* tokens, hashes and dates are left out: presenting a token is presenting *)
(* its row, and a row is expired or not.                                   *)
(***************************************************************************)
EXTENDS Naturals, Sequences

CONSTANTS
    Clients,        \* rows of iam.service_clients
    Scopes,         \* scope strings
    Satisfies,      \* Satisfies[s]: the scopes a granted scope s covers
    Registrations,  \* what the operators may register for a client
    Requests        \* HTTP requests, each served once

Registration == [active: BOOLEAN, shortLived: BOOLEAN, scopes: SUBSET Scopes]

ASSUME RegistrationsAreRegistrations == Registrations \subseteq Registration

ASSUME ScopesSatisfyThemselves ==
    /\ Satisfies \in [Scopes -> SUBSET Scopes]
    /\ \A s \in Scopes : s \in Satisfies[s]

VARIABLES
    registry,   \* iam.service_clients and iam.service_client_scopes
    table,      \* the committed rows of iam.refresh_tokens, oldest first
    pc,         \* where each request is, or how it ended
    caller,     \* the client whose credentials the request carries
    presented,  \* the row of the token it presents; NoToken asks for a first one
    client,     \* the ServiceClient it loaded
    reason,     \* why it revokes
    scan,       \* the rows its revoking UPDATE selected from
    todo,       \* the rows that UPDATE has still to visit
    held        \* the row locks of its open transaction

requestVars == <<caller, presented, client>>
revocationVars == <<reason, scan, todo>>
vars == <<registry, table, pc, requestVars, revocationVars, held>>

NoToken == 0

Row == [owner: Clients, scopes: SUBSET Scopes, expired: BOOLEAN,
        revoked: BOOLEAN, replacedBy: Nat]

Rows == 1..Len(table)

NewRow(c, S) == [owner |-> c, scopes |-> S, expired |-> FALSE,
                 revoked |-> FALSE, replacedBy |-> NoToken]

(***************************************************************************)
(* Where a request is, named for what it did last, and how it ends: with a *)
(* first refresh token, with an access token only, with a rotated token,   *)
(* refused (401 or 403), `revoked` (401 after a committed revocation), or  *)
(* `failed` (a database error or a crash lost the open transaction).       *)
(***************************************************************************)
Running == {"loaded", "verified", "checked", "locked", "revoke", "revoking"}
Ended == {"issued", "accessOnly", "rotated", "refused", "revoked", "failed"}

FamilyReasons == {"reuse", "mismatch"}
ClientReasons == {"disabled", "unscoped"}
NoReason == "none"

NoClient == [active |-> FALSE, shortLived |-> FALSE, scopes |-> {}]

(***************************************************************************)
(* The rows WITH RECURSIVE family ... UNION finds from t by following      *)
(* replaced_by: the least set that has t and is closed under it.           *)
(***************************************************************************)
FollowsReplacedBy(S) ==
    \A u \in S : table[u].replacedBy \in Rows => table[u].replacedBy \in S

Family(t) ==
    {u \in Rows : \A S \in SUBSET Rows : t \in S /\ FollowsReplacedBy(S) => u \in S}

HeldByOther(r, t) == \E q \in Requests \ {r} : t \in held[q]

(***************************************************************************)
(* has_required_scopes: some granted scope covers each required one.       *)
(***************************************************************************)
HasRequiredScopes(granted, required) ==
    \A s \in required : \E g \in granted : s \in Satisfies[g]

(* Mutant: the replacement gets whatever the client is granted now. *)
LiveScopesRegranted(r) == client[r].scopes

(***************************************************************************)
(* The scopes of the presented token that the loaded client still lists.   *)
(***************************************************************************)
LiveScopes(r) == table[presented[r]].scopes \intersect client[r].scopes

GoTo(r, l) == pc' = [pc EXCEPT ![r] = l]

Init ==
    /\ registry \in [Clients -> {g \in Registrations : g.active}]
    /\ table = << >>
    /\ pc = [r \in Requests |-> "idle"]
    /\ caller \in [Requests -> Clients]
    /\ presented = [r \in Requests |-> NoToken]
    /\ client = [r \in Requests |-> NoClient]
    /\ reason = [r \in Requests |-> NoReason]
    /\ scan = [r \in Requests |-> {}]
    /\ todo = [r \in Requests |-> {}]
    /\ held = [r \in Requests |-> {}]

-----------------------------------------------------------------------------
(* Mutant: a request may present a row that is not committed yet. *)
LoadClientDirtyRead(r) ==
    /\ pc[r] = "idle" /\ registry[caller[r]].active
    /\ \E t \in 0..(Len(table) + 1) : presented' = [presented EXCEPT ![r] = t]
    /\ client' = [client EXCEPT ![r] = registry[caller[r]]]
    /\ GoTo(r, "loaded")
    /\ UNCHANGED <<registry, table, caller, revocationVars, held>>

(***************************************************************************)
(* get_service_client: one SELECT of an active client with its scopes.     *)
(* The record it returns is what the whole request goes by, however the    *)
(* registry changes meanwhile.  A refresh request presents the token of    *)
(* some row, a service-token request none.                                 *)
(***************************************************************************)
LoadClient(r) ==
    /\ pc[r] = "idle"
    /\ \E t \in Rows \union {NoToken} : presented' = [presented EXCEPT ![r] = t]
    /\ \/ /\ registry[caller[r]].active
          /\ client' = [client EXCEPT ![r] = registry[caller[r]]]
          /\ GoTo(r, "loaded")
       \/ /\ ~registry[caller[r]].active
          /\ GoTo(r, "refused")
          /\ UNCHANGED client
    /\ UNCHANGED <<registry, table, caller, revocationVars, held>>

(***************************************************************************)
(* verify_service_client_secret: its own transaction, committed.  Only a   *)
(* client that is still active has a secret (disabling it revokes them,    *)
(* deploy/iam_api_key_schema.sql); a wrong secret is refused.              *)
(***************************************************************************)
VerifySecret(r) ==
    /\ pc[r] = "loaded"
    /\ \/ registry[caller[r]].active /\ GoTo(r, "verified")
       \/ GoTo(r, "refused")
    /\ UNCHANGED <<registry, table, requestVars, revocationVars, held>>

(***************************************************************************)
(* validate_requested_scopes and AuthTokenService.issue_service_token: the *)
(* request names scopes its client covers, or none and gets all of them;   *)
(* only a short-lived client gets a refresh token, by INSERT and commit.   *)
(***************************************************************************)
IssueServiceToken(r) ==
    /\ pc[r] = "verified" /\ presented[r] = NoToken
    /\ \E requested \in SUBSET Scopes :
         LET granted == IF requested = {} THEN client[r].scopes ELSE requested
         IN  IF ~HasRequiredScopes(client[r].scopes, requested)
             THEN GoTo(r, "refused") /\ UNCHANGED table
             ELSE IF ~client[r].shortLived
             THEN GoTo(r, "accessOnly") /\ UNCHANGED table
             ELSE /\ GoTo(r, "issued")
                  /\ table' = Append(table, NewRow(caller[r], granted))
    /\ UNCHANGED <<registry, requestVars, revocationVars, held>>

(***************************************************************************)
(* lookup_active and the checks of AuthTokenService.refresh after it: a    *)
(* SELECT without a lock, and a decision on what it returned.  A revoked   *)
(* row that was rotated is reuse; its family is revoked (_reject_revoked). *)
(***************************************************************************)
LookupVerdictAnyClient(r) ==  \* mutant: does not compare the client_id
    LET row == table[presented[r]]
    IN  IF row.revoked
        THEN IF row.replacedBy # NoToken THEN "reuse" ELSE "refused"
        ELSE IF row.expired THEN "refused"
        ELSE IF ~client[r].shortLived THEN "disabled"
        ELSE IF LiveScopes(r) = {} THEN "unscoped"
        ELSE "checked"

LookupVerdict(r) ==
    LET row == table[presented[r]]
    IN  IF row.revoked
        THEN IF row.replacedBy # NoToken THEN "reuse" ELSE "refused"
        ELSE IF row.expired THEN "refused"
        ELSE IF row.owner # caller[r] THEN "mismatch"
        ELSE IF ~client[r].shortLived THEN "disabled"
        ELSE IF LiveScopes(r) = {} THEN "unscoped"
        ELSE "checked"

(* Mutant: the lookup already locks its row, FOR SHARE. *)
LookupActiveForShare(r) ==
    /\ pc[r] = "verified" /\ presented[r] # NoToken
    /\ IF LookupVerdict(r) \in FamilyReasons \union ClientReasons
       THEN /\ GoTo(r, "revoke")
            /\ reason' = [reason EXCEPT ![r] = LookupVerdict(r)]
            /\ UNCHANGED held
       ELSE /\ GoTo(r, LookupVerdict(r))
            /\ held' = [held EXCEPT ![r] = {t \in {presented[r]} : LookupVerdict(r) = "checked"}]
            /\ UNCHANGED reason
    /\ UNCHANGED <<registry, table, requestVars, scan, todo>>

LookupActive(r) ==
    /\ pc[r] = "verified" /\ presented[r] # NoToken
    /\ IF LookupVerdict(r) \in FamilyReasons \union ClientReasons
       THEN /\ GoTo(r, "revoke")
            /\ reason' = [reason EXCEPT ![r] = LookupVerdict(r)]
       ELSE GoTo(r, LookupVerdict(r)) /\ UNCHANGED reason
    /\ UNCHANGED <<registry, table, requestVars, scan, todo, held>>

(* Mutant: SELECT without FOR UPDATE. *)
LockPresentedWithoutLock(r) ==
    /\ pc[r] = "checked"
    /\ GoTo(r, IF table[presented[r]].revoked THEN "refused" ELSE "locked")
    /\ UNCHANGED <<registry, table, requestVars, revocationVars, held>>

(* Mutant: waits for the row, then trusts what the lookup saw. *)
LockPresentedWithoutRecheck(r) ==
    /\ pc[r] = "checked" /\ ~HeldByOther(r, presented[r])
    /\ GoTo(r, "locked")
    /\ held' = [held EXCEPT ![r] = {presented[r]}]
    /\ UNCHANGED <<registry, table, requestVars, revocationVars>>

(***************************************************************************)
(* rotate, up to its INSERT: SELECT ... FOR UPDATE waits for the row, then *)
(* checks it as it is now.  The loser of two rotations finds it rotated    *)
(* and goes on to revoke the family in the same transaction, lock in hand. *)
(***************************************************************************)
LockPresented(r) ==
    /\ pc[r] = "checked"
    /\ ~HeldByOther(r, presented[r])
    /\ LET row == table[presented[r]]
       IN  \/ /\ row.revoked /\ row.replacedBy # NoToken
              /\ GoTo(r, "revoke")
              /\ reason' = [reason EXCEPT ![r] = "reuse"]
              /\ held' = [held EXCEPT ![r] = {presented[r]}]
           \/ /\ IF row.revoked THEN row.replacedBy = NoToken ELSE row.expired
              /\ GoTo(r, "refused")
              /\ UNCHANGED <<reason, held>>
           \/ /\ ~row.revoked /\ ~row.expired
              /\ GoTo(r, "locked")
              /\ held' = [held EXCEPT ![r] = {presented[r]}]
              /\ UNCHANGED reason
    /\ UNCHANGED <<registry, table, requestVars, scan, todo>>

(* Mutant: the presented row gets its replaced_by but no revoked_at. *)
CommitRotationKeepingOld(r) ==
    /\ pc[r] = "locked"
    /\ table' = Append([table EXCEPT ![presented[r]].replacedBy = Len(table) + 1],
                       NewRow(table[presented[r]].owner, LiveScopes(r)))
    /\ held' = [held EXCEPT ![r] = {}]
    /\ GoTo(r, "rotated")
    /\ UNCHANGED <<registry, requestVars, revocationVars>>

(***************************************************************************)
(* rotate, the rest: INSERT the replacement, UPDATE the presented row,     *)
(* commit.  Neither write shows before the commit, so they are one step;   *)
(* Fail stands for losing both.                                            *)
(***************************************************************************)
CommitRotation(r) ==
    /\ pc[r] = "locked"
    /\ table' = Append([table EXCEPT ![presented[r]] =
                          [@ EXCEPT !.revoked = TRUE, !.replacedBy = Len(table) + 1]],
                       NewRow(table[presented[r]].owner, LiveScopes(r)))
    /\ held' = [held EXCEPT ![r] = {}]
    /\ GoTo(r, "rotated")
    /\ UNCHANGED <<registry, requestVars, revocationVars>>

-----------------------------------------------------------------------------
(* Mutant: reuse revokes the token that was presented, not its family. *)
BeginRevocationOfOne(r) ==
    /\ pc[r] = "revoke"
    /\ scan' = [scan EXCEPT ![r] = {presented[r]}]
    /\ todo' = [todo EXCEPT ![r] = {presented[r]}]
    /\ GoTo(r, "revoking")
    /\ UNCHANGED <<registry, table, requestVars, reason, held>>

(***************************************************************************)
(* revoke_family and revoke_active_for_client are one UPDATE each, but an  *)
(* UPDATE is not atomic at READ COMMITTED.  BeginRevocation takes the      *)
(* statement's snapshot and selects the unrevoked rows in it.              *)
(***************************************************************************)
BeginRevocation(r) ==
    /\ pc[r] = "revoke"
    /\ LET target == table[presented[r]]
           selected == IF reason[r] \in FamilyReasons THEN Family(presented[r])
                       ELSE {u \in Rows : table[u].owner = target.owner}
       IN  /\ scan' = [scan EXCEPT ![r] = selected]
           /\ todo' = [todo EXCEPT ![r] = {u \in selected : ~table[u].revoked}]
    /\ GoTo(r, "revoking")
    /\ UNCHANGED <<registry, table, requestVars, reason, held>>

(* Mutant: SKIP LOCKED. *)
VisitRowSkippingLocked(r) ==
    /\ pc[r] = "revoking"
    /\ \E t \in todo[r] :
         /\ todo' = [todo EXCEPT ![r] = @ \ {t}]
         /\ held' = [held EXCEPT ![r] = @ \union {u \in {t} : ~HeldByOther(r, u)}]
    /\ UNCHANGED <<registry, table, pc, requestVars, reason, scan>>

(***************************************************************************)
(* The UPDATE visits the selected rows in no order the code fixes.  It     *)
(* waits for a row that another transaction holds, and holds the row from  *)
(* then on; `revoked_at IS NULL`, checked again, spares a row that was     *)
(* revoked meanwhile, which is no different from revoking it once more.    *)
(***************************************************************************)
VisitRow(r) ==
    /\ pc[r] = "revoking"
    /\ \E t \in todo[r] :
         /\ ~HeldByOther(r, t)
         /\ todo' = [todo EXCEPT ![r] = @ \ {t}]
         /\ held' = [held EXCEPT ![r] = @ \union {t}]
    /\ UNCHANGED <<registry, table, pc, requestVars, reason, scan>>

(* Mutant: the request ends without a commit, its transaction left open. *)
CommitRevocationLeftOpen(r) ==
    /\ pc[r] = "revoking" /\ todo[r] = {}
    /\ GoTo(r, "revoked")
    /\ UNCHANGED <<registry, table, requestVars, revocationVars, held>>

(***************************************************************************)
(* The commit shows the revocations and releases the rows, the presented   *)
(* row of a losing rotation among them (it is revoked already).            *)
(***************************************************************************)
CommitRevocation(r) ==
    /\ pc[r] = "revoking" /\ todo[r] = {}
    /\ table' = [t \in Rows |->
                   IF t \in held[r] THEN [table[t] EXCEPT !.revoked = TRUE]
                   ELSE table[t]]
    /\ held' = [held EXCEPT ![r] = {}]
    /\ GoTo(r, "revoked")
    /\ UNCHANGED <<registry, requestVars, revocationVars>>

(***************************************************************************)
(* A statement fails, or the worker dies: the open transaction rolls back  *)
(* and the request is answered 503, or not at all.                         *)
(***************************************************************************)
Fail(r) ==
    /\ pc[r] \in Running
    /\ GoTo(r, "failed")
    /\ held' = [held EXCEPT ![r] = {}]
    /\ todo' = [todo EXCEPT ![r] = {}]
    /\ UNCHANGED <<registry, table, requestVars, reason, scan>>

(***************************************************************************)
(* PostgreSQL ends a cycle of transactions that wait for each other's rows *)
(* by failing one of them (external: the code fixes no order of rows).     *)
(***************************************************************************)
Awaited(r) == CASE pc[r] = "checked"  -> {presented[r]}
                [] pc[r] = "revoking" -> todo[r]
                [] OTHER              -> {}

Deadlocked(r) ==
    \E D \in SUBSET Requests :
        /\ r \in D
        /\ \A p \in D : /\ Awaited(p) # {}
                        /\ \A t \in Awaited(p) : \E q \in D \ {p} : t \in held[q]

DetectDeadlock(r) == Deadlocked(r) /\ Fail(r)

(***************************************************************************)
(* The rest of the world: a token's expires_at passes; the operators       *)
(* change an active client's registration.  A client that was disabled     *)
(* comes back only through provisioning, which is not modelled here.       *)
(***************************************************************************)
Expire ==
    /\ \E t \in Rows : ~table[t].expired /\ table' = [table EXCEPT ![t] = [@ EXCEPT !.expired = TRUE]]
    /\ UNCHANGED <<registry, pc, requestVars, revocationVars, held>>

Reregister ==
    /\ \E c \in Clients, g \in Registrations :
         registry[c].active /\ registry' = [registry EXCEPT ![c] = g]
    /\ UNCHANGED <<table, pc, requestVars, revocationVars, held>>

-----------------------------------------------------------------------------
Serve(r) ==
    \/ LoadClient(r)
    \/ VerifySecret(r)
    \/ IssueServiceToken(r)
    \/ LookupActive(r)
    \/ LockPresented(r)
    \/ CommitRotation(r)
    \/ BeginRevocation(r)
    \/ VisitRow(r)
    \/ CommitRevocation(r)

Next ==
    \/ \E r \in Requests : Serve(r) \/ Fail(r)
    \/ Expire
    \/ Reregister

Spec == Init /\ [][Next]_vars

(***************************************************************************)
(* A thread that can run its next statement runs it, and PostgreSQL breaks *)
(* deadlocks.  Failures, expiry, operators and new requests owe nothing.   *)
(***************************************************************************)
Fairness ==
    \A r \in Requests :
        /\ WF_vars(pc[r] # "idle" /\ Serve(r))
        /\ WF_vars(DetectDeadlock(r))

FairSpec == Spec /\ Fairness

-----------------------------------------------------------------------------
(***************************************************************************)
(* Types of every variable.                                                *)
(***************************************************************************)
TypeOK ==
    /\ registry \in [Clients -> Registrations]
    /\ table \in Seq(Row)
    /\ pc \in [Requests -> {"idle"} \union Running \union Ended]
    /\ caller \in [Requests -> Clients]
    /\ presented \in [Requests -> Rows \union {NoToken}]
    /\ client \in [Requests -> Registration]
    /\ reason \in [Requests -> FamilyReasons \union ClientReasons \union {NoReason}]
    /\ scan \in [Requests -> SUBSET Rows]
    /\ todo \in [Requests -> SUBSET Rows]
    /\ held \in [Requests -> SUBSET Rows]

(***************************************************************************)
(* Whatever requests run together, the rows from any token on hold at most *)
(* one token that is still active, and nobody but its newest row is.       *)
(***************************************************************************)
OneActivePerFamily ==
    \A t \in Rows : \A u, w \in Family(t) :
        ~table[u].revoked => w <= u

(***************************************************************************)
(* Rotate-on-use: of all the requests that ever present one token, however *)
(* they overlap, at most one is answered with a new token.                 *)
(***************************************************************************)
RotatedAtMostOnce ==
    \A r, q \in Requests :
        /\ pc[r] = "rotated" /\ pc[q] = "rotated"
        /\ presented[r] = presented[q]
        => r = q

(***************************************************************************)
(* A rotation keeps the client and never adds a scope (auth_token_service  *)
(* intersects, rotate copies client_id), also along a whole family.        *)
(***************************************************************************)
FamilyNeverGains ==
    \A t \in Rows : \A u \in Family(t) :
        /\ table[u].owner = table[t].owner
        /\ table[u].scopes \subseteq table[t].scopes

(***************************************************************************)
(* Nobody but the client a token belongs to gets a token for it.           *)
(***************************************************************************)
OnlyOwnerRotates ==
    \A r \in Requests : pc[r] = "rotated" => caller[r] = table[presented[r]].owner

(***************************************************************************)
(* A revocation that committed has revoked every row its statement         *)
(* selected, those another transaction held meanwhile included.            *)
(***************************************************************************)
SelectedRowsRevoked ==
    \A r \in Requests : pc[r] = "revoked" => \A t \in scan[r] : table[t].revoked

(***************************************************************************)
(* test_concurrent_rotation_of_one_token_leaves_no_live_family: when one   *)
(* request rotated a token, another presented the same token and was told  *)
(* it was used, and nobody presented a token after it, the family is dead: *)
(* the winner's new token too.                                             *)
(***************************************************************************)
RacersCutEachOtherOff ==
    \A r, q \in Requests :
        /\ pc[r] = "rotated" /\ pc[q] = "revoked" /\ reason[q] = "reuse"
        /\ presented[r] = presented[q]
        /\ \A p \in Requests : presented[p] \in Family(presented[r]) =>
              presented[p] = presented[r]
        => \A t \in Family(presented[r]) : table[t].revoked

(***************************************************************************)
(* Waiting for the row it presents, a request never closes a cycle: every  *)
(* deadlock has two revoking UPDATEs in it that came to the same rows in   *)
(* different orders.                                                       *)
(***************************************************************************)
CutsAcross(p, q) ==
    /\ p # q /\ pc[p] = "revoking" /\ pc[q] = "revoking"
    /\ held[p] # {} /\ todo[p] \intersect held[q] # {}

DeadlocksAreOfRevocations ==
    \A r \in Requests : Deadlocked(r) => \E p, q \in Requests : CutsAcross(p, q)

(***************************************************************************)
(* What the module docstring of sql_refresh_tokens.py promises of a token  *)
(* that was already rotated and is presented again: every descendant in    *)
(* its family is revoked, so whoever holds the newest token is cut off.    *)
(***************************************************************************)
ReuseRevokesEveryDescendant ==
    \A r \in Requests :
        pc[r] = "revoked" /\ reason[r] = "reuse" =>
            \A t \in Family(presented[r]) : table[t].revoked

(***************************************************************************)
(* The message of a refusal, "Refresh token scopes are no longer granted", *)
(* with docs/API_REFERENCE.md, "admin:* - all admin scopes (wildcard)": a  *)
(* client is cut off for its scopes only if it is granted none of those    *)
(* the token it presents holds.                                            *)
(***************************************************************************)
CutOffOnlyWithoutGrants ==
    \A r \in Requests : reason[r] = "unscoped" =>
        \A s \in table[presented[r]].scopes :
            ~HasRequiredScopes(client[r].scopes, {s})

(***************************************************************************)
(* The table only remembers more: no row goes away or changes hands, a     *)
(* revocation is never undone and replaced_by is written once.             *)
(***************************************************************************)
KeepsHistory ==
    \A t \in Rows :
        /\ t \in Rows'
        /\ table'[t].owner = table[t].owner
        /\ table'[t].scopes = table[t].scopes
        /\ table[t].revoked => /\ table'[t].revoked
                               /\ table'[t].replacedBy = table[t].replacedBy

HistoryIsKept == [][KeepsHistory]_vars

(***************************************************************************)
(* Every request that entered the service is answered, whatever rows the   *)
(* others hold.                                                            *)
(***************************************************************************)
EveryRequestEnds ==
    \A r \in Requests : pc[r] = "loaded" ~> pc[r] \in Ended

(***************************************************************************)
(* The table implements TokenFamilies: statements, locks and snapshots     *)
(* show as its atomic Mint, Exchange and Revoke.                           *)
(***************************************************************************)
FamilyToken(row) == [owner |-> row.owner, scopes |-> row.scopes,
                     live |-> ~row.revoked, heir |-> row.replacedBy]

familyTokens == [t \in Rows |-> FamilyToken(table[t])]

Families == INSTANCE TokenFamilies WITH tokens <- familyTokens

ImplementsFamilies == Families!Spec
=============================================================================
