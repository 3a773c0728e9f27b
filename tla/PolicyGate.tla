------------------------------ MODULE PolicyGate ------------------------------
(***************************************************************************)
(* Who is let in while operators change the policy.  A service client      *)
(* exchanges a user's token for a delegated one (POST /auth/delegated-     *)
(* token); a delegated token, a service token or a client certificate is   *)
(* presented to a protected route (require_scopes, enforce_policy).  Each  *)
(* check is an SQL statement of its own, at READ COMMITTED: between two of *)
(* them the tables may change.  A plain user's token, or personal key,     *)
(* meets no policy at all and is left out.  Enforcement is switched on, as *)
(* the settings require in production.                                     *)
(*                                                                         *)
(* The tables belong to another system and its operators; here they change *)
(* at most MaxChanges times.  One client is modelled, and of the joins     *)
(* only what they tell apart: the tenant of the client's active            *)
(* application, the active members of each tenant, and the versions of the *)
(* policy that are active, effective and entitle a tenant.  Checking a     *)
(* secret belongs to loading the client: it writes only last_used_* and an *)
(* event.  A token is named after the request that issued it.              *)
(***************************************************************************)
EXTENDS Naturals, FiniteSets

CONSTANTS
    Requests, Subjects, Tenants,
    Versions,           \* of the policy, numbers
    Scopes,             \* scopes that a route may require
    Satisfies,          \* the scopes each granted scope covers
    Delegable,          \* LENS_DELEGATED_READ_SCOPES
    Delegate,           \* lens:delegate
    Modes,              \* service_client_auth_mode
    EnvironmentScopes,  \* of the client in SERVICE_CLIENTS_JSON, {} if not there
    Registrations,      \* rows the client may have in the registry
    MaxChanges,
    NoTenant

ASSUME VersionsAreNumbers == Versions \subseteq Nat /\ IsFiniteSet(Versions)

VARIABLES
    tenantOf,       \* the tenant of the client's application
    members,        \* per tenant, the subjects with an active membership
    entitled,       \* per tenant, the versions that entitle it
    locks,          \* active locks that have not expired
    revoked,        \* tokens with a revocation that has not expired
    registered,     \* the client's row: active, scopes
    mode,
    changes,        \* how often the tables have changed
    expired,        \* tokens past their exp
    op, subject, presents, needs,   \* what a request asks for
    pc,
    scopes,         \* the scopes a request goes by
    grant,          \* the tenant and version it was granted
    blocked         \* why it was to be rejected ever since it arrived

policyVars == <<tenantOf, members, entitled, locks, revoked, registered, changes>>
argumentVars == <<op, subject, presents, needs>>
vars == <<policyVars, mode, expired, argumentVars, pc, scopes, grant, blocked>>

Operations == {"delegate", "delegated", "service", "mtls"}
Open == {"loading", "granting", "entitling", "locking", "revoking"}
NoGrant == [tenant |-> NoTenant, version |-> 0]

Tokens == {r \in Requests : pc[r] = "issued"}

LockScopes == {"GLOBAL", "APPLICATION"} \union Subjects \union Tenants \union Requests

Covers(S, s) == \E g \in S : s \in Satisfies[g]

Init ==
    /\ tenantOf \in Tenants
    /\ members = [t \in Tenants |-> Subjects]
    /\ entitled = [t \in Tenants |-> Versions]
    /\ locks = {} /\ revoked = {} /\ changes = 0 /\ expired = {}
    /\ registered \in Registrations
    /\ mode \in Modes
    /\ op = [r \in Requests |-> "none"]
    /\ subject \in {[r \in Requests |-> s] : s \in Subjects}
    /\ presents = [r \in Requests |-> r]
    /\ needs \in {[r \in Requests |-> s] : s \in Scopes}
    /\ pc = [r \in Requests |-> "idle"]
    /\ scopes = [r \in Requests |-> {}]
    /\ grant = [r \in Requests |-> NoGrant]
    /\ blocked = [r \in Requests |-> {}]

-----------------------------------------------------------------------------
(***************************************************************************)
(* What each check asks of the tables.                                     *)
(***************************************************************************)

(* The versions under which the client may act for s, the join of both     *)
(* entitlement statements.                                                 *)
EntitledVersions(s) == IF s \in members[tenantOf] THEN entitled[tenantOf] ELSE {}

Newest(V) == CHOOSE v \in V : \A u \in V : u <= v

(* enforce looks for the very tenant and version of the token. *)
StillEntitled(r) ==
    tenantOf = grant[r].tenant /\ grant[r].version \in EntitledVersions(subject[r])

(* _assert_not_locked: of a service's token the id is not known. *)
LocksThatApply(r) ==
    {"GLOBAL", "APPLICATION"}
    \union (CASE op[r] = "delegated" -> {grant[r].tenant, subject[r], presents[r]}
              [] op[r] = "delegate"  -> {grant[r].tenant, subject[r]}
              [] OTHER               -> {})

GoTo(r, l) == pc' = [pc EXCEPT ![r] = l]

(***************************************************************************)
(* A request arrives; a delegated token may be any that was issued.        *)
(***************************************************************************)
Arrive(r) ==
    /\ pc[r] = "idle"
    /\ \E o \in Operations, s \in Subjects :
         /\ op' = [op EXCEPT ![r] = o]
         /\ IF o = "delegated" THEN \E n \in Scopes : needs' = [needs EXCEPT ![r] = n]
            ELSE UNCHANGED needs
         /\ \/ /\ o # "delegated"
               /\ subject' = [subject EXCEPT ![r] = s]
               /\ UNCHANGED <<presents, scopes, grant>>
            \/ /\ o = "delegated"
               /\ \E t \in Tokens :
                    /\ subject' = [subject EXCEPT ![r] = subject[t]]
                    /\ presents' = [presents EXCEPT ![r] = t]
                    /\ scopes' = [scopes EXCEPT ![r] = scopes[t]]
                    /\ grant' = [grant EXCEPT ![r] = grant[t]]
         /\ GoTo(r, CASE o \in {"delegate", "mtls"} -> "loading"
                      [] o = "delegated"            -> "entitling"
                      [] o = "service"              -> "locking")
    /\ UNCHANGED <<policyVars, mode, expired>>

(***************************************************************************)
(* get_service_client: the row, the environment, or the environment if     *)
(* there is no active row or no database.                                  *)
(***************************************************************************)
FromEnvironment(r) ==
    /\ mode \in {"environment", "hybrid"}
    /\ EnvironmentScopes # {}
    /\ scopes' = [scopes EXCEPT ![r] = EnvironmentScopes]

(* Mutant: a row is loaded without looking at is_active. *)
FromDatabaseInactive(r) ==
    /\ mode \in {"database", "hybrid"}
    /\ scopes' = [scopes EXCEPT ![r] = registered.scopes]

FromDatabase(r) ==
    /\ mode \in {"database", "hybrid"}
    /\ registered.active
    /\ scopes' = [scopes EXCEPT ![r] = registered.scopes]

(***************************************************************************)
(* The client is loaded and proves its secret or certificate; it must have *)
(* the scope to delegate.  What else the scopes of a client open is left   *)
(* open, of a delegated token's it is followed.                            *)
(***************************************************************************)
LoadClient(r) ==
    /\ pc[r] = "loading"
    /\ FromEnvironment(r) \/ FromDatabase(r)
    /\ op[r] = "delegate" => Covers(scopes'[r], Delegate)
    /\ GoTo(r, IF op[r] = "delegate" THEN "granting" ELSE "locking")
    /\ UNCHANGED <<policyVars, mode, expired, argumentVars, grant>>

(* Mutant: an outer join, a client without entitlement is granted nothing. *)
GrantOuterJoin(r) ==
    /\ pc[r] = "granting"
    /\ grant' = [grant EXCEPT ![r] =
          [tenant |-> tenantOf,
           version |-> IF EntitledVersions(subject[r]) = {} THEN 0
                       ELSE Newest(EntitledVersions(subject[r]))]]
    /\ GoTo(r, "locking")
    /\ UNCHANGED <<policyVars, mode, expired, argumentVars, scopes>>

(***************************************************************************)
(* grant_lens_delegation, the entitlement.                                 *)
(***************************************************************************)
GrantNewest(r) ==
    /\ pc[r] = "granting"
    /\ EntitledVersions(subject[r]) # {}
    /\ grant' = [grant EXCEPT ![r] =
          [tenant |-> tenantOf, version |-> Newest(EntitledVersions(subject[r]))]]
    /\ GoTo(r, "locking")
    /\ UNCHANGED <<policyVars, mode, expired, argumentVars, scopes>>

(* Mutant: enforcement takes any version that now entitles the tenant. *)
CheckSomeEntitlement(r) ==
    /\ pc[r] = "entitling"
    /\ presents[r] \notin expired
    /\ Covers(scopes[r], needs[r])
    /\ EntitledVersions(subject[r]) # {}
    /\ GoTo(r, "locking")
    /\ UNCHANGED <<policyVars, mode, expired, argumentVars, scopes, grant>>

(***************************************************************************)
(* A delegated token is decoded, its scopes are checked, and enforce asks  *)
(* whether its tenant, subject and version are still entitled.             *)
(***************************************************************************)
CheckEntitlement(r) ==
    /\ pc[r] = "entitling"
    /\ presents[r] \notin expired
    /\ Covers(scopes[r], needs[r])
    /\ StillEntitled(r)
    /\ GoTo(r, "locking")
    /\ UNCHANGED <<policyVars, mode, expired, argumentVars, scopes, grant>>

(* Mutant: the token carries all the client's scopes. *)
DelegatedScopesAll(r) == scopes[r]

(* What a delegated token carries of its client's scopes. *)
DelegatedScopes(r) == scopes[r] \intersect Delegable

(***************************************************************************)
(* _assert_not_locked, the locks.  A delegation ends here, with a token if *)
(* its client has a scope that can be delegated.                           *)
(***************************************************************************)
CheckLocks(r) ==
    /\ pc[r] = "locking"
    /\ locks \intersect LocksThatApply(r) = {}
    /\ CASE op[r] = "delegate" ->
              /\ DelegatedScopes(r) # {}
              /\ scopes' = [scopes EXCEPT ![r] = DelegatedScopes(r)]
              /\ GoTo(r, "issued")
         [] op[r] = "delegated" -> GoTo(r, "revoking") /\ UNCHANGED scopes
         [] OTHER               -> GoTo(r, "admitted") /\ UNCHANGED scopes
    /\ UNCHANGED <<policyVars, mode, expired, argumentVars, grant>>

(***************************************************************************)
(* _assert_not_locked, the revocations of a token with an id.              *)
(***************************************************************************)
CheckRevocation(r) ==
    /\ pc[r] = "revoking"
    /\ presents[r] \notin revoked
    /\ GoTo(r, "admitted")
    /\ UNCHANGED <<policyVars, mode, expired, argumentVars, scopes, grant>>

(***************************************************************************)
(* A check is not passed, or cannot be made because the database fails:    *)
(* 401, 403 or 503.                                                        *)
(***************************************************************************)
Reject(r) ==
    /\ pc[r] \in Open
    /\ GoTo(r, "rejected")
    /\ scopes' = [scopes EXCEPT ![r] = {}]
    /\ grant' = [grant EXCEPT ![r] = NoGrant]
    /\ UNCHANGED <<policyVars, mode, expired, argumentVars>>

Serve(r) ==
    \/ LoadClient(r)
    \/ GrantNewest(r)
    \/ CheckEntitlement(r)
    \/ CheckLocks(r)
    \/ CheckRevocation(r)
    \/ Reject(r)

requestVars == <<argumentVars, pc, scopes, grant>>

(***************************************************************************)
(* Operators change the tables: members come and go, versions and          *)
(* entitlements are published and withdrawn, locks are set and lifted or   *)
(* expire, tokens are revoked, the application moves to another tenant,    *)
(* the client is registered anew.                                          *)
(***************************************************************************)
Toggle(S, x) == IF x \in S THEN S \ {x} ELSE S \union {x}

ChangePolicy ==
    /\ changes < MaxChanges
    /\ changes' = changes + 1
    /\ \/ /\ \E t \in Tenants, s \in Subjects :
               members' = [members EXCEPT ![t] = Toggle(@, s)]
          /\ UNCHANGED <<tenantOf, entitled, locks, revoked, registered>>
       \/ /\ \E t \in Tenants, v \in Versions :
               entitled' = [entitled EXCEPT ![t] = Toggle(@, v)]
          /\ UNCHANGED <<tenantOf, members, locks, revoked, registered>>
       \/ /\ \E l \in LockScopes \ (Requests \ Tokens) : locks' = Toggle(locks, l)
          /\ UNCHANGED <<tenantOf, members, entitled, revoked, registered>>
       \/ /\ \E t \in Tokens : revoked' = Toggle(revoked, t)
          /\ UNCHANGED <<tenantOf, members, entitled, locks, registered>>
       \/ /\ tenantOf' \in Tenants \ {tenantOf}
          /\ UNCHANGED <<members, entitled, locks, revoked, registered>>
       \/ /\ registered' \in Registrations \ {registered}
          /\ UNCHANGED <<tenantOf, members, entitled, locks, revoked>>
    /\ UNCHANGED <<mode, expired, requestVars>>

Expire ==
    /\ \E t \in Tokens \ expired : expired' = expired \union {t}
    /\ UNCHANGED <<policyVars, mode, requestVars>>

(***************************************************************************)
(* Why request r is to be rejected, judged by the tables as they are.  The *)
(* tenant of a delegation is the one it was granted, once it was.          *)
(***************************************************************************)
TenantFor(r) == IF pc[r] = "locking" /\ op[r] = "delegate" THEN grant[r].tenant ELSE tenantOf

LocksOn(r) ==
    CASE op[r] = "delegated"          -> {"GLOBAL", "APPLICATION", grant[r].tenant, subject[r], presents[r]}
      [] op[r] = "delegate"           -> {"GLOBAL", "APPLICATION", TenantFor(r), subject[r]}
      [] op[r] \in {"service", "mtls"} -> {"GLOBAL", "APPLICATION"}
      [] OTHER                        -> {}

Reasons(r) ==
    {x \in {"unentitled", "locked", "revoked", "disabled"} :
        CASE x = "locked"     -> locks \intersect LocksOn(r) # {}
          [] x = "revoked"    -> op[r] = "delegated" /\ presents[r] \in revoked
          [] x = "disabled"   -> op[r] \in {"delegate", "mtls"} /\ ~registered.active
          [] x = "unentitled" ->
                \/ op[r] = "delegate" /\ EntitledVersions(subject[r]) = {}
                \/ op[r] = "delegated" /\ ~StillEntitled(r)}

(* The reasons that have held since the request arrived. *)
Watch ==
    blocked' = [r \in Requests |->
        IF pc[r] = "idle" /\ pc'[r] # "idle" THEN Reasons(r)'
        ELSE IF pc'[r] = "rejected" THEN {}
        ELSE IF pc[r] \in Open THEN blocked[r] \intersect Reasons(r)'
        ELSE blocked[r]]

Next ==
    /\ \/ \E r \in Requests : Arrive(r) \/ Serve(r)
       \/ ChangePolicy
       \/ Expire
    /\ Watch

Spec == Init /\ [][Next]_vars

-----------------------------------------------------------------------------
TypeOK ==
    /\ tenantOf \in Tenants
    /\ members \in [Tenants -> SUBSET Subjects]
    /\ entitled \in [Tenants -> SUBSET Versions]
    /\ locks \subseteq LockScopes
    /\ revoked \subseteq Tokens /\ expired \subseteq Tokens
    /\ op \in [Requests -> {"none"} \union Operations]
    /\ subject \in [Requests -> Subjects]
    /\ presents \in [Requests -> Requests]
    /\ pc \in [Requests -> {"idle", "issued", "admitted", "rejected"} \union Open]
    /\ grant \in [Requests -> [tenant : Tenants \union {NoTenant}, version : Versions \union {0}]]
    /\ \A t \in Tokens : grant[t].tenant \in Tenants /\ grant[t].version \in Versions
    /\ blocked \in [Requests -> SUBSET {"unentitled", "locked", "revoked", "disabled"}]

(***************************************************************************)
(* A request is let in, or a token issued, only if there was no reason     *)
(* that held from its arrival to its end: however the tables change        *)
(* between the checks, and whatever fails, a subject without entitlement,  *)
(* a locked client, tenant, subject or token, and a revoked token are      *)
(* rejected.                                                               *)
(***************************************************************************)
BlockedIsRejected ==
    \A r \in Requests : pc[r] \in {"issued", "admitted"} =>
        blocked[r] \intersect {"unentitled", "locked", "revoked"} = {}

(***************************************************************************)
(* A client that is disabled in the registry while it delegates or shows   *)
(* its certificate gets through only where the deployment accepts clients  *)
(* from the environment and knows it there.                                *)
(***************************************************************************)
DisabledIsRejected ==
    \A r \in Requests : pc[r] \in {"issued", "admitted"} /\ "disabled" \in blocked[r] =>
        mode # "database" /\ EnvironmentScopes # {}

(***************************************************************************)
(* A delegated token opens only routes whose scope may be delegated,       *)
(* whatever scopes and wildcards its client holds or gains later.          *)
(***************************************************************************)
DelegatedReadsOnly ==
    \A r \in Requests : op[r] = "delegated" /\ pc[r] = "admitted" =>
        Covers(Delegable, needs[r])
=============================================================================
