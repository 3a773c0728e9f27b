----------------------------- MODULE UserApiKeys -----------------------------
(***************************************************************************)
(* End-user accounts and their personal API keys: the tables iam.users and *)
(* iam.user_api_keys with every transaction that touches them, namely      *)
(*   create     AccountService.create_account, POST /admin/accounts        *)
(*   delete     AccountService.delete_account, DELETE /admin/accounts/{id} *)
(*              with the trigger iam.revoke_user_keys_on_disable           *)
(*   issue      iam.issue_user_api_key                                     *)
(*   provision  iam.provision_user_api_key, scripts/provision_user_api_key *)
(*   check      verify_user_api_key, at every request that bears a key     *)
(*   backfill   scripts/backfill_user_api_key_expiry                       *)
(*                                                                         *)
(* They run in threads, worker processes and operators' shells, each on a  *)
(* session of its own at READ COMMITTED.  One action is one SQL statement  *)
(* with the code up to the next.  A statement reads what is committed when *)
(* it starts; writes show at the commit.  The locks the statements take:   *)
(*   - INSERT, UPDATE and upsert of a user's row exclude each other and    *)
(*     SELECT ... FOR UPDATE; so do UPDATEs of a key's row;                *)
(*   - inserting an event that names a user locks the user's row against   *)
(*     FOR UPDATE only (the foreign key's FOR KEY SHARE).                  *)
(*                                                                         *)
(* A user stands for the e-mail and the uuid, a key's row number for its   *)
(* uuid, prefix and secret.  Scopes, plans, names and last_used_* are left *)
(* out, and of expires_at it is kept who wrote it and whether it passed.   *)
(***************************************************************************)
EXTENDS Naturals, Sequences

CONSTANTS
    Users,      \* people, each with one e-mail
    Requests,   \* operations, each served once
    Never,      \* expires_at IS NULL
    AtIssue,    \* expires_at written when the key was issued
    NoUser      \* the user of a request that names none

ASSUME NoUserIsNobody == NoUser \notin Users

ASSUME ExpiriesDiffer ==
    Never \notin Requests \union {AtIssue} /\ AtIssue \notin Requests

VARIABLES
    users,          \* committed rows of iam.users: absent, active or inactive
    keys,           \* committed rows of iam.user_api_keys, oldest first
    op,             \* what each request asks for
    user,           \* the user it is about
    pc,             \* where it is, or how it ended
    key,            \* the key a check presents, or a backfill has in hand
    deadOnArrival,  \* a check's key was revoked or expired when it arrived
    todo,           \* the keys its UPDATEs have still to visit
    held,           \* the keys its open transaction holds
    logged          \* the keys for which a backfill inserted an event

walkVars == <<todo, held, logged>>
argumentVars == <<op, user, deadOnArrival>>
vars == <<users, keys, argumentVars, pc, key, walkVars>>

NoKey == 0
Status == {"absent", "active", "inactive"}

(***************************************************************************)
(* expiry: Never, AtIssue, or the backfill that wrote it.                  *)
(***************************************************************************)
Expiry == {Never, AtIssue} \union Requests

Row == [owner: Users, enabled: BOOLEAN, expiry: Expiry, expired: BOOLEAN]

Rows == 1..Len(keys)

NewRow(u, e) == [owner |-> u, enabled |-> TRUE, expiry |-> e, expired |-> FALSE]

AccountOperations == {"create", "delete", "issue", "provision"}
Operations == AccountOperations \union {"check", "backfill"}

(***************************************************************************)
(* Where an open request is, and how it ends: `refused` covers 403, 404,   *)
(* 409 and an exception of the SQL functions, `failed` a database error or *)
(* a crash that lost the open transaction.                                 *)
(***************************************************************************)
Open == {"arrived", "inserted", "upserted", "locked", "revoking",
         "backfilling", "logging", "accepting", "rejecting"}
Ended == {"created", "deactivated", "issued", "accepted", "rejected",
          "backfilled", "refused", "failed"}

Usable(k) == keys[k].enabled /\ ~keys[k].expired

(***************************************************************************)
(* Row locks on users, read off from where a transaction is.               *)
(***************************************************************************)
LocksUser(q, u) ==
    user[q] = u /\ pc[q] \in {"inserted", "upserted", "revoking", "locked"}

(* It has changed the row; after FOR UPDATE alone it has not. *)
WroteUser(q, u) ==
    LocksUser(q, u) /\ (pc[q] = "locked" => op[q] = "provision")

LocksForUpdate(q, u) == user[q] = u /\ pc[q] = "locked"

(* It inserted events that name the user. *)
RefersTo(q, u) ==
    pc[q] \in {"backfilling", "logging"} /\ \E k \in logged[q] : keys[k].owner = u

HeldByOther(r, k) == \E q \in Requests \ {r} : k \in held[q]

(***************************************************************************)
(* Whom the next statement of r waits for.                                 *)
(***************************************************************************)
Waits(r, q) ==
    CASE pc[r] = "arrived" /\ op[r] = "create"    -> WroteUser(q, user[r])
      [] pc[r] = "arrived" /\ op[r] = "delete"    -> LocksUser(q, user[r])
      [] pc[r] = "arrived" /\ op[r] = "provision" -> LocksUser(q, user[r])
      [] pc[r] = "arrived" /\ op[r] = "issue"     ->
            LocksUser(q, user[r]) \/ RefersTo(q, user[r])
      [] pc[r] = "upserted"                       -> RefersTo(q, user[r])
      [] pc[r] \in {"revoking", "backfilling"}    ->
            /\ \A k \in todo[r] : HeldByOther(r, k)
            /\ \E k \in todo[r] : k \in held[q]
      [] pc[r] = "logging"                        -> LocksForUpdate(q, keys[key[r]].owner)
      [] pc[r] = "accepting"                      -> key[r] \in held[q]
      [] pc[r] = "rejecting" /\ key[r] # NoKey    -> LocksForUpdate(q, keys[key[r]].owner)
      [] OTHER                                    -> FALSE

Blockers(r) == {q \in Requests \ {r} : Waits(r, q)}

GoTo(r, l) == pc' = [pc EXCEPT ![r] = l]

Init ==
    /\ users = [u \in Users |-> "absent"]
    /\ keys = << >>
    /\ op = [r \in Requests |-> "none"]
    /\ user = [r \in Requests |-> NoUser]
    /\ pc = [r \in Requests |-> "idle"]
    /\ key = [r \in Requests |-> NoKey]
    /\ deadOnArrival = [r \in Requests |-> FALSE]
    /\ todo = [r \in Requests |-> {}]
    /\ held = [r \in Requests |-> {}]
    /\ logged = [r \in Requests |-> {}]

-----------------------------------------------------------------------------
(* Mutant: a check presents a key whose issuing has not committed. *)
ArriveWithUncommittedKey(r) ==
    /\ pc[r] = "idle"
    /\ \E k \in 0..(Len(keys) + 1) :
         /\ op' = [op EXCEPT ![r] = "check"]
         /\ key' = [key EXCEPT ![r] = k]
    /\ GoTo(r, "arrived")
    /\ UNCHANGED <<users, keys, user, deadOnArrival, walkVars>>

(***************************************************************************)
(* A request arrives; a check with some key that was handed out, or one    *)
(* that no row matches.                                                    *)
(***************************************************************************)
Arrive(r) ==
    /\ pc[r] = "idle"
    /\ \E o \in Operations, u \in Users \union {NoUser}, k \in Rows \union {NoKey} :
         /\ o \in AccountOperations <=> u # NoUser
         /\ o # "check" => k = NoKey
         /\ op' = [op EXCEPT ![r] = o]
         /\ user' = [user EXCEPT ![r] = u]
         /\ key' = [key EXCEPT ![r] = k]
         /\ deadOnArrival' = [deadOnArrival EXCEPT ![r] = k \in Rows /\ ~Usable(k)]
    /\ GoTo(r, "arrived")
    /\ UNCHANGED <<users, keys, walkVars>>

(* Mutant: no unique constraint on the e-mail. *)
InsertUserUnlessSeen(r) ==
    /\ pc[r] = "arrived" /\ op[r] = "create"
    /\ GoTo(r, IF users[user[r]] = "absent" THEN "inserted" ELSE "refused")
    /\ UNCHANGED <<users, keys, argumentVars, key, walkVars>>

(***************************************************************************)
(* create_account: the INSERT waits for whoever is writing the row of this *)
(* e-mail, and is a conflict (409) if there is one then.                   *)
(***************************************************************************)
InsertUser(r) ==
    /\ pc[r] = "arrived" /\ op[r] = "create"
    /\ Blockers(r) = {}
    /\ GoTo(r, IF users[user[r]] = "absent" THEN "inserted" ELSE "refused")
    /\ UNCHANGED <<users, keys, argumentVars, key, walkVars>>

CommitCreate(r) ==
    /\ pc[r] = "inserted"
    /\ users' = [users EXCEPT ![user[r]] = "active"]
    /\ GoTo(r, "created")
    /\ UNCHANGED <<keys, argumentVars, key, walkVars>>

(* Mutant: the UPDATE does not exclude another transaction's. *)
DeactivateTogether(r) ==
    /\ pc[r] = "arrived" /\ op[r] = "delete" /\ users[user[r]] = "active"
    /\ GoTo(r, "revoking")
    /\ todo' = [todo EXCEPT ![r] =
                  {k \in Rows : keys[k].owner = user[r] /\ keys[k].enabled}]
    /\ UNCHANGED <<users, keys, argumentVars, key, held, logged>>

(***************************************************************************)
(* delete_account: refused without the approval code or an active account; *)
(* else the UPDATE takes the row, and the trigger's UPDATE, a statement    *)
(* with a later snapshot, selects the keys that are enabled.               *)
(***************************************************************************)
Deactivate(r) ==
    /\ pc[r] = "arrived" /\ op[r] = "delete"
    /\ \/ GoTo(r, "refused") /\ UNCHANGED todo
       \/ /\ users[user[r]] = "active" /\ Blockers(r) = {}
          /\ GoTo(r, "revoking")
          /\ todo' = [todo EXCEPT ![r] =
                        {k \in Rows : keys[k].owner = user[r] /\ keys[k].enabled}]
    /\ UNCHANGED <<users, keys, argumentVars, key, held, logged>>

(* Mutant: SKIP LOCKED. *)
RevokeRowSkippingLocked(r) ==
    /\ pc[r] = "revoking"
    /\ \E k \in todo[r] :
         /\ todo' = [todo EXCEPT ![r] = @ \ {k}]
         /\ held' = [held EXCEPT ![r] = @ \union {j \in {k} : ~HeldByOther(r, j)}]
    /\ UNCHANGED <<users, keys, argumentVars, pc, key, logged>>

(***************************************************************************)
(* The trigger's UPDATE visits the keys one after the other, in no order   *)
(* the code fixes, and waits for those another transaction holds.          *)
(***************************************************************************)
RevokeRow(r) ==
    /\ pc[r] = "revoking"
    /\ \E k \in todo[r] :
         /\ ~HeldByOther(r, k)
         /\ todo' = [todo EXCEPT ![r] = @ \ {k}]
         /\ held' = [held EXCEPT ![r] = @ \union {k}]
    /\ UNCHANGED <<users, keys, argumentVars, pc, key, logged>>

CommitDeactivation(r) ==
    /\ pc[r] = "revoking" /\ todo[r] = {}
    /\ users' = [users EXCEPT ![user[r]] = "inactive"]
    /\ keys' = [k \in Rows |->
                  IF k \in held[r] THEN [keys[k] EXCEPT !.enabled = FALSE] ELSE keys[k]]
    /\ held' = [held EXCEPT ![r] = {}]
    /\ GoTo(r, "deactivated")
    /\ UNCHANGED <<argumentVars, key, todo, logged>>

-----------------------------------------------------------------------------
(***************************************************************************)
(* provision_user_api_key: the upsert inserts the user, or waits for the   *)
(* row and makes it active.                                                *)
(***************************************************************************)
Upsert(r) ==
    /\ pc[r] = "arrived" /\ op[r] = "provision"
    /\ Blockers(r) = {}
    /\ GoTo(r, "upserted")
    /\ UNCHANGED <<users, keys, argumentVars, key, walkVars>>

(* Mutant: SELECT without FOR UPDATE. *)
LockUserWithoutLock(r) ==
    /\ \/ pc[r] = "arrived" /\ op[r] = "issue"
       \/ pc[r] = "upserted"
    /\ GoTo(r, IF pc[r] = "upserted" \/ users[user[r]] = "active"
               THEN "locked" ELSE "refused")
    /\ UNCHANGED <<users, keys, argumentVars, key, walkVars>>

(***************************************************************************)
(* issue_user_api_key, called on its own or by provision_user_api_key:     *)
(* SELECT ... FOR UPDATE waits for the user's row and raises unless the    *)
(* user exists and is active.  The upsert before it sees to that.          *)
(***************************************************************************)
LockUser(r) ==
    /\ \/ pc[r] = "arrived" /\ op[r] = "issue"
       \/ pc[r] = "upserted"
    /\ Blockers(r) = {}
    /\ GoTo(r, IF pc[r] = "upserted" \/ users[user[r]] = "active"
               THEN "locked" ELSE "refused")
    /\ UNCHANGED <<users, keys, argumentVars, key, walkVars>>

(***************************************************************************)
(* The rest of it: validate_scope_array raises and everything rolls back,  *)
(* the upsert too; or the key and its event are inserted and committed.    *)
(* expires_at is optional for both functions.                              *)
(***************************************************************************)
InsertKey(r) ==
    /\ pc[r] = "locked"
    /\ \/ GoTo(r, "refused") /\ UNCHANGED <<users, keys>>
       \/ /\ users' = IF op[r] = "provision"
                      THEN [users EXCEPT ![user[r]] = "active"] ELSE users
          /\ \E e \in {Never, AtIssue} : keys' = Append(keys, NewRow(user[r], e))
          /\ GoTo(r, "issued")
    /\ UNCHANGED <<argumentVars, key, walkVars>>

-----------------------------------------------------------------------------
(* Mutant: asks for the user to be active, not for the key to be enabled. *)
ReadKeyOfActiveUser(r) ==
    /\ pc[r] = "arrived" /\ op[r] = "check"
    /\ GoTo(r, IF /\ key[r] # NoKey /\ ~keys[key[r]].expired
                  /\ users[keys[key[r]].owner] = "active"
               THEN "accepting" ELSE "rejecting")
    /\ UNCHANGED <<users, keys, argumentVars, key, walkVars>>

(***************************************************************************)
(* verify_user_api_key: one SELECT of the key joined with its user, and    *)
(* the decision on what it returned.                                       *)
(***************************************************************************)
ReadKey(r) ==
    /\ pc[r] = "arrived" /\ op[r] = "check"
    /\ GoTo(r, IF /\ key[r] # NoKey /\ Usable(key[r])
                  /\ users[keys[key[r]].owner] = "active"
               THEN "accepting" ELSE "rejecting")
    /\ UNCHANGED <<users, keys, argumentVars, key, walkVars>>

(* Mutant: writes back the whole row it read. *)
RecordUseWritingBack(r) ==
    /\ pc[r] = "accepting"
    /\ Blockers(r) = {}
    /\ keys' = [keys EXCEPT ![key[r]] = [@ EXCEPT !.enabled = TRUE]]
    /\ GoTo(r, "accepted")
    /\ UNCHANGED <<users, argumentVars, key, walkVars>>

(***************************************************************************)
(* The UPDATE of last_used_* waits for the row; it asks for nothing but    *)
(* the key's uuid and the commit follows at once, so it leaves no lock.    *)
(***************************************************************************)
RecordUse(r) ==
    /\ pc[r] = "accepting"
    /\ Blockers(r) = {}
    /\ GoTo(r, "accepted")
    /\ UNCHANGED <<users, keys, argumentVars, key, walkVars>>

(***************************************************************************)
(* The event key_rejected, committed before the 401.                       *)
(***************************************************************************)
LogRejection(r) ==
    /\ pc[r] = "rejecting"
    /\ Blockers(r) = {}
    /\ GoTo(r, "rejected")
    /\ UNCHANGED <<users, keys, argumentVars, key, walkVars>>

-----------------------------------------------------------------------------
(***************************************************************************)
(* backfill_user_api_key_expiry: one SELECT of the keys to give a date ... *)
(***************************************************************************)
ReadCandidates(r) ==
    /\ pc[r] = "arrived" /\ op[r] = "backfill"
    /\ LET candidates == {k \in Rows : keys[k].enabled /\ keys[k].expiry = Never}
       IN  /\ todo' = [todo EXCEPT ![r] = candidates]
           /\ GoTo(r, IF candidates = {} THEN "backfilled" ELSE "backfilling")
    /\ UNCHANGED <<users, keys, argumentVars, key, held, logged>>

(***************************************************************************)
(* ... then for each an UPDATE that waits for the row and asks again that  *)
(* it has no date (if it got one meanwhile, the row is held only by a      *)
(* statement that had to wait for it) ...                                  *)
(***************************************************************************)
UpdateExpiry(r) ==
    /\ pc[r] = "backfilling"
    /\ \E k \in todo[r] :
         /\ ~HeldByOther(r, k)
         /\ key' = [key EXCEPT ![r] = k]
         /\ \/ held' = [held EXCEPT ![r] = @ \union {k}]
            \/ keys[k].expiry # Never /\ UNCHANGED held
    /\ GoTo(r, "logging")
    /\ UNCHANGED <<users, keys, argumentVars, todo, logged>>

(***************************************************************************)
(* ... and an event that names the key and its user, either way ...        *)
(***************************************************************************)
LogUpdate(r) ==
    /\ pc[r] = "logging"
    /\ Blockers(r) = {}
    /\ todo' = [todo EXCEPT ![r] = @ \ {key[r]}]
    /\ logged' = [logged EXCEPT ![r] = @ \union {key[r]}]
    /\ GoTo(r, "backfilling")
    /\ UNCHANGED <<users, keys, argumentVars, key, held>>

(* Mutant: no `expires_at IS NULL` in the UPDATE. *)
CommitBackfillOverwriting(r) ==
    /\ pc[r] = "backfilling" /\ todo[r] = {}
    /\ keys' = [k \in Rows |->
                  IF k \in held[r] THEN [keys[k] EXCEPT !.expiry = r] ELSE keys[k]]
    /\ held' = [held EXCEPT ![r] = {}]
    /\ GoTo(r, "backfilled")
    /\ UNCHANGED <<users, argumentVars, key, todo, logged>>

(* Mutant: the script ends with its session open. *)
CommitBackfillLeftOpen(r) ==
    /\ pc[r] = "backfilling" /\ todo[r] = {}
    /\ GoTo(r, "backfilled")
    /\ UNCHANGED <<users, keys, argumentVars, key, walkVars>>

(***************************************************************************)
(* ... and one commit for all.                                             *)
(***************************************************************************)
CommitBackfill(r) ==
    /\ pc[r] = "backfilling" /\ todo[r] = {}
    /\ keys' = [k \in Rows |->
                  IF k \in held[r] /\ keys[k].expiry = Never
                  THEN [keys[k] EXCEPT !.expiry = r] ELSE keys[k]]
    /\ held' = [held EXCEPT ![r] = {}]
    /\ GoTo(r, "backfilled")
    /\ UNCHANGED <<users, argumentVars, key, todo, logged>>

-----------------------------------------------------------------------------
(***************************************************************************)
(* A statement fails, or the process dies: the open transaction is lost.   *)
(***************************************************************************)
Fail(r) ==
    /\ pc[r] \in Open
    /\ GoTo(r, "failed")
    /\ todo' = [todo EXCEPT ![r] = {}]
    /\ held' = [held EXCEPT ![r] = {}]
    /\ UNCHANGED <<users, keys, argumentVars, key, logged>>

(***************************************************************************)
(* A cycle of transactions that wait for each other, in which each waits   *)
(* for a single other one (external: PostgreSQL looks for it).             *)
(***************************************************************************)
WaitsWithin(D) == D # {} /\ \A p \in D : Blockers(p) \intersect D # {}

Deadlocked(r) ==
    \E D \in SUBSET Requests :
        /\ r \in D /\ WaitsWithin(D)
        /\ \A C \in SUBSET D : WaitsWithin(C) => C = D

DetectDeadlock(r) == Deadlocked(r) /\ Fail(r)

(***************************************************************************)
(* The rest of the world: an operator revokes one key by hand              *)
(* (docs/API_KEY_SCHEMA_RUNBOOK.md, E), and an expires_at passes.          *)
(***************************************************************************)
RevokeByHand ==
    /\ \E k \in Rows :
         /\ keys[k].enabled /\ \A q \in Requests : k \notin held[q]
         /\ keys' = [keys EXCEPT ![k] = [@ EXCEPT !.enabled = FALSE]]
    /\ UNCHANGED <<users, argumentVars, pc, key, walkVars>>

Expire ==
    /\ \E k \in Rows :
         /\ keys[k].expiry # Never /\ ~keys[k].expired
         /\ keys' = [keys EXCEPT ![k] = [@ EXCEPT !.expired = TRUE]]
    /\ UNCHANGED <<users, argumentVars, pc, key, walkVars>>

-----------------------------------------------------------------------------
Serve(r) ==
    \/ InsertUser(r) \/ CommitCreate(r)
    \/ Deactivate(r) \/ RevokeRow(r) \/ CommitDeactivation(r)
    \/ Upsert(r) \/ LockUser(r) \/ InsertKey(r)
    \/ ReadKey(r) \/ RecordUse(r) \/ LogRejection(r)
    \/ ReadCandidates(r) \/ UpdateExpiry(r) \/ LogUpdate(r) \/ CommitBackfill(r)

Next ==
    \/ \E r \in Requests : Arrive(r) \/ Serve(r) \/ Fail(r)
    \/ RevokeByHand
    \/ Expire

Spec == Init /\ [][Next]_vars

(***************************************************************************)
(* A session that can run its next statement runs it, and PostgreSQL       *)
(* breaks deadlocks.  Arrivals, failures, operators and time owe nothing.  *)
(***************************************************************************)
Fairness ==
    \A r \in Requests : WF_vars(Serve(r) \/ DetectDeadlock(r))

FairSpec == Spec /\ Fairness

-----------------------------------------------------------------------------
(***************************************************************************)
(* Types of every variable.                                                *)
(***************************************************************************)
TypeOK ==
    /\ users \in [Users -> Status]
    /\ keys \in Seq(Row)
    /\ op \in [Requests -> Operations \union {"none"}]
    /\ user \in [Requests -> Users \union {NoUser}]
    /\ pc \in [Requests -> {"idle"} \union Open \union Ended]
    /\ key \in [Requests -> Rows \union {NoKey}]
    /\ deadOnArrival \in [Requests -> BOOLEAN]
    /\ todo \in [Requests -> SUBSET Rows]
    /\ held \in [Requests -> SUBSET Rows]
    /\ logged \in [Requests -> SUBSET Rows]

(***************************************************************************)
(* The point of the trigger and of issue's FOR UPDATE: however operations  *)
(* overlap, only the keys of active users are enabled (README, "revoked    *)
(* automatically when the account is deactivated").                        *)
(***************************************************************************)
EnabledKeysAreOfActiveUsers ==
    \A k \in Rows : keys[k].enabled => users[keys[k].owner] = "active"

(***************************************************************************)
(* One e-mail, one account: of all requests to create it, one succeeds.    *)
(***************************************************************************)
AccountCreatedOnce ==
    \A r, q \in Requests :
        pc[r] = "created" /\ pc[q] = "created" /\ user[r] = user[q] => r = q

(***************************************************************************)
(* A request with a key that was dead when it arrived is rejected, also if *)
(* the key's owner is provisioned again between its statements.            *)
(***************************************************************************)
DeadKeyIsRejected ==
    \A r \in Requests : deadOnArrival[r] => pc[r] \notin {"accepting", "accepted"}

(***************************************************************************)
(* Only the walks over several keys can lock each other out, and two       *)
(* deactivations cannot: every deadlock has a backfill in it.              *)
(***************************************************************************)
DeadlocksInvolveABackfill ==
    \A r \in Requests : Deadlocked(r) =>
        \E q \in Requests : Deadlocked(q) /\ op[q] = "backfill"

(***************************************************************************)
(* No step loses a key, gives it to another user or enables it again, not  *)
(* even the one that makes its owner active again.                         *)
(***************************************************************************)
KeepsRevocations ==
    \A k \in Rows :
        /\ k \in Rows'
        /\ keys'[k].owner = keys[k].owner
        /\ keys'[k].enabled => keys[k].enabled
        /\ keys[k].expired => keys'[k].expired

RevocationIsFinal == [][KeepsRevocations]_vars

(***************************************************************************)
(* A date is written once: a backfill never moves one that a key had been  *)
(* given when it was issued or by another backfill.                        *)
(***************************************************************************)
KeepsExpiries ==
    \A k \in Rows : keys[k].expiry # Never => keys'[k].expiry = keys[k].expiry

ExpiryIsFinal == [][KeepsExpiries]_vars

(***************************************************************************)
(* Every operation that arrived ends, whatever rows the others hold.       *)
(***************************************************************************)
EveryOperationEnds ==
    \A r \in Requests : pc[r] = "arrived" ~> pc[r] \in Ended

(***************************************************************************)
(* The tables implement Accounts: statements, locks and snapshots show as  *)
(* its atomic operations.                                                  *)
(***************************************************************************)
PromisedKey(row) == [owner |-> row.owner, live |-> row.enabled /\ ~row.expired]

promisedKeys == [k \in Rows |-> PromisedKey(keys[k])]

Promise == INSTANCE Accounts WITH status <- users, keys <- promisedKeys

ImplementsAccounts == Promise!Spec
=============================================================================
