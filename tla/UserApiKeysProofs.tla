-------------------------- MODULE UserApiKeysProofs --------------------------
(***************************************************************************)
(* Proofs about UserApiKeys, for any number of operations, users and keys: *)
(* its types, its inductive invariant, the safety properties that follow,  *)
(* and that the tables implement Accounts.                                 *)
(***************************************************************************)
EXTENDS UserApiKeys, SequenceTheorems, FiniteSetTheorems, TLAPS

(***************************************************************************)
(* The parts of the inductive invariant.                                   *)
(***************************************************************************)

(* Each operation keeps to its own statements. *)
OperationFits ==
    \A r \in Requests :
        /\ op[r] \in AccountOperations => user[r] \in Users
        /\ pc[r] = "inserted" => op[r] = "create"
        /\ pc[r] = "upserted" => op[r] = "provision"
        /\ pc[r] = "locked" => op[r] \in {"issue", "provision"}
        /\ pc[r] = "revoking" => op[r] = "delete"
        /\ pc[r] \in {"backfilling", "logging"} => op[r] = "backfill"
        /\ pc[r] = "logging" => key[r] \in Rows

(* A dead key stays in the hands of the check that presents it, and dead. *)
DeadKeysStayDead ==
    \A r \in Requests : deadOnArrival[r] =>
        op[r] = "check" /\ key[r] \in Rows /\ ~Usable(key[r])

(* No two transactions have locked one user's row. *)
UserHolders == {"inserted", "upserted", "revoking", "locked"}

UsersHeldOnce ==
    \A r, q \in Requests :
        /\ pc[r] \in UserHolders /\ pc[q] \in UserHolders
        /\ user[r] = user[q]
        => r = q

(* What a lock on the user's row preserves of what was seen under it. *)
LockedUserKept ==
    \A r \in Requests :
        /\ pc[r] = "inserted" => users[user[r]] = "absent"
        /\ pc[r] = "locked" /\ op[r] = "issue" => users[user[r]] = "active"
        /\ pc[r] = "revoking" => users[user[r]] = "active"
        /\ pc[r] = "created" => users[user[r]] # "absent" /\ user[r] \in Users

(* The trigger's UPDATE has each enabled key of its user, and no other     *)
(* user's, ahead of it or in hand.                                         *)
EnabledKeysTracked ==
    \A r \in Requests : pc[r] = "revoking" =>
        /\ \A k \in Rows : keys[k].owner = user[r] /\ keys[k].enabled =>
              k \in todo[r] \union held[r]
        /\ \A k \in todo[r] \union held[r] : keys[k].owner = user[r]

(* Only the two walks hold keys. *)
HeldByWalks ==
    \A r \in Requests :
        held[r] # {} => pc[r] \in {"revoking", "backfilling", "logging"}

Inv ==
    /\ TypeOK
    /\ OperationFits
    /\ DeadKeysStayDead
    /\ UsersHeldOnce
    /\ LockedUserKept
    /\ EnabledKeysTracked
    /\ HeldByWalks
    /\ EnabledKeysAreOfActiveUsers
    /\ AccountCreatedOnce
    /\ DeadKeyIsRejected

-----------------------------------------------------------------------------
(***************************************************************************)
(* Facts about rows and about what each writing action leaves in the table.*)
(***************************************************************************)
LEMMA NewRowType ==
    ASSUME NEW u \in Users, NEW e \in {Never, AtIssue}
    PROVE  NewRow(u, e) \in Row
  BY DEF NewRow, Row, Expiry

LEMMA DisabledRow ==
    ASSUME NEW d \in Row
    PROVE  LET c == [d EXCEPT !.enabled = FALSE]
           IN  /\ c \in Row
               /\ c.owner = d.owner
               /\ ~c.enabled
               /\ c.expiry = d.expiry
               /\ c.expired = d.expired
  BY DEF Row

LEMMA ExpiredRow ==
    ASSUME NEW d \in Row
    PROVE  LET c == [d EXCEPT !.expired = TRUE]
           IN  /\ c \in Row
               /\ c.owner = d.owner
               /\ c.enabled = d.enabled
               /\ c.expiry = d.expiry
               /\ c.expired
  BY DEF Row

LEMMA DatedRow ==
    ASSUME NEW d \in Row, NEW r \in Requests
    PROVE  LET c == [d EXCEPT !.expiry = r]
           IN  /\ c \in Row
               /\ c.owner = d.owner
               /\ c.enabled = d.enabled
               /\ c.expiry = r
               /\ c.expired = d.expired
  BY DEF Row, Expiry

LEMMA KeysFacts ==
    ASSUME TypeOK
    PROVE  /\ keys \in Seq(Row)
           /\ Len(keys) \in Nat
           /\ \A k \in Rows : keys[k] \in Row
  BY DEF TypeOK, Rows

(***************************************************************************)
(* The table after a key was inserted.                                     *)
(***************************************************************************)
LEMMA InsertEffect ==
    ASSUME TypeOK, NEW u \in Users, NEW e \in {Never, AtIssue},
           keys' = Append(keys, NewRow(u, e))
    PROVE  /\ keys' \in Seq(Row)
           /\ Len(keys') = Len(keys) + 1
           /\ Rows' = Rows \union {Len(keys) + 1}
           /\ Len(keys) + 1 \notin Rows
           /\ \A k \in Rows : keys'[k] = keys[k]
           /\ keys'[Len(keys) + 1] = NewRow(u, e)
<1>1. NewRow(u, e) \in Row
  BY NewRowType
<1>2. keys \in Seq(Row) /\ Len(keys) \in Nat
  BY KeysFacts
<1>3. /\ keys' \in Seq(Row) /\ Len(keys') = Len(keys) + 1
      /\ \A k \in 1..Len(keys) : keys'[k] = keys[k]
      /\ keys'[Len(keys) + 1] = NewRow(u, e)
  BY <1>1, <1>2, AppendProperties
<1> QED  BY <1>2, <1>3 DEF Rows

(***************************************************************************)
(* The table after a deactivation: the keys it held are disabled.          *)
(***************************************************************************)
LEMMA DeactivationEffect ==
    ASSUME TypeOK, NEW r \in Requests, CommitDeactivation(r)
    PROVE  /\ keys' \in Seq(Row)
           /\ Len(keys') = Len(keys)
           /\ Rows' = Rows
           /\ \A k \in Rows :
                /\ keys'[k].owner = keys[k].owner
                /\ keys'[k].enabled = (keys[k].enabled /\ k \notin held[r])
                /\ keys'[k].expiry = keys[k].expiry
                /\ keys'[k].expired = keys[k].expired
<1>1. keys \in Seq(Row) /\ Len(keys) \in Nat /\ \A k \in Rows : keys[k] \in Row
  BY KeysFacts
<1>2. \A k \in Rows : keys'[k] = IF k \in held[r] THEN [keys[k] EXCEPT !.enabled = FALSE]
                                 ELSE keys[k]
  BY DEF CommitDeactivation
<1>3. \A k \in Rows : keys'[k] \in Row
  BY <1>1, <1>2, DisabledRow
<1>4. keys' \in [1..Len(keys) -> Row]
  BY <1>3 DEF CommitDeactivation, Rows
<1>5. keys' \in Seq(Row) /\ Len(keys') = Len(keys)
  BY <1>1, <1>4
<1>6. ASSUME NEW k \in Rows
      PROVE  /\ keys'[k].owner = keys[k].owner
             /\ keys'[k].enabled = (keys[k].enabled /\ k \notin held[r])
             /\ keys'[k].expiry = keys[k].expiry
             /\ keys'[k].expired = keys[k].expired
  <2>1. keys[k] \in Row /\ keys[k].enabled \in BOOLEAN
    BY <1>1 DEF Row
  <2>2. CASE k \in held[r]
    <3>1. keys'[k] = [keys[k] EXCEPT !.enabled = FALSE]
      BY <1>2, <2>2
    <3>2. keys'[k].enabled = FALSE
      BY <2>1, <3>1 DEF Row
    <3> QED  BY <2>1, <2>2, <3>1, <3>2, DisabledRow
  <2>3. CASE k \notin held[r]
    BY <1>2, <2>1, <2>3
  <2> QED  BY <2>2, <2>3
<1> QED  BY <1>5, <1>6 DEF Rows

(***************************************************************************)
(* The table after a backfill: only dates that were missing changed.       *)
(***************************************************************************)
LEMMA BackfillEffect ==
    ASSUME TypeOK, NEW r \in Requests, CommitBackfill(r)
    PROVE  /\ keys' \in Seq(Row)
           /\ Len(keys') = Len(keys)
           /\ Rows' = Rows
           /\ \A k \in Rows :
                /\ keys'[k].owner = keys[k].owner
                /\ keys'[k].enabled = keys[k].enabled
                /\ keys[k].expiry # Never => keys'[k].expiry = keys[k].expiry
                /\ keys'[k].expired = keys[k].expired
<1>1. keys \in Seq(Row) /\ Len(keys) \in Nat /\ \A k \in Rows : keys[k] \in Row
  BY KeysFacts
<1>2. \A k \in Rows : keys'[k] = IF k \in held[r] /\ keys[k].expiry = Never
                                 THEN [keys[k] EXCEPT !.expiry = r] ELSE keys[k]
  BY DEF CommitBackfill
<1>3. ASSUME NEW k \in Rows PROVE keys'[k] \in Row
  <2>1. keys[k] \in Row
    BY <1>1
  <2>2. [keys[k] EXCEPT !.expiry = r] \in Row
    BY <2>1, DatedRow
  <2>3. keys'[k] = [keys[k] EXCEPT !.expiry = r] \/ keys'[k] = keys[k]
    BY <1>2
  <2> QED  BY <2>1, <2>2, <2>3
<1>4. keys' \in [1..Len(keys) -> Row]
  BY <1>3 DEF CommitBackfill, Rows
<1>5. keys' \in Seq(Row) /\ Len(keys') = Len(keys)
  BY <1>1, <1>4
<1>6. ASSUME NEW k \in Rows
      PROVE  /\ keys'[k].owner = keys[k].owner
             /\ keys'[k].enabled = keys[k].enabled
             /\ keys[k].expiry # Never => keys'[k].expiry = keys[k].expiry
             /\ keys'[k].expired = keys[k].expired
  <2>1. CASE k \in held[r] /\ keys[k].expiry = Never
    <3>1. keys'[k] = [keys[k] EXCEPT !.expiry = r]
      BY <1>2, <2>1
    <3> QED  BY <1>1, <2>1, <3>1, DatedRow
  <2>2. CASE ~(k \in held[r] /\ keys[k].expiry = Never)
    BY <1>2, <2>2
  <2> QED  BY <2>1, <2>2
<1> QED  BY <1>5, <1>6 DEF Rows

(***************************************************************************)
(* The table after a key was revoked by hand, or expired.                  *)
(***************************************************************************)
LEMMA OneRowEffect ==
    ASSUME TypeOK, NEW j \in Rows, NEW d \in Row, keys' = [keys EXCEPT ![j] = d]
    PROVE  /\ keys' \in Seq(Row)
           /\ Len(keys') = Len(keys)
           /\ Rows' = Rows
           /\ \A k \in Rows : keys'[k] = IF k = j THEN d ELSE keys[k]
<1>1. keys \in Seq(Row) /\ Len(keys) \in Nat
  BY KeysFacts
<1>2. /\ keys' \in Seq(Row) /\ Len(keys') = Len(keys)
      /\ \A k \in Rows : keys'[k] = IF k = j THEN d ELSE keys[k]
  BY <1>1, ExceptSeq DEF Rows
<1> QED  BY <1>2 DEF Rows

LEMMA ByHandEffect ==
    ASSUME TypeOK, RevokeByHand \/ Expire
    PROVE  /\ keys' \in Seq(Row)
           /\ Len(keys') = Len(keys)
           /\ Rows' = Rows
           /\ \A k \in Rows :
                /\ keys'[k].owner = keys[k].owner
                /\ keys'[k].enabled => keys[k].enabled
                /\ keys'[k].expiry = keys[k].expiry
                /\ keys[k].expired => keys'[k].expired
<1>1. \A k \in Rows : keys[k] \in Row
  BY KeysFacts
<1>2. CASE RevokeByHand
  <2>1. PICK j \in Rows : keys' = [keys EXCEPT ![j] = [@ EXCEPT !.enabled = FALSE]]
    BY <1>2 DEF RevokeByHand
  <2> DEFINE d == [keys[j] EXCEPT !.enabled = FALSE]
  <2>2. /\ d \in Row /\ d.owner = keys[j].owner /\ ~d.enabled
        /\ d.expiry = keys[j].expiry /\ d.expired = keys[j].expired
    BY <1>1, DisabledRow
  <2>3. keys' = [keys EXCEPT ![j] = d]
    BY <2>1
  <2> HIDE DEF d
  <2>4. /\ keys' \in Seq(Row) /\ Len(keys') = Len(keys) /\ Rows' = Rows
        /\ \A k \in Rows : keys'[k] = IF k = j THEN d ELSE keys[k]
    BY <2>2, <2>3, OneRowEffect
  <2> QED  BY <2>2, <2>4
<1>3. CASE Expire
  <2>1. PICK j \in Rows : keys' = [keys EXCEPT ![j] = [@ EXCEPT !.expired = TRUE]]
    BY <1>3 DEF Expire
  <2> DEFINE d == [keys[j] EXCEPT !.expired = TRUE]
  <2>2. /\ d \in Row /\ d.owner = keys[j].owner /\ d.enabled = keys[j].enabled
        /\ d.expiry = keys[j].expiry /\ d.expired
    BY <1>1, ExpiredRow
  <2>3. keys' = [keys EXCEPT ![j] = d]
    BY <2>1
  <2> HIDE DEF d
  <2>4. /\ keys' \in Seq(Row) /\ Len(keys') = Len(keys) /\ Rows' = Rows
        /\ \A k \in Rows : keys'[k] = IF k = j THEN d ELSE keys[k]
    BY <2>2, <2>3, OneRowEffect
  <2> QED  BY <2>2, <2>4
<1> QED  BY <1>2, <1>3

-----------------------------------------------------------------------------
(***************************************************************************)
(* Waiting for nobody means that nobody else has locked the user's row.    *)
(***************************************************************************)
LEMMA NobodyLocks ==
    ASSUME TypeOK, NEW r \in Requests, pc[r] = "arrived",
           op[r] \in {"delete", "issue", "provision"}, Blockers(r) = {},
           NEW q \in Requests \ {r}, pc[q] \in UserHolders
    PROVE  user[q] # user[r]
<1>1. ~Waits(r, q)
  BY DEF Blockers
<1>2. ~LocksUser(q, user[r])
  BY <1>1 DEF Waits
<1> QED  BY <1>2 DEF LocksUser, UserHolders

LEMMA NobodyWrites ==
    ASSUME TypeOK, OperationFits, NEW r \in Requests, pc[r] = "arrived",
           op[r] = "create", Blockers(r) = {},
           NEW q \in Requests \ {r}, pc[q] \in UserHolders, user[q] = user[r]
    PROVE  pc[q] = "locked" /\ op[q] = "issue"
<1>1. ~Waits(r, q)
  BY DEF Blockers
<1>2. ~WroteUser(q, user[r])
  BY <1>1 DEF Waits
<1> QED  BY <1>2 DEF WroteUser, LocksUser, UserHolders, OperationFits

(***************************************************************************)
(* Steps that commit nothing and lock no user's row.                       *)
(***************************************************************************)
LEMMA QuietStep ==
    ASSUME Inv, TypeOK', NEW r \in Requests,
           UNCHANGED <<users, keys, argumentVars>>,
           pc'[r] \notin UserHolders \union {"created"},
           pc'[r] \in {"backfilling", "logging"} => op[r] = "backfill",
           pc'[r] = "logging" => key'[r] \in Rows,
           pc'[r] \in {"accepting", "accepted"} => ~deadOnArrival[r],
           held'[r] # {} => pc'[r] \in {"backfilling", "logging"},
           op[r] = "check" => key'[r] = key[r],
           \A q \in Requests \ {r} : /\ pc'[q] = pc[q] /\ key'[q] = key[q]
                                     /\ todo'[q] = todo[q] /\ held'[q] = held[q]
    PROVE  Inv'
<1>1. Rows' = Rows
  BY DEF Rows
<1>2. OperationFits'
  BY <1>1 DEF Inv, OperationFits, UserHolders, argumentVars
<1>3. DeadKeysStayDead'
  BY <1>1 DEF Inv, DeadKeysStayDead, Usable, argumentVars
<1>4. UsersHeldOnce'
  BY DEF Inv, UsersHeldOnce, argumentVars
<1>5. LockedUserKept'
  BY DEF Inv, LockedUserKept, UserHolders, argumentVars
<1>6. EnabledKeysTracked'
  BY <1>1 DEF Inv, EnabledKeysTracked, UserHolders, argumentVars
<1>7. HeldByWalks'
  BY DEF Inv, HeldByWalks
<1>8. EnabledKeysAreOfActiveUsers'
  BY <1>1 DEF Inv, EnabledKeysAreOfActiveUsers
<1>9. AccountCreatedOnce'
  BY DEF Inv, AccountCreatedOnce, argumentVars
<1>10. DeadKeyIsRejected'
  BY DEF Inv, DeadKeyIsRejected, argumentVars
<1> QED  BY <1>2, <1>3, <1>4, <1>5, <1>6, <1>7, <1>8, <1>9, <1>10 DEF Inv

(***************************************************************************)
(* Steps that lock the row of a user nobody else has locked, or hold it on.*)
(***************************************************************************)
LEMMA LockStep ==
    ASSUME Inv, TypeOK', NEW r \in Requests,
           UNCHANGED <<users, keys, argumentVars, key, held>>,
           pc'[r] \in UserHolders,
           pc'[r] = "inserted" => op[r] = "create" /\ users[user[r]] = "absent",
           pc'[r] = "upserted" => op[r] = "provision",
           pc'[r] = "locked" => \/ op[r] = "provision"
                                \/ op[r] = "issue" /\ users[user[r]] = "active",
           pc'[r] = "revoking" =>
               /\ op[r] = "delete" /\ users[user[r]] = "active"
               /\ todo'[r] = {k \in Rows : keys[k].owner = user[r] /\ keys[k].enabled},
           held[r] = {},
           \A q \in Requests \ {r} : pc'[q] = pc[q] /\ todo'[q] = todo[q],
           \A q \in Requests \ {r} : pc[q] \in UserHolders => user[q] # user[r]
    PROVE  Inv'
<1>1. Rows' = Rows
  BY DEF Rows
<1>2. OperationFits'
  BY <1>1 DEF Inv, OperationFits, UserHolders, argumentVars
<1>3. DeadKeysStayDead'
  BY <1>1 DEF Inv, DeadKeysStayDead, Usable, argumentVars
<1>4. UsersHeldOnce'
  BY DEF Inv, UsersHeldOnce, argumentVars
<1>5. LockedUserKept'
  BY DEF Inv, LockedUserKept, UserHolders, argumentVars
<1>6. EnabledKeysTracked'
  BY <1>1 DEF Inv, EnabledKeysTracked, argumentVars
<1>7. HeldByWalks'
  BY DEF Inv, HeldByWalks
<1>8. EnabledKeysAreOfActiveUsers'
  BY <1>1 DEF Inv, EnabledKeysAreOfActiveUsers
<1>9. AccountCreatedOnce'
  BY DEF Inv, AccountCreatedOnce, UserHolders, argumentVars
<1>10. DeadKeyIsRejected'
  BY DEF Inv, DeadKeyIsRejected, UserHolders, argumentVars
<1> QED  BY <1>2, <1>3, <1>4, <1>5, <1>6, <1>7, <1>8, <1>9, <1>10 DEF Inv

-----------------------------------------------------------------------------
(***************************************************************************)
(* One lemma per action.                                                   *)
(***************************************************************************)
LEMMA ArrivePreserves ==
    ASSUME Inv, NEW r \in Requests, Arrive(r)
    PROVE  Inv'
<1> USE DEF GoTo, walkVars
<1>1. PICK o \in Operations, u \in Users \union {NoUser}, k \in Rows \union {NoKey} :
        /\ o \in AccountOperations <=> u # NoUser
        /\ o # "check" => k = NoKey
        /\ op' = [op EXCEPT ![r] = o]
        /\ user' = [user EXCEPT ![r] = u]
        /\ key' = [key EXCEPT ![r] = k]
        /\ deadOnArrival' = [deadOnArrival EXCEPT ![r] = k \in Rows /\ ~Usable(k)]
  BY DEF Arrive
<1>2. pc[r] = "idle" /\ pc' = [pc EXCEPT ![r] = "arrived"]
      /\ UNCHANGED <<users, keys, todo, held, logged>>
  BY DEF Arrive
<1>3. Rows' = Rows
  BY <1>2 DEF Rows
<1>4. (k \in Rows /\ ~Usable(k)) \in BOOLEAN
  OBVIOUS
<1>5. TypeOK'
  <2>1. op' \in [Requests -> Operations \union {"none"}]
    BY <1>1 DEF Inv, TypeOK
  <2>2. user' \in [Requests -> Users \union {NoUser}]
    BY <1>1 DEF Inv, TypeOK
  <2>3. key' \in [Requests -> Rows' \union {NoKey}]
    BY <1>1, <1>3 DEF Inv, TypeOK
  <2>4. deadOnArrival' \in [Requests -> BOOLEAN]
    BY <1>1, <1>4 DEF Inv, TypeOK
  <2>5. pc' \in [Requests -> {"idle"} \union Open \union Ended]
    BY <1>2 DEF Inv, TypeOK, Open
  <2> QED  BY <1>2, <1>3, <2>1, <2>2, <2>3, <2>4, <2>5 DEF Inv, TypeOK
<1>6. /\ pc'[r] = "arrived" /\ op'[r] = o /\ user'[r] = u /\ key'[r] = k
      /\ deadOnArrival'[r] = (k \in Rows /\ ~Usable(k))
      /\ held'[r] = held[r] /\ todo'[r] = todo[r]
  BY <1>1, <1>2 DEF Inv, TypeOK
<1>7. \A q \in Requests \ {r} :
        /\ pc'[q] = pc[q] /\ op'[q] = op[q] /\ user'[q] = user[q] /\ key'[q] = key[q]
        /\ deadOnArrival'[q] = deadOnArrival[q]
  BY <1>1, <1>2 DEF Inv, TypeOK
<1>8. OperationFits'
  BY <1>1, <1>3, <1>6, <1>7 DEF Inv, OperationFits
<1>9. DeadKeysStayDead'
  <2>1. (k \in Rows /\ ~Usable(k)) => o = "check"
    BY <1>1 DEF Rows, NoKey
  <2> SUFFICES ASSUME NEW q \in Requests, deadOnArrival'[q]
               PROVE  op'[q] = "check" /\ key'[q] \in Rows /\ ~Usable(key'[q])
    BY <1>2, <1>3 DEF DeadKeysStayDead, Usable
  <2>2. CASE q = r
    BY <1>6, <2>1, <2>2
  <2>3. CASE q # r
    BY <1>7, <2>3 DEF Inv, DeadKeysStayDead
  <2> QED  BY <2>2, <2>3
<1>10. UsersHeldOnce' /\ LockedUserKept'
  BY <1>2, <1>6, <1>7 DEF Inv, UsersHeldOnce, LockedUserKept, UserHolders
<1>11. EnabledKeysTracked' /\ HeldByWalks'
  BY <1>2, <1>3, <1>6, <1>7 DEF Inv, EnabledKeysTracked, HeldByWalks
<1>12. EnabledKeysAreOfActiveUsers'
  BY <1>2, <1>3 DEF Inv, EnabledKeysAreOfActiveUsers
<1>13. AccountCreatedOnce' /\ DeadKeyIsRejected'
  BY <1>6, <1>7 DEF Inv, AccountCreatedOnce, DeadKeyIsRejected
<1> QED  BY <1>5, <1>8, <1>9, <1>10, <1>11, <1>12, <1>13 DEF Inv

LEMMA InsertUserPreserves ==
    ASSUME Inv, NEW r \in Requests, InsertUser(r)
    PROVE  Inv'
<1> USE DEF InsertUser, GoTo, argumentVars, walkVars
<1>1. TypeOK'
  BY DEF Inv, TypeOK, Rows, Open, Ended
<1>2. held[r] = {} /\ \A q \in Requests \ {r} : pc'[q] = pc[q]
  BY DEF Inv, TypeOK, HeldByWalks
<1>3. CASE users[user[r]] = "absent"
  <2>1. pc'[r] = "inserted"
    BY <1>3 DEF Inv, TypeOK
  <2>2. \A q \in Requests \ {r} : pc[q] \in UserHolders => user[q] # user[r]
    BY <1>3, NobodyWrites DEF Inv, LockedUserKept
  <2> QED  BY <1>1, <1>2, <1>3, <2>1, <2>2, LockStep DEF UserHolders
<1>4. CASE users[user[r]] # "absent"
  <2>1. pc'[r] = "refused"
    BY <1>4 DEF Inv, TypeOK
  <2> QED  BY <1>1, <1>2, <2>1, QuietStep DEF UserHolders
<1> QED  BY <1>3, <1>4

LEMMA DeactivatePreserves ==
    ASSUME Inv, NEW r \in Requests, Deactivate(r)
    PROVE  Inv'
<1> USE DEF Deactivate, GoTo, argumentVars
<1>1. TypeOK'
  BY DEF Inv, TypeOK, Rows, Open, Ended
<1>2. /\ held[r] = {}
      /\ \A q \in Requests \ {r} : pc'[q] = pc[q] /\ todo'[q] = todo[q]
  BY DEF Inv, TypeOK, HeldByWalks
<1>3. CASE pc' = [pc EXCEPT ![r] = "refused"] /\ UNCHANGED todo
  <2>1. pc'[r] = "refused"
    BY <1>3 DEF Inv, TypeOK
  <2> QED  BY <1>1, <1>2, <2>1, QuietStep DEF UserHolders
<1>4. CASE /\ users[user[r]] = "active" /\ Blockers(r) = {}
           /\ pc' = [pc EXCEPT ![r] = "revoking"]
           /\ todo' = [todo EXCEPT ![r] =
                         {k \in Rows : keys[k].owner = user[r] /\ keys[k].enabled}]
  <2>1. /\ pc'[r] = "revoking"
        /\ todo'[r] = {k \in Rows : keys[k].owner = user[r] /\ keys[k].enabled}
    BY <1>4 DEF Inv, TypeOK
  <2>2. \A q \in Requests \ {r} : pc[q] \in UserHolders => user[q] # user[r]
    BY <1>4, NobodyLocks DEF Inv
  <2> QED  BY <1>1, <1>2, <1>4, <2>1, <2>2, LockStep DEF UserHolders
<1> QED  BY <1>3, <1>4

LEMMA UpsertPreserves ==
    ASSUME Inv, NEW r \in Requests, Upsert(r)
    PROVE  Inv'
<1> USE DEF Upsert, GoTo, argumentVars, walkVars
<1>1. TypeOK'
  BY DEF Inv, TypeOK, Rows, Open, Ended
<1>2. /\ held[r] = {} /\ pc'[r] = "upserted"
      /\ \A q \in Requests \ {r} : pc'[q] = pc[q]
  BY DEF Inv, TypeOK, HeldByWalks
<1>3. \A q \in Requests \ {r} : pc[q] \in UserHolders => user[q] # user[r]
  BY NobodyLocks DEF Inv
<1> QED  BY <1>1, <1>2, <1>3, LockStep DEF UserHolders

LEMMA LockUserPreserves ==
    ASSUME Inv, NEW r \in Requests, LockUser(r)
    PROVE  Inv'
<1> USE DEF LockUser, GoTo, argumentVars, walkVars
<1>1. TypeOK'
  BY DEF Inv, TypeOK, Rows, Open, Ended
<1>2. held[r] = {} /\ \A q \in Requests \ {r} : pc'[q] = pc[q]
  BY DEF Inv, TypeOK, HeldByWalks
<1>3. \A q \in Requests \ {r} : pc[q] \in UserHolders => user[q] # user[r]
  <2>1. CASE pc[r] = "arrived" /\ op[r] = "issue"
    BY <2>1, NobodyLocks DEF Inv
  <2>2. CASE pc[r] = "upserted"
    BY <2>2 DEF Inv, UsersHeldOnce, UserHolders
  <2> QED  BY <2>1, <2>2
<1>4. CASE pc[r] = "upserted" \/ users[user[r]] = "active"
  <2>1. pc'[r] = "locked"
    BY <1>4 DEF Inv, TypeOK
  <2>2. op[r] = "provision" \/ (op[r] = "issue" /\ users[user[r]] = "active")
    BY <1>4 DEF Inv, OperationFits
  <2>3. /\ UNCHANGED <<users, keys, argumentVars, key, held>>
        /\ \A q \in Requests \ {r} : pc'[q] = pc[q] /\ todo'[q] = todo[q]
    BY <1>2
  <2> HIDE DEF LockUser, argumentVars
  <2> QED  BY <1>1, <1>2, <1>3, <2>1, <2>2, <2>3, LockStep DEF UserHolders
<1>5. CASE ~(pc[r] = "upserted" \/ users[user[r]] = "active")
  <2>1. pc'[r] = "refused"
    BY <1>5 DEF Inv, TypeOK
  <2> QED  BY <1>1, <1>2, <2>1, QuietStep DEF UserHolders
<1> QED  BY <1>4, <1>5

LEMMA CheckPreserves ==
    ASSUME Inv, NEW r \in Requests, ReadKey(r) \/ RecordUse(r) \/ LogRejection(r)
    PROVE  Inv'
<1> USE DEF ReadKey, RecordUse, LogRejection, GoTo, argumentVars, walkVars
<1>1. TypeOK'
  BY DEF Inv, TypeOK, Rows, Open, Ended
<1>2. held[r] = {} /\ \A q \in Requests \ {r} : pc'[q] = pc[q]
  BY DEF Inv, TypeOK, HeldByWalks
<1>3. pc'[r] \in {"accepting", "accepted", "rejecting", "rejected"}
  BY DEF Inv, TypeOK
<1>4. pc'[r] \in {"accepting", "accepted"} => ~deadOnArrival[r]
  BY DEF Inv, TypeOK, DeadKeysStayDead, DeadKeyIsRejected
<1> QED  BY <1>1, <1>2, <1>3, <1>4, QuietStep DEF UserHolders

LEMMA ReadCandidatesPreserves ==
    ASSUME Inv, NEW r \in Requests, ReadCandidates(r)
    PROVE  Inv'
<1> USE DEF ReadCandidates, GoTo, argumentVars
<1>1. TypeOK'
  BY DEF Inv, TypeOK, Rows, Open, Ended
<1>2. /\ held[r] = {} /\ pc'[r] \in {"backfilled", "backfilling"}
      /\ \A q \in Requests \ {r} : pc'[q] = pc[q] /\ todo'[q] = todo[q]
  BY DEF Inv, TypeOK, HeldByWalks
<1> QED  BY <1>1, <1>2, QuietStep DEF UserHolders

LEMMA UpdateExpiryPreserves ==
    ASSUME Inv, NEW r \in Requests, UpdateExpiry(r)
    PROVE  Inv'
<1> USE DEF UpdateExpiry, GoTo, argumentVars
<1>1. TypeOK'
  BY DEF Inv, TypeOK, Rows, Open, Ended
<1>2. /\ pc'[r] = "logging" /\ key'[r] \in Rows
      /\ \A q \in Requests \ {r} : pc'[q] = pc[q] /\ key'[q] = key[q] /\ held'[q] = held[q]
  BY DEF Inv, TypeOK
<1>3. op[r] = "backfill"
  BY DEF Inv, OperationFits
<1> QED  BY <1>1, <1>2, <1>3, QuietStep DEF UserHolders

LEMMA LogUpdatePreserves ==
    ASSUME Inv, NEW r \in Requests, LogUpdate(r)
    PROVE  Inv'
<1> USE DEF LogUpdate, GoTo, argumentVars
<1>1. TypeOK'
  <2>1. key[r] \in Rows
    BY DEF Inv, OperationFits
  <2> QED  BY <2>1 DEF Inv, TypeOK, Rows, Open, Ended
<1>2. /\ pc'[r] = "backfilling"
      /\ \A q \in Requests \ {r} : pc'[q] = pc[q] /\ todo'[q] = todo[q]
  BY DEF Inv, TypeOK
<1>3. op[r] = "backfill"
  BY DEF Inv, OperationFits
<1> QED  BY <1>1, <1>2, <1>3, QuietStep DEF UserHolders

LEMMA FailPreserves ==
    ASSUME Inv, NEW r \in Requests, Fail(r)
    PROVE  Inv'
<1> USE DEF Fail, GoTo, argumentVars
<1>1. TypeOK'
  BY DEF Inv, TypeOK, Rows, Open, Ended
<1>2. /\ pc'[r] = "failed" /\ held'[r] = {}
      /\ \A q \in Requests \ {r} : pc'[q] = pc[q] /\ todo'[q] = todo[q] /\ held'[q] = held[q]
  BY DEF Inv, TypeOK
<1> QED  BY <1>1, <1>2, QuietStep DEF UserHolders

LEMMA CommitCreatePreserves ==
    ASSUME Inv, NEW r \in Requests, CommitCreate(r)
    PROVE  Inv'
<1> USE DEF CommitCreate, GoTo, argumentVars, walkVars
<1>1. op[r] = "create" /\ user[r] \in Users /\ users[user[r]] = "absent"
  BY DEF Inv, OperationFits, LockedUserKept, AccountOperations
<1>2. TypeOK'
  BY DEF Inv, TypeOK, Rows, Open, Ended, Status
<1>3. /\ Rows' = Rows /\ pc'[r] = "created" /\ users'[user[r]] = "active"
      /\ \A q \in Requests \ {r} : pc'[q] = pc[q]
      /\ \A u \in Users \ {user[r]} : users'[u] = users[u]
  BY <1>1 DEF Inv, TypeOK, Rows
<1>4. \A q \in Requests \ {r} : pc[q] \in UserHolders => user[q] # user[r]
  BY DEF Inv, UsersHeldOnce, UserHolders
<1>5. \A q \in Requests : pc[q] \in UserHolders => user[q] \in Users
  BY DEF Inv, OperationFits, UserHolders, AccountOperations
<1>6. OperationFits' /\ UsersHeldOnce' /\ HeldByWalks' /\ DeadKeyIsRejected'
  BY <1>3 DEF Inv, OperationFits, UsersHeldOnce, HeldByWalks, DeadKeyIsRejected, UserHolders
<1>7. DeadKeysStayDead'
  BY <1>3 DEF Inv, DeadKeysStayDead, Usable
<1>8. LockedUserKept'
  BY <1>1, <1>3, <1>4, <1>5 DEF Inv, LockedUserKept, UserHolders
<1>9. EnabledKeysTracked'
  BY <1>3 DEF Inv, EnabledKeysTracked
<1>10. EnabledKeysAreOfActiveUsers'
  <2>1. \A k \in Rows : keys[k].owner \in Users
    BY KeysFacts DEF Inv, Row
  <2> QED  BY <1>3, <2>1 DEF Inv, EnabledKeysAreOfActiveUsers
<1>11. AccountCreatedOnce'
  BY <1>1, <1>3 DEF Inv, AccountCreatedOnce, LockedUserKept
<1> QED  BY <1>2, <1>6, <1>7, <1>8, <1>9, <1>10, <1>11 DEF Inv

(***************************************************************************)
(* Where the two locks meet: a key is added while its user is locked, so   *)
(* no deactivation of that user is under way, and the user is active.      *)
(***************************************************************************)
LEMMA InsertKeyPreserves ==
    ASSUME Inv, NEW r \in Requests, InsertKey(r)
    PROVE  Inv'
<1> USE DEF GoTo, argumentVars, walkVars
<1>1. /\ op[r] \in {"issue", "provision"} /\ user[r] \in Users
      /\ op[r] = "issue" => users[user[r]] = "active"
      /\ held[r] = {}
  BY DEF Inv, OperationFits, LockedUserKept, AccountOperations, HeldByWalks, InsertKey
<1>2. CASE pc' = [pc EXCEPT ![r] = "refused"] /\ UNCHANGED <<users, keys>>
  <2>1. UNCHANGED <<argumentVars, key, walkVars>>
    BY DEF InsertKey
  <2>2. TypeOK'
    BY <1>2, <2>1 DEF Inv, TypeOK, Rows, Open, Ended
  <2>3. pc'[r] = "refused" /\ \A q \in Requests \ {r} : pc'[q] = pc[q]
    BY <1>2 DEF Inv, TypeOK
  <2> QED  BY <1>1, <1>2, <2>1, <2>2, <2>3, QuietStep DEF UserHolders
<1>3. CASE /\ users' = IF op[r] = "provision"
                       THEN [users EXCEPT ![user[r]] = "active"] ELSE users
           /\ \E e \in {Never, AtIssue} : keys' = Append(keys, NewRow(user[r], e))
           /\ pc' = [pc EXCEPT ![r] = "issued"]
  <2>1. UNCHANGED <<argumentVars, key, walkVars>> /\ pc[r] = "locked"
    BY DEF InsertKey
  <2>2. PICK e \in {Never, AtIssue} : keys' = Append(keys, NewRow(user[r], e))
    BY <1>3
  <2>3. /\ keys' \in Seq(Row) /\ Len(keys') = Len(keys) + 1
        /\ Rows' = Rows \union {Len(keys) + 1} /\ Len(keys) + 1 \notin Rows
        /\ \A k \in Rows : keys'[k] = keys[k]
        /\ keys'[Len(keys) + 1] = NewRow(user[r], e)
    BY <1>1, <2>2, InsertEffect DEF Inv
  <2>4. keys'[Len(keys) + 1].owner = user[r]
    BY <2>3 DEF NewRow
  <2>5. /\ users' \in [Users -> Status] /\ users'[user[r]] = "active"
        /\ \A u \in Users \ {user[r]} : users'[u] = users[u]
    BY <1>1, <1>3 DEF Inv, TypeOK, Status
  <2>6. pc'[r] = "issued" /\ \A q \in Requests \ {r} : pc'[q] = pc[q]
    BY <1>3 DEF Inv, TypeOK
  <2>7. TypeOK'
    <3>1. pc' \in [Requests -> {"idle"} \union Open \union Ended]
      BY <1>3 DEF Inv, TypeOK, Ended
    <3> QED  BY <2>1, <2>3, <2>5, <3>1 DEF Inv, TypeOK
  <2>8. \A q \in Requests \ {r} : pc[q] \in UserHolders => user[q] # user[r]
    BY <2>1 DEF Inv, UsersHeldOnce, UserHolders
  <2>9. \A q \in Requests : pc[q] \in UserHolders => user[q] \in Users
    BY DEF Inv, OperationFits, UserHolders, AccountOperations
  <2>10. OperationFits' /\ UsersHeldOnce' /\ HeldByWalks' /\ DeadKeyIsRejected'
    BY <1>1, <2>1, <2>3, <2>6 DEF Inv, OperationFits, UsersHeldOnce, HeldByWalks,
       DeadKeyIsRejected, UserHolders
  <2>11. DeadKeysStayDead'
    BY <2>1, <2>3, <2>6 DEF Inv, DeadKeysStayDead, Usable
  <2>12. LockedUserKept'
    BY <2>1, <2>5, <2>6, <2>8, <2>9 DEF Inv, LockedUserKept, UserHolders
  <2>13. EnabledKeysTracked'
    <3> SUFFICES ASSUME NEW q \in Requests, pc'[q] = "revoking"
                 PROVE  /\ \A k \in Rows' : keys'[k].owner = user'[q] /\ keys'[k].enabled =>
                              k \in todo'[q] \union held'[q]
                        /\ \A k \in todo'[q] \union held'[q] : keys'[k].owner = user'[q]
      BY DEF EnabledKeysTracked
    <3>1. q # r /\ pc[q] = "revoking" /\ user[q] # user[r]
      BY <2>6, <2>8 DEF UserHolders
    <3>2. todo[q] \union held[q] \subseteq Rows
      BY DEF Inv, TypeOK
    <3>3. \A k \in todo[q] \union held[q] : keys[k].owner = user[q]
      BY <3>1 DEF Inv, EnabledKeysTracked
    <3>4. \A k \in Rows : keys[k].owner = user[q] /\ keys[k].enabled =>
              k \in todo[q] \union held[q]
      BY <3>1 DEF Inv, EnabledKeysTracked
    <3> QED  BY <2>1, <2>3, <2>4, <3>1, <3>2, <3>3, <3>4
  <2>14. EnabledKeysAreOfActiveUsers'
    <3>1. \A k \in Rows : keys[k].owner \in Users
      BY KeysFacts DEF Inv, Row
    <3> QED  BY <2>3, <2>4, <2>5, <3>1 DEF Inv, EnabledKeysAreOfActiveUsers
  <2>15. AccountCreatedOnce'
    BY <2>1, <2>6 DEF Inv, AccountCreatedOnce
  <2> QED  BY <2>7, <2>10, <2>11, <2>12, <2>13, <2>14, <2>15 DEF Inv
<1> QED  BY <1>2, <1>3 DEF InsertKey

LEMMA RevokeRowPreserves ==
    ASSUME Inv, NEW r \in Requests, RevokeRow(r)
    PROVE  Inv'
<1> USE DEF RevokeRow, argumentVars
<1>1. TypeOK'
  BY DEF Inv, TypeOK, Rows
<1>2. Rows' = Rows
  BY DEF Rows
<1>3. /\ todo'[r] \union held'[r] = todo[r] \union held[r]
      /\ \A q \in Requests \ {r} : todo'[q] = todo[q] /\ held'[q] = held[q]
  BY DEF Inv, TypeOK
<1>4. OperationFits' /\ UsersHeldOnce' /\ LockedUserKept' /\ AccountCreatedOnce'
  BY <1>2 DEF Inv, OperationFits, UsersHeldOnce, LockedUserKept, AccountCreatedOnce
<1>5. DeadKeysStayDead' /\ DeadKeyIsRejected'
  BY <1>2 DEF Inv, DeadKeysStayDead, Usable, DeadKeyIsRejected
<1>6. EnabledKeysTracked'
  BY <1>2, <1>3 DEF Inv, EnabledKeysTracked
<1>7. HeldByWalks' /\ EnabledKeysAreOfActiveUsers'
  BY <1>2, <1>3 DEF Inv, HeldByWalks, EnabledKeysAreOfActiveUsers
<1> QED  BY <1>1, <1>4, <1>5, <1>6, <1>7 DEF Inv

(***************************************************************************)
(* The user becomes inactive and, by EnabledKeysTracked, loses every key   *)
(* in the same commit.                                                     *)
(***************************************************************************)
LEMMA CommitDeactivationPreserves ==
    ASSUME Inv, NEW r \in Requests, CommitDeactivation(r)
    PROVE  Inv'
<1> USE DEF GoTo, argumentVars
<1>1. /\ pc[r] = "revoking" /\ todo[r] = {}
      /\ users' = [users EXCEPT ![user[r]] = "inactive"]
      /\ held' = [held EXCEPT ![r] = {}]
      /\ pc' = [pc EXCEPT ![r] = "deactivated"]
      /\ UNCHANGED <<argumentVars, key, todo, logged>>
  BY DEF CommitDeactivation
<1>2. /\ keys' \in Seq(Row) /\ Rows' = Rows
      /\ \A k \in Rows : /\ keys'[k].owner = keys[k].owner
                         /\ keys'[k].enabled = (keys[k].enabled /\ k \notin held[r])
                         /\ keys'[k].expired = keys[k].expired
  BY DeactivationEffect DEF Inv
<1>3. user[r] \in Users /\ users[user[r]] = "active"
  BY <1>1 DEF Inv, OperationFits, LockedUserKept, AccountOperations
<1>4. TypeOK'
  <2>1. users' \in [Users -> Status] /\ held' \in [Requests -> SUBSET Rows]
    BY <1>1 DEF Inv, TypeOK, Status
  <2>2. pc' \in [Requests -> {"idle"} \union Open \union Ended]
    BY <1>1 DEF Inv, TypeOK, Ended
  <2> QED  BY <1>1, <1>2, <2>1, <2>2 DEF Inv, TypeOK
<1>5. /\ pc'[r] = "deactivated" /\ held'[r] = {} /\ users'[user[r]] = "inactive"
      /\ \A q \in Requests \ {r} : pc'[q] = pc[q] /\ held'[q] = held[q]
      /\ \A u \in Users \ {user[r]} : users'[u] = users[u]
  BY <1>1, <1>3 DEF Inv, TypeOK
<1>6. \A q \in Requests \ {r} : pc[q] \in UserHolders => user[q] # user[r]
  BY <1>1 DEF Inv, UsersHeldOnce, UserHolders
<1>7. \A q \in Requests : pc[q] \in UserHolders => user[q] \in Users
  BY DEF Inv, OperationFits, UserHolders, AccountOperations
<1>8. OperationFits' /\ UsersHeldOnce' /\ HeldByWalks' /\ DeadKeyIsRejected'
  BY <1>1, <1>2, <1>5 DEF Inv, OperationFits, UsersHeldOnce, HeldByWalks, DeadKeyIsRejected,
     UserHolders
<1>9. DeadKeysStayDead'
  BY <1>1, <1>2 DEF Inv, DeadKeysStayDead, Usable
<1>10. LockedUserKept'
  BY <1>1, <1>3, <1>5, <1>6, <1>7 DEF Inv, LockedUserKept, UserHolders
<1>11. EnabledKeysTracked'
  <2> SUFFICES ASSUME NEW q \in Requests, pc'[q] = "revoking"
               PROVE  /\ \A k \in Rows' : keys'[k].owner = user'[q] /\ keys'[k].enabled =>
                            k \in todo'[q] \union held'[q]
                      /\ \A k \in todo'[q] \union held'[q] : keys'[k].owner = user'[q]
    BY DEF EnabledKeysTracked
  <2>1. q # r /\ pc[q] = "revoking"
    BY <1>5
  <2>2. todo[q] \union held[q] \subseteq Rows
    BY DEF Inv, TypeOK
  <2>3. /\ \A k \in todo[q] \union held[q] : keys[k].owner = user[q]
        /\ \A k \in Rows : keys[k].owner = user[q] /\ keys[k].enabled =>
              k \in todo[q] \union held[q]
    BY <2>1 DEF Inv, EnabledKeysTracked
  <2>4. user'[q] = user[q] /\ todo'[q] = todo[q] /\ held'[q] = held[q]
    BY <1>1, <1>5, <2>1
  <2>5. \A k \in Rows : /\ keys'[k].owner = keys[k].owner
                        /\ keys'[k].enabled => keys[k].enabled
    BY <1>2
  <2>6. Rows' = Rows
    BY <1>2
  <2> QED  BY <2>2, <2>3, <2>4, <2>5, <2>6
<1>12. EnabledKeysAreOfActiveUsers'
  <2> SUFFICES ASSUME NEW k \in Rows, keys'[k].enabled
               PROVE  users'[keys'[k].owner] = "active"
    BY <1>2 DEF EnabledKeysAreOfActiveUsers
  <2>1. keys[k].enabled /\ k \notin held[r] /\ keys[k].owner \in Users
    BY <1>2, KeysFacts DEF Inv, Row
  <2>2. keys[k].owner # user[r]
    BY <1>1, <2>1 DEF Inv, EnabledKeysTracked
  <2> QED  BY <1>2, <1>5, <2>1, <2>2 DEF Inv, EnabledKeysAreOfActiveUsers
<1>13. AccountCreatedOnce'
  BY <1>1, <1>5 DEF Inv, AccountCreatedOnce
<1> QED  BY <1>4, <1>8, <1>9, <1>10, <1>11, <1>12, <1>13 DEF Inv

(***************************************************************************)
(* Steps that leave users alone and change keys without enabling any.      *)
(***************************************************************************)
LEMMA KeysOnlyDie ==
    ASSUME Inv, TypeOK', UNCHANGED <<users, argumentVars, todo, key>>, Rows' = Rows,
           \A k \in Rows : /\ keys'[k].owner = keys[k].owner
                           /\ keys'[k].enabled => keys[k].enabled
                           /\ keys[k].expired => keys'[k].expired,
           \A q \in Requests :
               \/ pc'[q] = pc[q] /\ held'[q] = held[q]
               \/ pc'[q] = "backfilled" /\ held'[q] = {}
    PROVE  Inv'
<1> USE DEF argumentVars
<1>1. OperationFits' /\ UsersHeldOnce' /\ HeldByWalks'
  BY DEF Inv, OperationFits, UsersHeldOnce, HeldByWalks, UserHolders
<1>2. DeadKeysStayDead' /\ DeadKeyIsRejected'
  BY DEF Inv, DeadKeysStayDead, Usable, DeadKeyIsRejected
<1>3. LockedUserKept' /\ AccountCreatedOnce'
  BY DEF Inv, LockedUserKept, AccountCreatedOnce
<1>4. EnabledKeysTracked'
  <2> SUFFICES ASSUME NEW q \in Requests, pc'[q] = "revoking"
               PROVE  /\ \A k \in Rows' : keys'[k].owner = user'[q] /\ keys'[k].enabled =>
                            k \in todo'[q] \union held'[q]
                      /\ \A k \in todo'[q] \union held'[q] : keys'[k].owner = user'[q]
    BY DEF EnabledKeysTracked
  <2>1. pc[q] = "revoking" /\ held'[q] = held[q]
    OBVIOUS
  <2>2. todo[q] \union held[q] \subseteq Rows
    BY DEF Inv, TypeOK
  <2>3. /\ \A k \in todo[q] \union held[q] : keys[k].owner = user[q]
        /\ \A k \in Rows : keys[k].owner = user[q] /\ keys[k].enabled =>
              k \in todo[q] \union held[q]
    BY <2>1 DEF Inv, EnabledKeysTracked
  <2> QED  BY <2>1, <2>2, <2>3
<1>5. EnabledKeysAreOfActiveUsers'
  BY DEF Inv, EnabledKeysAreOfActiveUsers
<1> QED  BY <1>1, <1>2, <1>3, <1>4, <1>5 DEF Inv

LEMMA CommitBackfillPreserves ==
    ASSUME Inv, NEW r \in Requests, CommitBackfill(r)
    PROVE  Inv'
<1>1. /\ held' = [held EXCEPT ![r] = {}]
      /\ pc' = [pc EXCEPT ![r] = "backfilled"]
      /\ UNCHANGED <<users, argumentVars, key, todo, logged>>
  BY DEF CommitBackfill, GoTo
<1>2. /\ keys' \in Seq(Row) /\ Rows' = Rows
      /\ \A k \in Rows : /\ keys'[k].owner = keys[k].owner
                         /\ keys'[k].enabled = keys[k].enabled
                         /\ keys'[k].expired = keys[k].expired
  BY BackfillEffect DEF Inv
<1>3. TypeOK'
  <2>1. held' \in [Requests -> SUBSET Rows]
    BY <1>1 DEF Inv, TypeOK
  <2>2. pc' \in [Requests -> {"idle"} \union Open \union Ended]
    BY <1>1 DEF Inv, TypeOK, Ended
  <2> QED  BY <1>1, <1>2, <2>1, <2>2 DEF Inv, TypeOK, argumentVars
<1>4. \A q \in Requests :
          \/ pc'[q] = pc[q] /\ held'[q] = held[q]
          \/ pc'[q] = "backfilled" /\ held'[q] = {}
  BY <1>1 DEF Inv, TypeOK
<1> QED  BY <1>1, <1>2, <1>3, <1>4, KeysOnlyDie

LEMMA WorldPreserves ==
    ASSUME Inv, RevokeByHand \/ Expire
    PROVE  Inv'
<1>1. UNCHANGED <<users, argumentVars, pc, key, walkVars>>
  BY DEF RevokeByHand, Expire
<1>2. /\ keys' \in Seq(Row) /\ Rows' = Rows
      /\ \A k \in Rows : /\ keys'[k].owner = keys[k].owner
                         /\ keys'[k].enabled => keys[k].enabled
                         /\ keys[k].expired => keys'[k].expired
  BY ByHandEffect DEF Inv
<1>3. TypeOK'
  BY <1>1, <1>2 DEF Inv, TypeOK, argumentVars, walkVars
<1> QED  BY <1>1, <1>2, <1>3, KeysOnlyDie DEF walkVars

-----------------------------------------------------------------------------
LEMMA InitInv == Init => Inv
<1> SUFFICES ASSUME Init PROVE Inv
  OBVIOUS
<1>1. keys \in Seq(Row) /\ Len(keys) = 0
  BY DEF Init
<1>2. Rows = {}
  BY <1>1 DEF Rows
<1>3. TypeOK
  BY <1>1 DEF Init, TypeOK, Status, Operations, Rows, NoKey
<1>4. OperationFits /\ DeadKeysStayDead /\ UsersHeldOnce /\ LockedUserKept
  BY DEF Init, OperationFits, DeadKeysStayDead, UsersHeldOnce, LockedUserKept,
     AccountOperations, UserHolders
<1>5. EnabledKeysTracked /\ HeldByWalks /\ EnabledKeysAreOfActiveUsers
  BY <1>2 DEF Init, EnabledKeysTracked, HeldByWalks, EnabledKeysAreOfActiveUsers
<1>6. AccountCreatedOnce /\ DeadKeyIsRejected
  BY DEF Init, AccountCreatedOnce, DeadKeyIsRejected
<1> QED  BY <1>3, <1>4, <1>5, <1>6 DEF Inv

LEMMA StutterPreserves ==
    ASSUME Inv, UNCHANGED vars
    PROVE  Inv'
  BY DEF Inv, TypeOK, OperationFits, DeadKeysStayDead, Usable, UsersHeldOnce, LockedUserKept,
     EnabledKeysTracked, HeldByWalks, EnabledKeysAreOfActiveUsers, AccountCreatedOnce,
     DeadKeyIsRejected, Rows, vars, argumentVars, walkVars

LEMMA StepInv ==
    ASSUME Inv, [Next]_vars
    PROVE  Inv'
<1>1. ASSUME NEW r \in Requests, Serve(r) PROVE Inv'
  BY <1>1, InsertUserPreserves, CommitCreatePreserves, DeactivatePreserves,
     RevokeRowPreserves, CommitDeactivationPreserves, UpsertPreserves, LockUserPreserves,
     InsertKeyPreserves, CheckPreserves, ReadCandidatesPreserves, UpdateExpiryPreserves,
     LogUpdatePreserves, CommitBackfillPreserves DEF Serve
<1> QED
  BY <1>1, ArrivePreserves, FailPreserves, WorldPreserves, StutterPreserves DEF Next

THEOREM SpecInv == Spec => []Inv
<1>1. Init => Inv
  BY InitInv
<1>2. Inv /\ [Next]_vars => Inv'
  BY StepInv
<1> QED  BY <1>1, <1>2, PTL DEF Spec

(***************************************************************************)
(* Every variable keeps its type.                                          *)
(***************************************************************************)
THEOREM TypeCorrect == Spec => []TypeOK
<1>1. Inv => TypeOK
  BY DEF Inv
<1> QED  BY <1>1, SpecInv, PTL

(***************************************************************************)
(* However deactivations, issues, provisions and backfills overlap, only   *)
(* active users have enabled keys.                                         *)
(***************************************************************************)
THEOREM DeactivationRevokes == Spec => []EnabledKeysAreOfActiveUsers
<1>1. Inv => EnabledKeysAreOfActiveUsers
  BY DEF Inv
<1> QED  BY <1>1, SpecInv, PTL

(***************************************************************************)
(* An e-mail gets one account, however many requests race to create it.    *)
(***************************************************************************)
THEOREM OneAccountPerEmail == Spec => []AccountCreatedOnce
<1>1. Inv => AccountCreatedOnce
  BY DEF Inv
<1> QED  BY <1>1, SpecInv, PTL

(***************************************************************************)
(* A key that was dead when a request arrived with it opens nothing, also  *)
(* when its owner becomes active again meanwhile.                          *)
(***************************************************************************)
THEOREM DeadKeysOpenNothing == Spec => []DeadKeyIsRejected
<1>1. Inv => DeadKeyIsRejected
  BY DEF Inv
<1> QED  BY <1>1, SpecInv, PTL

-----------------------------------------------------------------------------
(***************************************************************************)
(* Waiting.  Backfills apart, who is waited for has a user's row, and who  *)
(* has one waits for nobody: it needs only the user's keys besides, and    *)
(* those another deactivation of the user would hold, which is no other.   *)
(***************************************************************************)
LEMMA WaitersHoldNoUser ==
    ASSUME Inv, NEW p \in Requests, NEW q \in Requests, p # q, Waits(p, q),
           op[p] # "backfill", op[q] # "backfill"
    PROVE  pc[p] \notin UserHolders /\ pc[q] \in UserHolders
<1>1. pc[p] \notin {"backfilling", "logging"} /\ pc[q] \notin {"backfilling", "logging"}
  BY DEF Inv, OperationFits
<1>2. \A u : ~ RefersTo(q, u)
  BY <1>1 DEF RefersTo
<1>3. \A k : k \in held[q] => pc[q] = "revoking"
  BY <1>1 DEF Inv, HeldByWalks
<1>4. CASE pc[p] = "revoking"
  <2>1. PICK k \in todo[p] : k \in held[q]
    BY <1>4 DEF Waits
  <2>2. pc[q] = "revoking"
    BY <1>3, <2>1
  <2>3. keys[k].owner = user[p] /\ keys[k].owner = user[q]
    BY <1>4, <2>1, <2>2 DEF Inv, EnabledKeysTracked
  <2> QED
    BY <1>4, <2>2, <2>3 DEF Inv, UsersHeldOnce, UserHolders
<1>5. CASE pc[p] = "arrived"
  BY <1>2, <1>5 DEF Waits, WroteUser, LocksUser, UserHolders
<1>6. CASE pc[p] = "accepting"
  BY <1>3, <1>6 DEF Waits, UserHolders
<1>7. CASE pc[p] = "rejecting"
  BY <1>7 DEF Waits, LocksForUpdate, UserHolders
<1>8. pc[p] \in {"arrived", "revoking", "accepting", "rejecting"}
  BY <1>1, <1>2 DEF Waits
<1> QED
  BY <1>4, <1>5, <1>6, <1>7, <1>8 DEF UserHolders

(***************************************************************************)
(* Whatever operations wait for each other in a circle, one of them is a   *)
(* backfill: without it nothing here can lock itself out.                  *)
(***************************************************************************)
THEOREM DeadlocksNeedABackfill == Spec => []DeadlocksInvolveABackfill
<1>1. Inv => DeadlocksInvolveABackfill
  <2> SUFFICES ASSUME Inv, NEW r \in Requests, Deadlocked(r)
               PROVE  \E q \in Requests : Deadlocked(q) /\ op[q] = "backfill"
    BY DEF DeadlocksInvolveABackfill
  <2>1. PICK D \in SUBSET Requests :
            /\ r \in D /\ WaitsWithin(D)
            /\ \A C \in SUBSET D : WaitsWithin(C) => C = D
    BY DEF Deadlocked
  <2>2. \A q \in D : Deadlocked(q)
    BY <2>1 DEF Deadlocked
  <2>3. SUFFICES ASSUME \A q \in D : op[q] # "backfill" PROVE FALSE
    BY <2>2
  <2>4. \A p \in D : \E q \in D : p # q /\ Waits(p, q)
    BY <2>1 DEF WaitsWithin, Blockers
  <2>5. PICK q \in D : r # q /\ Waits(r, q)
    BY <2>1, <2>4
  <2>6. PICK t \in D : q # t /\ Waits(q, t)
    BY <2>4
  <2>7. pc[q] \in UserHolders /\ pc[q] \notin UserHolders
    BY <2>1, <2>3, <2>5, <2>6, WaitersHoldNoUser
  <2> QED
    BY <2>7
<1> QED
  BY <1>1, SpecInv, PTL

-----------------------------------------------------------------------------
(***************************************************************************)
(* What any step does to the keys.                                         *)
(***************************************************************************)
LEMMA KeysStep ==
    ASSUME Inv, [Next]_vars
    PROVE  KeepsRevocations /\ KeepsExpiries
<1> SUFFICES ASSUME NEW k \in Rows
             PROVE  /\ k \in Rows'
                    /\ keys'[k].owner = keys[k].owner
                    /\ keys'[k].enabled => keys[k].enabled
                    /\ keys[k].expired => keys'[k].expired
                    /\ keys[k].expiry # Never => keys'[k].expiry = keys[k].expiry
  BY DEF KeepsRevocations, KeepsExpiries
<1>1. CASE UNCHANGED keys
  BY <1>1 DEF Rows
<1>2. ASSUME NEW r \in Requests, InsertKey(r), ~UNCHANGED keys
      PROVE  Rows \subseteq Rows' /\ \A j \in Rows : keys'[j] = keys[j]
  <2>1. user[r] \in Users
    BY <1>2 DEF Inv, OperationFits, InsertKey, AccountOperations
  <2>2. PICK e \in {Never, AtIssue} : keys' = Append(keys, NewRow(user[r], e))
    BY <1>2 DEF InsertKey
  <2> QED  BY <2>1, <2>2, InsertEffect DEF Inv
<1>3. CASE \E r \in Requests : InsertKey(r) /\ ~UNCHANGED keys
  BY <1>2, <1>3
<1>4. CASE \E r \in Requests : CommitDeactivation(r)
  BY <1>4, DeactivationEffect DEF Inv
<1>5. CASE \E r \in Requests : CommitBackfill(r)
  BY <1>5, BackfillEffect DEF Inv
<1>6. CASE RevokeByHand \/ Expire
  BY <1>6, ByHandEffect DEF Inv
<1>7. ASSUME NEW r \in Requests, Arrive(r) \/ Serve(r) \/ Fail(r)
      PROVE  \/ UNCHANGED keys
             \/ InsertKey(r) /\ ~UNCHANGED keys
             \/ CommitDeactivation(r)
             \/ CommitBackfill(r)
  BY <1>7 DEF Serve, Arrive, Fail, InsertUser, CommitCreate, Deactivate, RevokeRow, Upsert,
     LockUser, ReadKey, RecordUse, LogRejection, ReadCandidates, UpdateExpiry, LogUpdate
<1> QED  BY <1>1, <1>3, <1>4, <1>5, <1>6, <1>7 DEF Next, vars

(***************************************************************************)
(* A key that was revoked or expired is never usable again.                *)
(***************************************************************************)
THEOREM RevocationStays == Spec => RevocationIsFinal
<1>1. Inv /\ [Next]_vars => [KeepsRevocations]_vars
  BY KeysStep
<1> QED  BY <1>1, SpecInv, PTL DEF Spec, RevocationIsFinal

(***************************************************************************)
(* A date of expiry is written once.                                       *)
(***************************************************************************)
THEOREM ExpiryStays == Spec => ExpiryIsFinal
<1>1. Inv /\ [Next]_vars => [KeepsExpiries]_vars
  BY KeysStep
<1> QED  BY <1>1, SpecInv, PTL DEF Spec, ExpiryIsFinal

-----------------------------------------------------------------------------
(***************************************************************************)
(* The tables seen as the keys of Accounts.                                *)
(***************************************************************************)
LEMMA PromisedKeyType ==
    ASSUME NEW row \in Row
    PROVE  /\ PromisedKey(row) \in Promise!Key
           /\ PromisedKey(row).owner = row.owner
           /\ PromisedKey(row).live = (row.enabled /\ ~row.expired)
  BY DEF PromisedKey, Row, Promise!Key

LEMMA PromisedEqual ==
    ASSUME NEW d \in Promise!Key, NEW e \in Promise!Key,
           d.owner = e.owner, d.live = e.live
    PROVE  d = e
  BY DEF Promise!Key

LEMMA PromisedKeysOf ==
    ASSUME NEW s \in Seq(Row)
    PROVE  LET v == [k \in 1..Len(s) |-> PromisedKey(s[k])]
           IN  /\ v \in Seq(Promise!Key)
               /\ Len(v) = Len(s)
               /\ \A k \in 1..Len(s) : v[k] = PromisedKey(s[k])
<1> DEFINE v == [k \in 1..Len(s) |-> PromisedKey(s[k])]
<1>1. Len(s) \in Nat /\ \A k \in 1..Len(s) : s[k] \in Row
  OBVIOUS
<1>2. v \in [1..Len(s) -> Promise!Key]
  BY <1>1, PromisedKeyType
<1>3. v \in Seq(Promise!Key) /\ Len(v) = Len(s)
  BY <1>1, <1>2
<1> QED  BY <1>3

LEMMA PromisedKeysFacts ==
    ASSUME keys \in Seq(Row)
    PROVE  /\ promisedKeys \in Seq(Promise!Key)
           /\ Len(promisedKeys) = Len(keys)
           /\ \A k \in Rows : promisedKeys[k] = PromisedKey(keys[k])
  BY PromisedKeysOf DEF promisedKeys, Rows

LEMMA PromisedKeysFactsNext ==
    ASSUME keys' \in Seq(Row)
    PROVE  /\ promisedKeys' \in Seq(Promise!Key)
           /\ Len(promisedKeys') = Len(keys')
           /\ \A k \in Rows' : promisedKeys'[k] = PromisedKey(keys'[k])
  BY PromisedKeysOf DEF promisedKeys, Rows

(***************************************************************************)
(* A key inserted is a key added.                                          *)
(***************************************************************************)
LEMMA InsertAddsKey ==
    ASSUME TypeOK, NEW u \in Users, NEW e \in {Never, AtIssue},
           keys' = Append(keys, NewRow(u, e))
    PROVE  promisedKeys' = Append(promisedKeys, [owner |-> u, live |-> TRUE])
<1> DEFINE new == [owner |-> u, live |-> TRUE]
           grown == Append(promisedKeys, new)
<1>1. /\ keys \in Seq(Row) /\ keys' \in Seq(Row) /\ Len(keys) \in Nat
      /\ Len(keys') = Len(keys) + 1
      /\ \A k \in Rows : keys'[k] = keys[k]
      /\ keys'[Len(keys) + 1] = NewRow(u, e)
  BY InsertEffect, KeysFacts
<1>2. PromisedKey(NewRow(u, e)) = new /\ new \in Promise!Key
  BY DEF PromisedKey, NewRow, Promise!Key
<1>3. /\ promisedKeys \in Seq(Promise!Key) /\ Len(promisedKeys) = Len(keys)
      /\ \A k \in Rows : promisedKeys[k] = PromisedKey(keys[k])
  BY <1>1, PromisedKeysFacts
<1>4. /\ promisedKeys' \in Seq(Promise!Key) /\ Len(promisedKeys') = Len(keys')
      /\ \A k \in Rows' : promisedKeys'[k] = PromisedKey(keys'[k])
  BY <1>1, PromisedKeysFactsNext
<1> HIDE DEF new
<1>5. /\ grown \in Seq(Promise!Key) /\ Len(grown) = Len(keys) + 1
      /\ \A k \in 1..Len(keys) : grown[k] = promisedKeys[k]
      /\ grown[Len(keys) + 1] = new
  BY <1>2, <1>3, AppendProperties
<1> HIDE DEF grown
<1>6. \A k \in 1..(Len(keys) + 1) : promisedKeys'[k] = grown[k]
  BY <1>1, <1>2, <1>3, <1>4, <1>5 DEF Rows
<1>7. promisedKeys' = grown
  BY <1>1, <1>4, <1>5, <1>6, SeqEqual
<1> QED  BY <1>7 DEF grown, new

(***************************************************************************)
(* Keys that only die, die as the abstract keys do.                        *)
(***************************************************************************)
LEMMA DyingKeys ==
    ASSUME TypeOK, keys' \in Seq(Row), Len(keys') = Len(keys),
           NEW K \in SUBSET Rows,
           \A k \in Rows : /\ keys'[k].owner = keys[k].owner
                           /\ (keys'[k].enabled /\ ~keys'[k].expired)
                                 = (keys[k].enabled /\ ~keys[k].expired /\ k \notin K)
    PROVE  Promise!Kill(K)
<1> DEFINE killed == [k \in 1..Len(promisedKeys) |->
                        IF k \in K THEN [promisedKeys[k] EXCEPT !.live = FALSE]
                        ELSE promisedKeys[k]]
<1>1. /\ keys \in Seq(Row) /\ Len(keys) \in Nat
      /\ \A k \in Rows : keys[k] \in Row
  BY KeysFacts
<1>2. Rows' = Rows /\ \A k \in Rows : keys'[k] \in Row
  BY <1>1 DEF Rows
<1>3. /\ promisedKeys \in Seq(Promise!Key) /\ Len(promisedKeys) = Len(keys)
      /\ \A k \in Rows : promisedKeys[k] = PromisedKey(keys[k])
  BY <1>1, PromisedKeysFacts
<1>4. /\ promisedKeys' \in Seq(Promise!Key) /\ Len(promisedKeys') = Len(keys)
      /\ \A k \in Rows : promisedKeys'[k] = PromisedKey(keys'[k])
  BY <1>2, PromisedKeysFactsNext
<1>5. ASSUME NEW k \in Rows
      PROVE  /\ killed[k] \in Promise!Key
             /\ killed[k] = promisedKeys'[k]
  <2>1. /\ promisedKeys[k] \in Promise!Key /\ promisedKeys'[k] \in Promise!Key
        /\ promisedKeys[k].owner = keys[k].owner
        /\ promisedKeys'[k].owner = keys[k].owner
    BY <1>1, <1>2, <1>3, <1>4, PromisedKeyType
  <2>2. promisedKeys[k].live = (keys[k].enabled /\ ~keys[k].expired)
    BY <1>1, <1>3, PromisedKeyType
  <2>3. promisedKeys'[k].live = (keys'[k].enabled /\ ~keys'[k].expired)
    BY <1>2, <1>4, PromisedKeyType
  <2>4. killed[k] = IF k \in K THEN [promisedKeys[k] EXCEPT !.live = FALSE]
                    ELSE promisedKeys[k]
    BY <1>3 DEF Rows
  <2> HIDE DEF killed
  <2>5. CASE k \in K
    <3>1. killed[k] = [promisedKeys[k] EXCEPT !.live = FALSE]
      BY <2>4, <2>5
    <3>2. /\ killed[k] \in Promise!Key /\ killed[k].owner = keys[k].owner
          /\ killed[k].live = FALSE
      BY <2>1, <3>1 DEF Promise!Key
    <3>3. promisedKeys'[k].live = FALSE
      BY <2>3, <2>5
    <3> QED  BY <2>1, <3>2, <3>3, PromisedEqual
  <2>6. CASE k \notin K
    <3>1. killed[k] = promisedKeys[k]
      BY <2>4, <2>6
    <3>2. promisedKeys'[k].live = promisedKeys[k].live
      BY <2>2, <2>3, <2>6
    <3> QED  BY <2>1, <3>1, <3>2, PromisedEqual
  <2> QED  BY <2>5, <2>6
<1>6. killed \in [1..Len(keys) -> Promise!Key]
  BY <1>3, <1>5 DEF Rows
<1>7. killed \in Seq(Promise!Key) /\ Len(killed) = Len(keys)
  BY <1>1, <1>6
<1> HIDE DEF killed
<1>8. promisedKeys' = killed
  BY <1>4, <1>5, <1>7, SeqEqual DEF Rows
<1> QED  BY <1>8 DEF killed, Promise!Kill, Promise!Issued

(***************************************************************************)
(* Steps that leave users alone and bring no key back are a Lapse.         *)
(***************************************************************************)
LEMMA DyingIsLapse ==
    ASSUME TypeOK, UNCHANGED users, keys' \in Seq(Row), Len(keys') = Len(keys),
           \A k \in Rows : /\ keys'[k].owner = keys[k].owner
                           /\ keys'[k].enabled => keys[k].enabled
                           /\ keys[k].expired => keys'[k].expired
    PROVE  Promise!Lapse
<1> DEFINE K == {k \in Rows : ~(keys'[k].enabled /\ ~keys'[k].expired)}
<1>1. \A k \in Rows : keys[k] \in Row /\ keys'[k] \in Row
  BY KeysFacts DEF Rows
<1>2. \A k \in Rows : /\ keys[k].enabled \in BOOLEAN /\ keys[k].expired \in BOOLEAN
                      /\ keys'[k].enabled \in BOOLEAN /\ keys'[k].expired \in BOOLEAN
  BY <1>1 DEF Row
<1>3. \A k \in Rows : (keys'[k].enabled /\ ~keys'[k].expired)
                          = (keys[k].enabled /\ ~keys[k].expired /\ k \notin K)
  BY <1>2
<1>4. K \in SUBSET Rows
  OBVIOUS
<1> HIDE DEF K
<1>5. Promise!Kill(K)
  BY <1>3, <1>4, DyingKeys
<1>6. K \in SUBSET Promise!Issued
  BY <1>4, PromisedKeysFacts, KeysFacts DEF Promise!Issued, Rows
<1> QED  BY <1>5, <1>6 DEF Promise!Lapse

LEMMA DeactivationIsClose ==
    ASSUME Inv, NEW r \in Requests, CommitDeactivation(r)
    PROVE  user[r] \in Users /\ Promise!Close(user[r])
<1> DEFINE K == {k \in Promise!Issued : promisedKeys[k].owner = user[r]}
<1>1. /\ pc[r] = "revoking" /\ todo[r] = {}
      /\ users' = [users EXCEPT ![user[r]] = "inactive"]
  BY DEF CommitDeactivation
<1>2. user[r] \in Users /\ users[user[r]] = "active"
  BY <1>1 DEF Inv, OperationFits, LockedUserKept, AccountOperations
<1>3. /\ keys' \in Seq(Row) /\ Len(keys') = Len(keys)
      /\ \A k \in Rows : /\ keys'[k].owner = keys[k].owner
                         /\ keys'[k].enabled = (keys[k].enabled /\ k \notin held[r])
                         /\ keys'[k].expired = keys[k].expired
  BY DeactivationEffect DEF Inv
<1>4. /\ Len(promisedKeys) = Len(keys)
      /\ \A k \in Rows : promisedKeys[k].owner = keys[k].owner /\ keys[k].enabled \in BOOLEAN
  BY PromisedKeysFacts, PromisedKeyType, KeysFacts DEF Inv, Row
<1>5. K = {k \in Rows : keys[k].owner = user[r]}
  BY <1>4 DEF Promise!Issued, Rows
<1>6. \A k \in Rows : keys[k].enabled => (k \in held[r] <=> k \in K)
  BY <1>1, <1>5 DEF Inv, EnabledKeysTracked
<1> HIDE DEF K
<1>7. \A k \in Rows : (keys'[k].enabled /\ ~keys'[k].expired)
                          = (keys[k].enabled /\ ~keys[k].expired /\ k \notin K)
  BY <1>3, <1>4, <1>6
<1>8. K \in SUBSET Rows
  BY <1>5
<1>9. Promise!Kill(K)
  BY <1>3, <1>7, <1>8, DyingKeys DEF Inv
<1> QED  BY <1>1, <1>2, <1>9 DEF K, Promise!Close

LEMMA InsertKeyIsIssue ==
    ASSUME Inv, NEW r \in Requests, InsertKey(r)
    PROVE  \/ UNCHANGED <<users, keys>>
           \/ user[r] \in Users /\ Promise!Issue(user[r])
<1>1. CASE UNCHANGED <<users, keys>>
  BY <1>1
<1>2. CASE ~UNCHANGED <<users, keys>>
  <2>1. /\ user[r] \in Users
        /\ op[r] = "issue" => users[user[r]] = "active"
        /\ op[r] \in {"issue", "provision"}
    BY DEF Inv, OperationFits, LockedUserKept, AccountOperations, InsertKey
  <2>2. /\ users' = IF op[r] = "provision"
                    THEN [users EXCEPT ![user[r]] = "active"] ELSE users
        /\ \E e \in {Never, AtIssue} : keys' = Append(keys, NewRow(user[r], e))
    BY <1>2 DEF InsertKey
  <2>3. promisedKeys' = Append(promisedKeys, [owner |-> user[r], live |-> TRUE])
    BY <2>1, <2>2, InsertAddsKey DEF Inv
  <2>4. users' = [users EXCEPT ![user[r]] = "active"]
    BY <2>1, <2>2 DEF Inv, TypeOK
  <2> QED  BY <2>1, <2>3, <2>4 DEF Promise!Issue
<1> QED  BY <1>1, <1>2

LEMMA StepImplements ==
    ASSUME Inv, [Next]_vars
    PROVE  [Promise!Next]_<<users, promisedKeys>>
<1>1. CASE UNCHANGED <<users, keys>>
  BY <1>1 DEF promisedKeys, Rows
<1>2. ASSUME NEW r \in Requests, CommitCreate(r)
      PROVE  Promise!Next
  <2>1. user[r] \in Users /\ users[user[r]] = "absent"
    BY <1>2 DEF Inv, OperationFits, LockedUserKept, AccountOperations, CommitCreate
  <2>2. users' = [users EXCEPT ![user[r]] = "active"] /\ UNCHANGED keys
    BY <1>2 DEF CommitCreate
  <2>3. promisedKeys' = promisedKeys
    BY <2>2 DEF promisedKeys, Rows
  <2> QED  BY <2>1, <2>2, <2>3 DEF Promise!Next, Promise!Open
<1>3. ASSUME NEW r \in Requests, InsertKey(r)
      PROVE  UNCHANGED <<users, keys>> \/ Promise!Next
  BY <1>3, InsertKeyIsIssue DEF Promise!Next
<1>4. ASSUME NEW r \in Requests, CommitDeactivation(r)
      PROVE  Promise!Next
  BY <1>4, DeactivationIsClose DEF Promise!Next
<1>5. ASSUME NEW r \in Requests, CommitBackfill(r)
      PROVE  Promise!Next
  <2>1. UNCHANGED users
    BY <1>5 DEF CommitBackfill
  <2> QED  BY <1>5, <2>1, BackfillEffect, DyingIsLapse DEF Inv, Promise!Next
<1>6. ASSUME RevokeByHand \/ Expire
      PROVE  Promise!Next
  <2>1. UNCHANGED users
    BY <1>6 DEF RevokeByHand, Expire
  <2> QED  BY <1>6, <2>1, ByHandEffect, DyingIsLapse DEF Inv, Promise!Next
<1>7. ASSUME NEW r \in Requests, Arrive(r) \/ Serve(r) \/ Fail(r)
      PROVE  \/ UNCHANGED <<users, keys>>
             \/ CommitCreate(r)
             \/ InsertKey(r)
             \/ CommitDeactivation(r)
             \/ CommitBackfill(r)
  BY <1>7 DEF Serve, Arrive, Fail, InsertUser, Deactivate, RevokeRow, Upsert, LockUser,
     ReadKey, RecordUse, LogRejection, ReadCandidates, UpdateExpiry, LogUpdate
<1> QED  BY <1>1, <1>2, <1>3, <1>4, <1>5, <1>6, <1>7 DEF Next, vars

LEMMA InitImplements == Init => Promise!Init
<1> SUFFICES ASSUME Init PROVE Promise!Init
  OBVIOUS
<1>1. keys \in Seq(Row) /\ Len(keys) = 0
  BY DEF Init
<1>2. promisedKeys \in Seq(Promise!Key) /\ Len(promisedKeys) = 0
  BY <1>1, PromisedKeysFacts
<1> QED  BY <1>2 DEF Init, Promise!Init

(***************************************************************************)
(* Statements, locks and snapshots show as the atomic operations of        *)
(* Accounts: closing an account kills exactly its keys, and issuing never  *)
(* brings an older key back.                                               *)
(***************************************************************************)
THEOREM TablesImplementAccounts == Spec => ImplementsAccounts
<1>1. Init => Promise!Init
  BY InitImplements
<1>2. Inv /\ [Next]_vars => [Promise!Next]_<<users, promisedKeys>>
  BY StepImplements
<1> QED  BY <1>1, <1>2, SpecInv, PTL DEF Spec, ImplementsAccounts, Promise!Spec

-----------------------------------------------------------------------------
(***************************************************************************)
(* Progress, as far as it is not a matter of fairness.  There may be any   *)
(* number of operations, but only finitely many have arrived by now.       *)
(***************************************************************************)
Arrived == {r \in Requests : pc[r] # "idle"}

FinitelyManyArrived == IsFiniteSet(Arrived)

LEMMA ArrivedStep ==
    ASSUME TypeOK, FinitelyManyArrived, [Next]_vars
    PROVE  FinitelyManyArrived'
<1>1. ASSUME NEW r \in Requests, Arrive(r) \/ Serve(r) \/ Fail(r)
      PROVE  FinitelyManyArrived'
  <2>1. \A q \in Requests \ {r} : pc'[q] = pc[q]
    BY <1>1 DEF TypeOK, GoTo, Arrive, Serve, InsertUser, CommitCreate, Deactivate, RevokeRow,
       CommitDeactivation, Upsert, LockUser, InsertKey, ReadKey, RecordUse, LogRejection,
       ReadCandidates, UpdateExpiry, LogUpdate, CommitBackfill, Fail
  <2>2. Arrived' \in SUBSET (Arrived \union {r})
    BY <2>1 DEF Arrived
  <2>3. IsFiniteSet(Arrived \union {r})
    BY FS_AddElement DEF FinitelyManyArrived
  <2> QED  BY <2>2, <2>3, FS_Subset DEF FinitelyManyArrived
<1>2. CASE RevokeByHand \/ Expire \/ UNCHANGED vars
  <2>1. Arrived' = Arrived
    BY <1>2 DEF RevokeByHand, Expire, vars, Arrived
  <2> QED  BY <2>1 DEF FinitelyManyArrived
<1> QED  BY <1>1, <1>2 DEF Next

LEMMA SpecArrived == Spec => []FinitelyManyArrived
<1>1. Init => FinitelyManyArrived
  <2>1. Init => Arrived = {}
    BY DEF Init, Arrived
  <2> QED  BY <2>1, FS_EmptySet DEF FinitelyManyArrived
<1>2. TypeOK /\ FinitelyManyArrived /\ [Next]_vars => FinitelyManyArrived'
  BY ArrivedStep
<1> QED  BY <1>1, <1>2, TypeCorrect, PTL DEF Spec

(***************************************************************************)
(* Who is waited for is open: nothing is locked once a transaction ended.  *)
(***************************************************************************)
LEMMA BlockersAreOpen ==
    ASSUME OperationFits, HeldByWalks, NEW r \in Requests, NEW q \in Blockers(r)
    PROVE  q \in Requests /\ pc[q] \in Open
<1>1. q \in Requests \ {r} /\ Waits(r, q)
  BY DEF Blockers
<1>2. \A u : LocksUser(q, u) \/ WroteUser(q, u) \/ LocksForUpdate(q, u) \/ RefersTo(q, u)
               => pc[q] \in Open
  BY DEF LocksUser, WroteUser, LocksForUpdate, RefersTo, Open
<1>3. \A k : k \in held[q] => pc[q] \in Open
  BY <1>1 DEF HeldByWalks, Open
<1> QED  BY <1>1, <1>2, <1>3 DEF Waits

(***************************************************************************)
(* Of the finite sets in which everybody waits for somebody there is one   *)
(* with no smaller one inside, a cycle.                                    *)
(***************************************************************************)
LEMMA CycleWithin ==
    ASSUME NEW D \in SUBSET Requests, IsFiniteSet(D), WaitsWithin(D)
    PROVE  \E r \in D : Deadlocked(r)
<1> DEFINE Waiting == {C \in SUBSET D : WaitsWithin(C)}
<1>1. Waiting \subseteq FiniteSubsetsOf(D) /\ Waiting # {}
  BY FS_Subset DEF FiniteSubsetsOf
<1>2. PICK C \in Waiting : \A B \in Waiting : ~(<<B, C>> \in StrictSubsetOrdering(D))
  <2>1. IsWellFoundedOn(StrictSubsetOrdering(D), FiniteSubsetsOf(D))
    BY FS_StrictSubsetOrderingWellFounded
  <2> HIDE DEF Waiting
  <2> QED  BY <1>1, <2>1, WFMin
<1>3. ASSUME NEW B \in SUBSET C, WaitsWithin(B) PROVE B = C
  <2>1. B \in Waiting
    BY <1>2, <1>3
  <2>2. ~(<<B, C>> \in StrictSubsetOrdering(D))
    BY <1>2, <2>1
  <2> QED  BY <1>3, <2>1, <2>2 DEF StrictSubsetOrdering
<1>4. PICK r \in C : TRUE
  BY <1>2 DEF WaitsWithin
<1>5. C \in SUBSET Requests /\ WaitsWithin(C) /\ r \in D
  BY <1>2, <1>4
<1> HIDE DEF Waiting
<1> QED  BY <1>3, <1>4, <1>5 DEF Deadlocked

(***************************************************************************)
(* The sessions never come to a standstill: while operations are open, one *)
(* of them waits for nobody, or is in a cycle that PostgreSQL breaks.      *)
(***************************************************************************)
NobodyIsStranded ==
    (\E r \in Requests : pc[r] \in Open) =>
        \E r \in Requests : pc[r] \in Open /\ (Blockers(r) = {} \/ Deadlocked(r))

(***************************************************************************)
(* However many sessions wait for each other's rows, one of them can go on *)
(* or is on a cycle.                                                       *)
(***************************************************************************)
THEOREM SessionsNeverStandStill == Spec => []NobodyIsStranded
<1>1. ASSUME Inv, FinitelyManyArrived PROVE NobodyIsStranded
  <2> SUFFICES ASSUME NEW r \in Requests, pc[r] \in Open,
                      \A q \in Requests : pc[q] \in Open => Blockers(q) # {}
               PROVE  \E q \in Requests : pc[q] \in Open /\ Deadlocked(q)
    BY DEF NobodyIsStranded
  <2> DEFINE D == {q \in Requests : pc[q] \in Open}
  <2>1. D \in SUBSET Arrived /\ D \in SUBSET Requests
    BY DEF Arrived, Open
  <2>2. IsFiniteSet(D)
    BY <1>1, <2>1, FS_Subset DEF FinitelyManyArrived
  <2>3. ASSUME NEW p \in D PROVE Blockers(p) \intersect D # {}
    <3>1. PICK q : q \in Blockers(p)
      BY <2>3
    <3>2. q \in D
      BY <1>1, <2>3, <3>1, BlockersAreOpen DEF Inv
    <3> QED  BY <3>1, <3>2
  <2>4. WaitsWithin(D)
    BY <2>3 DEF WaitsWithin
  <2>5. PICK q \in D : Deadlocked(q)
    BY <2>1, <2>2, <2>4, CycleWithin
  <2> QED  BY <2>5
<1> QED  BY <1>1, SpecInv, SpecArrived, PTL

(***************************************************************************)
(* How far an operation has got, and what brings it nearer to its end: the *)
(* next stage, one key fewer to visit, or the event that is due for one.   *)
(***************************************************************************)
Stage(l) == CASE l = "idle"                                              -> 0
              [] l = "arrived"                                           -> 1
              [] l \in {"inserted", "upserted", "accepting", "rejecting"} -> 2
              [] l = "locked"                                            -> 3
              [] l \in {"revoking", "backfilling", "logging"}            -> 4
              [] OTHER                                                   -> 5

Nearer(r) ==
    \/ Stage(pc'[r]) > Stage(pc[r])
    \/ /\ Stage(pc'[r]) = Stage(pc[r])
       /\ todo'[r] \subseteq todo[r] /\ todo'[r] # todo[r]
    \/ /\ pc[r] = "backfilling" /\ pc'[r] = "logging"
       /\ todo'[r] = todo[r]

(* A backfill logs a key it has still to do. *)
LogsWhatIsDue == \A r \in Requests : pc[r] = "logging" => key[r] \in todo[r]

LEMMA OthersStayPut ==
    ASSUME TypeOK, NEW r \in Requests, Arrive(r) \/ Serve(r) \/ Fail(r),
           NEW q \in Requests \ {r}
    PROVE  UNCHANGED <<pc[q], key[q], todo[q]>>
  BY DEF TypeOK, GoTo, walkVars, Arrive, Serve, InsertUser, CommitCreate, Deactivate, RevokeRow,
     CommitDeactivation, Upsert, LockUser, InsertKey, ReadKey, RecordUse, LogRejection,
     ReadCandidates, UpdateExpiry, LogUpdate, CommitBackfill, Fail

LEMMA LogsWhatIsDueStep ==
    ASSUME TypeOK, LogsWhatIsDue, [Next]_vars
    PROVE  LogsWhatIsDue'
<1>1. ASSUME NEW r \in Requests, Arrive(r) \/ Serve(r) \/ Fail(r) PROVE LogsWhatIsDue'
  <2>1. \A q \in Requests \ {r} : UNCHANGED <<pc[q], key[q], todo[q]>>
    BY <1>1, OthersStayPut
  <2>2. pc'[r] = "logging" => key'[r] \in todo'[r]
    <3>1. CASE UpdateExpiry(r)
      BY <3>1 DEF TypeOK, UpdateExpiry
    <3>2. CASE ~UpdateExpiry(r)
      <4>1. pc'[r] # "logging"
        BY <1>1, <3>2 DEF TypeOK, GoTo, Arrive, Serve, InsertUser, CommitCreate,
           Deactivate, RevokeRow, CommitDeactivation, Upsert, LockUser, InsertKey, ReadKey,
           RecordUse, LogRejection, ReadCandidates, LogUpdate, CommitBackfill, Fail
      <4> QED  BY <4>1
    <3> QED  BY <3>1, <3>2
  <2> QED  BY <2>1, <2>2 DEF LogsWhatIsDue
<1>2. CASE RevokeByHand \/ Expire \/ UNCHANGED vars
  BY <1>2 DEF LogsWhatIsDue, RevokeByHand, Expire, vars, walkVars
<1> QED  BY <1>1, <1>2 DEF Next

LEMMA ServeBringsNearer ==
    ASSUME TypeOK, LogsWhatIsDue, NEW r \in Requests, Arrive(r) \/ Serve(r) \/ Fail(r)
    PROVE  Nearer(r)
<1>1. CASE Arrive(r) \/ InsertUser(r) \/ CommitCreate(r) \/ CommitDeactivation(r) \/ Upsert(r)
  BY <1>1 DEF TypeOK, GoTo, Arrive, InsertUser, CommitCreate, CommitDeactivation, Upsert,
     Nearer, Stage
<1>2. CASE Deactivate(r)
  <2>1. pc[r] = "arrived" /\ pc'[r] \in {"refused", "revoking"}
    BY <1>2 DEF TypeOK, GoTo, Deactivate
  <2> QED  BY <2>1 DEF Nearer, Stage
<1>3. CASE LockUser(r) \/ ReadKey(r)
  BY <1>3 DEF TypeOK, GoTo, LockUser, ReadKey, Nearer, Stage
<1>4. CASE InsertKey(r)
  <2>1. pc[r] = "locked" /\ pc'[r] \in {"refused", "issued"}
    BY <1>4 DEF TypeOK, GoTo, InsertKey
  <2> QED  BY <2>1 DEF Nearer, Stage
<1>5. CASE RecordUse(r) \/ LogRejection(r) \/ ReadCandidates(r) \/ CommitBackfill(r)
  <2>1. \/ pc[r] \in {"accepting", "rejecting"} /\ pc'[r] \in {"accepted", "rejected"}
        \/ pc[r] = "arrived" /\ pc'[r] \in {"backfilled", "backfilling"}
        \/ pc[r] = "backfilling" /\ pc'[r] = "backfilled"
    BY <1>5 DEF TypeOK, GoTo, RecordUse, LogRejection, ReadCandidates, CommitBackfill
  <2> QED  BY <2>1 DEF Nearer, Stage
<1>6. CASE RevokeRow(r)
  BY <1>6 DEF TypeOK, RevokeRow, Nearer
<1>7. CASE UpdateExpiry(r)
  BY <1>7 DEF TypeOK, GoTo, UpdateExpiry, Nearer
<1>8. CASE LogUpdate(r)
  <2>1. pc[r] = "logging" /\ pc'[r] = "backfilling" /\ todo'[r] = todo[r] \ {key[r]}
    BY <1>8 DEF TypeOK, GoTo, LogUpdate
  <2>2. key[r] \in todo[r]
    BY <2>1 DEF LogsWhatIsDue
  <2> QED  BY <2>1, <2>2 DEF Nearer, Stage
<1>9. CASE Fail(r)
  <2>1. pc[r] \in Open /\ pc'[r] = "failed"
    BY <1>9 DEF TypeOK, GoTo, Fail
  <2> QED  BY <2>1 DEF Open, Nearer, Stage
<1> QED  BY <1>1, <1>2, <1>3, <1>4, <1>5, <1>6, <1>7, <1>8, <1>9 DEF Serve

(***************************************************************************)
(* No operation goes in circles, and none is put back by another: its own  *)
(* steps and failures bring it nearer to its end, and everybody else's     *)
(* leave it where it is.                                                   *)
(***************************************************************************)
OperationsWindDown ==
    \A r \in Requests :
        /\ Serve(r) \/ Fail(r) => Nearer(r)
        /\ Nearer(r) \/ UNCHANGED <<pc[r], todo[r]>>

LEMMA StepWindsDown ==
    ASSUME TypeOK, LogsWhatIsDue, [Next]_vars
    PROVE  [OperationsWindDown]_vars
<1>1. \A r \in Requests : Arrive(r) \/ Serve(r) \/ Fail(r) => Nearer(r)
  BY ServeBringsNearer
<1>2. \A r \in Requests : Arrive(r) \/ Serve(r) \/ Fail(r) =>
        \A q \in Requests \ {r} : UNCHANGED <<pc[q], todo[q]>>
  BY OthersStayPut
<1>3. RevokeByHand \/ Expire => UNCHANGED <<pc, todo>>
  BY DEF RevokeByHand, Expire, walkVars
<1> QED  BY <1>1, <1>2, <1>3 DEF Next, OperationsWindDown

(***************************************************************************)
(* Every operation takes a bounded number of steps: five stages at most,   *)
(* and two for each key its UPDATEs visit.                                 *)
(***************************************************************************)
THEOREM EveryStepWindsDown == Spec => [][OperationsWindDown]_vars
<1>1. Init => LogsWhatIsDue
  BY DEF Init, LogsWhatIsDue
<1>2. TypeOK /\ LogsWhatIsDue /\ [Next]_vars => LogsWhatIsDue'
  BY LogsWhatIsDueStep
<1>3. TypeOK /\ LogsWhatIsDue /\ [Next]_vars => [OperationsWindDown]_vars
  BY StepWindsDown
<1> QED  BY <1>1, <1>2, <1>3, TypeCorrect, PTL DEF Spec
=============================================================================
