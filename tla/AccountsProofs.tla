---------------------------- MODULE AccountsProofs ----------------------------
(***************************************************************************)
(* What Accounts promises, proved: closing an account leaves it no live    *)
(* key, and no later step brings one back while it is closed.              *)
(***************************************************************************)
EXTENDS Accounts, TLAPS

(***************************************************************************)
(* The rows of a table in which some keys were killed.                     *)
(***************************************************************************)
LEMMA KillKeepsRows ==
    ASSUME TypeOK, NEW K \in SUBSET Issued, Kill(K)
    PROVE  /\ keys' \in Seq(Key)
           /\ Issued' = Issued
           /\ \A k \in Issued : /\ keys'[k].owner = keys[k].owner
                                /\ keys'[k].live <=> (keys[k].live /\ k \notin K)
<1>1. \A k \in Issued : keys[k] \in Key
  BY DEF TypeOK, Issued
<1>2. \A k \in Issued :
         /\ [keys[k] EXCEPT !.live = FALSE] \in Key
         /\ [keys[k] EXCEPT !.live = FALSE].owner = keys[k].owner
         /\ [keys[k] EXCEPT !.live = FALSE].live = FALSE
  BY <1>1 DEF Key
<1>3. /\ Len(keys) \in Nat
      /\ keys' \in [1..Len(keys) -> Key]
  BY <1>1, <1>2 DEF Kill, TypeOK, Issued
<1>4. /\ keys' \in Seq(Key)
      /\ Len(keys') = Len(keys)
  BY <1>3
<1>5. ASSUME NEW k \in Issued
      PROVE  /\ keys'[k].owner = keys[k].owner
             /\ keys'[k].live <=> (keys[k].live /\ k \notin K)
  <2>1. CASE k \in K
    <3>1. keys'[k] = [keys[k] EXCEPT !.live = FALSE]
      BY <2>1 DEF Kill
    <3> QED
      BY <1>2, <2>1, <3>1
  <2>2. CASE k \notin K
    <3>1. keys'[k] = keys[k]
      BY <2>2 DEF Kill
    <3> QED
      BY <2>2, <3>1
  <2> QED
    BY <2>1, <2>2
<1> QED
  BY <1>4, <1>5 DEF Issued

LEMMA OwnersAreUsers ==
    ASSUME TypeOK
    PROVE  \A k \in Issued : keys[k].owner \in Users
<1>1. \A k \in Issued : keys[k] \in Key
  BY DEF TypeOK, Issued
<1> QED
  BY <1>1 DEF Key

(***************************************************************************)
(* In every behaviour the types hold and only an active account has a live *)
(* key: what delete_account with its trigger is for.                       *)
(***************************************************************************)
THEOREM OnlyActiveAccountsHaveLiveKeys ==
    Spec => [](TypeOK /\ LiveKeysAreOfActiveAccounts)
<1> DEFINE Inv == TypeOK /\ LiveKeysAreOfActiveAccounts
<1>1. Init => Inv
  BY DEF Init, TypeOK, LiveKeysAreOfActiveAccounts, Issued, Status
<1>2. ASSUME Inv, [Next]_<<status, keys>>
      PROVE  Inv'
  <2> USE <1>2 DEF LiveKeysAreOfActiveAccounts
  <2>1. ASSUME NEW u \in Users, Open(u)
        PROVE  Inv'
    <3>1. /\ status' \in [Users -> Status]
          /\ status'[u] = "active"
          /\ \A v \in Users : v # u => status'[v] = status[v]
      BY <2>1 DEF Open, TypeOK, Status
    <3> QED
      BY <2>1, <3>1, OwnersAreUsers DEF Open, TypeOK, Issued
  <2>2. ASSUME NEW u \in Users, Close(u)
        PROVE  Inv'
    <3> DEFINE K == {k \in Issued : keys[k].owner = u}
    <3>1. /\ keys' \in Seq(Key)
          /\ Issued' = Issued
          /\ \A k \in Issued : /\ keys'[k].owner = keys[k].owner
                               /\ keys'[k].live <=> (keys[k].live /\ k \notin K)
      BY <2>2, KillKeepsRows DEF Close
    <3>2. /\ status' \in [Users -> Status]
          /\ \A v \in Users : v # u => status'[v] = status[v]
      BY <2>2 DEF Close, TypeOK, Status
    <3>3. \A k \in Issued : keys[k].owner \in Users
      BY OwnersAreUsers
    <3> QED
      BY <3>1, <3>2, <3>3 DEF TypeOK
  <2>3. ASSUME NEW u \in Users, Issue(u)
        PROVE  Inv'
    <3>1. [owner |-> u, live |-> TRUE] \in Key
      BY DEF Key
    <3> DEFINE new == [owner |-> u, live |-> TRUE]
    <3>2. new \in Key /\ new.owner = u
      BY <3>1
    <3>3. keys' = Append(keys, new) /\ keys \in Seq(Key)
      BY <2>3 DEF Issue, TypeOK
    <3>4. /\ status' \in [Users -> Status]
          /\ status'[u] = "active"
          /\ \A v \in Users : v # u => status'[v] = status[v]
      BY <2>3 DEF Issue, TypeOK, Status
    <3> HIDE DEF new
    <3>5. /\ keys' \in Seq(Key)
          /\ Len(keys') = Len(keys) + 1
          /\ \A k \in Issued : keys'[k] = keys[k]
          /\ keys'[Len(keys) + 1] = new
      BY <3>2, <3>3 DEF Issued
    <3>6. \A k \in Issued : keys[k].owner \in Users
      BY OwnersAreUsers
    <3>7. \A k \in Issued' : k \in Issued \/ k = Len(keys) + 1
      BY <3>3, <3>5 DEF Issued
    <3>8. ASSUME NEW k \in Issued', keys'[k].live
          PROVE  status'[keys'[k].owner] = "active"
      BY <3>2, <3>4, <3>5, <3>6, <3>7, <3>8
    <3> QED
      BY <3>4, <3>5, <3>8 DEF TypeOK
  <2>4. ASSUME Lapse
        PROVE  Inv'
    <3>1. PICK K \in SUBSET Issued : Kill(K) /\ UNCHANGED status
      BY <2>4 DEF Lapse
    <3>2. /\ keys' \in Seq(Key)
          /\ Issued' = Issued
          /\ \A k \in Issued : /\ keys'[k].owner = keys[k].owner
                               /\ keys'[k].live <=> (keys[k].live /\ k \notin K)
      BY <3>1, KillKeepsRows
    <3> QED
      BY <3>1, <3>2 DEF TypeOK
  <2>5. CASE UNCHANGED <<status, keys>>
    BY <2>5 DEF TypeOK, Issued
  <2> QED
    BY <2>1, <2>2, <2>3, <2>4, <2>5 DEF Next
<1> QED
  BY <1>1, <1>2, PTL DEF Spec
=============================================================================
