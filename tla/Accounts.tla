------------------------------- MODULE Accounts -------------------------------
(***************************************************************************)
(* What the accounts and their personal API keys promise, with every       *)
(* operation atomic and without requests, locks or snapshots.              *)
(*                                                                         *)
(* An account is absent, active or inactive.  `keys` lists the keys ever   *)
(* issued, oldest first; a key is live until it is revoked or expires.     *)
(* UserApiKeys implements this specification (UserApiKeys!Promise).        *)
(***************************************************************************)
EXTENDS Naturals, Sequences

CONSTANT Users

VARIABLES
    status,     \* status[u]: the account of user u
    keys        \* the keys ever issued

Status == {"absent", "active", "inactive"}
Key == [owner: Users, live: BOOLEAN]

Issued == 1..Len(keys)

Init ==
    /\ status = [u \in Users |-> "absent"]
    /\ keys = << >>

(***************************************************************************)
(* An account is created once, without a key.                              *)
(***************************************************************************)
Open(u) ==
    /\ status[u] = "absent"
    /\ status' = [status EXCEPT ![u] = "active"]
    /\ UNCHANGED keys

Kill(K) ==
    keys' = [k \in Issued |->
               IF k \in K THEN [keys[k] EXCEPT !.live = FALSE] ELSE keys[k]]

(***************************************************************************)
(* Closing an account kills every key it has.                              *)
(***************************************************************************)
Close(u) ==
    /\ status[u] = "active"
    /\ status' = [status EXCEPT ![u] = "inactive"]
    /\ Kill({k \in Issued : keys[k].owner = u})

(***************************************************************************)
(* A key is issued to an account that is active from then on, also to one  *)
(* that did not exist or was closed.  No older key comes back with it.     *)
(***************************************************************************)
Issue(u) ==
    /\ status' = [status EXCEPT ![u] = "active"]
    /\ keys' = Append(keys, [owner |-> u, live |-> TRUE])

(***************************************************************************)
(* Keys are revoked or expire.                                             *)
(***************************************************************************)
Lapse == \E K \in SUBSET Issued : Kill(K) /\ UNCHANGED status

Next ==
    \/ \E u \in Users : Open(u) \/ Close(u) \/ Issue(u)
    \/ Lapse

Spec == Init /\ [][Next]_<<status, keys>>

-----------------------------------------------------------------------------
TypeOK ==
    /\ status \in [Users -> Status]
    /\ keys \in Seq(Key)

(***************************************************************************)
(* Only an active account has a live key.                                  *)
(***************************************************************************)
LiveKeysAreOfActiveAccounts ==
    \A k \in Issued : keys[k].live => status[keys[k].owner] = "active"
=============================================================================
