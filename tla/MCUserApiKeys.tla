---------------------------- MODULE MCUserApiKeys ----------------------------
(***************************************************************************)
(* Symmetry and ordering for checking UserApiKeys with TLC.                *)
(***************************************************************************)
EXTENDS UserApiKeys, TLC

CONSTANTS r1, r2, r3, r4, u1, u2

AllSymmetry == Permutations(Requests) \union Permutations(Users)

(***************************************************************************)
(* For temporal properties TLC admits no symmetry set: instead the         *)
(* requests are numbers and arrive in their order, which makes no          *)
(* difference, they are all alike.  To have keys to walk over, the first   *)
(* is a provision.  Nothing fails but the victims of a deadlock, no key    *)
(* expires and none is revoked by hand: a failure ends a request, and the  *)
(* rest only gives checks and backfills less to do.                        *)
(***************************************************************************)
ArriveInOrder(r) ==
    /\ Arrive(r)
    /\ \A q \in Requests : q < r => pc[q] # "idle"
    /\ r = r1 => op'[r] = "provision"

InOrderNext ==
    \E r \in Requests : ArriveInOrder(r) \/ Serve(r) \/ DetectDeadlock(r)

InOrderFairSpec == Init /\ [][InOrderNext]_vars /\ Fairness
=============================================================================
