----------------------------- MODULE MCPolicyGate -----------------------------
(***************************************************************************)
(* Values and symmetry for checking PolicyGate with TLC.                   *)
(***************************************************************************)
EXTENDS PolicyGate, TLC

CONSTANTS r1, r2, r3, t1, t2, lens, market, admin, all

GateSymmetry == Permutations(Requests) \union Permutations(Tenants)

(* A scope covers itself; `all` is a wildcard that covers the others. *)
MCSatisfies ==
    [s \in {lens, market, admin, all} |-> IF s = all THEN {lens, market, admin, all} ELSE {s}]

(* The client's row: with the wildcard, without it, disabled. *)
Rows ==
    {[active |-> TRUE, scopes |-> {lens, market, all}],
     [active |-> TRUE, scopes |-> {lens, market}],
     [active |-> FALSE, scopes |-> {lens, market}]}
=============================================================================
