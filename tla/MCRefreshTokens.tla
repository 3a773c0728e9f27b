--------------------------- MODULE MCRefreshTokens ---------------------------
(***************************************************************************)
(* Values and symmetry for checking RefreshTokens with TLC.                *)
(***************************************************************************)
EXTENDS RefreshTokens, TLC

CONSTANTS r1, r2, r3, r4, c1, c2, all, read, write

RequestSymmetry == Permutations(Requests)

(* A scope covers itself; `all` is a wildcard that covers the others. *)
WildcardSatisfies ==
    [s \in Scopes |-> IF s = all THEN Scopes ELSE {s}]

(* Clients registered once and for all, with every scope. *)
OneRegistration == {[active |-> TRUE, shortLived |-> TRUE, scopes |-> Scopes]}

(* Clients registered once and for all, with the wildcard. *)
WildcardRegistration == {[active |-> TRUE, shortLived |-> TRUE, scopes |-> {all}]}

(* Operators opt a client out of short-lived tokens and back in. *)
OptInAndOut ==
    {[active |-> TRUE, shortLived |-> b, scopes |-> Scopes] : b \in BOOLEAN}

(* They may also disable it. *)
OptOutOrDisable ==
    OptInAndOut \union {[active |-> FALSE, shortLived |-> TRUE, scopes |-> Scopes]}

(* Operators take a scope away from a client and give it back. *)
ChangingGrants ==
    {[active |-> TRUE, shortLived |-> TRUE, scopes |-> S] : S \in {Scopes, {read}}}

(***************************************************************************)
(* For temporal properties TLC admits no symmetry set: instead the         *)
(* requests are numbers and enter the service in their order.  Which one   *)
(* enters first makes no difference, they are all alike.                   *)
(***************************************************************************)
InOrderRequest ==
    \E r \in Requests :
        /\ pc[r] = "idle" => \A q \in Requests : q < r => pc[q] # "idle"
        /\ Serve(r) \/ Fail(r)

InOrderSpec == Init /\ [][InOrderRequest \/ Expire \/ Reregister]_vars

(***************************************************************************)
(* In the liveness run no token expires: expiry only turns a rotation into *)
(* a refusal, which holds no row.                                          *)
(***************************************************************************)
InOrderFairSpec == Init /\ [][InOrderRequest \/ Reregister]_vars /\ Fairness
=============================================================================
