---------------------------- MODULE TokenFamilies ----------------------------
(***************************************************************************)
(* What the refresh-token store promises, with every operation atomic and  *)
(* without requests, locks, snapshots or time.                             *)
(*                                                                         *)
(* `tokens` lists the tokens ever issued, oldest first.  A token is live   *)
(* until it is exchanged for its heir or revoked.  A token, its heir, the  *)
(* heir's heir and so on are one family.  RefreshTokens implements this    *)
(* specification (RefreshTokens!Families).                                 *)
(***************************************************************************)
EXTENDS Naturals, Sequences

CONSTANTS
    Clients,    \* service clients
    Scopes      \* scope strings a token may carry

VARIABLE tokens

NoHeir == 0

Token == [owner: Clients, scopes: SUBSET Scopes, live: BOOLEAN, heir: Nat]

Issued == 1..Len(tokens)

Init == tokens = << >>

(***************************************************************************)
(* A client starts a new family with a token for some of its scopes.       *)
(***************************************************************************)
Mint(c, S) ==
    tokens' = Append(tokens, [owner |-> c, scopes |-> S,
                              live |-> TRUE, heir |-> NoHeir])

(***************************************************************************)
(* A live token is exchanged for its heir: the same owner, no new scope,   *)
(* and the token itself dies in the same step.                             *)
(***************************************************************************)
Exchange(t, S) ==
    /\ tokens[t].live
    /\ S \subseteq tokens[t].scopes
    /\ tokens' = Append([tokens EXCEPT ![t] = [@ EXCEPT !.live = FALSE,
                                                     !.heir = Len(tokens) + 1]],
                        [owner |-> tokens[t].owner, scopes |-> S,
                         live |-> TRUE, heir |-> NoHeir])

(***************************************************************************)
(* Any set of tokens may be revoked at once.                               *)
(***************************************************************************)
Revoke(T) ==
    tokens' = [t \in Issued |->
                 IF t \in T THEN [tokens[t] EXCEPT !.live = FALSE]
                 ELSE tokens[t]]

Next ==
    \/ \E c \in Clients, S \in SUBSET Scopes : Mint(c, S)
    \/ \E t \in Issued, S \in SUBSET Scopes : Exchange(t, S)
    \/ \E T \in SUBSET Issued : Revoke(T)

Spec == Init /\ [][Next]_tokens

-----------------------------------------------------------------------------
TypeOK == tokens \in Seq(Token)

(***************************************************************************)
(* A family is a chain with at most one live token, its newest: a token    *)
(* with an heir is dead, heirs are younger, and no two tokens share one.   *)
(***************************************************************************)
FamiliesAreChains ==
    /\ \A t \in Issued : tokens[t].heir # NoHeir =>
          /\ ~tokens[t].live
          /\ tokens[t].heir \in Issued
          /\ t < tokens[t].heir
    /\ \A t, u \in Issued :
          tokens[t].heir = tokens[u].heir /\ tokens[t].heir # NoHeir => t = u

(***************************************************************************)
(* Along a chain the owner stays and the scopes never grow.                *)
(***************************************************************************)
HeirsNeverGain ==
    \A t \in Issued : tokens[t].heir # NoHeir =>
        /\ tokens[tokens[t].heir].owner = tokens[t].owner
        /\ tokens[tokens[t].heir].scopes \subseteq tokens[t].scopes
=============================================================================
