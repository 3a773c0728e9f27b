------------------------- MODULE TokenFamiliesProofs -------------------------
(***************************************************************************)
(* Proofs about TokenFamilies: its families are chains, and nothing is     *)
(* gained along one, for any clients and scopes and any number of tokens.  *)
(***************************************************************************)
EXTENDS TokenFamilies, SequenceTheorems, TLAPS

(***************************************************************************)
(* Appending a token keeps the old ones in place.                          *)
(***************************************************************************)
LEMMA AppendToken ==
    ASSUME NEW s \in Seq(Token), NEW e \in Token
    PROVE  /\ Append(s, e) \in Seq(Token)
           /\ Len(Append(s, e)) = Len(s) + 1
           /\ \A t \in 1..Len(s) : Append(s, e)[t] = s[t]
           /\ Append(s, e)[Len(s) + 1] = e
  BY AppendProperties

(***************************************************************************)
(* A token that gets an heir: only `live` and `heir` change.               *)
(***************************************************************************)
LEMMA DeadToken ==
    ASSUME NEW k \in Token, NEW n \in Nat
    PROVE  LET d == [k EXCEPT !.live = FALSE, !.heir = n]
           IN  /\ d \in Token
               /\ d.owner = k.owner
               /\ d.scopes = k.scopes
               /\ ~d.live
               /\ d.heir = n
  BY DEF Token

(***************************************************************************)
(* What Exchange leaves: the exchanged token dead with its heir, the heir  *)
(* new at the end, the rest as it was.                                     *)
(***************************************************************************)
LEMMA ExchangeEffect ==
    ASSUME TypeOK, NEW t \in Issued, NEW S \in SUBSET Scopes, Exchange(t, S)
    PROVE  /\ tokens' \in Seq(Token)
           /\ Len(tokens') = Len(tokens) + 1
           /\ \A u \in Issued : u # t => tokens'[u] = tokens[u]
           /\ tokens'[t].owner = tokens[t].owner
           /\ tokens'[t].scopes = tokens[t].scopes
           /\ ~tokens'[t].live
           /\ tokens'[t].heir = Len(tokens) + 1
           /\ tokens'[Len(tokens) + 1] =
                [owner |-> tokens[t].owner, scopes |-> S,
                 live |-> TRUE, heir |-> NoHeir]
<1> DEFINE old  == [tokens[t] EXCEPT !.live = FALSE, !.heir = Len(tokens) + 1]
           dead == [tokens EXCEPT ![t] = old]
           new  == [owner |-> tokens[t].owner, scopes |-> S,
                    live |-> TRUE, heir |-> NoHeir]
<1>1. tokens \in Seq(Token) /\ tokens[t] \in Token /\ Len(tokens) \in Nat
  BY DEF TypeOK, Issued
<1>2. /\ old \in Token /\ new \in Token
      /\ old.owner = tokens[t].owner /\ old.scopes = tokens[t].scopes
      /\ ~old.live /\ old.heir = Len(tokens) + 1
  <2>1. new \in Token
    BY <1>1 DEF Token, NoHeir
  <2>2. Len(tokens) + 1 \in Nat
    BY <1>1
  <2> HIDE DEF new
  <2> QED  BY <1>1, <2>1, <2>2, DeadToken
<1>3. tokens' = Append(dead, new)
  BY DEF Exchange
<1>4. /\ dead \in Seq(Token) /\ Len(dead) = Len(tokens)
      /\ \A u \in Issued : dead[u] = IF u = t THEN old ELSE tokens[u]
  <2> HIDE DEF old
  <2>1. t \in 1..Len(tokens)
    BY DEF Issued
  <2> QED  BY <1>1, <1>2, <2>1, ExceptSeq DEF Issued
<1> HIDE DEF dead, old, new
<1>5. /\ tokens' \in Seq(Token) /\ Len(tokens') = Len(dead) + 1
      /\ \A u \in 1..Len(dead) : tokens'[u] = dead[u]
      /\ tokens'[Len(dead) + 1] = new
  BY <1>2, <1>3, <1>4, AppendToken
<1> QED  BY <1>2, <1>4, <1>5 DEF new, Issued

(***************************************************************************)
(* What Revoke leaves: the same tokens, some of them dead.                 *)
(***************************************************************************)
LEMMA RevokeEffect ==
    ASSUME TypeOK, NEW T \in SUBSET Issued, Revoke(T)
    PROVE  /\ tokens' \in Seq(Token)
           /\ Len(tokens') = Len(tokens)
           /\ \A t \in Issued : /\ tokens'[t].owner = tokens[t].owner
                                /\ tokens'[t].scopes = tokens[t].scopes
                                /\ tokens'[t].heir = tokens[t].heir
                                /\ tokens'[t].live => tokens[t].live
<1>1. tokens \in Seq(Token) /\ Len(tokens) \in Nat /\ \A t \in Issued : tokens[t] \in Token
  BY DEF TypeOK, Issued
<1>2. \A t \in Issued : [tokens[t] EXCEPT !.live = FALSE] \in Token
  BY <1>1 DEF Token
<1>3. tokens' \in [1..Len(tokens) -> Token]
  BY <1>1, <1>2 DEF Revoke, Issued
<1>4. tokens' \in Seq(Token) /\ Len(tokens') = Len(tokens)
  BY <1>1, <1>3
<1>5. ASSUME NEW t \in Issued
      PROVE  /\ tokens'[t].owner = tokens[t].owner
             /\ tokens'[t].scopes = tokens[t].scopes
             /\ tokens'[t].heir = tokens[t].heir
             /\ tokens'[t].live => tokens[t].live
  <2>1. tokens'[t] = IF t \in T THEN [tokens[t] EXCEPT !.live = FALSE] ELSE tokens[t]
    BY DEF Revoke
  <2>2. tokens[t] \in Token
    BY <1>1
  <2> QED  BY <2>1, <2>2 DEF Token
<1> QED  BY <1>4, <1>5

Inv == TypeOK /\ FamiliesAreChains /\ HeirsNeverGain

LEMMA MintPreserves ==
    ASSUME Inv, NEW c \in Clients, NEW S \in SUBSET Scopes, Mint(c, S)
    PROVE  Inv'
<1> DEFINE new == [owner |-> c, scopes |-> S, live |-> TRUE, heir |-> NoHeir]
<1>1. tokens \in Seq(Token) /\ Len(tokens) \in Nat /\ new \in Token
  BY DEF Inv, TypeOK, Token, NoHeir
<1>2. /\ tokens' \in Seq(Token) /\ Len(tokens') = Len(tokens) + 1
      /\ \A t \in Issued : tokens'[t] = tokens[t]
      /\ tokens'[Len(tokens) + 1] = new
  BY <1>1, AppendToken DEF Mint, Issued
<1>3. \A t \in Issued' : tokens'[t].heir # NoHeir => t \in Issued /\ tokens'[t] = tokens[t]
  BY <1>1, <1>2 DEF Issued
<1>4. Issued \subseteq Issued'
  BY <1>1, <1>2 DEF Issued
<1>5. FamiliesAreChains'
  BY <1>3, <1>4 DEF Inv, FamiliesAreChains
<1>6. HeirsNeverGain'
  BY <1>2, <1>3 DEF Inv, FamiliesAreChains, HeirsNeverGain
<1> QED  BY <1>2, <1>5, <1>6 DEF Inv, TypeOK

LEMMA ExchangePreserves ==
    ASSUME Inv, NEW t \in Issued, NEW S \in SUBSET Scopes, Exchange(t, S)
    PROVE  Inv'
<1>1. /\ tokens' \in Seq(Token) /\ Len(tokens') = Len(tokens) + 1
      /\ \A u \in Issued : u # t => tokens'[u] = tokens[u]
      /\ tokens'[t].owner = tokens[t].owner /\ tokens'[t].scopes = tokens[t].scopes
      /\ ~tokens'[t].live /\ tokens'[t].heir = Len(tokens) + 1
      /\ tokens'[Len(tokens) + 1] = [owner |-> tokens[t].owner, scopes |-> S,
                                     live |-> TRUE, heir |-> NoHeir]
  BY ExchangeEffect DEF Inv
<1>2. Len(tokens) \in Nat /\ t \in 1..Len(tokens)
  BY DEF Inv, TypeOK, Issued
<1>3. Issued' = Issued \union {Len(tokens) + 1} /\ Len(tokens) + 1 \notin Issued
  BY <1>1, <1>2 DEF Issued
<1>4. \A u \in Issued' : tokens'[u].heir # NoHeir =>
         \/ u = t
         \/ u \in Issued /\ u # t /\ tokens'[u] = tokens[u]
            /\ tokens[u].heir \in Issued
  BY <1>1, <1>3 DEF Inv, FamiliesAreChains
<1>5. FamiliesAreChains'
  <2>1. ASSUME NEW u \in Issued', tokens'[u].heir # NoHeir
        PROVE  ~tokens'[u].live /\ tokens'[u].heir \in Issued' /\ u < tokens'[u].heir
    BY <2>1, <1>1, <1>2, <1>3, <1>4 DEF Inv, FamiliesAreChains
  <2>2. ASSUME NEW u \in Issued', NEW w \in Issued',
               tokens'[u].heir = tokens'[w].heir, tokens'[u].heir # NoHeir
        PROVE  u = w
    BY <2>2, <1>1, <1>3, <1>4 DEF Inv, FamiliesAreChains
  <2> QED  BY <2>1, <2>2 DEF FamiliesAreChains
<1>6. HeirsNeverGain'
  <2> SUFFICES ASSUME NEW u \in Issued', tokens'[u].heir # NoHeir
               PROVE  /\ tokens'[tokens'[u].heir].owner = tokens'[u].owner
                      /\ tokens'[tokens'[u].heir].scopes \subseteq tokens'[u].scopes
    BY DEF HeirsNeverGain
  <2>1. CASE u = t
    BY <2>1, <1>1 DEF Exchange
  <2>2. CASE u # t
    <3>1. u \in Issued /\ tokens'[u] = tokens[u] /\ tokens[u].heir \in Issued
      BY <2>2, <1>4
    <3>2. /\ tokens'[tokens[u].heir].owner = tokens[tokens[u].heir].owner
          /\ tokens'[tokens[u].heir].scopes = tokens[tokens[u].heir].scopes
      BY <3>1, <1>1
    <3> QED  BY <3>1, <3>2 DEF Inv, HeirsNeverGain
  <2> QED  BY <2>1, <2>2
<1> QED  BY <1>1, <1>5, <1>6 DEF Inv, TypeOK

LEMMA RevokePreserves ==
    ASSUME Inv, NEW T \in SUBSET Issued, Revoke(T)
    PROVE  Inv'
<1>1. /\ tokens' \in Seq(Token) /\ Len(tokens') = Len(tokens)
      /\ \A t \in Issued : /\ tokens'[t].owner = tokens[t].owner
                           /\ tokens'[t].scopes = tokens[t].scopes
                           /\ tokens'[t].heir = tokens[t].heir
                           /\ tokens'[t].live => tokens[t].live
  BY RevokeEffect DEF Inv
<1>2. Issued' = Issued
  BY <1>1 DEF Issued
<1>3. FamiliesAreChains'
  BY <1>1, <1>2 DEF Inv, FamiliesAreChains
<1>4. HeirsNeverGain'
  BY <1>1, <1>2 DEF Inv, FamiliesAreChains, HeirsNeverGain
<1> QED  BY <1>1, <1>3, <1>4 DEF Inv, TypeOK

(***************************************************************************)
(* Every behaviour of TokenFamilies keeps its families chains with at most *)
(* one live token, the newest, and along a chain the owner stays and the   *)
(* scopes never grow.                                                      *)
(***************************************************************************)
THEOREM FamiliesStayChains == Spec => [](FamiliesAreChains /\ HeirsNeverGain)
<1>1. Init => Inv
  BY DEF Init, Inv, TypeOK, FamiliesAreChains, HeirsNeverGain, Issued
<1>2. Inv /\ [Next]_tokens => Inv'
  <2> SUFFICES ASSUME Inv, [Next]_tokens PROVE Inv'
    OBVIOUS
  <2>1. ASSUME NEW c \in Clients, NEW S \in SUBSET Scopes, Mint(c, S) PROVE Inv'
    BY <2>1, MintPreserves
  <2>2. ASSUME NEW t \in Issued, NEW S \in SUBSET Scopes, Exchange(t, S) PROVE Inv'
    BY <2>2, ExchangePreserves
  <2>3. ASSUME NEW T \in SUBSET Issued, Revoke(T) PROVE Inv'
    BY <2>3, RevokePreserves
  <2>4. CASE UNCHANGED tokens
    BY <2>4 DEF Inv, TypeOK, FamiliesAreChains, HeirsNeverGain, Issued
  <2> QED  BY <2>1, <2>2, <2>3, <2>4 DEF Next
<1>3. Inv => FamiliesAreChains /\ HeirsNeverGain
  BY DEF Inv
<1> QED  BY <1>1, <1>2, <1>3, PTL DEF Spec
=============================================================================
