------------------------- MODULE RefreshTokensProofs -------------------------
(***************************************************************************)
(* Proofs about RefreshTokens, for any number of requests, clients, scopes *)
(* and tokens: its types, its inductive invariant, the safety properties   *)
(* that follow, that it implements TokenFamilies, that the history of a    *)
(* row is kept, and what holds of whole families.                          *)
(***************************************************************************)
EXTENDS RefreshTokens, SequenceTheorems, TLAPS

(***************************************************************************)
(* The parts of the inductive invariant.                                   *)
(***************************************************************************)

(* A row is replaced only together with its revocation. *)
ReplacedRowsRevoked ==
    \A t \in Rows : table[t].replacedBy # NoToken => table[t].revoked

(* From the lookup on, a refresh request presents a row of the table. *)
PresentsRow ==
    \A r \in Requests :
        pc[r] \in {"checked", "locked", "revoke", "revoking", "rotated", "revoked"}
            => presented[r] \in Rows

(* A request about to rotate holds its row, which is active: nobody can    *)
(* have revoked it since the check.                                        *)
LockedRowActive ==
    \A r \in Requests : pc[r] = "locked" =>
        presented[r] \in held[r] /\ ~table[presented[r]].revoked

(* No row is held by two transactions. *)
RowsHeldOnce ==
    \A r, q \in Requests : r # q => held[r] \intersect held[q] = {}

(* The revoking UPDATE has each selected row ahead of it, in hand, or finds *)
(* it revoked.                                                             *)
SelectedRowsTracked ==
    \A r \in Requests : pc[r] = "revoking" =>
        \A t \in scan[r] : t \in todo[r] \/ t \in held[r] \/ table[t].revoked

(* The token of a request that was answered with a new one is revoked. *)
RotatedRowsRevoked ==
    \A r \in Requests : pc[r] = "rotated" => table[presented[r]].revoked

Inv ==
    /\ TypeOK
    /\ ReplacedRowsRevoked
    /\ PresentsRow
    /\ LockedRowActive
    /\ RowsHeldOnce
    /\ SelectedRowsTracked
    /\ SelectedRowsRevoked
    /\ RotatedRowsRevoked
    /\ RotatedAtMostOnce

-----------------------------------------------------------------------------
(***************************************************************************)
(* Facts about rows and about what each writing action leaves in the table.*)
(***************************************************************************)
LEMMA NewRowType ==
    ASSUME NEW c \in Clients, NEW S \in SUBSET Scopes
    PROVE  NewRow(c, S) \in Row
  BY DEF NewRow, Row, NoToken

LEMMA ReplacedRow ==
    ASSUME NEW k \in Row, NEW n \in Nat
    PROVE  LET d == [k EXCEPT !.revoked = TRUE, !.replacedBy = n]
           IN  /\ d \in Row
               /\ d.owner = k.owner
               /\ d.scopes = k.scopes
               /\ d.revoked
               /\ d.replacedBy = n
  BY DEF Row

LEMMA RevokedRow ==
    ASSUME NEW k \in Row
    PROVE  LET d == [k EXCEPT !.revoked = TRUE]
           IN  /\ d \in Row
               /\ d.owner = k.owner
               /\ d.scopes = k.scopes
               /\ d.revoked
               /\ d.replacedBy = k.replacedBy
  BY DEF Row

LEMMA ExpiredRow ==
    ASSUME NEW k \in Row
    PROVE  LET d == [k EXCEPT !.expired = TRUE]
           IN  /\ d \in Row
               /\ d.owner = k.owner
               /\ d.scopes = k.scopes
               /\ d.revoked = k.revoked
               /\ d.replacedBy = k.replacedBy
  BY DEF Row

LEMMA TableFacts ==
    ASSUME TypeOK
    PROVE  /\ table \in Seq(Row)
           /\ Len(table) \in Nat
           /\ \A t \in Rows : table[t] \in Row
  BY DEF TypeOK, Rows

(***************************************************************************)
(* The table after a row was inserted.                                     *)
(***************************************************************************)
LEMMA InsertEffect ==
    ASSUME TypeOK, NEW c \in Clients, NEW S \in SUBSET Scopes,
           table' = Append(table, NewRow(c, S))
    PROVE  /\ table' \in Seq(Row)
           /\ Len(table') = Len(table) + 1
           /\ Rows' = Rows \union {Len(table) + 1}
           /\ Len(table) + 1 \notin Rows
           /\ \A t \in Rows : table'[t] = table[t]
           /\ table'[Len(table) + 1] = NewRow(c, S)
<1>1. NewRow(c, S) \in Row
  BY NewRowType
<1>2. table \in Seq(Row) /\ Len(table) \in Nat
  BY TableFacts
<1>3. /\ table' \in Seq(Row) /\ Len(table') = Len(table) + 1
      /\ \A t \in 1..Len(table) : table'[t] = table[t]
      /\ table'[Len(table) + 1] = NewRow(c, S)
  BY <1>1, <1>2, AppendProperties
<1> QED  BY <1>2, <1>3 DEF Rows

(***************************************************************************)
(* The table after a rotation: the presented row is revoked and replaced   *)
(* by the new last one, which has its owner and no scope it has not.       *)
(***************************************************************************)
LEMMA RotationEffect ==
    ASSUME TypeOK, PresentsRow, NEW r \in Requests, CommitRotation(r)
    PROVE  /\ table' \in Seq(Row)
           /\ Len(table') = Len(table) + 1
           /\ Rows' = Rows \union {Len(table) + 1}
           /\ Len(table) + 1 \notin Rows
           /\ presented[r] \in Rows
           /\ \A t \in Rows : t # presented[r] => table'[t] = table[t]
           /\ table'[presented[r]].owner = table[presented[r]].owner
           /\ table'[presented[r]].scopes = table[presented[r]].scopes
           /\ table'[presented[r]].revoked
           /\ table'[presented[r]].replacedBy = Len(table) + 1
           /\ table'[Len(table) + 1] =
                NewRow(table[presented[r]].owner, LiveScopes(r))
<1> DEFINE t == presented[r]
           old == [table[t] EXCEPT !.revoked = TRUE, !.replacedBy = Len(table) + 1]
           kept == [table EXCEPT ![t] = old]
           new == NewRow(table[t].owner, LiveScopes(r))
<1>1. t \in Rows /\ t \in 1..Len(table)
  BY DEF PresentsRow, CommitRotation, Rows
<1>2. table \in Seq(Row) /\ Len(table) \in Nat /\ table[t] \in Row
  BY <1>1, TableFacts
<1>3. new \in Row
  <2>1. table[t].owner \in Clients /\ LiveScopes(r) \in SUBSET Scopes
    BY <1>2 DEF Row, LiveScopes
  <2> QED  BY <2>1, NewRowType
<1>4. /\ old \in Row
      /\ old.owner = table[t].owner /\ old.scopes = table[t].scopes
      /\ old.revoked /\ old.replacedBy = Len(table) + 1
  <2>1. Len(table) + 1 \in Nat
    BY <1>2
  <2> QED  BY <1>2, <2>1, ReplacedRow
<1>5. table' = Append(kept, new)
  BY DEF CommitRotation
<1>6. /\ kept \in Seq(Row) /\ Len(kept) = Len(table)
      /\ \A u \in 1..Len(table) : kept[u] = IF u = t THEN old ELSE table[u]
  <2> HIDE DEF old, t
  <2> QED  BY <1>1, <1>2, <1>4, ExceptSeq
<1> HIDE DEF kept, old, new
<1>7. /\ table' \in Seq(Row) /\ Len(table') = Len(kept) + 1
      /\ \A u \in 1..Len(kept) : table'[u] = kept[u]
      /\ table'[Len(kept) + 1] = new
  BY <1>3, <1>5, <1>6, AppendProperties
<1>8. \A u \in Rows : table'[u] = IF u = t THEN old ELSE table[u]
  BY <1>6, <1>7 DEF Rows
<1>9. Rows' = Rows \union {Len(table) + 1} /\ Len(table) + 1 \notin Rows
  BY <1>2, <1>6, <1>7 DEF Rows
<1> QED  BY <1>1, <1>4, <1>6, <1>7, <1>8, <1>9 DEF new

(***************************************************************************)
(* The table after a revocation: the same rows, those held revoked.        *)
(***************************************************************************)
LEMMA RevocationEffect ==
    ASSUME TypeOK, NEW r \in Requests, CommitRevocation(r)
    PROVE  /\ table' \in Seq(Row)
           /\ Len(table') = Len(table)
           /\ Rows' = Rows
           /\ \A t \in Rows :
                /\ table'[t].owner = table[t].owner
                /\ table'[t].scopes = table[t].scopes
                /\ table'[t].replacedBy = table[t].replacedBy
                /\ table'[t].revoked = (table[t].revoked \/ t \in held[r])
<1>1. table \in Seq(Row) /\ Len(table) \in Nat /\ \A t \in Rows : table[t] \in Row
  BY TableFacts
<1>2. \A t \in Rows : table'[t] = IF t \in held[r] THEN [table[t] EXCEPT !.revoked = TRUE]
                                  ELSE table[t]
  BY DEF CommitRevocation
<1>3. \A t \in Rows : table'[t] \in Row
  BY <1>1, <1>2, RevokedRow
<1>4. table' \in [1..Len(table) -> Row]
  BY <1>3 DEF CommitRevocation, Rows
<1>5. table' \in Seq(Row) /\ Len(table') = Len(table)
  BY <1>1, <1>4
<1>6. \A t \in Rows : /\ table'[t].owner = table[t].owner
                      /\ table'[t].scopes = table[t].scopes
                      /\ table'[t].replacedBy = table[t].replacedBy
                      /\ table'[t].revoked = (table[t].revoked \/ t \in held[r])
  <2> SUFFICES ASSUME NEW t \in Rows
               PROVE  /\ table'[t].owner = table[t].owner
                      /\ table'[t].scopes = table[t].scopes
                      /\ table'[t].replacedBy = table[t].replacedBy
                      /\ table'[t].revoked = (table[t].revoked \/ t \in held[r])
    OBVIOUS
  <2>1. table[t] \in Row /\ table[t].revoked \in BOOLEAN
    BY <1>1 DEF Row
  <2>2. CASE t \in held[r]
    <3>1. table'[t] = [table[t] EXCEPT !.revoked = TRUE]
      BY <1>2, <2>2
    <3>2. table'[t] \in Row
      BY <1>3
    <3> QED  BY <2>1, <2>2, <3>1, <3>2, RevokedRow DEF Row
  <2>3. CASE t \notin held[r]
    BY <1>2, <2>1, <2>3
  <2> QED  BY <2>2, <2>3
<1> QED  BY <1>5, <1>6 DEF Rows

(***************************************************************************)
(* The table after a token expired.                                        *)
(***************************************************************************)
LEMMA ExpireEffect ==
    ASSUME TypeOK, Expire
    PROVE  /\ table' \in Seq(Row)
           /\ Len(table') = Len(table)
           /\ Rows' = Rows
           /\ \A t \in Rows :
                /\ table'[t].owner = table[t].owner
                /\ table'[t].scopes = table[t].scopes
                /\ table'[t].replacedBy = table[t].replacedBy
                /\ table'[t].revoked = table[t].revoked
<1>1. table \in Seq(Row) /\ Len(table) \in Nat /\ \A t \in Rows : table[t] \in Row
  BY TableFacts
<1>2. PICK t \in Rows : table' = [table EXCEPT ![t] = [@ EXCEPT !.expired = TRUE]]
  BY DEF Expire
<1> DEFINE d == [table[t] EXCEPT !.expired = TRUE]
<1>3. /\ d \in Row
      /\ d.owner = table[t].owner /\ d.scopes = table[t].scopes
      /\ d.revoked = table[t].revoked /\ d.replacedBy = table[t].replacedBy
  BY <1>1, ExpiredRow
<1>4. table' = [table EXCEPT ![t] = d]
  BY <1>2
<1> HIDE DEF d
<1>5. /\ table' \in Seq(Row) /\ Len(table') = Len(table)
      /\ \A u \in Rows : table'[u] = IF u = t THEN d ELSE table[u]
  BY <1>1, <1>3, <1>4, ExceptSeq DEF Rows
<1> QED  BY <1>3, <1>5 DEF Rows

-----------------------------------------------------------------------------
(***************************************************************************)
(* The steps that write neither the table nor a row lock only move one     *)
(* request on; each preserves the invariant.                               *)
(***************************************************************************)
LEMMA LoadClientPreserves ==
    ASSUME Inv, NEW r \in Requests, LoadClient(r)
    PROVE  Inv'
<1> USE DEF Inv, LoadClient, GoTo, requestVars, revocationVars
<1>1. TypeOK'
  <2>1. client' \in [Requests -> Registration]
    BY RegistrationsAreRegistrations DEF TypeOK
  <2>2. presented' \in [Requests -> Rows' \union {NoToken}]
    BY DEF TypeOK, Rows
  <2> QED  BY <2>1, <2>2 DEF TypeOK, Rows, Running, Ended
<1>2. Rows' = Rows
  BY DEF Rows
<1>3. pc'[r] \in {"loaded", "refused"} /\ \A q \in Requests \ {r} : pc'[q] = pc[q] /\ presented'[q] = presented[q]
  BY DEF TypeOK
<1>4. ReplacedRowsRevoked' /\ PresentsRow' /\ RowsHeldOnce'
  BY <1>2, <1>3 DEF ReplacedRowsRevoked, PresentsRow, RowsHeldOnce
<1>5. LockedRowActive' /\ RotatedRowsRevoked' /\ RotatedAtMostOnce'
  BY <1>3 DEF LockedRowActive, RotatedRowsRevoked, RotatedAtMostOnce
<1>6. SelectedRowsTracked' /\ SelectedRowsRevoked'
  BY <1>3 DEF SelectedRowsTracked, SelectedRowsRevoked
<1> QED  BY <1>1, <1>4, <1>5, <1>6

LEMMA VerifySecretPreserves ==
    ASSUME Inv, NEW r \in Requests, VerifySecret(r)
    PROVE  Inv'
<1> USE DEF Inv, VerifySecret, GoTo, requestVars, revocationVars
<1>1. TypeOK'
  BY DEF TypeOK, Rows, Running, Ended
<1>2. Rows' = Rows
  BY DEF Rows
<1>3. pc'[r] \in {"verified", "refused"} /\ \A q \in Requests \ {r} : pc'[q] = pc[q]
  BY DEF TypeOK
<1>4. ReplacedRowsRevoked' /\ PresentsRow' /\ RowsHeldOnce'
  BY <1>2, <1>3 DEF ReplacedRowsRevoked, PresentsRow, RowsHeldOnce
<1>5. LockedRowActive' /\ RotatedRowsRevoked' /\ RotatedAtMostOnce'
  BY <1>3 DEF LockedRowActive, RotatedRowsRevoked, RotatedAtMostOnce
<1>6. SelectedRowsTracked' /\ SelectedRowsRevoked'
  BY <1>3 DEF SelectedRowsTracked, SelectedRowsRevoked
<1> QED  BY <1>1, <1>4, <1>5, <1>6

LEMMA LookupActivePreserves ==
    ASSUME Inv, NEW r \in Requests, LookupActive(r)
    PROVE  Inv'
<1> USE DEF Inv, LookupActive, GoTo, requestVars
<1>1. LookupVerdict(r) \in {"refused", "checked"} \union FamilyReasons \union ClientReasons
  BY DEF LookupVerdict, FamilyReasons, ClientReasons
<1>2. presented[r] \in Rows
  BY DEF TypeOK
<1>3. pc'[r] \in {"revoke", "refused", "checked"} /\ \A q \in Requests \ {r} : pc'[q] = pc[q]
  BY <1>1 DEF TypeOK
<1>4. TypeOK'
  <2>1. reason' = reason \/
          \E v \in FamilyReasons \union ClientReasons : reason' = [reason EXCEPT ![r] = v]
    OBVIOUS
  <2>2. \E v \in {"revoke", "refused", "checked"} : pc' = [pc EXCEPT ![r] = v]
    BY <1>1
  <2>3. reason' \in [Requests -> FamilyReasons \union ClientReasons \union {NoReason}]
    BY <2>1 DEF TypeOK
  <2>4. pc' \in [Requests -> {"idle"} \union Running \union Ended]
    BY <2>2 DEF TypeOK, Running, Ended
  <2>5. UNCHANGED <<registry, table, requestVars, scan, todo, held>>
    OBVIOUS
  <2> HIDE DEF LookupActive
  <2> QED  BY <2>3, <2>4, <2>5 DEF TypeOK, Rows
<1>5. Rows' = Rows
  BY DEF Rows
<1>6. ReplacedRowsRevoked' /\ PresentsRow' /\ RowsHeldOnce'
  BY <1>2, <1>3, <1>5 DEF ReplacedRowsRevoked, PresentsRow, RowsHeldOnce
<1>7. LockedRowActive' /\ RotatedRowsRevoked' /\ RotatedAtMostOnce'
  BY <1>3 DEF LockedRowActive, RotatedRowsRevoked, RotatedAtMostOnce
<1>8. SelectedRowsTracked' /\ SelectedRowsRevoked'
  BY <1>3 DEF SelectedRowsTracked, SelectedRowsRevoked
<1> QED  BY <1>4, <1>6, <1>7, <1>8

LEMMA ReregisterPreserves ==
    ASSUME Inv, Reregister
    PROVE  Inv'
<1>1. TypeOK'
  BY DEF Inv, TypeOK, Reregister, requestVars, revocationVars, Rows
<1>2. UNCHANGED <<table, pc, requestVars, revocationVars, held>>
  BY DEF Reregister
<1> QED
  BY <1>1, <1>2 DEF Inv, ReplacedRowsRevoked, PresentsRow, LockedRowActive, RowsHeldOnce,
     SelectedRowsTracked, SelectedRowsRevoked, RotatedRowsRevoked, RotatedAtMostOnce,
     Rows, requestVars, revocationVars

(***************************************************************************)
(* The steps that take and release rows.                                   *)
(***************************************************************************)
LEMMA LockPresentedPreserves ==
    ASSUME Inv, NEW r \in Requests, LockPresented(r)
    PROVE  Inv'
<1> USE DEF Inv, LockPresented, GoTo, requestVars
<1>1. presented[r] \in Rows
  BY DEF PresentsRow
<1>2. /\ pc'[r] \in {"revoke", "refused", "locked"}
      /\ \A q \in Requests \ {r} : pc'[q] = pc[q] /\ held'[q] = held[q]
  BY DEF TypeOK
<1>3. held'[r] = held[r] \/ held'[r] = {presented[r]}
  BY DEF TypeOK
<1>4. TypeOK'
  <2>1. held' \in [Requests -> SUBSET Rows]
    BY <1>1 DEF TypeOK
  <2>2. reason' \in [Requests -> FamilyReasons \union ClientReasons \union {NoReason}]
    BY DEF TypeOK, FamilyReasons
  <2>3. pc' \in [Requests -> {"idle"} \union Running \union Ended]
    BY <1>2 DEF TypeOK, Running, Ended
  <2> QED  BY <2>1, <2>2, <2>3 DEF TypeOK, Rows
<1>5. Rows' = Rows
  BY DEF Rows
<1>6. ReplacedRowsRevoked' /\ PresentsRow'
  BY <1>1, <1>2, <1>5 DEF ReplacedRowsRevoked, PresentsRow
<1>7. RowsHeldOnce'
  BY <1>2, <1>3 DEF RowsHeldOnce, HeldByOther
<1>8. LockedRowActive'
  <2>1. pc'[r] = "locked" => presented[r] \in held'[r] /\ ~table[presented[r]].revoked
    BY DEF TypeOK
  <2> QED  BY <1>2, <2>1 DEF LockedRowActive
<1>9. RotatedRowsRevoked' /\ RotatedAtMostOnce'
  BY <1>2 DEF RotatedRowsRevoked, RotatedAtMostOnce
<1>10. SelectedRowsTracked' /\ SelectedRowsRevoked'
  BY <1>2 DEF SelectedRowsTracked, SelectedRowsRevoked
<1> QED  BY <1>4, <1>6, <1>7, <1>8, <1>9, <1>10

LEMMA BeginRevocationPreserves ==
    ASSUME Inv, NEW r \in Requests, BeginRevocation(r)
    PROVE  Inv'
<1> DEFINE selected == IF reason[r] \in FamilyReasons THEN Family(presented[r])
                       ELSE {u \in Rows : table[u].owner = table[presented[r]].owner}
<1>1. selected \subseteq Rows
  BY DEF Family
<1>2. /\ scan' = [scan EXCEPT ![r] = selected]
      /\ todo' = [todo EXCEPT ![r] = {u \in selected : ~table[u].revoked}]
  BY DEF BeginRevocation
<1> HIDE DEF selected
<1> USE DEF Inv, GoTo, requestVars
<1>3. /\ pc[r] = "revoke" /\ pc' = [pc EXCEPT ![r] = "revoking"]
      /\ UNCHANGED <<registry, table, caller, presented, client, reason, held>>
  BY DEF BeginRevocation
<1>4. Rows' = Rows
  BY <1>3 DEF Rows
<1>5. TypeOK'
  BY <1>1, <1>2, <1>3, <1>4 DEF TypeOK, Running
<1>6. /\ pc'[r] = "revoking" /\ scan'[r] = selected
      /\ todo'[r] = {u \in selected : ~table[u].revoked}
      /\ \A q \in Requests \ {r} : pc'[q] = pc[q] /\ scan'[q] = scan[q] /\ todo'[q] = todo[q]
  BY <1>2, <1>3 DEF TypeOK
<1>7. ReplacedRowsRevoked' /\ PresentsRow' /\ RowsHeldOnce'
  BY <1>3, <1>4, <1>6 DEF ReplacedRowsRevoked, PresentsRow, RowsHeldOnce
<1>8. LockedRowActive' /\ RotatedRowsRevoked' /\ RotatedAtMostOnce'
  BY <1>3, <1>6 DEF LockedRowActive, RotatedRowsRevoked, RotatedAtMostOnce
<1>9. SelectedRowsTracked' /\ SelectedRowsRevoked'
  BY <1>3, <1>6 DEF SelectedRowsTracked, SelectedRowsRevoked
<1> QED  BY <1>5, <1>7, <1>8, <1>9

LEMMA VisitRowPreserves ==
    ASSUME Inv, NEW r \in Requests, VisitRow(r)
    PROVE  Inv'
<1> USE DEF Inv, requestVars
<1>1. PICK t \in todo[r] :
        /\ ~HeldByOther(r, t)
        /\ todo' = [todo EXCEPT ![r] = @ \ {t}]
        /\ held' = [held EXCEPT ![r] = @ \union {t}]
  BY DEF VisitRow
<1>2. UNCHANGED <<registry, table, pc, caller, presented, client, reason, scan>>
  BY DEF VisitRow
<1>3. t \in Rows /\ Rows' = Rows
  BY <1>2 DEF TypeOK, Rows
<1>4. TypeOK'
  BY <1>1, <1>2, <1>3 DEF TypeOK
<1>5. /\ todo'[r] = todo[r] \ {t} /\ held'[r] = held[r] \union {t}
      /\ \A q \in Requests \ {r} : todo'[q] = todo[q] /\ held'[q] = held[q]
  BY <1>1 DEF TypeOK
<1>6. ReplacedRowsRevoked' /\ PresentsRow' /\ LockedRowActive'
  BY <1>2, <1>3, <1>5 DEF ReplacedRowsRevoked, PresentsRow, LockedRowActive
<1>7. RowsHeldOnce'
  BY <1>1, <1>5 DEF RowsHeldOnce, HeldByOther
<1>8. RotatedRowsRevoked' /\ RotatedAtMostOnce'
  BY <1>2 DEF RotatedRowsRevoked, RotatedAtMostOnce
<1>9. SelectedRowsTracked' /\ SelectedRowsRevoked'
  BY <1>2, <1>5 DEF SelectedRowsTracked, SelectedRowsRevoked
<1> QED  BY <1>4, <1>6, <1>7, <1>8, <1>9

LEMMA FailPreserves ==
    ASSUME Inv, NEW r \in Requests, Fail(r)
    PROVE  Inv'
<1> USE DEF Inv, GoTo, requestVars
<1>1. /\ pc' = [pc EXCEPT ![r] = "failed"]
      /\ held' = [held EXCEPT ![r] = {}]
      /\ todo' = [todo EXCEPT ![r] = {}]
      /\ UNCHANGED <<registry, table, caller, presented, client, reason, scan>>
  BY DEF Fail
<1>2. Rows' = Rows
  BY <1>1 DEF Rows
<1>3. TypeOK'
  BY <1>1, <1>2 DEF TypeOK, Ended
<1>4. /\ pc'[r] = "failed" /\ held'[r] = {}
      /\ \A q \in Requests \ {r} : pc'[q] = pc[q] /\ held'[q] = held[q] /\ todo'[q] = todo[q]
  BY <1>1 DEF TypeOK
<1>5. ReplacedRowsRevoked' /\ PresentsRow' /\ RowsHeldOnce'
  BY <1>1, <1>2, <1>4 DEF ReplacedRowsRevoked, PresentsRow, RowsHeldOnce
<1>6. LockedRowActive' /\ RotatedRowsRevoked' /\ RotatedAtMostOnce'
  BY <1>1, <1>4 DEF LockedRowActive, RotatedRowsRevoked, RotatedAtMostOnce
<1>7. SelectedRowsTracked' /\ SelectedRowsRevoked'
  BY <1>1, <1>4 DEF SelectedRowsTracked, SelectedRowsRevoked
<1> QED  BY <1>3, <1>5, <1>6, <1>7

(***************************************************************************)
(* The steps that write the table.                                         *)
(***************************************************************************)
LEMMA IssueServiceTokenPreserves ==
    ASSUME Inv, NEW r \in Requests, IssueServiceToken(r)
    PROVE  Inv'
<1> USE DEF Inv
<1>1. /\ \A q \in Requests \ {r} : pc'[q] = pc[q]
      /\ pc'[r] \in {"refused", "accessOnly", "issued"}
      /\ pc' \in [Requests -> {"idle"} \union Running \union Ended]
      /\ UNCHANGED <<registry, caller, presented, client, reason, scan, todo, held>>
  BY DEF IssueServiceToken, GoTo, TypeOK, Running, Ended, requestVars, revocationVars
<1>2. \/ UNCHANGED table
      \/ \E S \in SUBSET Scopes : table' = Append(table, NewRow(caller[r], S))
  <2>1. client[r].scopes \in SUBSET Scopes
    BY DEF TypeOK, Registration
  <2> QED  BY <2>1 DEF IssueServiceToken
<1>3. /\ table' \in Seq(Row)
      /\ Rows \subseteq Rows'
      /\ \A t \in Rows : table'[t] = table[t]
      /\ \A t \in Rows' \ Rows : table'[t].replacedBy = NoToken
  <2>1. CASE UNCHANGED table
    BY <2>1 DEF TypeOK, Rows
  <2>2. ASSUME NEW S \in SUBSET Scopes, table' = Append(table, NewRow(caller[r], S))
        PROVE  <1>3!1 /\ <1>3!2 /\ <1>3!3 /\ <1>3!4
    <3>1. caller[r] \in Clients
      BY DEF TypeOK
    <3>2. /\ table' \in Seq(Row) /\ Rows' = Rows \union {Len(table) + 1}
          /\ \A t \in Rows : table'[t] = table[t]
          /\ table'[Len(table) + 1] = NewRow(caller[r], S)
      BY <2>2, <3>1, InsertEffect
    <3> QED  BY <3>2 DEF NewRow
  <2> QED  BY <1>2, <2>1, <2>2
<1>4. TypeOK'
  BY <1>1, <1>3 DEF TypeOK
<1>5. ReplacedRowsRevoked' /\ PresentsRow' /\ RowsHeldOnce'
  BY <1>1, <1>3 DEF ReplacedRowsRevoked, PresentsRow, RowsHeldOnce
<1>6. LockedRowActive' /\ RotatedRowsRevoked' /\ RotatedAtMostOnce'
  BY <1>1, <1>3 DEF LockedRowActive, RotatedRowsRevoked, RotatedAtMostOnce, PresentsRow
<1>7. SelectedRowsTracked' /\ SelectedRowsRevoked'
  BY <1>1, <1>3 DEF SelectedRowsTracked, SelectedRowsRevoked, TypeOK
<1> QED  BY <1>4, <1>5, <1>6, <1>7

LEMMA CommitRotationPreserves ==
    ASSUME Inv, NEW r \in Requests, CommitRotation(r)
    PROVE  Inv'
<1> USE DEF Inv
<1>1. /\ table' \in Seq(Row)
      /\ Rows' = Rows \union {Len(table) + 1} /\ Len(table) + 1 \notin Rows
      /\ presented[r] \in Rows
      /\ \A t \in Rows : t # presented[r] => table'[t] = table[t]
      /\ table'[presented[r]].revoked
      /\ table'[Len(table) + 1].replacedBy = NoToken
  <2>1. TypeOK /\ PresentsRow
    OBVIOUS
  <2> HIDE DEF Inv
  <2>2. /\ table' \in Seq(Row)
        /\ Rows' = Rows \union {Len(table) + 1} /\ Len(table) + 1 \notin Rows
        /\ presented[r] \in Rows
        /\ \A t \in Rows : t # presented[r] => table'[t] = table[t]
        /\ table'[presented[r]].revoked
        /\ table'[Len(table) + 1] =
             NewRow(table[presented[r]].owner, LiveScopes(r))
    BY <2>1, RotationEffect
  <2>3. \A c, S : NewRow(c, S).replacedBy = NoToken
    BY DEF NewRow
  <2> QED  BY <2>2, <2>3
<1>2. /\ pc[r] = "locked"
      /\ pc' = [pc EXCEPT ![r] = "rotated"]
      /\ held' = [held EXCEPT ![r] = {}]
      /\ UNCHANGED <<registry, caller, presented, client, reason, scan, todo>>
  BY DEF CommitRotation, GoTo, requestVars, revocationVars
<1>3. /\ pc'[r] = "rotated" /\ held'[r] = {}
      /\ \A q \in Requests \ {r} : pc'[q] = pc[q] /\ held'[q] = held[q]
  BY <1>2 DEF TypeOK
<1>4. \A t \in Rows : table[t].revoked => table'[t].revoked
  BY <1>1
<1>5. presented[r] \in held[r] /\ ~table[presented[r]].revoked
  BY <1>2 DEF LockedRowActive
<1>6. TypeOK'
  <2>1. held' \in [Requests -> SUBSET Rows']
    BY <1>1, <1>2 DEF TypeOK
  <2> QED  BY <1>1, <1>2, <2>1 DEF TypeOK, Ended
<1>7. ReplacedRowsRevoked'
  BY <1>1 DEF ReplacedRowsRevoked
<1>8. PresentsRow' /\ RowsHeldOnce'
  BY <1>1, <1>2, <1>3 DEF PresentsRow, RowsHeldOnce
<1>9. LockedRowActive'
  <2> SUFFICES ASSUME NEW q \in Requests, pc'[q] = "locked"
               PROVE  presented'[q] \in held'[q] /\ ~table'[presented'[q]].revoked
    BY DEF LockedRowActive
  <2>1. q # r /\ pc[q] = "locked" /\ presented[q] \in held[q] /\ presented[q] \in Rows
    BY <1>3 DEF LockedRowActive, PresentsRow
  <2>2. presented[q] # presented[r]
    BY <1>5, <2>1 DEF RowsHeldOnce
  <2> QED  BY <1>1, <1>2, <1>3, <2>1, <2>2 DEF LockedRowActive
<1>10. RotatedRowsRevoked'
  BY <1>1, <1>2, <1>3, <1>4 DEF RotatedRowsRevoked, PresentsRow
<1>11. RotatedAtMostOnce'
  <2>1. \A q \in Requests : pc[q] = "rotated" => presented[q] # presented[r]
    BY <1>5 DEF RotatedRowsRevoked
  <2> QED  BY <1>2, <1>3, <2>1 DEF RotatedAtMostOnce
<1>12. SelectedRowsTracked' /\ SelectedRowsRevoked'
  BY <1>2, <1>3, <1>4 DEF SelectedRowsTracked, SelectedRowsRevoked, TypeOK
<1> QED  BY <1>6, <1>7, <1>8, <1>9, <1>10, <1>11, <1>12

LEMMA CommitRevocationPreserves ==
    ASSUME Inv, NEW r \in Requests, CommitRevocation(r)
    PROVE  Inv'
<1> USE DEF Inv
<1>1. /\ table' \in Seq(Row) /\ Rows' = Rows
      /\ \A t \in Rows : /\ table'[t].replacedBy = table[t].replacedBy
                         /\ table'[t].revoked = (table[t].revoked \/ t \in held[r])
  BY RevocationEffect
<1>2. /\ pc[r] = "revoking" /\ todo[r] = {}
      /\ pc' = [pc EXCEPT ![r] = "revoked"]
      /\ held' = [held EXCEPT ![r] = {}]
      /\ UNCHANGED <<registry, caller, presented, client, reason, scan, todo>>
  BY DEF CommitRevocation, GoTo, requestVars, revocationVars
<1>3. /\ pc'[r] = "revoked" /\ held'[r] = {}
      /\ \A q \in Requests \ {r} : pc'[q] = pc[q] /\ held'[q] = held[q]
  BY <1>2 DEF TypeOK
<1>4. TypeOK'
  BY <1>1, <1>2 DEF TypeOK, Ended
<1>5. ReplacedRowsRevoked'
  BY <1>1 DEF ReplacedRowsRevoked
<1>6. PresentsRow' /\ RowsHeldOnce'
  BY <1>1, <1>2, <1>3 DEF PresentsRow, RowsHeldOnce
<1>7. LockedRowActive'
  <2> SUFFICES ASSUME NEW q \in Requests, pc'[q] = "locked"
               PROVE  presented'[q] \in held'[q] /\ ~table'[presented'[q]].revoked
    BY DEF LockedRowActive
  <2>1. q # r /\ pc[q] = "locked" /\ presented[q] \in held[q] /\ presented[q] \in Rows
    BY <1>3 DEF LockedRowActive, PresentsRow
  <2>2. presented[q] \notin held[r]
    BY <2>1 DEF RowsHeldOnce
  <2> QED  BY <1>1, <1>2, <1>3, <2>1, <2>2 DEF LockedRowActive
<1>8. RotatedRowsRevoked' /\ RotatedAtMostOnce'
  <2>1. \A t \in Rows : table[t].revoked => table'[t].revoked
    BY <1>1
  <2>2. \A q \in Requests : pc'[q] = "rotated" => q # r /\ pc[q] = "rotated"
    BY <1>3
  <2>3. RotatedRowsRevoked'
    BY <1>2, <2>1, <2>2 DEF RotatedRowsRevoked, PresentsRow
  <2>4. RotatedAtMostOnce'
    BY <1>2, <2>2 DEF RotatedAtMostOnce
  <2> QED  BY <2>3, <2>4
<1>9. SelectedRowsTracked'
  BY <1>1, <1>2, <1>3 DEF SelectedRowsTracked, TypeOK
<1>10. SelectedRowsRevoked'
  <2>1. \A t \in scan[r] : t \in Rows /\ table'[t].revoked
    BY <1>1, <1>2 DEF SelectedRowsTracked, TypeOK
  <2> QED  BY <1>1, <1>2, <1>3, <2>1 DEF SelectedRowsRevoked, TypeOK
<1> QED  BY <1>4, <1>5, <1>6, <1>7, <1>8, <1>9, <1>10

LEMMA ExpirePreserves ==
    ASSUME Inv, Expire
    PROVE  Inv'
<1> USE DEF Inv
<1>1. /\ table' \in Seq(Row) /\ Rows' = Rows
      /\ \A t \in Rows : /\ table'[t].replacedBy = table[t].replacedBy
                         /\ table'[t].revoked = table[t].revoked
  BY ExpireEffect
<1>2. UNCHANGED <<registry, pc, caller, presented, client, reason, scan, todo, held>>
  BY DEF Expire, requestVars, revocationVars
<1>3. TypeOK'
  BY <1>1, <1>2 DEF TypeOK
<1>4. ReplacedRowsRevoked' /\ PresentsRow' /\ RowsHeldOnce'
  BY <1>1, <1>2 DEF ReplacedRowsRevoked, PresentsRow, RowsHeldOnce
<1>5. LockedRowActive' /\ RotatedRowsRevoked' /\ RotatedAtMostOnce'
  BY <1>1, <1>2 DEF LockedRowActive, RotatedRowsRevoked, RotatedAtMostOnce, PresentsRow
<1>6. SelectedRowsTracked' /\ SelectedRowsRevoked'
  BY <1>1, <1>2 DEF SelectedRowsTracked, SelectedRowsRevoked, TypeOK
<1> QED  BY <1>3, <1>4, <1>5, <1>6

-----------------------------------------------------------------------------
(***************************************************************************)
(* The invariant holds at the start and every step preserves it.           *)
(***************************************************************************)
LEMMA InitInv ==
    ASSUME Init
    PROVE  Inv
<1>1. TypeOK
  <2>1. NoClient \in Registration
    BY DEF NoClient, Registration
  <2>2. registry \in [Clients -> Registrations]
    BY DEF Init
  <2> QED
    BY <2>1, <2>2 DEF Init, TypeOK, Rows, NoToken, NoReason, Running, Ended
<1>2. Rows = {}
  BY DEF Init, Rows
<1> QED
  BY <1>1, <1>2 DEF Init, Inv, ReplacedRowsRevoked, PresentsRow, LockedRowActive, RowsHeldOnce,
     SelectedRowsTracked, SelectedRowsRevoked, RotatedRowsRevoked, RotatedAtMostOnce

LEMMA StutterPreserves ==
    ASSUME Inv, UNCHANGED vars
    PROVE  Inv'
  BY DEF Inv, TypeOK, ReplacedRowsRevoked, PresentsRow, LockedRowActive, RowsHeldOnce,
     SelectedRowsTracked, SelectedRowsRevoked, RotatedRowsRevoked, RotatedAtMostOnce,
     Rows, vars, requestVars, revocationVars

LEMMA StepInv ==
    ASSUME Inv, [Next]_vars
    PROVE  Inv'
<1>1. ASSUME NEW r \in Requests, Serve(r) PROVE Inv'
  BY <1>1, LoadClientPreserves, VerifySecretPreserves, IssueServiceTokenPreserves,
     LookupActivePreserves, LockPresentedPreserves, CommitRotationPreserves,
     BeginRevocationPreserves, VisitRowPreserves, CommitRevocationPreserves DEF Serve
<1>2. ASSUME NEW r \in Requests, Fail(r) PROVE Inv'
  BY <1>2, FailPreserves
<1> QED
  BY <1>1, <1>2, ExpirePreserves, ReregisterPreserves, StutterPreserves DEF Next

THEOREM SpecInv == Spec => []Inv
<1>1. Init => Inv
  BY InitInv
<1>2. Inv /\ [Next]_vars => Inv'
  BY StepInv
<1> QED  BY <1>1, <1>2, PTL DEF Spec

(***************************************************************************)
(* Every variable keeps its type.                                          *)
(***************************************************************************)
THEOREM TypeCorrect == Spec => []TypeOK
<1>1. Inv => TypeOK
  BY DEF Inv
<1> QED  BY <1>1, SpecInv, PTL

(***************************************************************************)
(* Rotate-on-use, for any number of overlapping requests: one token gets   *)
(* at most one of them a new token.                                        *)
(***************************************************************************)
THEOREM RotateOnUse == Spec => []RotatedAtMostOnce
<1>1. Inv => RotatedAtMostOnce
  BY DEF Inv
<1> QED  BY <1>1, SpecInv, PTL

(***************************************************************************)
(* A committed revocation revoked every row its snapshot selected, however *)
(* many transactions held those rows meanwhile.                            *)
(***************************************************************************)
THEOREM RevocationComplete == Spec => []SelectedRowsRevoked
<1>1. Inv => SelectedRowsRevoked
  BY DEF Inv
<1> QED  BY <1>1, SpecInv, PTL

-----------------------------------------------------------------------------
(***************************************************************************)
(* The table seen as the tokens of TokenFamilies.                          *)
(***************************************************************************)
LEMMA FamilyTokenType ==
    ASSUME NEW row \in Row
    PROVE  /\ FamilyToken(row) \in Families!Token
           /\ FamilyToken(row).owner = row.owner
           /\ FamilyToken(row).scopes = row.scopes
           /\ FamilyToken(row).live = ~row.revoked
           /\ FamilyToken(row).heir = row.replacedBy
  BY DEF FamilyToken, Row, Families!Token

LEMMA TokenEqual ==
    ASSUME NEW d \in Families!Token, NEW e \in Families!Token,
           d.owner = e.owner, d.scopes = e.scopes, d.live = e.live, d.heir = e.heir
    PROVE  d = e
  BY DEF Families!Token

LEMMA FamilyTokensOf ==
    ASSUME NEW s \in Seq(Row)
    PROVE  LET v == [t \in 1..Len(s) |-> FamilyToken(s[t])]
           IN  /\ v \in Seq(Families!Token)
               /\ Len(v) = Len(s)
               /\ \A t \in 1..Len(s) : v[t] = FamilyToken(s[t])
<1> DEFINE v == [t \in 1..Len(s) |-> FamilyToken(s[t])]
<1>1. Len(s) \in Nat /\ \A t \in 1..Len(s) : s[t] \in Row
  OBVIOUS
<1>2. \A t \in 1..Len(s) : FamilyToken(s[t]) \in Families!Token
  BY <1>1, FamilyTokenType
<1>3. v \in [1..Len(s) -> Families!Token]
  BY <1>2
<1>4. v \in Seq(Families!Token) /\ Len(v) = Len(s)
  BY <1>1, <1>3
<1> QED  BY <1>4

LEMMA FamilyTokensFacts ==
    ASSUME table \in Seq(Row)
    PROVE  /\ familyTokens \in Seq(Families!Token)
           /\ Len(familyTokens) = Len(table)
           /\ \A t \in Rows : familyTokens[t] = FamilyToken(table[t])
  BY FamilyTokensOf DEF familyTokens, Rows

LEMMA FamilyTokensFactsNext ==
    ASSUME table' \in Seq(Row)
    PROVE  /\ familyTokens' \in Seq(Families!Token)
           /\ Len(familyTokens') = Len(table')
           /\ \A t \in Rows' : familyTokens'[t] = FamilyToken(table'[t])
  BY FamilyTokensOf DEF familyTokens, Rows

-----------------------------------------------------------------------------
(***************************************************************************)
(* An INSERT is a Mint.                                                    *)
(***************************************************************************)
LEMMA InsertIsMint ==
    ASSUME TypeOK, NEW c \in Clients, NEW S \in SUBSET Scopes,
           table' = Append(table, NewRow(c, S))
    PROVE  Families!Mint(c, S)
<1> DEFINE new == [owner |-> c, scopes |-> S, live |-> TRUE, heir |-> Families!NoHeir]
           grown == Append(familyTokens, new)
<1>1. /\ table \in Seq(Row) /\ table' \in Seq(Row) /\ Len(table) \in Nat
      /\ Len(table') = Len(table) + 1
      /\ \A t \in Rows : table'[t] = table[t]
      /\ table'[Len(table) + 1] = NewRow(c, S)
  BY InsertEffect, TableFacts
<1>2. FamilyToken(NewRow(c, S)) = new /\ new \in Families!Token
  BY DEF FamilyToken, NewRow, NoToken, Families!NoHeir, Families!Token
<1>3. /\ familyTokens \in Seq(Families!Token) /\ Len(familyTokens) = Len(table)
      /\ \A t \in Rows : familyTokens[t] = FamilyToken(table[t])
  BY <1>1, FamilyTokensFacts
<1>4. /\ familyTokens' \in Seq(Families!Token) /\ Len(familyTokens') = Len(table')
      /\ \A t \in Rows' : familyTokens'[t] = FamilyToken(table'[t])
  BY <1>1, FamilyTokensFactsNext
<1> HIDE DEF new
<1>5. /\ grown \in Seq(Families!Token) /\ Len(grown) = Len(table) + 1
      /\ \A t \in 1..Len(table) : grown[t] = familyTokens[t]
      /\ grown[Len(table) + 1] = new
  BY <1>2, <1>3, AppendProperties
<1> HIDE DEF grown
<1>6. ASSUME NEW t \in 1..(Len(table) + 1)
      PROVE  familyTokens'[t] = grown[t]
  <2>1. familyTokens'[t] = FamilyToken(table'[t])
    BY <1>1, <1>4 DEF Rows
  <2>2. CASE t = Len(table) + 1
    BY <1>1, <1>2, <1>5, <2>1, <2>2
  <2>3. CASE t # Len(table) + 1
    <3>1. t \in 1..Len(table)
      BY <1>1, <2>3
    <3> QED  BY <1>1, <1>3, <1>5, <2>1, <3>1 DEF Rows
  <2> QED  BY <2>2, <2>3
<1>7. familyTokens' = grown
  BY <1>1, <1>4, <1>5, <1>6, SeqEqual
<1> QED  BY <1>7 DEF grown, new, Families!Mint

(***************************************************************************)
(* A committed rotation is an Exchange of the presented token.             *)
(***************************************************************************)
LEMMA RotationIsExchange ==
    ASSUME Inv, NEW r \in Requests, CommitRotation(r)
    PROVE  Families!Exchange(presented[r], LiveScopes(r))
<1> DEFINE t == presented[r]
           S == LiveScopes(r)
           new == [owner |-> familyTokens[t].owner, scopes |-> S,
                   live |-> TRUE, heir |-> Families!NoHeir]
           old == [familyTokens[t] EXCEPT !.live = FALSE, !.heir = Len(familyTokens) + 1]
           kept == [familyTokens EXCEPT ![t] = old]
           grown == Append(kept, new)
<1>1. TypeOK /\ PresentsRow
  BY DEF Inv
<1>2. /\ table \in Seq(Row) /\ Len(table) \in Nat /\ \A u \in Rows : table[u] \in Row
  BY <1>1, TableFacts
<1>3. /\ table' \in Seq(Row) /\ Len(table') = Len(table) + 1
      /\ t \in Rows
      /\ \A u \in Rows : u # t => table'[u] = table[u]
      /\ table'[t].owner = table[t].owner /\ table'[t].scopes = table[t].scopes
      /\ table'[t].revoked /\ table'[t].replacedBy = Len(table) + 1
      /\ table'[Len(table) + 1] = NewRow(table[t].owner, S)
  BY <1>1, RotationEffect
<1>4. /\ familyTokens \in Seq(Families!Token) /\ Len(familyTokens) = Len(table)
      /\ \A u \in Rows : familyTokens[u] = FamilyToken(table[u])
  BY <1>2, FamilyTokensFacts
<1>5. /\ familyTokens' \in Seq(Families!Token) /\ Len(familyTokens') = Len(table')
      /\ \A u \in Rows' : familyTokens'[u] = FamilyToken(table'[u])
  BY <1>3, FamilyTokensFactsNext
<1>6. /\ familyTokens[t] \in Families!Token
      /\ familyTokens[t].owner = table[t].owner
      /\ familyTokens[t].scopes = table[t].scopes
      /\ familyTokens[t].live
  <2>1. ~table[t].revoked
    BY DEF Inv, LockedRowActive, CommitRotation
  <2> QED  BY <1>2, <1>3, <1>4, <2>1, FamilyTokenType
<1>7. S \subseteq familyTokens[t].scopes /\ S \in SUBSET Scopes
  BY <1>2, <1>3, <1>6 DEF LiveScopes, Row
<1>8. new \in Families!Token /\ FamilyToken(NewRow(table[t].owner, S)) = new
  <2>1. table[t].owner \in Clients
    BY <1>2, <1>3 DEF Row
  <2> HIDE DEF S, t
  <2> QED
    BY <1>6, <1>7, <2>1 DEF FamilyToken, NewRow, NoToken, Families!NoHeir, Families!Token
<1>9. /\ old \in Families!Token
      /\ old.owner = table[t].owner /\ old.scopes = table[t].scopes
      /\ old.live = FALSE /\ old.heir = Len(table) + 1
  <2>1. Len(familyTokens) + 1 \in Nat /\ Len(familyTokens) = Len(table)
    BY <1>2, <1>4
  <2> HIDE DEF t
  <2> QED  BY <1>6, <2>1 DEF Families!Token
<1> HIDE DEF new, old
<1>10. FamilyToken(table'[t]) = old
  <2>1. t \in 1..Len(table') /\ table'[t] \in Row
    BY <1>2, <1>3 DEF Rows
  <2>2. /\ FamilyToken(table'[t]) \in Families!Token
        /\ FamilyToken(table'[t]).owner = table'[t].owner
        /\ FamilyToken(table'[t]).scopes = table'[t].scopes
        /\ FamilyToken(table'[t]).live = ~table'[t].revoked
        /\ FamilyToken(table'[t]).heir = table'[t].replacedBy
    BY <2>1, FamilyTokenType
  <2>3. /\ FamilyToken(table'[t]).owner = old.owner
        /\ FamilyToken(table'[t]).scopes = old.scopes
        /\ FamilyToken(table'[t]).heir = old.heir
    BY <1>3, <1>9, <2>2
  <2>4. FamilyToken(table'[t]).live = old.live
    BY <1>3, <1>9, <2>2
  <2> HIDE DEF t
  <2> QED  BY <1>9, <2>2, <2>3, <2>4, TokenEqual
<1>11. /\ kept \in Seq(Families!Token) /\ Len(kept) = Len(table)
       /\ \A u \in 1..Len(table) : kept[u] = IF u = t THEN old ELSE familyTokens[u]
  <2>1. t \in 1..Len(familyTokens)
    BY <1>3, <1>4 DEF Rows
  <2> HIDE DEF t
  <2> QED  BY <1>4, <1>9, <2>1, ExceptSeq
<1> HIDE DEF kept
<1>12. /\ grown \in Seq(Families!Token) /\ Len(grown) = Len(table) + 1
       /\ \A u \in 1..Len(table) : grown[u] = kept[u]
       /\ grown[Len(table) + 1] = new
  BY <1>8, <1>11, AppendProperties
<1> HIDE DEF grown
<1>13. \A u \in 1..Len(table) : familyTokens'[u] = grown[u]
  <2> SUFFICES ASSUME NEW u \in 1..Len(table)
               PROVE  familyTokens'[u] = grown[u]
    OBVIOUS
  <2>1. u \in Rows /\ u \in Rows'
    BY <1>2, <1>3 DEF Rows
  <2>2. familyTokens'[u] = FamilyToken(table'[u]) /\ grown[u] = kept[u]
    BY <1>5, <1>12, <2>1
  <2>3. CASE u = t
    BY <1>10, <1>11, <2>2, <2>3
  <2>4. CASE u # t
    BY <1>3, <1>4, <1>11, <2>1, <2>2, <2>4
  <2> QED  BY <2>3, <2>4
<1>14. familyTokens'[Len(table) + 1] = grown[Len(table) + 1]
  <2>1. Len(table) + 1 \in Rows'
    BY <1>2, <1>3 DEF Rows
  <2> QED  BY <1>3, <1>5, <1>8, <1>12, <2>1
<1>15. familyTokens' = grown
  <2>1. \A u \in 1..(Len(table) + 1) : u \in 1..Len(table) \/ u = Len(table) + 1
    BY <1>2
  <2>2. \A u \in 1..Len(grown) : grown[u] = familyTokens'[u]
    BY <1>12, <1>13, <1>14, <2>1
  <2>3. Len(grown) = Len(familyTokens')
    BY <1>3, <1>5, <1>12
  <2> QED  BY <1>5, <1>12, <2>2, <2>3, SeqEqual
<1> QED  BY <1>6, <1>7, <1>15 DEF grown, kept, old, new, Families!Exchange

(***************************************************************************)
(* A committed revocation is a Revoke of the rows it holds.                *)
(***************************************************************************)
LEMMA RevocationIsRevoke ==
    ASSUME TypeOK, NEW r \in Requests, CommitRevocation(r)
    PROVE  held[r] \in SUBSET Families!Issued /\ Families!Revoke(held[r])
<1> DEFINE cut(t) == IF t \in held[r] THEN [familyTokens[t] EXCEPT !.live = FALSE]
                     ELSE familyTokens[t]
<1>1. /\ table \in Seq(Row) /\ Len(table) \in Nat /\ \A t \in Rows : table[t] \in Row
      /\ held[r] \in SUBSET Rows
  BY TableFacts DEF TypeOK
<1>2. /\ table' \in Seq(Row) /\ Len(table') = Len(table) /\ Rows' = Rows
      /\ \A t \in Rows : /\ table'[t].owner = table[t].owner
                         /\ table'[t].scopes = table[t].scopes
                         /\ table'[t].replacedBy = table[t].replacedBy
                         /\ table'[t].revoked = (table[t].revoked \/ t \in held[r])
  BY RevocationEffect
<1>3. /\ familyTokens \in Seq(Families!Token) /\ Len(familyTokens) = Len(table)
      /\ \A t \in Rows : familyTokens[t] = FamilyToken(table[t])
  BY <1>1, FamilyTokensFacts
<1>4. /\ familyTokens' \in Seq(Families!Token)
      /\ familyTokens' = [t \in Rows |-> familyTokens'[t]]
      /\ \A t \in Rows : familyTokens'[t] = FamilyToken(table'[t])
  <2>1. \A t \in Rows : familyTokens'[t] = FamilyToken(table'[t])
    BY <1>2, FamilyTokensFactsNext
  <2> QED  BY <1>2, <2>1, FamilyTokensFactsNext DEF familyTokens
<1>5. Families!Issued = Rows
  BY <1>3 DEF Families!Issued, Rows
<1>6. ASSUME NEW t \in Rows
      PROVE  familyTokens'[t] = cut(t)
  <2> DEFINE now == FamilyToken(table'[t])
             was == FamilyToken(table[t])
  <2>1. table[t] \in Row /\ table'[t] \in Row
    BY <1>1, <1>2 DEF Rows
  <2>2. /\ was \in Families!Token
        /\ was.owner = table[t].owner /\ was.scopes = table[t].scopes
        /\ was.live = ~table[t].revoked /\ was.heir = table[t].replacedBy
    BY <2>1, FamilyTokenType
  <2>3. /\ now \in Families!Token
        /\ now.owner = table'[t].owner /\ now.scopes = table'[t].scopes
        /\ now.live = ~table'[t].revoked /\ now.heir = table'[t].replacedBy
    BY <2>1, FamilyTokenType
  <2>4. familyTokens[t] = was /\ familyTokens'[t] = now
    BY <1>3, <1>4
  <2> HIDE DEF now, was
  <2>5. now.owner = was.owner /\ now.scopes = was.scopes /\ now.heir = was.heir
    BY <1>2, <2>2, <2>3
  <2>6. CASE t \in held[r]
    <3> DEFINE dead == [was EXCEPT !.live = FALSE]
    <3>1. /\ dead \in Families!Token
          /\ dead.owner = was.owner /\ dead.scopes = was.scopes
          /\ dead.live = FALSE /\ dead.heir = was.heir
      BY <2>2 DEF Families!Token
    <3>2. now.live = FALSE
      BY <1>2, <2>3, <2>6
    <3> HIDE DEF dead
    <3>3. now = dead
      BY <2>3, <2>5, <3>1, <3>2, TokenEqual
    <3> QED  BY <2>4, <2>6, <3>3 DEF dead
  <2>7. CASE t \notin held[r]
    <3>1. table'[t].revoked = table[t].revoked
      BY <1>2, <2>1, <2>7 DEF Row
    <3>2. now.live = was.live
      BY <2>2, <2>3, <3>1
    <3>3. now = was
      BY <2>2, <2>3, <2>5, <3>2, TokenEqual
    <3> QED  BY <2>4, <2>7, <3>3
  <2> QED  BY <2>6, <2>7
<1>7. familyTokens' = [t \in Rows |-> cut(t)]
  BY <1>4, <1>6
<1> QED  BY <1>1, <1>5, <1>7 DEF Families!Revoke

(***************************************************************************)
(* A step that keeps every row's owner, scopes, revocation and successor.  *)
(***************************************************************************)
LEMMA SameRowsSameTokens ==
    ASSUME Rows' = Rows,
           \A t \in Rows : /\ table'[t].owner = table[t].owner
                          /\ table'[t].scopes = table[t].scopes
                          /\ table'[t].revoked = table[t].revoked
                          /\ table'[t].replacedBy = table[t].replacedBy
    PROVE  UNCHANGED familyTokens
<1>1. \A t \in Rows : FamilyToken(table'[t]) = FamilyToken(table[t])
  BY DEF FamilyToken
<1> QED  BY <1>1 DEF familyTokens

LEMMA SameTableSameTokens ==
    ASSUME UNCHANGED table
    PROVE  UNCHANGED familyTokens
  BY DEF familyTokens, Rows

-----------------------------------------------------------------------------
(***************************************************************************)
(* Every step of a request is a step of TokenFamilies or a stutter.        *)
(***************************************************************************)
LEMMA ServeSimulates ==
    ASSUME Inv, NEW r \in Requests, Serve(r)
    PROVE  Families!Next \/ UNCHANGED familyTokens
<1>1. TypeOK /\ PresentsRow
  BY DEF Inv
<1>2. CASE LoadClient(r)
  BY <1>2, SameTableSameTokens DEF LoadClient
<1>3. CASE VerifySecret(r)
  BY <1>3, SameTableSameTokens DEF VerifySecret
<1>4. CASE IssueServiceToken(r)
  <2>1. client[r].scopes \in SUBSET Scopes /\ caller[r] \in Clients
    BY <1>1 DEF TypeOK, Registration
  <2>2. \/ UNCHANGED table
        \/ \E S \in SUBSET Scopes : table' = Append(table, NewRow(caller[r], S))
    BY <1>4, <2>1 DEF IssueServiceToken
  <2>3. ASSUME NEW S \in SUBSET Scopes, table' = Append(table, NewRow(caller[r], S))
        PROVE  Families!Next
    BY <1>1, <2>1, <2>3, InsertIsMint DEF Families!Next
  <2> QED  BY <2>2, <2>3, SameTableSameTokens
<1>5. CASE LookupActive(r)
  BY <1>5, SameTableSameTokens DEF LookupActive
<1>6. CASE LockPresented(r)
  BY <1>6, SameTableSameTokens DEF LockPresented
<1>7. CASE CommitRotation(r)
  <2>1. Families!Exchange(presented[r], LiveScopes(r))
    BY <1>7, RotationIsExchange
  <2>2. presented[r] \in Rows /\ table \in Seq(Row)
    BY <1>1, <1>7, RotationEffect, TableFacts
  <2>3. presented[r] \in Families!Issued
    BY <2>2, FamilyTokensFacts DEF Families!Issued, Rows
  <2>4. LiveScopes(r) \in SUBSET Scopes
    BY <1>1, <2>2, TableFacts DEF LiveScopes, Row
  <2> QED  BY <2>1, <2>3, <2>4 DEF Families!Next
<1>8. CASE BeginRevocation(r)
  BY <1>8, SameTableSameTokens DEF BeginRevocation
<1>9. CASE VisitRow(r)
  BY <1>9, SameTableSameTokens DEF VisitRow
<1>10. CASE CommitRevocation(r)
  BY <1>1, <1>10, RevocationIsRevoke DEF Families!Next
<1> QED
  BY <1>2, <1>3, <1>4, <1>5, <1>6, <1>7, <1>8, <1>9, <1>10 DEF Serve

LEMMA StepSimulates ==
    ASSUME Inv, [Next]_vars
    PROVE  [Families!Next]_familyTokens
<1>1. CASE \E r \in Requests : Serve(r)
  BY <1>1, ServeSimulates
<1>2. CASE \E r \in Requests : Fail(r)
  BY <1>2, SameTableSameTokens DEF Fail
<1>3. CASE Expire
  BY <1>3, ExpireEffect, SameRowsSameTokens DEF Inv
<1>4. CASE Reregister
  BY <1>4, SameTableSameTokens DEF Reregister
<1>5. CASE UNCHANGED vars
  BY <1>5, SameTableSameTokens DEF vars
<1> QED  BY <1>1, <1>2, <1>3, <1>4, <1>5 DEF Next

(***************************************************************************)
(* Refinement: seen through its commits alone, the service issues,         *)
(* exchanges and revokes tokens atomically.                                *)
(***************************************************************************)
THEOREM TableImplementsFamilies == Spec => ImplementsFamilies
<1>1. Init => Families!Init
  BY DEF Init, Families!Init, familyTokens, Rows
<1>2. Inv /\ [Next]_vars => [Families!Next]_familyTokens
  BY StepSimulates
<1> QED  BY <1>1, <1>2, SpecInv, PTL DEF Spec, ImplementsFamilies, Families!Spec

FamilyProofs == INSTANCE TokenFamiliesProofs WITH tokens <- familyTokens

(***************************************************************************)
(* What TokenFamilies proves of its families holds of the table: a token   *)
(* that was replaced is revoked, no two have the same successor, and along *)
(* a family the client stays and the scopes never grow.                    *)
(***************************************************************************)
ChainsInTable == Families!FamiliesAreChains /\ Families!HeirsNeverGain

THEOREM TableKeepsChains == Spec => []ChainsInTable
<1>1. Families!Spec => []ChainsInTable
  <2>1. FamilyProofs!Spec
          => [](FamilyProofs!FamiliesAreChains /\ FamilyProofs!HeirsNeverGain)
    BY FamilyProofs!FamiliesStayChains
  <2>2. Families!Init => FamilyProofs!Init
    BY DEF Families!Init, FamilyProofs!Init
  <2>3. [Families!Next]_familyTokens => [FamilyProofs!Next]_familyTokens
    BY DEF Families!Next, Families!Mint, Families!Exchange, Families!Revoke,
       Families!Issued, Families!NoHeir,
       FamilyProofs!Next, FamilyProofs!Mint, FamilyProofs!Exchange, FamilyProofs!Revoke,
       FamilyProofs!Issued, FamilyProofs!NoHeir
  <2>4. FamilyProofs!FamiliesAreChains /\ FamilyProofs!HeirsNeverGain => ChainsInTable
    BY DEF ChainsInTable, Families!FamiliesAreChains, Families!HeirsNeverGain,
       Families!Issued, Families!NoHeir, FamilyProofs!FamiliesAreChains,
       FamilyProofs!HeirsNeverGain, FamilyProofs!Issued, FamilyProofs!NoHeir
  <2> QED  BY <2>1, <2>2, <2>3, <2>4, PTL DEF Families!Spec, FamilyProofs!Spec
<1>2. Spec => Families!Spec
  BY TableImplementsFamilies DEF ImplementsFamilies
<1> QED  BY <1>1, <1>2, PTL

(***************************************************************************)
(* No step of a request loses a row, changes what it grants, undoes its    *)
(* revocation or replaces it twice.                                        *)
(***************************************************************************)
LEMMA ServeKeepsHistory ==
    ASSUME Inv, NEW r \in Requests, Serve(r)
    PROVE  KeepsHistory
<1>1. TypeOK /\ PresentsRow
  BY DEF Inv
<1>2. CASE UNCHANGED table
  BY <1>2 DEF KeepsHistory, Rows
<1>3. CASE IssueServiceToken(r)
  <2>1. client[r].scopes \in SUBSET Scopes /\ caller[r] \in Clients
    BY <1>1 DEF TypeOK, Registration
  <2>2. \/ UNCHANGED table
        \/ \E S \in SUBSET Scopes : table' = Append(table, NewRow(caller[r], S))
    BY <1>3, <2>1 DEF IssueServiceToken
  <2>3. ASSUME NEW S \in SUBSET Scopes, table' = Append(table, NewRow(caller[r], S))
        PROVE  KeepsHistory
    BY <1>1, <2>1, <2>3, InsertEffect DEF KeepsHistory
  <2> QED  BY <1>2, <2>2, <2>3
<1>4. CASE CommitRotation(r)
  <2>1. ~table[presented[r]].revoked
    BY <1>4 DEF Inv, LockedRowActive, CommitRotation
  <2>2. /\ Rows \subseteq Rows'
        /\ \A t \in Rows : t # presented[r] => table'[t] = table[t]
        /\ table'[presented[r]].owner = table[presented[r]].owner
        /\ table'[presented[r]].scopes = table[presented[r]].scopes
    BY <1>1, <1>4, RotationEffect
  <2> QED  BY <2>1, <2>2 DEF KeepsHistory
<1>5. CASE CommitRevocation(r)
  <2>1. \A t \in Rows : table[t].revoked => table'[t].revoked
    BY <1>1, <1>5, RevocationEffect
  <2> QED  BY <1>1, <1>5, <2>1, RevocationEffect DEF KeepsHistory
<1>6. CASE LoadClient(r) \/ VerifySecret(r) \/ LookupActive(r) \/ LockPresented(r)
           \/ BeginRevocation(r) \/ VisitRow(r)
  BY <1>2, <1>6 DEF LoadClient, VerifySecret, LookupActive, LockPresented, BeginRevocation,
     VisitRow
<1> QED  BY <1>3, <1>4, <1>5, <1>6 DEF Serve

LEMMA StepKeepsHistory ==
    ASSUME Inv, Next
    PROVE  KeepsHistory
<1>1. CASE \E r \in Requests : Serve(r)
  BY <1>1, ServeKeepsHistory
<1>2. CASE \E r \in Requests : Fail(r)
  BY <1>2 DEF Fail, KeepsHistory, Rows
<1>3. CASE Expire
  BY <1>3, ExpireEffect DEF Inv, KeepsHistory
<1>4. CASE Reregister
  BY <1>4 DEF Reregister, KeepsHistory, Rows
<1> QED  BY <1>1, <1>2, <1>3, <1>4 DEF Next

(***************************************************************************)
(* The history of the table is kept by every step of every behaviour.      *)
(***************************************************************************)
THEOREM HistoryStays == Spec => HistoryIsKept
<1>1. Inv /\ [Next]_vars => [KeepsHistory]_vars
  BY StepKeepsHistory
<1> QED  BY <1>1, SpecInv, PTL DEF Spec, HistoryIsKept, KeepsHistory

-----------------------------------------------------------------------------
(***************************************************************************)
(* A second invariant, on top of Inv and the chains: who rotated a row,    *)
(* and what a request that met a rotated row has seen of its successor.    *)
(***************************************************************************)

(* Only the owner's requests get past the lookup. *)
OwnerChecked ==
    \A r \in Requests : pc[r] \in {"checked", "locked", "rotated"} =>
        caller[r] = table[presented[r]].owner

(* A row that was replaced was replaced by a request that presented it. *)
ReplacedByARequest ==
    \A t \in Rows : table[t].replacedBy # NoToken =>
        \E p \in Requests : pc[p] = "rotated" /\ presented[p] = t

(* Reuse is found in a row that was replaced. *)
ReusedRowReplaced ==
    \A r \in Requests :
        pc[r] \in {"revoke", "revoking", "revoked"} /\ reason[r] = "reuse" =>
            table[presented[r]].replacedBy # NoToken

(* The family revoked for it has at least that row and its successor. *)
SuccessorSelected ==
    \A r \in Requests :
        pc[r] \in {"revoking", "revoked"} /\ reason[r] = "reuse" =>
            {presented[r], table[presented[r]].replacedBy} \subseteq scan[r]

FamilyInv ==
    /\ OwnerChecked
    /\ ReplacedByARequest
    /\ ReusedRowReplaced
    /\ SuccessorSelected

(***************************************************************************)
(* The chains, in the terms of the table.                                  *)
(***************************************************************************)
LEMMA ChainFacts ==
    ASSUME Inv, ChainsInTable
    PROVE  \A t \in Rows : table[t].replacedBy # NoToken =>
             LET u == table[t].replacedBy
             IN  /\ u \in Rows
                 /\ t < u
                 /\ table[u].owner = table[t].owner
                 /\ table[u].scopes \subseteq table[t].scopes
<1>1. /\ familyTokens \in Seq(Families!Token) /\ Len(familyTokens) = Len(table)
      /\ \A t \in Rows : familyTokens[t] = FamilyToken(table[t])
  BY FamilyTokensFacts, TableFacts DEF Inv
<1>2. Families!Issued = Rows
  BY <1>1 DEF Families!Issued, Rows
<1>3. \A t \in Rows : /\ familyTokens[t].owner = table[t].owner
                      /\ familyTokens[t].scopes = table[t].scopes
                      /\ familyTokens[t].heir = table[t].replacedBy
  BY <1>1, TableFacts, FamilyTokenType DEF Inv
<1> QED
  BY <1>2, <1>3 DEF ChainsInTable, Families!FamiliesAreChains, Families!HeirsNeverGain,
     Families!NoHeir, NoToken

(***************************************************************************)
(* A family has its first row and every successor, and is the least such   *)
(* set: whatever set has both has the whole family.                        *)
(***************************************************************************)
LEMMA FamilyIsClosed ==
    ASSUME NEW t \in Rows
    PROVE  t \in Family(t) /\ Family(t) \subseteq Rows /\ FollowsReplacedBy(Family(t))
  BY DEF Family, FollowsReplacedBy

LEMMA FamilyIsLeast ==
    ASSUME NEW t \in Rows, NEW S \in SUBSET Rows, t \in S, FollowsReplacedBy(S)
    PROVE  Family(t) \subseteq S
  BY DEF Family

(***************************************************************************)
(* A family is its first row with the family of that row's successor.      *)
(***************************************************************************)
LEMMA FamilyUnfolds ==
    ASSUME NEW t \in Rows
    PROVE  Family(t) \subseteq
             {t} \union UNION {Family(u) : u \in {table[t].replacedBy} \intersect Rows}
<1> DEFINE S == {t} \union UNION {Family(u) : u \in {table[t].replacedBy} \intersect Rows}
<1>1. S \in SUBSET Rows
  BY FamilyIsClosed
<1>2. FollowsReplacedBy(S)
  <2> SUFFICES ASSUME NEW u \in S, table[u].replacedBy \in Rows
               PROVE  table[u].replacedBy \in S
    BY DEF FollowsReplacedBy
  <2>1. CASE u = t
    BY <2>1, FamilyIsClosed
  <2>2. CASE u # t
    <3>1. PICK v \in {table[t].replacedBy} \intersect Rows : u \in Family(v)
      BY <2>2
    <3>2. table[u].replacedBy \in Family(v)
      BY <3>1, FamilyIsClosed DEF FollowsReplacedBy
    <3> QED  BY <3>1, <3>2
  <2> QED  BY <2>1, <2>2
<1> QED  BY <1>1, <1>2, FamilyIsLeast

(***************************************************************************)
(* Along a family rows get younger.                                        *)
(***************************************************************************)
LEMMA FamilyIsYounger ==
    ASSUME Inv, ChainsInTable, NEW t \in Rows
    PROVE  \A u \in Family(t) : t <= u
<1> DEFINE S == {u \in Rows : t <= u}
<1>1. Rows \subseteq Nat
  BY DEF Rows
<1>2. FollowsReplacedBy(S)
  BY <1>1, ChainFacts DEF FollowsReplacedBy, NoToken, Rows
<1> QED  BY <1>1, <1>2, FamilyIsLeast

(***************************************************************************)
(* A row without a successor is the newest of every family it is in: the   *)
(* rows whose family has it are closed under replaced_by.                  *)
(***************************************************************************)
LEMMA LastRowIsNewest ==
    ASSUME Inv, ChainsInTable, NEW t \in Rows,
           NEW u \in Family(t), table[u].replacedBy = NoToken
    PROVE  \A w \in Family(t) : w <= u
<1> DEFINE S == {w \in Rows : u \in Family(w)}
<1>1. FollowsReplacedBy(S)
  <2> SUFFICES ASSUME NEW w \in S, table[w].replacedBy \in Rows
               PROVE  u \in Family(table[w].replacedBy)
    BY DEF FollowsReplacedBy
  <2>1. w # u
    BY DEF NoToken, Rows
  <2> QED  BY <2>1, FamilyUnfolds
<1>2. Family(t) \subseteq S
  BY <1>1, FamilyIsLeast
<1> QED  BY <1>2, FamilyIsYounger

(***************************************************************************)
(* What a family grants never grows, and it has one active row at most.    *)
(***************************************************************************)
LEMMA FamilyKeepsOwnerAndScopes ==
    ASSUME Inv, ChainsInTable
    PROVE  FamilyNeverGains
<1> SUFFICES ASSUME NEW t \in Rows
             PROVE  \A u \in Family(t) : /\ table[u].owner = table[t].owner
                                         /\ table[u].scopes \subseteq table[t].scopes
  BY DEF FamilyNeverGains
<1> DEFINE S == {u \in Rows : /\ table[u].owner = table[t].owner
                              /\ table[u].scopes \subseteq table[t].scopes}
<1>1. FollowsReplacedBy(S)
  BY ChainFacts DEF FollowsReplacedBy, NoToken, Rows
<1> QED  BY <1>1, FamilyIsLeast

LEMMA FamilyHasOneActive ==
    ASSUME Inv, ChainsInTable
    PROVE  OneActivePerFamily
<1> SUFFICES ASSUME NEW t \in Rows, NEW u \in Family(t), NEW w \in Family(t),
                    ~table[u].revoked
             PROVE  w <= u
  BY DEF OneActivePerFamily
<1>1. table[u].replacedBy = NoToken
  BY FamilyIsClosed DEF Inv, ReplacedRowsRevoked
<1> QED  BY <1>1, LastRowIsNewest

(***************************************************************************)
(* A step moves one request at most; the others keep what they go by.      *)
(***************************************************************************)
LEMMA OthersStay ==
    ASSUME TypeOK, Next, NEW r \in Requests
    PROVE  \/ Serve(r)
           \/ Fail(r)
           \/ /\ pc'[r] = pc[r] /\ caller'[r] = caller[r] /\ presented'[r] = presented[r]
              /\ reason'[r] = reason[r] /\ scan'[r] = scan[r]
<1>1. CASE \E q \in Requests : Serve(q)
  <2>1. PICK q \in Requests : Serve(q)
    BY <1>1
  <2>2. CASE q = r
    BY <2>1, <2>2
  <2>3. CASE q # r
    BY <2>1, <2>3 DEF TypeOK, Serve, LoadClient, VerifySecret, IssueServiceToken, LookupActive,
       LockPresented, CommitRotation, BeginRevocation, VisitRow, CommitRevocation, GoTo,
       requestVars, revocationVars
  <2> QED  BY <2>2, <2>3
<1>2. CASE \E q \in Requests : Fail(q)
  BY <1>2 DEF TypeOK, Fail, GoTo, requestVars
<1>3. CASE Expire \/ Reregister
  BY <1>3 DEF Expire, Reregister, requestVars, revocationVars
<1> QED  BY <1>1, <1>2, <1>3 DEF Next

(***************************************************************************)
(* The rows that have been replaced after a step were before it, or are    *)
(* replaced by a rotation in this step.                                    *)
(***************************************************************************)
LEMMA ReplacedRowsAfter ==
    ASSUME Inv, Next, NEW t \in Rows', table'[t].replacedBy # NoToken
    PROVE  \/ t \in Rows /\ table[t].replacedBy # NoToken
           \/ \E r \in Requests : CommitRotation(r) /\ presented[r] = t
<1>1. TypeOK /\ PresentsRow
  BY DEF Inv
<1>2. CASE UNCHANGED table
  BY <1>2 DEF Rows
<1>3. ASSUME NEW r \in Requests, IssueServiceToken(r)
      PROVE  t \in Rows /\ table[t].replacedBy # NoToken
  <2>1. client[r].scopes \in SUBSET Scopes /\ caller[r] \in Clients
    BY <1>1 DEF TypeOK, Registration
  <2>2. \/ UNCHANGED table
        \/ \E S \in SUBSET Scopes : table' = Append(table, NewRow(caller[r], S))
    BY <1>3, <2>1 DEF IssueServiceToken
  <2>3. ASSUME NEW S \in SUBSET Scopes, table' = Append(table, NewRow(caller[r], S))
        PROVE  t \in Rows /\ table[t].replacedBy # NoToken
    <3>1. NewRow(caller[r], S).replacedBy = NoToken
      BY DEF NewRow
    <3> QED  BY <1>1, <2>1, <2>3, <3>1, InsertEffect
  <2> QED  BY <2>2, <2>3 DEF Rows
<1>4. ASSUME NEW r \in Requests, CommitRotation(r)
      PROVE  t = presented[r] \/ (t \in Rows /\ table[t].replacedBy # NoToken)
  <2>1. \A c, S : NewRow(c, S).replacedBy = NoToken
    BY DEF NewRow
  <2> QED  BY <1>1, <1>4, <2>1, RotationEffect
<1>5. ASSUME NEW r \in Requests, CommitRevocation(r)
      PROVE  t \in Rows /\ table[t].replacedBy # NoToken
  BY <1>1, <1>5, RevocationEffect
<1>6. CASE Expire
  BY <1>1, <1>6, ExpireEffect
<1>7. ASSUME NEW r \in Requests, Serve(r) \/ Fail(r)
      PROVE  \/ UNCHANGED table
             \/ IssueServiceToken(r) \/ CommitRotation(r) \/ CommitRevocation(r)
  BY <1>7 DEF Serve, LoadClient, VerifySecret, LookupActive, LockPresented, BeginRevocation,
     VisitRow, Fail
<1> QED
  BY <1>2, <1>3, <1>4, <1>5, <1>6, <1>7 DEF Next, Reregister

LEMMA OwnerCheckedStep ==
    ASSUME Inv, OwnerChecked, KeepsHistory, Next
    PROVE  OwnerChecked'
<1> SUFFICES ASSUME NEW r \in Requests, pc'[r] \in {"checked", "locked", "rotated"}
             PROVE  caller'[r] = table'[presented'[r]].owner
  BY DEF OwnerChecked
<1>1. TypeOK /\ PresentsRow
  BY DEF Inv
<1>2. CASE /\ pc'[r] = pc[r] /\ caller'[r] = caller[r] /\ presented'[r] = presented[r]
  BY <1>1, <1>2 DEF OwnerChecked, PresentsRow, KeepsHistory
<1>3. CASE LookupActive(r)
  <2>1. presented[r] \in Rows /\ presented'[r] = presented[r] /\ caller'[r] = caller[r]
    BY <1>1, <1>3 DEF TypeOK, LookupActive, requestVars
  <2>2. LookupVerdict(r) = "checked"
    <3>1. pc'[r] \in {"revoke", LookupVerdict(r)}
      BY <1>1, <1>3 DEF LookupActive, GoTo, TypeOK
    <3> QED  BY <3>1 DEF LookupVerdict
  <2>3. table[presented[r]].owner = caller[r]
    BY <2>2 DEF LookupVerdict
  <2> QED  BY <2>1, <2>3 DEF KeepsHistory
<1>4. CASE LockPresented(r) \/ CommitRotation(r)
  <2>1. /\ pc[r] \in {"checked", "locked"}
        /\ presented'[r] = presented[r] /\ caller'[r] = caller[r]
    BY <1>4 DEF LockPresented, CommitRotation, requestVars
  <2>2. presented[r] \in Rows
    BY <1>1, <2>1 DEF PresentsRow
  <2> QED  BY <2>1, <2>2 DEF OwnerChecked, KeepsHistory
<1>5. ASSUME LoadClient(r) \/ VerifySecret(r) \/ IssueServiceToken(r) \/ BeginRevocation(r)
             \/ CommitRevocation(r) \/ Fail(r)
      PROVE  FALSE
  BY <1>1, <1>5 DEF TypeOK, LoadClient, VerifySecret, IssueServiceToken, BeginRevocation,
     CommitRevocation, Fail, GoTo
<1>6. ASSUME VisitRow(r)
      PROVE  pc'[r] = pc[r] /\ caller'[r] = caller[r] /\ presented'[r] = presented[r]
  BY <1>6 DEF VisitRow, requestVars
<1> QED  BY <1>1, <1>2, <1>3, <1>4, <1>5, <1>6, OthersStay DEF Serve

LEMMA ReplacedByARequestStep ==
    ASSUME Inv, ReplacedByARequest, Next
    PROVE  ReplacedByARequest'
<1> SUFFICES ASSUME NEW t \in Rows', table'[t].replacedBy # NoToken
             PROVE  \E p \in Requests : pc'[p] = "rotated" /\ presented'[p] = t
  BY DEF ReplacedByARequest
<1>1. TypeOK
  BY DEF Inv
<1>2. ASSUME NEW p \in Requests, CommitRotation(p)
      PROVE  pc'[p] = "rotated" /\ presented'[p] = presented[p]
  BY <1>1, <1>2 DEF CommitRotation, GoTo, TypeOK, requestVars
<1>3. ASSUME NEW p \in Requests, pc[p] = "rotated"
      PROVE  pc'[p] = "rotated" /\ presented'[p] = presented[p]
  <2>1. ~Serve(p) /\ ~Fail(p)
    BY <1>3 DEF Serve, LoadClient, VerifySecret, IssueServiceToken, LookupActive,
       LockPresented, CommitRotation, BeginRevocation, VisitRow, CommitRevocation, Fail, Running
  <2> QED  BY <1>1, <1>3, <2>1, OthersStay
<1> QED  BY <1>2, <1>3, ReplacedRowsAfter DEF ReplacedByARequest

(***************************************************************************)
(* A row that was replaced keeps its successor.                            *)
(***************************************************************************)
LEMMA SuccessorKept ==
    ASSUME Inv, KeepsHistory, NEW t \in Rows, table[t].replacedBy # NoToken
    PROVE  table'[t].replacedBy = table[t].replacedBy
  BY DEF Inv, ReplacedRowsRevoked, KeepsHistory

LEMMA ReusedRowReplacedStep ==
    ASSUME Inv, ReusedRowReplaced, KeepsHistory, Next
    PROVE  ReusedRowReplaced'
<1> SUFFICES ASSUME NEW r \in Requests,
                    pc'[r] \in {"revoke", "revoking", "revoked"}, reason'[r] = "reuse"
             PROVE  table'[presented'[r]].replacedBy # NoToken
  BY DEF ReusedRowReplaced
<1>1. TypeOK /\ PresentsRow
  BY DEF Inv
<1>2. CASE /\ pc[r] \in {"revoke", "revoking", "revoked"} /\ reason[r] = "reuse"
           /\ presented'[r] = presented[r]
  BY <1>1, <1>2, SuccessorKept DEF ReusedRowReplaced, PresentsRow
<1>3. CASE LookupActive(r) \/ LockPresented(r)
  <2>1. presented[r] \in Rows /\ presented'[r] = presented[r]
    BY <1>1, <1>3 DEF TypeOK, PresentsRow, LookupActive, LockPresented, requestVars
  <2>2. table[presented[r]].replacedBy # NoToken
    <3>1. CASE LookupActive(r)
      <4>1. LookupVerdict(r) = "reuse"
        BY <1>1, <3>1 DEF LookupActive, LookupVerdict, GoTo, TypeOK, FamilyReasons, ClientReasons
      <4> QED  BY <4>1 DEF LookupVerdict
    <3>2. CASE LockPresented(r)
      BY <1>1, <3>2 DEF LockPresented, GoTo, TypeOK
    <3> QED  BY <1>3, <3>1, <3>2
  <2> QED  BY <2>1, <2>2, SuccessorKept
<1>4. ASSUME BeginRevocation(r) \/ VisitRow(r) \/ CommitRevocation(r)
      PROVE  /\ pc[r] \in {"revoke", "revoking", "revoked"} /\ reason[r] = "reuse"
             /\ presented'[r] = presented[r]
  BY <1>4 DEF BeginRevocation, VisitRow, CommitRevocation, requestVars, revocationVars
<1>5. ASSUME LoadClient(r) \/ VerifySecret(r) \/ IssueServiceToken(r) \/ CommitRotation(r)
             \/ Fail(r)
      PROVE  FALSE
  BY <1>1, <1>5 DEF TypeOK, LoadClient, VerifySecret, IssueServiceToken, CommitRotation, Fail,
     GoTo
<1> QED  BY <1>1, <1>2, <1>3, <1>4, <1>5, OthersStay DEF Serve

LEMMA SuccessorSelectedStep ==
    ASSUME Inv, ChainsInTable, ReusedRowReplaced, SuccessorSelected, KeepsHistory, Next
    PROVE  SuccessorSelected'
<1> SUFFICES ASSUME NEW r \in Requests,
                    pc'[r] \in {"revoking", "revoked"}, reason'[r] = "reuse"
             PROVE  {presented'[r], table'[presented'[r]].replacedBy} \subseteq scan'[r]
  BY DEF SuccessorSelected
<1>1. TypeOK /\ PresentsRow
  BY DEF Inv
<1>2. CASE /\ pc[r] \in {"revoking", "revoked"} /\ reason[r] = "reuse"
           /\ presented'[r] = presented[r] /\ scan'[r] = scan[r]
  <2>1. presented[r] \in Rows /\ table[presented[r]].replacedBy # NoToken
    BY <1>1, <1>2 DEF PresentsRow, ReusedRowReplaced
  <2> QED  BY <1>2, <2>1, SuccessorKept DEF SuccessorSelected
<1>3. CASE BeginRevocation(r)
  <2>1. /\ pc[r] = "revoke" /\ reason[r] = "reuse" /\ presented'[r] = presented[r]
        /\ scan' = [scan EXCEPT ![r] = Family(presented[r])]
    BY <1>3 DEF BeginRevocation, FamilyReasons, requestVars
  <2>2. presented[r] \in Rows /\ table[presented[r]].replacedBy # NoToken
    BY <1>1, <2>1 DEF PresentsRow, ReusedRowReplaced
  <2>3. {presented[r], table[presented[r]].replacedBy} \subseteq Family(presented[r])
    BY <2>2, ChainFacts, FamilyIsClosed DEF FollowsReplacedBy
  <2>4. scan'[r] = Family(presented[r])
    BY <1>1, <2>1 DEF TypeOK
  <2> QED  BY <2>1, <2>2, <2>3, <2>4, SuccessorKept
<1>4. ASSUME VisitRow(r) \/ CommitRevocation(r)
      PROVE  /\ pc[r] \in {"revoking", "revoked"} /\ reason[r] = "reuse"
             /\ presented'[r] = presented[r] /\ scan'[r] = scan[r]
  BY <1>4 DEF VisitRow, CommitRevocation, requestVars, revocationVars
<1>5. ASSUME LoadClient(r) \/ VerifySecret(r) \/ IssueServiceToken(r) \/ LookupActive(r)
             \/ LockPresented(r) \/ CommitRotation(r) \/ Fail(r)
      PROVE  FALSE
  BY <1>1, <1>5 DEF TypeOK, LoadClient, VerifySecret, IssueServiceToken, LookupActive,
     LookupVerdict, LockPresented, CommitRotation, Fail, GoTo
<1> QED  BY <1>1, <1>2, <1>3, <1>4, <1>5, OthersStay DEF Serve

LEMMA FamilyInvStep ==
    ASSUME Inv, ChainsInTable, FamilyInv, [Next]_vars
    PROVE  FamilyInv'
<1>1. CASE Next
  BY <1>1, StepKeepsHistory, OwnerCheckedStep, ReplacedByARequestStep, ReusedRowReplacedStep,
     SuccessorSelectedStep DEF FamilyInv
<1>2. CASE UNCHANGED vars
  BY <1>2 DEF FamilyInv, OwnerChecked, ReplacedByARequest, ReusedRowReplaced,
     SuccessorSelected, Rows, vars, requestVars, revocationVars
<1> QED  BY <1>1, <1>2

THEOREM SpecFamilyInv == Spec => []FamilyInv
<1>1. Init => FamilyInv
  BY DEF Init, FamilyInv, OwnerChecked, ReplacedByARequest, ReusedRowReplaced,
     SuccessorSelected, Rows
<1>2. Inv /\ ChainsInTable /\ FamilyInv /\ [Next]_vars => FamilyInv'
  BY FamilyInvStep
<1> QED  BY <1>1, <1>2, SpecInv, TableKeepsChains, PTL DEF Spec

(***************************************************************************)
(* The winner and the loser of a race on one token: the winner's new token *)
(* is the only successor, since nobody presented it, so the two rows the   *)
(* loser has revoked are the family.                                       *)
(***************************************************************************)
LEMMA RacersKnowTheFamily ==
    ASSUME Inv, ChainsInTable, FamilyInv
    PROVE  RacersCutEachOtherOff
<1> SUFFICES ASSUME NEW r \in Requests, NEW q \in Requests,
                    pc[r] = "rotated", pc[q] = "revoked", reason[q] = "reuse",
                    presented[r] = presented[q],
                    \A p \in Requests : presented[p] \in Family(presented[r]) =>
                        presented[p] = presented[r]
             PROVE  \A t \in Family(presented[r]) : table[t].revoked
  BY DEF RacersCutEachOtherOff
<1> DEFINE t == presented[r]
           u == table[t].replacedBy
<1>1. t \in Rows /\ u # NoToken
  BY DEF Inv, PresentsRow, FamilyInv, ReusedRowReplaced
<1>2. u \in Rows /\ t < u
  BY <1>1, ChainFacts
<1>3. {t, u} \subseteq Family(t)
  BY <1>1, <1>2, FamilyIsClosed DEF FollowsReplacedBy
<1>4. table[u].replacedBy = NoToken
  <2> SUFFICES ASSUME table[u].replacedBy # NoToken PROVE FALSE
    OBVIOUS
  <2>1. PICK p \in Requests : presented[p] = u
    BY <1>2 DEF FamilyInv, ReplacedByARequest
  <2>2. u = t
    BY <1>3, <2>1
  <2> QED  BY <1>1, <1>2, <2>2 DEF Rows
<1>5. Family(t) \subseteq {t, u}
  <2>1. FollowsReplacedBy({t, u})
    BY <1>4 DEF FollowsReplacedBy, NoToken, Rows
  <2> QED  BY <1>1, <1>2, <2>1, FamilyIsLeast
<1>6. table[t].revoked /\ table[u].revoked
  BY DEF Inv, SelectedRowsRevoked, FamilyInv, SuccessorSelected
<1> QED  BY <1>5, <1>6

(***************************************************************************)
(* A family has at most one active token, its newest, whatever requests    *)
(* run together.                                                           *)
(***************************************************************************)
THEOREM FamilyStaysSingle == Spec => []OneActivePerFamily
  BY FamilyHasOneActive, SpecInv, TableKeepsChains, PTL

(***************************************************************************)
(* However long a chain of rotations gets, the client stays and no scope   *)
(* is added.                                                               *)
(***************************************************************************)
THEOREM FamilyStaysNarrow == Spec => []FamilyNeverGains
  BY FamilyKeepsOwnerAndScopes, SpecInv, TableKeepsChains, PTL

(***************************************************************************)
(* A token is exchanged for its owner only.                                *)
(***************************************************************************)
THEOREM OwnersRotate == Spec => []OnlyOwnerRotates
<1>1. FamilyInv => OnlyOwnerRotates
  BY DEF FamilyInv, OwnerChecked, OnlyOwnerRotates
<1> QED  BY <1>1, SpecFamilyInv, PTL

(***************************************************************************)
(* Two requests that race on one token leave no live family, unless        *)
(* somebody has used the winner's token already.                           *)
(***************************************************************************)
THEOREM RaceLeavesNoLiveFamily == Spec => []RacersCutEachOtherOff
  BY RacersKnowTheFamily, SpecInv, TableKeepsChains, SpecFamilyInv, PTL

-----------------------------------------------------------------------------
(***************************************************************************)
(* Progress, as far as it is not a matter of fairness.  A request holds a  *)
(* row only between locking it and its commit; above all not while it      *)
(* waits for the first one.                                                *)
(***************************************************************************)
HoldersAreUnderway ==
    \A r \in Requests : held[r] # {} => pc[r] \in {"locked", "revoke", "revoking"}

LEMMA HoldersStep ==
    ASSUME TypeOK, HoldersAreUnderway, [Next]_vars
    PROVE  HoldersAreUnderway'
<1>1. ASSUME NEW r \in Requests, Serve(r) \/ Fail(r) PROVE HoldersAreUnderway'
  <2>1. \A q \in Requests \ {r} : pc'[q] = pc[q] /\ held'[q] = held[q]
    BY <1>1 DEF TypeOK, Serve, LoadClient, VerifySecret, IssueServiceToken, LookupActive,
       LockPresented, CommitRotation, BeginRevocation, VisitRow, CommitRevocation, Fail, GoTo
  <2>2. CASE LoadClient(r) \/ VerifySecret(r) \/ IssueServiceToken(r) \/ LookupActive(r)
    <3>1. held'[r] = {}
      BY <2>2 DEF HoldersAreUnderway, LoadClient, VerifySecret, IssueServiceToken,
         LookupActive
    <3> QED  BY <2>1, <3>1 DEF HoldersAreUnderway
  <2>3. CASE LockPresented(r)
    <3>1. held[r] = {}
      BY <2>3 DEF HoldersAreUnderway, LockPresented
    <3>2. held'[r] = {} \/ pc'[r] \in {"locked", "revoke"}
      BY <2>3, <3>1 DEF LockPresented, GoTo, TypeOK
    <3> QED  BY <2>1, <3>2 DEF HoldersAreUnderway
  <2>4. CASE BeginRevocation(r) \/ VisitRow(r)
    <3>1. pc'[r] = "revoking"
      BY <2>4 DEF BeginRevocation, VisitRow, GoTo, TypeOK
    <3> QED  BY <2>1, <3>1 DEF HoldersAreUnderway
  <2>5. CASE CommitRotation(r) \/ CommitRevocation(r) \/ Fail(r)
    <3>1. held'[r] = {}
      BY <2>5 DEF CommitRotation, CommitRevocation, Fail, TypeOK
    <3> QED  BY <2>1, <3>1 DEF HoldersAreUnderway
  <2> QED  BY <1>1, <2>2, <2>3, <2>4, <2>5 DEF Serve
<1>2. CASE Expire \/ Reregister \/ UNCHANGED vars
  BY <1>2 DEF HoldersAreUnderway, Expire, Reregister, vars
<1> QED  BY <1>1, <1>2 DEF Next

LEMMA SpecHolders == Spec => [](TypeOK /\ HoldersAreUnderway)
<1>1. Init => HoldersAreUnderway
  BY DEF Init, HoldersAreUnderway
<1>2. TypeOK /\ HoldersAreUnderway /\ [Next]_vars => HoldersAreUnderway'
  BY HoldersStep
<1> QED  BY <1>1, <1>2, TypeCorrect, PTL DEF Spec

(***************************************************************************)
(* The service never comes to a standstill: while requests are running,    *)
(* one of them waits for nobody's row, or is in a cycle that PostgreSQL    *)
(* breaks.                                                                 *)
(***************************************************************************)
WaitsForNobody(r) ==
    Awaited(r) = {} \/ \E t \in Awaited(r) : ~HeldByOther(r, t)

NobodyIsStranded ==
    (\E r \in Requests : pc[r] \in Running) =>
        \E r \in Requests : pc[r] \in Running /\ (WaitsForNobody(r) \/ Deadlocked(r))

(***************************************************************************)
(* However many requests wait for each other's rows, one of them can go on *)
(* or is a deadlock's victim to be: if all that run wait, they make up one *)
(* cycle together.                                                         *)
(***************************************************************************)
THEOREM ServiceNeverStandsStill == Spec => []NobodyIsStranded
<1>1. ASSUME HoldersAreUnderway PROVE NobodyIsStranded
  <2> SUFFICES ASSUME NEW r \in Requests, pc[r] \in Running,
                      \A q \in Requests : pc[q] \in Running => ~WaitsForNobody(q)
               PROVE  Deadlocked(r)
    BY DEF NobodyIsStranded
  <2> DEFINE D == {q \in Requests : pc[q] \in Running}
  <2>1. r \in D /\ D \in SUBSET Requests
    OBVIOUS
  <2>2. ASSUME NEW p \in D, NEW t \in Awaited(p) PROVE \E q \in D \ {p} : t \in held[q]
    <3>1. HeldByOther(p, t)
      BY <2>2 DEF WaitsForNobody
    <3>2. PICK q \in Requests \ {p} : t \in held[q]
      BY <3>1 DEF HeldByOther
    <3>3. pc[q] \in Running
      BY <1>1, <3>2 DEF HoldersAreUnderway, Running
    <3> QED  BY <3>2, <3>3
  <2>3. \A p \in D : Awaited(p) # {}
    BY DEF WaitsForNobody
  <2>4. \A p \in D : /\ Awaited(p) # {}
                     /\ \A t \in Awaited(p) : \E q \in D \ {p} : t \in held[q]
    BY <2>2, <2>3
  <2> HIDE DEF D
  <2> QED  BY <2>1, <2>4 DEF Deadlocked
<1> QED  BY <1>1, SpecHolders, PTL

(***************************************************************************)
(* A request that waits to lock the row it presents holds no other, so     *)
(* nobody waits for it in turn.                                            *)
(***************************************************************************)
THEOREM RotationsDoNotDeadlock == Spec => []DeadlocksAreOfRevocations
<1>1. ASSUME HoldersAreUnderway PROVE DeadlocksAreOfRevocations
  <2> SUFFICES ASSUME NEW r \in Requests, Deadlocked(r)
               PROVE  \E p, q \in Requests : CutsAcross(p, q)
    BY DEF DeadlocksAreOfRevocations
  <2>1. PICK D \in SUBSET Requests :
          /\ r \in D
          /\ \A p \in D : /\ Awaited(p) # {}
                          /\ \A t \in Awaited(p) : \E q \in D \ {p} : t \in held[q]
    BY DEF Deadlocked
  <2>2. ASSUME NEW q \in D, held[q] # {} PROVE pc[q] = "revoking" /\ Awaited(q) = todo[q]
    <3>1. pc[q] \in {"locked", "revoke", "revoking"}
      BY <1>1, <2>2 DEF HoldersAreUnderway
    <3>2. Awaited(q) # {}
      BY <2>1
    <3> QED  BY <3>1, <3>2 DEF Awaited
  <2>3. PICK p \in D : held[p] # {}
    BY <2>1
  <2>4. PICK t \in todo[p] : t \in Awaited(p)
    BY <2>1, <2>2, <2>3
  <2>5. PICK q \in D \ {p} : t \in held[q]
    BY <2>1, <2>4
  <2>6. pc[p] = "revoking" /\ pc[q] = "revoking"
    BY <2>2, <2>3, <2>5
  <2> QED  BY <2>3, <2>4, <2>5, <2>6 DEF CutsAcross
<1> QED  BY <1>1, SpecHolders, PTL

(***************************************************************************)
(* How far a request has got, and what brings it nearer to its end: the    *)
(* next stage, or one row fewer to visit.                                  *)
(***************************************************************************)
Stage(l) == CASE l = "idle"     -> 0
              [] l = "loaded"   -> 1
              [] l = "verified" -> 2
              [] l = "checked"  -> 3
              [] l = "locked"   -> 4
              [] l = "revoke"   -> 5
              [] l = "revoking" -> 6
              [] OTHER          -> 7

Nearer(r) ==
    \/ Stage(pc'[r]) > Stage(pc[r])
    \/ pc'[r] = pc[r] /\ todo'[r] \subseteq todo[r] /\ todo'[r] # todo[r]

LEMMA ServeBringsNearer ==
    ASSUME TypeOK, NEW r \in Requests, Serve(r) \/ Fail(r)
    PROVE  Nearer(r)
<1>1. CASE VisitRow(r)
  BY <1>1 DEF TypeOK, VisitRow, Nearer
<1>2. CASE LookupActive(r)
  BY <1>2 DEF TypeOK, LookupActive, LookupVerdict, GoTo, Nearer, Stage
<1>3. CASE LockPresented(r)
  <2>1. pc[r] = "checked" /\ pc'[r] \in {"revoke", "refused", "locked"}
    BY <1>3 DEF TypeOK, LockPresented, GoTo
  <2> QED  BY <2>1 DEF Nearer, Stage
<1>4. CASE LoadClient(r) \/ VerifySecret(r)
  BY <1>4 DEF TypeOK, LoadClient, VerifySecret, GoTo, Nearer, Stage
<1>5. CASE IssueServiceToken(r)
  <2>1. pc[r] = "verified" /\ pc'[r] \in {"refused", "accessOnly", "issued"}
    BY <1>5 DEF TypeOK, IssueServiceToken, GoTo
  <2> QED  BY <2>1 DEF Nearer, Stage
<1>6. CASE CommitRotation(r) \/ BeginRevocation(r) \/ CommitRevocation(r)
  BY <1>6 DEF TypeOK, CommitRotation, BeginRevocation, CommitRevocation, GoTo, Nearer, Stage
<1>7. CASE Fail(r)
  <2>1. pc[r] \in Running /\ pc'[r] = "failed"
    BY <1>7 DEF TypeOK, Fail, GoTo
  <2> QED  BY <2>1 DEF Running, Nearer, Stage
<1> QED  BY <1>1, <1>2, <1>3, <1>4, <1>5, <1>6, <1>7 DEF Serve

(***************************************************************************)
(* No request goes in circles, and none is put back by another: whatever   *)
(* step is taken, its own statements and failures bring it nearer to its   *)
(* end, and everybody else's leave it where it is.                         *)
(***************************************************************************)
RequestsWindDown ==
    \A r \in Requests :
        /\ Serve(r) \/ Fail(r) => Nearer(r)
        /\ Nearer(r) \/ UNCHANGED <<pc[r], todo[r]>>

LEMMA StepWindsDown ==
    ASSUME TypeOK, [Next]_vars
    PROVE  [RequestsWindDown]_vars
<1>1. \A r \in Requests : Serve(r) \/ Fail(r) => Nearer(r)
  BY ServeBringsNearer
<1>2. ASSUME NEW r \in Requests, Serve(r) \/ Fail(r), NEW q \in Requests \ {r}
      PROVE  UNCHANGED <<pc[q], todo[q]>>
  BY <1>2 DEF TypeOK, Serve, LoadClient, VerifySecret, IssueServiceToken, LookupActive,
     LockPresented, CommitRotation, BeginRevocation, VisitRow, CommitRevocation, Fail, GoTo,
     revocationVars
<1>3. Expire \/ Reregister => UNCHANGED <<pc, todo>>
  BY DEF Expire, Reregister, revocationVars
<1> QED  BY <1>1, <1>2, <1>3 DEF Next, RequestsWindDown

(***************************************************************************)
(* Every request takes a bounded number of steps: seven stages at most,    *)
(* and as many visits as its revocation selected rows.                     *)
(***************************************************************************)
THEOREM EveryStepWindsDown == Spec => [][RequestsWindDown]_vars
<1>1. TypeOK /\ [Next]_vars => [RequestsWindDown]_vars
  BY StepWindsDown
<1> QED  BY <1>1, TypeCorrect, PTL DEF Spec
=============================================================================
