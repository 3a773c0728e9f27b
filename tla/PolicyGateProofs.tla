--------------------------- MODULE PolicyGateProofs ---------------------------
(***************************************************************************)
(* Whom the gate rejects, for any number of requests, subjects, tenants,   *)
(* versions, scopes and changes of the policy.                             *)
(***************************************************************************)
EXTENDS PolicyGate, FiniteSetTheorems, TLAPS

Places == {"idle", "issued", "admitted", "rejected"} \union Open

Typed ==
    /\ pc \in [Requests -> Places]
    /\ op \in [Requests -> {"none"} \union Operations]
    /\ blocked \in [Requests -> SUBSET {"unentitled", "locked", "revoked", "disabled"}]
    /\ scopes = [r \in Requests |-> scopes[r]]
    /\ needs = [r \in Requests |-> needs[r]]
    /\ presents = [r \in Requests |-> presents[r]]
    /\ grant = [r \in Requests |-> grant[r]]
    /\ subject = [r \in Requests |-> subject[r]]

(* Each operation passes its own checks and ends in its own way. *)
OnItsWay(r) ==
    /\ pc[r] = "idle" => op[r] = "none" /\ blocked[r] = {}
    /\ pc[r] = "loading" => op[r] \in {"delegate", "mtls"}
    /\ pc[r] = "granting" => op[r] = "delegate"
    /\ pc[r] \in {"entitling", "revoking"} => op[r] = "delegated"
    /\ pc[r] = "issued" => op[r] = "delegate"
    /\ pc[r] = "admitted" => op[r] # "delegate"

(* Which reasons an operation can have at all. *)
Possible(r) ==
    /\ op[r] # "delegated" => "revoked" \notin blocked[r]
    /\ op[r] \notin {"delegate", "delegated"} => "unentitled" \notin blocked[r]

(* A reason that has held from the beginning holds now, so that the check  *)
(* that is made now finds it; once passed, a check has excluded it.        *)
Excluded(r) ==
    /\ pc[r] \in Open => blocked[r] \subseteq Reasons(r)
    /\ pc[r] \in {"locking", "revoking", "issued", "admitted"} => "unentitled" \notin blocked[r]
    /\ pc[r] \in {"revoking", "issued", "admitted"} => "locked" \notin blocked[r]
    /\ pc[r] = "admitted" => "revoked" \notin blocked[r]

(* A delegated token carries delegable scopes only, and so does whoever    *)
(* presents it.                                                            *)
CarriesDelegable(r) ==
    /\ pc[r] = "issued" => scopes[r] \subseteq Delegable
    /\ op[r] = "delegated" /\ pc[r] # "rejected" => scopes[r] \subseteq Delegable
    /\ op[r] = "delegated" /\ pc[r] \in {"locking", "revoking", "admitted"} =>
         Covers(scopes[r], needs[r])

IInv ==
    /\ Typed
    /\ \A r \in Requests : OnItsWay(r) /\ Possible(r) /\ Excluded(r) /\ CarriesDelegable(r)

(***************************************************************************)
(* What Watch leaves of the reasons of a request that goes on.             *)
(***************************************************************************)
LEMMA WatchOpen ==
    ASSUME Watch, NEW r \in Requests, pc[r] \in Open, pc'[r] # "rejected"
    PROVE  blocked'[r] = blocked[r] \intersect Reasons(r)'
BY DEF Watch, Open

LEMMA WatchArrival ==
    ASSUME Watch, NEW r \in Requests, pc[r] = "idle", pc'[r] # "idle"
    PROVE  blocked'[r] = Reasons(r)'
BY DEF Watch

LEMMA WatchEnded ==
    ASSUME Watch, NEW r \in Requests, pc[r] \notin Open, pc'[r] = pc[r]
    PROVE  blocked'[r] \in {blocked[r], {}}
BY DEF Watch

LEMMA WatchTyped ==
    ASSUME Watch, Typed
    PROVE  blocked' \in [Requests -> SUBSET {"unentitled", "locked", "revoked", "disabled"}]
<1>1. \A r \in Requests : Reasons(r)' \subseteq {"unentitled", "locked", "revoked", "disabled"}
  BY DEF Reasons
<1> HIDE DEF Reasons
<1> QED BY <1>1 DEF Watch, Typed

(***************************************************************************)
(* A request that a step leaves where it is keeps what holds of it.        *)
(***************************************************************************)
LEMMA Bystander ==
    ASSUME IInv, Watch, NEW r \in Requests,
           pc'[r] = pc[r], op'[r] = op[r], scopes'[r] = scopes[r], needs'[r] = needs[r]
    PROVE  OnItsWay(r)' /\ Possible(r)' /\ Excluded(r)' /\ CarriesDelegable(r)'
<1>0. OnItsWay(r) /\ Possible(r) /\ Excluded(r) /\ CarriesDelegable(r)
  BY DEF IInv
<1>1. CASE pc[r] \in Open
  <2>1. blocked'[r] = blocked[r] \intersect Reasons(r)'
    BY <1>1, WatchOpen DEF Open
  <2>2. Excluded(r)'
    BY <1>0, <2>1 DEF Excluded
  <2> QED BY <1>0, <1>1, <2>1, <2>2 DEF OnItsWay, Possible, CarriesDelegable, Covers, Open
<1>2. CASE pc[r] \notin Open
  <2>1. blocked'[r] \in {blocked[r], {}}
    BY <1>2, WatchEnded
  <2> QED BY <1>0, <1>2, <2>1 DEF OnItsWay, Possible, Excluded, CarriesDelegable, Covers, Open
<1> QED BY <1>1, <1>2

LEMMA InitIInv == Init => IInv
<1> SUFFICES ASSUME Init PROVE IInv
  OBVIOUS
<1>1. Typed
  BY DEF Init, Typed, Places, Open
<1>2. ASSUME NEW r \in Requests
      PROVE  pc[r] = "idle" /\ op[r] = "none" /\ blocked[r] = {}
  BY DEF Init
<1>3. ASSUME NEW r \in Requests
      PROVE  OnItsWay(r) /\ Possible(r) /\ Excluded(r) /\ CarriesDelegable(r)
  BY <1>2 DEF OnItsWay, Possible, Excluded, CarriesDelegable, Open
<1> QED BY <1>1, <1>3 DEF IInv

(***************************************************************************)
(* Changing the policy moves no request.                                   *)
(***************************************************************************)
LEMMA EnvironmentKeepsIInv ==
    ASSUME IInv, ChangePolicy \/ Expire, Watch
    PROVE  IInv'
<1>1. UNCHANGED requestVars
  BY DEF ChangePolicy, Expire
<1>2. UNCHANGED <<op, subject, presents, needs, pc, scopes, grant>>
  BY <1>1 DEF requestVars, argumentVars
<1>3. Typed'
  BY <1>2, WatchTyped DEF IInv, Typed
<1>4. \A r \in Requests : OnItsWay(r)' /\ Possible(r)' /\ Excluded(r)' /\ CarriesDelegable(r)'
  BY <1>2, Bystander
<1> QED BY <1>3, <1>4 DEF IInv

LEMMA ArriveKeepsIInv ==
    ASSUME IInv, NEW r \in Requests, Arrive(r), Watch
    PROVE  IInv'
<1>1. PICK o \in Operations, s \in Subjects :
        /\ op' = [op EXCEPT ![r] = o]
        /\ \/ needs' = needs
           \/ \E n \in Scopes : needs' = [needs EXCEPT ![r] = n]
        /\ \/ /\ o # "delegated"
              /\ subject' = [subject EXCEPT ![r] = s]
              /\ UNCHANGED <<presents, scopes, grant>>
           \/ /\ o = "delegated"
              /\ \E t \in Tokens :
                   /\ subject' = [subject EXCEPT ![r] = subject[t]]
                   /\ presents' = [presents EXCEPT ![r] = t]
                   /\ scopes' = [scopes EXCEPT ![r] = scopes[t]]
                   /\ grant' = [grant EXCEPT ![r] = grant[t]]
        /\ GoTo(r, CASE o \in {"delegate", "mtls"} -> "loading"
                     [] o = "delegated"            -> "entitling"
                     [] o = "service"              -> "locking")
  BY DEF Arrive
<1>2. pc[r] = "idle"
  BY DEF Arrive
<1>3. \E l \in {"loading", "entitling", "locking"} :
        /\ pc' = [pc EXCEPT ![r] = l]
        /\ l = "loading" => o \in {"delegate", "mtls"}
        /\ l = "entitling" => o = "delegated"
        /\ l = "locking" => o = "service"
  BY <1>1 DEF GoTo, Operations
<1>4. Typed'
  <2>1. pc' \in [Requests -> Places]
    BY <1>3 DEF IInv, Typed, Places, Open
  <2>2. op' \in [Requests -> {"none"} \union Operations]
    BY <1>1 DEF IInv, Typed
  <2>3. /\ scopes' = [q \in Requests |-> scopes'[q]]
        /\ needs' = [q \in Requests |-> needs'[q]]
        /\ presents' = [q \in Requests |-> presents'[q]]
        /\ grant' = [q \in Requests |-> grant'[q]]
        /\ subject' = [q \in Requests |-> subject'[q]]
    BY <1>1 DEF IInv, Typed
  <2>4. blocked' \in [Requests -> SUBSET {"unentitled", "locked", "revoked", "disabled"}]
    BY WatchTyped DEF IInv
  <2> QED BY <2>1, <2>2, <2>3, <2>4 DEF Typed
<1>5. ASSUME NEW q \in Requests
      PROVE  OnItsWay(q)' /\ Possible(q)' /\ Excluded(q)' /\ CarriesDelegable(q)'
  <2>1. CASE q # r
    <3>1. pc'[q] = pc[q] /\ op'[q] = op[q] /\ scopes'[q] = scopes[q] /\ needs'[q] = needs[q]
      BY <1>1, <1>3, <2>1 DEF IInv, Typed
    <3> QED BY <3>1, Bystander
  <2>2. CASE q = r
    <3>1. op'[r] = o /\ pc'[r] \in {"loading", "entitling", "locking"}
      BY <1>1, <1>3 DEF IInv, Typed
    <3>2. /\ pc'[r] = "loading" => o \in {"delegate", "mtls"}
          /\ pc'[r] = "entitling" => o = "delegated"
          /\ pc'[r] = "locking" => o = "service"
      BY <1>3 DEF IInv, Typed
    <3>3. blocked'[r] = Reasons(r)'
      BY <1>2, <3>1, WatchArrival
    <3>4. Possible(r)'
      BY <3>1, <3>3 DEF Possible, Reasons
    <3>5. OnItsWay(r)'
      BY <3>1, <3>2 DEF OnItsWay
    <3>6. Excluded(r)'
      BY <3>1, <3>2, <3>3, <3>4 DEF Excluded, Possible
    <3>7. o = "delegated" => scopes'[r] \subseteq Delegable
      <4>1. SUFFICES ASSUME o = "delegated" PROVE scopes'[r] \subseteq Delegable
        OBVIOUS
      <4>2. PICK t \in Tokens : scopes' = [scopes EXCEPT ![r] = scopes[t]]
        BY <1>1, <4>1
      <4>3. t \in Requests /\ pc[t] = "issued"
        BY DEF Tokens
      <4>4. scopes[t] \subseteq Delegable
        BY <4>3 DEF IInv, CarriesDelegable
      <4>5. scopes'[r] = scopes[t]
        BY <4>2 DEF IInv, Typed
      <4> QED BY <4>4, <4>5
    <3>8. CarriesDelegable(r)'
      BY <3>1, <3>2, <3>7 DEF CarriesDelegable
    <3> QED BY <2>2, <3>4, <3>5, <3>6, <3>8
  <2> QED BY <2>1, <2>2
<1> QED BY <1>4, <1>5 DEF IInv

(***************************************************************************)
(* A check moves the request it is made for, to `place`, and no other.     *)
(***************************************************************************)
LEMMA CheckStep ==
    ASSUME IInv, Watch, NEW r \in Requests, NEW place \in Places,
           pc' = [pc EXCEPT ![r] = place],
           UNCHANGED argumentVars,
           \/ scopes' = scopes
           \/ \E S : scopes' = [scopes EXCEPT ![r] = S],
           \/ grant' = grant
           \/ \E g : grant' = [grant EXCEPT ![r] = g],
           OnItsWay(r)' /\ Possible(r)' /\ Excluded(r)' /\ CarriesDelegable(r)'
    PROVE  IInv'
<1>1. UNCHANGED <<op, subject, presents, needs>>
  BY DEF argumentVars
<1>2. Typed'
  <2>1. pc' \in [Requests -> Places]
    BY DEF IInv, Typed
  <2>2. /\ scopes' = [q \in Requests |-> scopes'[q]]
        /\ grant' = [q \in Requests |-> grant'[q]]
    BY DEF IInv, Typed
  <2>3. blocked' \in [Requests -> SUBSET {"unentitled", "locked", "revoked", "disabled"}]
    BY WatchTyped DEF IInv
  <2> QED BY <1>1, <2>1, <2>2, <2>3 DEF IInv, Typed
<1>3. ASSUME NEW q \in Requests, q # r
      PROVE  OnItsWay(q)' /\ Possible(q)' /\ Excluded(q)' /\ CarriesDelegable(q)'
  <2>1. pc'[q] = pc[q] /\ op'[q] = op[q] /\ scopes'[q] = scopes[q] /\ needs'[q] = needs[q]
    BY <1>1, <1>3 DEF IInv, Typed
  <2> QED BY <2>1, Bystander
<1> QED BY <1>2, <1>3 DEF IInv

LEMMA ServeKeepsIInv ==
    ASSUME IInv, NEW r \in Requests, Serve(r), Watch
    PROVE  IInv'
<1>0. /\ OnItsWay(r) /\ Possible(r) /\ Excluded(r) /\ CarriesDelegable(r)
      /\ r \in DOMAIN pc /\ r \in DOMAIN scopes
  BY DEF IInv, Typed
<1>1. CASE LoadClient(r)
  <2>1. pc[r] = "loading" /\ op'[r] = op[r] /\ op[r] \in {"delegate", "mtls"}
    BY <1>0, <1>1 DEF LoadClient, argumentVars, OnItsWay
  <2>2. PICK place \in {"granting", "locking"} :
          /\ pc' = [pc EXCEPT ![r] = place]
          /\ place = "granting" <=> op[r] = "delegate"
    BY <1>1, <2>1 DEF LoadClient, GoTo
  <2>3. \E S : scopes' = [scopes EXCEPT ![r] = S]
    BY <1>1 DEF LoadClient, FromEnvironment, FromDatabase
  <2>4. blocked'[r] = blocked[r] \intersect Reasons(r)' /\ pc'[r] = place
    BY <1>0, <2>1, <2>2, WatchOpen DEF Open
  <2>5. OnItsWay(r)' /\ Possible(r)' /\ Excluded(r)' /\ CarriesDelegable(r)'
    BY <1>0, <2>1, <2>2, <2>4 DEF OnItsWay, Possible, Excluded, CarriesDelegable
  <2>6. UNCHANGED <<argumentVars, grant>> /\ place \in Places
    BY <1>1 DEF LoadClient, Places, Open
  <2> QED BY <2>2, <2>3, <2>5, <2>6, CheckStep
<1>2. CASE GrantNewest(r)
  <2>1. pc[r] = "granting" /\ op'[r] = op[r] /\ op[r] = "delegate"
    BY <1>0, <1>2 DEF GrantNewest, argumentVars, OnItsWay
  <2>2. pc' = [pc EXCEPT ![r] = "locking"] /\ "locking" \in Places
    BY <1>2 DEF GrantNewest, GoTo, Places, Open
  <2>3. "unentitled" \notin blocked[r]
    <3>1. "unentitled" \notin Reasons(r)
      BY <1>2, <2>1 DEF GrantNewest, Reasons
    <3> QED BY <1>0, <2>1, <3>1 DEF Excluded, Open
  <2>4. blocked'[r] = blocked[r] \intersect Reasons(r)' /\ pc'[r] = "locking"
    BY <1>0, <2>1, <2>2, WatchOpen DEF Open
  <2>5. OnItsWay(r)' /\ Possible(r)' /\ Excluded(r)' /\ CarriesDelegable(r)'
    BY <1>0, <2>1, <2>3, <2>4 DEF OnItsWay, Possible, Excluded, CarriesDelegable
  <2>6. UNCHANGED <<argumentVars, scopes>> /\ \E g : grant' = [grant EXCEPT ![r] = g]
    BY <1>2 DEF GrantNewest
  <2> QED BY <2>2, <2>5, <2>6, CheckStep
<1>3. CASE CheckEntitlement(r)
  <2>1. pc[r] = "entitling" /\ op'[r] = op[r] /\ op[r] = "delegated"
    BY <1>0, <1>3 DEF CheckEntitlement, argumentVars, OnItsWay
  <2>2. pc' = [pc EXCEPT ![r] = "locking"] /\ "locking" \in Places
    BY <1>3 DEF CheckEntitlement, GoTo, Places, Open
  <2>3. "unentitled" \notin blocked[r]
    <3>1. "unentitled" \notin Reasons(r)
      BY <1>3, <2>1 DEF CheckEntitlement, Reasons
    <3> QED BY <1>0, <2>1, <3>1 DEF Excluded, Open
  <2>4. blocked'[r] = blocked[r] \intersect Reasons(r)' /\ pc'[r] = "locking"
    BY <1>0, <2>1, <2>2, WatchOpen DEF Open
  <2>5. Covers(scopes[r], needs[r]) /\ scopes[r] \subseteq Delegable
    BY <1>0, <1>3, <2>1 DEF CheckEntitlement, CarriesDelegable
  <2>6. UNCHANGED <<argumentVars, scopes, grant>> /\ needs' = needs
    BY <1>3 DEF CheckEntitlement, argumentVars
  <2>7. OnItsWay(r)' /\ Possible(r)' /\ Excluded(r)'
    BY <1>0, <2>1, <2>3, <2>4 DEF OnItsWay, Possible, Excluded
  <2>8. CarriesDelegable(r)'
    BY <2>4, <2>5, <2>6 DEF CarriesDelegable, Covers
  <2> QED BY <2>2, <2>6, <2>7, <2>8, CheckStep
<1>4. CASE CheckLocks(r)
  <2>1. pc[r] = "locking" /\ op' = op /\ needs' = needs
    BY <1>4 DEF CheckLocks, argumentVars
  <2>2. PICK place \in {"issued", "revoking", "admitted"} :
          /\ pc' = [pc EXCEPT ![r] = place]
          /\ place = "issued" => op[r] = "delegate" /\ scopes' = [scopes EXCEPT ![r] = DelegatedScopes(r)]
          /\ place = "revoking" => op[r] = "delegated" /\ scopes' = scopes
          /\ place = "admitted" => op[r] \notin {"delegate", "delegated"} /\ scopes' = scopes
    <3>1. CASE op[r] = "delegate"
      BY <1>4, <3>1 DEF CheckLocks, GoTo
    <3>2. CASE op[r] = "delegated"
      BY <1>4, <3>2 DEF CheckLocks, GoTo
    <3>3. CASE op[r] \notin {"delegate", "delegated"}
      BY <1>4, <3>3 DEF CheckLocks, GoTo
    <3> QED BY <3>1, <3>2, <3>3
  <2>3. "locked" \notin blocked[r]
    <3>1. LocksOn(r) \subseteq LocksThatApply(r)
      <4>1. CASE op[r] = "delegated"
        BY <4>1 DEF LocksOn, LocksThatApply
      <4>2. CASE op[r] = "delegate"
        BY <2>1, <4>2 DEF LocksOn, LocksThatApply, TenantFor
      <4>3. CASE op[r] \notin {"delegate", "delegated"}
        BY <4>3 DEF LocksOn, LocksThatApply
      <4> QED BY <4>1, <4>2, <4>3
    <3>2. locks \intersect LocksOn(r) = {}
      BY <1>4, <3>1 DEF CheckLocks
    <3>3. "locked" \notin Reasons(r)
      BY <3>2 DEF Reasons
    <3> QED BY <1>0, <2>1, <3>3 DEF Excluded, Open
  <2>4. blocked'[r] = blocked[r] \intersect Reasons(r)' /\ pc'[r] = place
    BY <1>0, <2>1, <2>2, WatchOpen DEF Open
  <2>5. OnItsWay(r)' /\ Possible(r)' /\ Excluded(r)'
    BY <1>0, <2>1, <2>2, <2>3, <2>4 DEF OnItsWay, Possible, Excluded, Open
  <2>6. CarriesDelegable(r)'
    <3>1. CASE place = "issued"
      <4>1. scopes'[r] = DelegatedScopes(r)
        BY <1>0, <2>2, <3>1
      <4> QED BY <2>1, <2>2, <2>4, <3>1, <4>1 DEF CarriesDelegable, DelegatedScopes
    <3>2. CASE place # "issued"
      BY <1>0, <2>1, <2>2, <2>4, <3>2 DEF CarriesDelegable, Covers
    <3> QED BY <3>1, <3>2
  <2>7. /\ UNCHANGED <<argumentVars, grant>> /\ place \in Places
        /\ scopes' = scopes \/ \E S : scopes' = [scopes EXCEPT ![r] = S]
    BY <1>4, <2>2 DEF CheckLocks, Places, Open
  <2> QED BY <2>2, <2>5, <2>6, <2>7, CheckStep
<1>5. CASE CheckRevocation(r)
  <2>1. pc[r] = "revoking" /\ op' = op /\ op[r] = "delegated" /\ needs' = needs
    BY <1>0, <1>5 DEF CheckRevocation, argumentVars, OnItsWay
  <2>2. pc' = [pc EXCEPT ![r] = "admitted"] /\ "admitted" \in Places
    BY <1>5 DEF CheckRevocation, GoTo, Places
  <2>3. "revoked" \notin blocked[r]
    <3>1. "revoked" \notin Reasons(r)
      BY <1>5 DEF CheckRevocation, Reasons
    <3> QED BY <1>0, <2>1, <3>1 DEF Excluded, Open
  <2>4. blocked'[r] = blocked[r] \intersect Reasons(r)' /\ pc'[r] = "admitted"
    BY <1>0, <2>1, <2>2, WatchOpen DEF Open
  <2>5. OnItsWay(r)' /\ Possible(r)' /\ Excluded(r)'
    BY <1>0, <2>1, <2>3, <2>4 DEF OnItsWay, Possible, Excluded, Open
  <2>6. UNCHANGED <<argumentVars, scopes, grant>>
    BY <1>5 DEF CheckRevocation
  <2>7. CarriesDelegable(r)'
    BY <1>0, <2>1, <2>4, <2>6 DEF CarriesDelegable, Covers
  <2> QED BY <2>2, <2>5, <2>6, <2>7, CheckStep
<1>6. CASE Reject(r)
  <2>1. op' = op /\ pc[r] \in Open
    BY <1>6 DEF Reject, argumentVars
  <2>2. pc' = [pc EXCEPT ![r] = "rejected"] /\ "rejected" \in Places
    BY <1>6 DEF Reject, GoTo, Places
  <2>3. blocked'[r] = {} /\ pc'[r] = "rejected"
    BY <1>0, <2>1, <2>2 DEF Watch, Open
  <2>4. OnItsWay(r)' /\ Possible(r)' /\ Excluded(r)' /\ CarriesDelegable(r)'
    BY <2>3 DEF OnItsWay, Possible, Excluded, CarriesDelegable, Open
  <2>5. /\ UNCHANGED argumentVars
        /\ scopes' = [scopes EXCEPT ![r] = {}]
        /\ grant' = [grant EXCEPT ![r] = NoGrant]
    BY <1>6 DEF Reject
  <2> QED BY <2>2, <2>4, <2>5, CheckStep
<1> QED BY <1>1, <1>2, <1>3, <1>4, <1>5, <1>6 DEF Serve

LEMMA NextIInv == IInv /\ [Next]_vars => IInv'
<1> SUFFICES ASSUME IInv, [Next]_vars PROVE IInv'
  OBVIOUS
<1>1. CASE Next
  BY <1>1, ArriveKeepsIInv, ServeKeepsIInv, EnvironmentKeepsIInv DEF Next
<1>2. CASE UNCHANGED vars
  <2>1. UNCHANGED <<tenantOf, members, entitled, locks, revoked, registered, mode, expired, op,
                    subject, presents, needs, pc, scopes, grant, blocked>>
    BY <1>2 DEF vars, policyVars, argumentVars
  <2>2. Typed'
    BY <2>1 DEF IInv, Typed
  <2>3. ASSUME NEW r \in Requests
        PROVE  OnItsWay(r)' /\ Possible(r)' /\ Excluded(r)' /\ CarriesDelegable(r)'
    <3>1. OnItsWay(r) /\ Possible(r) /\ Excluded(r) /\ CarriesDelegable(r)
      BY DEF IInv
    <3>2. Reasons(r)' = Reasons(r)
      BY <2>1 DEF Reasons, LocksOn, TenantFor, StillEntitled, EntitledVersions
    <3>3. Excluded(r)'
      BY <2>1, <3>1, <3>2 DEF Excluded
    <3> QED BY <2>1, <3>1, <3>3 DEF OnItsWay, Possible, CarriesDelegable, Covers
  <2> QED BY <2>2, <2>3 DEF IInv
<1> QED BY <1>1, <1>2

(***************************************************************************)
(* However the policy changes between the checks, nobody is let in, or     *)
(* issued a token, for whom a reason to be rejected held all along.        *)
(***************************************************************************)
THEOREM BlockedStaysRejected == Spec => []BlockedIsRejected
<1>1. Init => IInv
  BY InitIInv
<1>2. IInv /\ [Next]_vars => IInv'
  BY NextIInv
<1>3. IInv => BlockedIsRejected
  BY DEF IInv, BlockedIsRejected, OnItsWay, Possible, Excluded
<1> QED BY <1>1, <1>2, <1>3, PTL DEF Spec

(***************************************************************************)
(* A delegated token opens only routes whose scope may be delegated.       *)
(***************************************************************************)
THEOREM DelegationReadsOnly == Spec => []DelegatedReadsOnly
<1>1. Init => IInv
  BY InitIInv
<1>2. IInv /\ [Next]_vars => IInv'
  BY NextIInv
<1>3. IInv => DelegatedReadsOnly
  BY DEF IInv, DelegatedReadsOnly, CarriesDelegable, Covers
<1> QED BY <1>1, <1>2, <1>3, PTL DEF Spec

-----------------------------------------------------------------------------
(***************************************************************************)
(* A client that was disabled all along and is known by now is known from  *)
(* the environment.                                                        *)
(***************************************************************************)
KnownInEnvironment ==
    \A r \in Requests : pc[r] \notin {"idle", "loading"} /\ "disabled" \in blocked[r] =>
        mode # "database" /\ EnvironmentScopes # {}

LEMMA KnownStays ==
    ASSUME IInv, KnownInEnvironment, Next
    PROVE  KnownInEnvironment'
<1>1. Watch /\ mode' = mode
  BY DEF Next, Arrive, Serve, LoadClient, GrantNewest, CheckEntitlement, CheckLocks,
         CheckRevocation, Reject, ChangePolicy, Expire
<1>2. ASSUME NEW r \in Requests, pc'[r] = pc[r], pc[r] \notin {"idle", "loading"}
      PROVE  blocked'[r] \subseteq blocked[r]
  BY <1>1, <1>2 DEF Watch, Open
<1>3. ASSUME NEW r \in Requests, pc[r] \in Open PROVE blocked'[r] \subseteq blocked[r]
  BY <1>1, <1>3 DEF Watch, Open
<1>4. ASSUME NEW q \in Requests, Arrive(q), NEW r \in Requests,
             pc'[r] \notin {"idle", "loading"}, "disabled" \in blocked'[r]
      PROVE  r # q
  <2> SUFFICES ASSUME r = q PROVE FALSE
    OBVIOUS
  <2>1. PICK o \in {"delegated", "service"} : op' = [op EXCEPT ![q] = o]
    BY <1>4 DEF Arrive, GoTo, Operations, IInv, Typed
  <2>2. op'[q] = o /\ pc[q] = "idle"
    BY <1>4, <2>1 DEF Arrive, IInv, Typed
  <2>3. blocked'[q] = Reasons(q)'
    BY <1>1, <1>4, <2>2, WatchArrival
  <2> QED BY <1>4, <2>2, <2>3 DEF Reasons
<1>5. ASSUME NEW r \in Requests, LoadClient(r), "disabled" \in blocked'[r]
      PROVE  mode # "database" /\ EnvironmentScopes # {}
  <2>1. pc[r] = "loading" /\ pc[r] \in Open
    BY <1>5 DEF LoadClient, Open
  <2>2. "disabled" \in Reasons(r)
    BY <1>3, <1>5, <2>1 DEF IInv, Excluded
  <2>3. ~registered.active
    BY <2>2 DEF Reasons
  <2>4. FromEnvironment(r)
    BY <1>5, <2>3 DEF LoadClient, FromDatabase
  <2> QED BY <2>4 DEF FromEnvironment
<1>6. ASSUME NEW r \in Requests, pc'[r] \notin {"idle", "loading"}, "disabled" \in blocked'[r]
      PROVE  mode # "database" /\ EnvironmentScopes # {}
  <2>1. CASE pc[r] \notin {"idle", "loading"} /\ (pc'[r] = pc[r] \/ pc[r] \in Open)
    BY <1>2, <1>3, <1>6, <2>1 DEF KnownInEnvironment
  <2>2. CASE LoadClient(r)
    BY <1>5, <1>6, <2>2
  <2>3. pc' = pc \/ \E q \in Requests : (Arrive(q) \/ Serve(q))
    BY DEF Next, ChangePolicy, Expire, requestVars
  <2>4. CASE pc' = pc
    BY <1>6, <2>1, <2>4
  <2>5. ASSUME NEW q \in Requests, Arrive(q)
        PROVE  mode # "database" /\ EnvironmentScopes # {}
    <3>1. r # q /\ pc'[r] = pc[r]
      BY <1>4, <1>6, <2>5 DEF Arrive, GoTo, IInv, Typed
    <3> QED BY <1>6, <2>1, <3>1
  <2>6. ASSUME NEW q \in Requests, Serve(q)
        PROVE  mode # "database" /\ EnvironmentScopes # {}
    <3>1. CASE q # r
      <4>1. pc'[r] = pc[r]
        BY <2>6, <3>1 DEF Serve, LoadClient, GrantNewest, CheckEntitlement, CheckLocks,
           CheckRevocation, Reject, GoTo, IInv, Typed
      <4> QED BY <1>6, <2>1, <4>1
    <3>2. CASE q = r
      <4>1. CASE pc[r] # "loading"
        <5>1. pc[r] \in Open /\ pc[r] # "idle"
          BY <2>6, <3>2 DEF Serve, LoadClient, GrantNewest, CheckEntitlement, CheckLocks,
             CheckRevocation, Reject, Open
        <5> QED BY <2>1, <4>1, <5>1
      <4>2. CASE pc[r] = "loading"
        <5>1. CASE Reject(r)
          <6>1. pc'[r] = "rejected" /\ pc[r] # "idle"
            BY <4>2, <5>1 DEF Reject, GoTo, IInv, Typed
          <6>2. blocked'[r] = {}
            BY <1>1, <6>1 DEF Watch
          <6> QED BY <1>6, <6>2
        <5>2. CASE ~Reject(r)
          BY <2>2, <2>6, <3>2, <4>2, <5>2
             DEF Serve, GrantNewest, CheckEntitlement, CheckLocks, CheckRevocation
        <5> QED BY <5>1, <5>2
      <4> QED BY <4>1, <4>2
    <3> QED BY <3>1, <3>2
  <2> QED BY <2>3, <2>4, <2>5, <2>6
<1> QED BY <1>1, <1>6 DEF KnownInEnvironment

(***************************************************************************)
(* A client that was disabled from its arrival on gets through only where  *)
(* the deployment takes clients from the environment.                      *)
(***************************************************************************)
THEOREM DisabledStaysRejected == Spec => []DisabledIsRejected
<1>1. Init => IInv /\ KnownInEnvironment
  BY InitIInv DEF Init, KnownInEnvironment
<1>2. IInv /\ KnownInEnvironment /\ [Next]_vars => KnownInEnvironment'
  <2> SUFFICES ASSUME IInv, KnownInEnvironment, [Next]_vars PROVE KnownInEnvironment'
    OBVIOUS
  <2>1. CASE UNCHANGED vars
    BY <2>1 DEF vars, KnownInEnvironment
  <2> QED BY <2>1, KnownStays
<1>3. IInv /\ [Next]_vars => IInv'
  BY NextIInv
<1>4. KnownInEnvironment => DisabledIsRejected
  BY DEF KnownInEnvironment, DisabledIsRejected
<1> QED BY <1>1, <1>2, <1>3, <1>4, PTL DEF Spec

-----------------------------------------------------------------------------
(***************************************************************************)
(* A set of versions has a newest: of the sets of versions above each, one *)
(* contains no other, and the version it belongs to is the newest.         *)
(***************************************************************************)
LEMMA NewestIsOne ==
    ASSUME NEW V \in SUBSET Versions, V # {}
    PROVE  Newest(V) \in V
<1> DEFINE Above(v) == {u \in V : v < u}
           T == {Above(v) : v \in V}
           R == StrictSubsetOrdering(V)
<1>1. V \subseteq Nat /\ IsFiniteSet(V)
  BY VersionsAreNumbers, FS_Subset
<1>2. IsWellFoundedOn(R, SUBSET V)
  BY <1>1, FS_StrictSubsetOrderingWellFounded, FS_FiniteSubsetsOfFinite
<1>3. T \subseteq SUBSET V /\ T # {}
  OBVIOUS
<1>4. \E S \in T : \A U \in T : ~(<<U, S>> \in R)
  <2> HIDE DEF T, R
  <2> QED BY <1>2, <1>3, WFMin
<1>5. PICK v \in V : \A u \in V : ~(<<Above(u), Above(v)>> \in R)
  BY <1>4
<1>6. ASSUME NEW u \in V PROVE u <= v
  <2>1. u \in Nat /\ v \in Nat
    BY <1>1
  <2>2. SUFFICES ASSUME v < u PROVE FALSE
    BY <2>1
  <2>3. ASSUME NEW w \in Above(u) PROVE w \in Above(v)
    <3>1. w \in V /\ v < u /\ u < w
      BY <2>2
    <3>2. w \in Nat
      BY <1>1, <3>1
    <3>3. v < w
      BY <2>1, <3>1, <3>2
    <3> QED BY <3>1, <3>3
  <2>4. u \in Above(v) /\ u \notin Above(u)
    BY <2>1, <2>2
  <2>5. Above(u) \in SUBSET V /\ Above(v) \in SUBSET V /\ Above(u) # Above(v)
    BY <2>4
  <2>6. <<Above(u), Above(v)>> \in R
    <3> HIDE DEF Above
    <3> QED BY <2>3, <2>5 DEF StrictSubsetOrdering
  <2> QED BY <1>5, <2>6
<1> QED BY <1>6 DEF Newest

(***************************************************************************)
(* What is granted is a tenant and a version, from the grant on.           *)
(***************************************************************************)
IsGrant(g) == g.tenant \in Tenants /\ g.version \in Versions

Granted ==
    \A r \in Requests : pc[r] = "locking" /\ op[r] = "delegate" => IsGrant(grant[r])

LEMMA ServeTypes ==
    ASSUME IInv, TypeOK, NEW r \in Requests, Serve(r)
    PROVE  /\ UNCHANGED <<tenantOf, members, entitled, locks, revoked, registered, expired>>
           /\ op' = op /\ subject' = subject /\ presents' = presents
           /\ pc[r] # "issued" /\ \A q \in Requests \ {r} : pc'[q] = pc[q]
           /\ \/ grant' = grant /\ pc[r] # "granting"
              \/ \E g \in [tenant : Tenants \union {NoTenant}, version : Versions \union {0}] :
                   /\ grant' = [grant EXCEPT ![r] = g]
                   /\ IsGrant(g) \/ pc'[r] = "rejected"
           /\ pc'[r] = "issued" => pc[r] = "locking" /\ op[r] = "delegate"
           /\ pc'[r] = "locking" /\ op[r] = "delegate" => pc[r] = "granting"
<1>1. OnItsWay(r) /\ pc \in [Requests -> Places] /\ grant = [q \in Requests |-> grant[q]]
  BY DEF IInv, Typed
<1>2. \/ LoadClient(r) \/ GrantNewest(r) \/ CheckEntitlement(r)
      \/ CheckLocks(r) \/ CheckRevocation(r) \/ Reject(r)
  BY DEF Serve
<1>3. /\ UNCHANGED <<tenantOf, members, entitled, locks, revoked, registered, expired>>
      /\ op' = op /\ subject' = subject /\ presents' = presents
  BY <1>2 DEF LoadClient, GrantNewest, CheckEntitlement, CheckLocks, CheckRevocation, Reject,
     policyVars, argumentVars
<1>4. pc[r] # "issued" /\ \A q \in Requests \ {r} : pc'[q] = pc[q]
  BY <1>1, <1>2 DEF LoadClient, GrantNewest, CheckEntitlement, CheckLocks, CheckRevocation,
     Reject, GoTo, Open
<1>5. \/ grant' = grant /\ pc[r] # "granting"
      \/ \E g \in [tenant : Tenants \union {NoTenant}, version : Versions \union {0}] :
           /\ grant' = [grant EXCEPT ![r] = g]
           /\ IsGrant(g) \/ pc'[r] = "rejected"
  <2>1. CASE GrantNewest(r)
    <3> DEFINE V == EntitledVersions(subject[r])
               g == [tenant |-> tenantOf, version |-> Newest(V)]
    <3>1. V \in SUBSET Versions /\ V # {} /\ grant' = [grant EXCEPT ![r] = g]
      BY <2>1 DEF GrantNewest, EntitledVersions, TypeOK
    <3>2. Newest(V) \in Versions /\ tenantOf \in Tenants
      BY <3>1, NewestIsOne DEF TypeOK
    <3>3. g \in [tenant : Tenants \union {NoTenant}, version : Versions \union {0}] /\ IsGrant(g)
      BY <3>2 DEF IsGrant
    <3> HIDE DEF g
    <3> QED BY <3>1, <3>3
  <2>2. CASE Reject(r)
    BY <1>1, <2>2 DEF Reject, GoTo, NoGrant
  <2>3. CASE ~GrantNewest(r) /\ ~Reject(r)
    BY <1>2, <2>3 DEF LoadClient, CheckEntitlement, CheckLocks, CheckRevocation
  <2> QED BY <2>1, <2>2, <2>3
<1>6. /\ pc'[r] = "issued" => pc[r] = "locking" /\ op[r] = "delegate"
      /\ pc'[r] = "locking" /\ op[r] = "delegate" => pc[r] = "granting"
  <2>1. CASE CheckLocks(r)
    BY <1>1, <2>1 DEF CheckLocks, GoTo
  <2>2. CASE LoadClient(r)
    BY <1>1, <2>2 DEF LoadClient, GoTo
  <2>3. CASE CheckEntitlement(r)
    BY <1>1, <2>3 DEF CheckEntitlement, GoTo, OnItsWay
  <2>4. CASE GrantNewest(r) \/ CheckRevocation(r) \/ Reject(r)
    BY <1>1, <2>4 DEF GrantNewest, CheckRevocation, Reject, GoTo
  <2> QED BY <1>2, <2>1, <2>2, <2>3, <2>4
<1> QED BY <1>3, <1>4, <1>5, <1>6

PolicyTyped ==
    /\ tenantOf \in Tenants
    /\ members \in [Tenants -> SUBSET Subjects]
    /\ entitled \in [Tenants -> SUBSET Versions]
    /\ locks \subseteq LockScopes
    /\ revoked \subseteq Tokens /\ expired \subseteq Tokens

GrantType == [tenant : Tenants \union {NoTenant}, version : Versions \union {0}]

RequestsTyped ==
    /\ subject \in [Requests -> Subjects]
    /\ presents \in [Requests -> Requests]
    /\ grant \in [Requests -> GrantType]
    /\ \A t \in Tokens : IsGrant(grant[t])
    /\ Granted

LEMMA ChangeTypes ==
    ASSUME PolicyTyped, ChangePolicy
    PROVE  PolicyTyped'
<1> USE DEF PolicyTyped
<1>1. Tokens' = Tokens /\ expired' = expired
  BY DEF ChangePolicy, requestVars, Tokens
<1>2. ASSUME NEW X, NEW S \in SUBSET X, NEW x \in X PROVE Toggle(S, x) \in SUBSET X
  BY DEF Toggle
<1>3. CASE \E t \in Tenants, s \in Subjects : members' = [members EXCEPT ![t] = Toggle(@, s)]
           /\ UNCHANGED <<tenantOf, entitled, locks, revoked>>
  <2>1. PICK t \in Tenants, s \in Subjects : members' = [members EXCEPT ![t] = Toggle(members[t], s)]
    BY <1>3
  <2>2. Toggle(members[t], s) \in SUBSET Subjects
    BY <1>2
  <2>3. members' \in [Tenants -> SUBSET Subjects]
    BY <2>1, <2>2
  <2> QED BY <1>1, <1>3, <2>3 DEF LockScopes
<1>4. CASE \E t \in Tenants, v \in Versions : entitled' = [entitled EXCEPT ![t] = Toggle(@, v)]
           /\ UNCHANGED <<tenantOf, members, locks, revoked>>
  <2>1. PICK t \in Tenants, v \in Versions : entitled' = [entitled EXCEPT ![t] = Toggle(entitled[t], v)]
    BY <1>4
  <2>2. Toggle(entitled[t], v) \in SUBSET Versions
    BY <1>2
  <2>3. entitled' \in [Tenants -> SUBSET Versions]
    BY <2>1, <2>2
  <2> QED BY <1>1, <1>4, <2>3 DEF LockScopes
<1>5. CASE \E l \in LockScopes : locks' = Toggle(locks, l)
           /\ UNCHANGED <<tenantOf, members, entitled, revoked>>
  <2>1. locks' \in SUBSET LockScopes
    BY <1>2, <1>5
  <2> QED BY <1>1, <1>5, <2>1 DEF LockScopes
<1>6. CASE \E t \in Tokens : revoked' = Toggle(revoked, t)
           /\ UNCHANGED <<tenantOf, members, entitled, locks>>
  <2>1. revoked' \in SUBSET Tokens
    BY <1>2, <1>6
  <2> QED BY <1>1, <1>6, <2>1 DEF LockScopes
<1>7. CASE tenantOf' \in Tenants /\ UNCHANGED <<members, entitled, locks, revoked>>
  BY <1>1, <1>7 DEF LockScopes
<1>8. CASE UNCHANGED <<tenantOf, members, entitled, locks, revoked>>
  BY <1>1, <1>8 DEF LockScopes
<1> HIDE DEF PolicyTyped
<1>9. LockScopes \ (Requests \ Tokens) \subseteq LockScopes
  OBVIOUS
<1> QED BY <1>3, <1>4, <1>5, <1>6, <1>7, <1>8, <1>9 DEF ChangePolicy

LEMMA TypesStay ==
    ASSUME IInv, TypeOK, PolicyTyped, RequestsTyped, Next
    PROVE  PolicyTyped' /\ RequestsTyped'
<1>1. op \in [Requests -> {"none"} \union Operations] /\ pc \in [Requests -> Places]
  BY DEF IInv, Typed
<1>2. CASE ChangePolicy \/ Expire
  <2>1. UNCHANGED <<op, subject, presents, pc, grant>>
    BY <1>2 DEF ChangePolicy, Expire, requestVars, argumentVars
  <2>2. RequestsTyped'
    BY <2>1 DEF RequestsTyped, Tokens, Granted
  <2>3. CASE ChangePolicy
    BY <2>2, <2>3, ChangeTypes
  <2>4. CASE Expire
    BY <2>1, <2>2, <2>4 DEF Expire, policyVars, PolicyTyped, Tokens, LockScopes
  <2> QED BY <1>2, <2>3, <2>4
<1>3. ASSUME NEW r \in Requests, Serve(r) PROVE PolicyTyped' /\ RequestsTyped'
  <2> DEFINE Changes == \E g \in GrantType : /\ grant' = [grant EXCEPT ![r] = g]
                                             /\ IsGrant(g) \/ pc'[r] = "rejected"
  <2>1. /\ UNCHANGED <<tenantOf, members, entitled, locks, revoked, registered, expired>>
        /\ op' = op /\ subject' = subject /\ presents' = presents
        /\ pc[r] # "issued" /\ \A q \in Requests \ {r} : pc'[q] = pc[q]
        /\ (grant' = grant /\ pc[r] # "granting") \/ Changes
        /\ pc'[r] = "issued" => pc[r] = "locking" /\ op[r] = "delegate"
        /\ pc'[r] = "locking" /\ op[r] = "delegate" => pc[r] = "granting"
    BY <1>3, ServeTypes DEF RequestsTyped, GrantType
  <2>2. \A q \in Requests \ {r} : grant'[q] = grant[q]
    BY <2>1 DEF RequestsTyped
  <2>3. grant' \in [Requests -> GrantType]
    BY <2>1 DEF RequestsTyped
  <2>4. pc'[r] = "issued" \/ (pc'[r] = "locking" /\ op[r] = "delegate") => IsGrant(grant'[r])
    <3>1. CASE grant' = grant /\ pc[r] # "granting"
      BY <2>1, <3>1 DEF RequestsTyped, Granted
    <3>2. CASE Changes
      BY <3>2 DEF RequestsTyped
    <3> QED BY <2>1, <3>1, <3>2
  <2>5. \A q \in Requests : pc'[q] = "issued" => IsGrant(grant'[q])
    BY <2>1, <2>2, <2>4 DEF RequestsTyped, Tokens
  <2>6. \A q \in Requests : pc'[q] = "locking" /\ op'[q] = "delegate" => IsGrant(grant'[q])
    BY <2>1, <2>2, <2>4 DEF RequestsTyped, Granted
  <2>7. Tokens \subseteq Tokens'
    BY <2>1 DEF Tokens
  <2>8. PolicyTyped'
    BY <2>1, <2>7 DEF PolicyTyped, LockScopes
  <2> QED BY <2>1, <2>3, <2>5, <2>6, <2>8 DEF RequestsTyped, Granted, Tokens
<1>4. ASSUME NEW r \in Requests, Arrive(r) PROVE PolicyTyped' /\ RequestsTyped'
  <2>1. /\ UNCHANGED <<tenantOf, members, entitled, locks, revoked, expired>>
        /\ pc[r] = "idle"
    BY <1>4 DEF Arrive, policyVars
  <2>2. \E l \in {"loading", "entitling", "locking"}, o \in Operations :
          /\ pc' = [pc EXCEPT ![r] = l] /\ op' = [op EXCEPT ![r] = o]
          /\ l = "locking" => o = "service"
    BY <1>4 DEF Arrive, GoTo, Operations
  <2>3. /\ pc'[r] # "issued" /\ ~(pc'[r] = "locking" /\ op'[r] = "delegate")
        /\ \A q \in Requests \ {r} : pc'[q] = pc[q] /\ op'[q] = op[q]
    BY <1>1, <2>2
  <2>4. /\ subject' \in [Requests -> Subjects] /\ presents' \in [Requests -> Requests]
        /\ grant' \in [Requests -> GrantType]
        /\ \A q \in Requests \ {r} : grant'[q] = grant[q]
    <3>1. \A t \in Tokens : t \in Requests
      BY DEF Tokens
    <3>2. \/ \E s \in Subjects :
               /\ subject' = [subject EXCEPT ![r] = s]
               /\ UNCHANGED <<presents, grant>>
          \/ \E t \in Tokens :
               /\ subject' = [subject EXCEPT ![r] = subject[t]]
               /\ presents' = [presents EXCEPT ![r] = t]
               /\ grant' = [grant EXCEPT ![r] = grant[t]]
      BY <1>4 DEF Arrive
    <3> QED BY <3>1, <3>2 DEF RequestsTyped
  <2>5. Tokens' = Tokens /\ r \notin Tokens
    BY <2>1, <2>3 DEF Tokens
  <2>6. PolicyTyped'
    BY <2>1, <2>5 DEF PolicyTyped, LockScopes
  <2>7. Granted' /\ \A t \in Tokens' : IsGrant(grant'[t])
    BY <2>3, <2>4, <2>5 DEF RequestsTyped, Granted, Tokens
  <2> QED BY <2>4, <2>6, <2>7 DEF RequestsTyped
<1> QED BY <1>2, <1>3, <1>4 DEF Next

LEMMA TypesAre ==
    ASSUME IInv, PolicyTyped, RequestsTyped
    PROVE  TypeOK
  BY DEF IInv, Typed, Places, PolicyTyped, RequestsTyped, GrantType, IsGrant, TypeOK

(***************************************************************************)
(* The gate keeps to the types of its state, and every token names a       *)
(* tenant and a version: none is granted for a NULL of an outer join.      *)
(***************************************************************************)
THEOREM GateTypeCorrect == Spec => []TypeOK
<1>1. Init => IInv /\ PolicyTyped /\ RequestsTyped
  <2> SUFFICES ASSUME Init PROVE PolicyTyped /\ RequestsTyped
    BY InitIInv
  <2>1. Tokens = {} /\ \A r \in Requests : pc[r] = "idle"
    BY DEF Init, Tokens
  <2>2. PolicyTyped
    BY <2>1 DEF Init, PolicyTyped
  <2>3. RequestsTyped
    BY <2>1 DEF Init, RequestsTyped, GrantType, NoGrant, Granted
  <2> QED BY <2>2, <2>3
<1>2. IInv /\ PolicyTyped /\ RequestsTyped /\ [Next]_vars => PolicyTyped' /\ RequestsTyped'
  <2> SUFFICES ASSUME IInv, PolicyTyped, RequestsTyped, [Next]_vars
               PROVE  PolicyTyped' /\ RequestsTyped'
    OBVIOUS
  <2>1. CASE UNCHANGED vars
    BY <2>1 DEF vars, policyVars, argumentVars, PolicyTyped, RequestsTyped, Tokens, Granted,
       LockScopes
  <2>2. CASE Next
    BY <2>2, TypesAre, TypesStay
  <2> QED BY <2>1, <2>2
<1>3. IInv /\ [Next]_vars => IInv'
  BY NextIInv
<1>4. IInv /\ PolicyTyped /\ RequestsTyped => TypeOK
  BY TypesAre
<1> QED BY <1>1, <1>2, <1>3, <1>4, PTL DEF Spec
=============================================================================
