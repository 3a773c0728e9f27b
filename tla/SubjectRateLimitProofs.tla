------------------------ MODULE SubjectRateLimitProofs ------------------------
(***************************************************************************)
(* How far a subject's deque can grow past its limit, and what it still    *)
(* limits, for any number of requests, workers, threads and any limit.     *)
(***************************************************************************)
EXTENDS SubjectRateLimit, FiniteSetTheorems, TLAPS

(***************************************************************************)
(* A worker serves no more requests at once than it has threads.           *)
(***************************************************************************)
ThreadBound == \A w \in Workers : Cardinality(Serving(w)) <= Threads

IInv == SubjectTypeOK /\ ThreadBound /\ BucketBound

(***************************************************************************)
(* The sets of requests that the invariant counts are finite.              *)
(***************************************************************************)
LEMMA CountedSetsAreFinite ==
    ASSUME NEW w \in Workers
    PROVE  /\ IsFiniteSet(Serving(w))
           /\ Cardinality(Serving(w)) \in Nat
           /\ \A s \in Subjects :
                /\ IsFiniteSet(Appending(w, s))
                /\ Cardinality(Appending(w, s)) \in Nat
                /\ Appending(w, s) \subseteq Serving(w)
<1>1. Serving(w) \subseteq Requests
  BY DEF Serving
<1>2. IsFiniteSet(Serving(w)) /\ Cardinality(Serving(w)) \in Nat
  BY <1>1, RequestsAreFinite, FS_Subset, FS_CardinalityType
<1>3. ASSUME NEW s \in Subjects
      PROVE  /\ IsFiniteSet(Appending(w, s))
             /\ Cardinality(Appending(w, s)) \in Nat
             /\ Appending(w, s) \subseteq Serving(w)
  <2>1. Appending(w, s) \subseteq Serving(w)
    BY DEF Appending, Serving, Uses, InFlight
  <2> QED BY <2>1, <1>2, FS_Subset, FS_CardinalityType
<1> QED BY <1>2, <1>3

(* An append makes a deque one longer. *)
LEMMA OneLonger ==
    ASSUME NEW b \in Seq(Requests), NEW r \in Requests
    PROVE  Len(Append(b, r)) = Len(b) + 1 /\ Len(b) \in Nat
  OBVIOUS

(* A finite set without one of its elements has one element less. *)
LEMMA OneRemoved ==
    ASSUME NEW S, NEW x \in S, IsFiniteSet(S)
    PROVE  Cardinality(S \ {x}) = Cardinality(S) - 1
  BY FS_RemoveElement

(* The bound of a deque and of those about to be appended, as numbers. *)
LEMMA SmallerSum ==
    ASSUME NEW l \in Nat, NEW n \in Nat, l + n <= Max + Threads - 1,
           NEW k \in Nat, NEW m \in Nat, k <= l, m <= n
    PROVE  k + m <= Max + Threads - 1
  BY LimitsAreNatural

(***************************************************************************)
(* A step that neither starts a request, nor finds room, nor appends       *)
(* keeps the bounds.                                                       *)
(***************************************************************************)
LEMMA ShrinkingStep ==
    ASSUME ThreadBound, BucketBound, SubjectTypeOK, SubjectTypeOK',
           \A w \in Workers : Serving(w)' \subseteq Serving(w),
           \A w \in Workers, s \in Subjects :
               /\ Appending(w, s)' \subseteq Appending(w, s)
               /\ Len(bucket'[w][s]) <= Len(bucket[w][s])
    PROVE  ThreadBound' /\ BucketBound'
<1>1. ASSUME NEW w \in Workers PROVE Cardinality(Serving(w)') <= Threads
  <2>1. Cardinality(Serving(w)') <= Cardinality(Serving(w))
    BY CountedSetsAreFinite, FS_Subset
  <2>2. Cardinality(Serving(w)') \in Nat
    BY CountedSetsAreFinite, FS_Subset, FS_CardinalityType
  <2>3. Cardinality(Serving(w)) \in Nat /\ Cardinality(Serving(w)) <= Threads
    BY CountedSetsAreFinite DEF ThreadBound
  <2> QED BY <2>1, <2>2, <2>3, LimitsAreNatural
<1>2. ASSUME NEW w \in Workers, NEW s \in Subjects
      PROVE  Len(bucket'[w][s]) + Cardinality(Appending(w, s)') <= Max + Threads - 1
  <2>1. Cardinality(Appending(w, s)') <= Cardinality(Appending(w, s))
    BY CountedSetsAreFinite, FS_Subset
  <2>2. Cardinality(Appending(w, s)') \in Nat
    BY CountedSetsAreFinite, FS_Subset, FS_CardinalityType
  <2>3. Cardinality(Appending(w, s)) \in Nat
    BY CountedSetsAreFinite
  <2>4. Len(bucket[w][s]) + Cardinality(Appending(w, s)) <= Max + Threads - 1
    BY DEF BucketBound
  <2>5. Len(bucket[w][s]) \in Nat /\ Len(bucket'[w][s]) \in Nat
    <3>1. bucket[w][s] \in Seq(Requests) /\ bucket'[w][s] \in Seq(Requests)
      BY DEF SubjectTypeOK
    <3> QED BY <3>1
  <2>6. Len(bucket'[w][s]) <= Len(bucket[w][s])
    OBVIOUS
  <2> QED BY <2>1, <2>2, <2>3, <2>4, <2>5, <2>6, SmallerSum
<1> QED BY <1>1, <1>2 DEF ThreadBound, BucketBound

LEMMA InitIInv == LimitInit => IInv
<1> SUFFICES ASSUME LimitInit PROVE IInv
  OBVIOUS
<1> USE DEF LimitInit, SubjectInit
<1>1. SubjectTypeOK
  BY DEF SubjectTypeOK
<1>2. \A w \in Workers : Serving(w) = {} /\ \A s \in Subjects : Appending(w, s) = {}
  BY DEF Serving, Appending, InFlight
<1>3. Cardinality({}) = 0
  BY FS_EmptySet
<1>4. ThreadBound
  <2>1. \A w \in Workers : Cardinality(Serving(w)) = 0
    BY <1>2, <1>3
  <2> HIDE DEF LimitInit, SubjectInit
  <2> QED BY <2>1, LimitsAreNatural DEF ThreadBound
<1>5. BucketBound
  <2>1. \A w \in Workers, s \in Subjects : Cardinality(Appending(w, s)) = 0
    BY <1>2, <1>3
  <2>2. \A w \in Workers, s \in Subjects : Len(bucket[w][s]) = 0
    OBVIOUS
  <2> HIDE DEF LimitInit, SubjectInit
  <2> QED BY <2>1, <2>2, LimitsAreNatural DEF BucketBound
<1> QED BY <1>1, <1>4, <1>5 DEF IInv

(***************************************************************************)
(* A request starts: it takes a thread that is free, and appends later.    *)
(***************************************************************************)
LEMMA EnterKeepsIInv ==
    ASSUME IInv, NEW r \in Requests, NEW v \in Workers, NEW t \in Subjects, Enter(r, v, t)
    PROVE  IInv'
<1> USE DEF IInv
<1>1. SubjectTypeOK'
  BY DEF SubjectTypeOK, Enter, GoTo, InFlight
<1>2. ASSUME NEW w \in Workers PROVE Cardinality(Serving(w)') <= Threads
  <2>1. CASE w = v
    <3>1. Serving(w)' = Serving(w) \union {r} /\ r \notin Serving(w)
      BY <2>1 DEF Serving, Enter, GoTo, SubjectTypeOK, InFlight
    <3>2. Cardinality(Serving(w)') = Cardinality(Serving(w)) + 1
      BY <3>1, CountedSetsAreFinite, FS_AddElement
    <3>3. Cardinality(Serving(w)) < Threads /\ Cardinality(Serving(w)) \in Nat
      BY <2>1, CountedSetsAreFinite DEF Enter
    <3> QED BY <3>2, <3>3, LimitsAreNatural
  <2>2. CASE w # v
    <3>1. Serving(w)' = Serving(w)
      BY <2>2 DEF Serving, Enter, GoTo, SubjectTypeOK, InFlight
    <3> QED BY <3>1 DEF ThreadBound
  <2> QED BY <2>1, <2>2
<1>3. ASSUME NEW w \in Workers, NEW s \in Subjects
      PROVE  Appending(w, s)' = Appending(w, s) /\ bucket'[w][s] = bucket[w][s]
  BY DEF Appending, Uses, Enter, GoTo, SubjectTypeOK, InFlight
<1> QED BY <1>1, <1>2, <1>3 DEF ThreadBound, BucketBound

(***************************************************************************)
(* Finding room: it was there, and only the worker's other threads can     *)
(* have found it too.                                                      *)
(***************************************************************************)
LEMMA CountKeepsIInv ==
    ASSUME IInv, NEW r \in Requests, Count(r)
    PROVE  IInv'
<1> USE DEF IInv
<1>1. SubjectTypeOK'
  BY DEF SubjectTypeOK, Count, GoTo, InFlight, Ended
<1>2. \A w \in Workers : Serving(w)' \subseteq Serving(w)
  BY DEF Serving, Count, GoTo, SubjectTypeOK, InFlight
<1>3. CASE Len(Bucket(r)) >= Max
  <2>1. \A w \in Workers, s \in Subjects :
           /\ Appending(w, s)' \subseteq Appending(w, s)
           /\ Len(bucket'[w][s]) <= Len(bucket[w][s])
    <3>1. bucket' = bucket /\ worker' = worker /\ subject' = subject
      BY DEF Count
    <3>2. pc' = [pc EXCEPT ![r] = "refused"]
      BY <1>3 DEF Count, GoTo
    <3>3. \A w \in Workers, s \in Subjects : Len(bucket[w][s]) \in Nat
      <4>1. \A w \in Workers, s \in Subjects : bucket[w][s] \in Seq(Requests)
        BY DEF SubjectTypeOK
      <4> QED BY <4>1
    <3> QED BY <3>1, <3>2, <3>3 DEF Appending, Uses, SubjectTypeOK
  <2> QED BY <1>1, <1>2, <2>1, ShrinkingStep
<1>4. CASE ~(Len(Bucket(r)) >= Max)
  <2>1. pc' = [pc EXCEPT ![r] = "appending"]
    BY <1>4 DEF Count, GoTo
  <2>2. worker' = worker /\ subject' = subject /\ bucket' = bucket /\ pc[r] = "counting"
    BY DEF Count
  <2>3. ThreadBound'
    <3>1. ASSUME NEW w \in Workers PROVE Serving(w)' = Serving(w)
      BY <2>1, <2>2 DEF Serving, SubjectTypeOK, InFlight
    <3> QED BY <3>1 DEF ThreadBound
  <2>4. ASSUME NEW w \in Workers, NEW s \in Subjects
        PROVE  Len(bucket[w][s]) + Cardinality(Appending(w, s)') <= Max + Threads - 1
    <3>0. bucket[w][s] \in Seq(Requests)
      BY DEF SubjectTypeOK
    <3>1. CASE Uses(r, w, s)
      <4>1. Appending(w, s)' = Appending(w, s) \union {r} /\ r \notin Appending(w, s)
        BY <2>1, <2>2, <3>1 DEF Appending, Uses, SubjectTypeOK
      <4>2. Cardinality(Appending(w, s)') = Cardinality(Appending(w, s)) + 1
        BY <4>1, CountedSetsAreFinite, FS_AddElement
      <4>3. Appending(w, s)' \subseteq Serving(w)
        BY <4>1, <2>2, <3>1, CountedSetsAreFinite DEF Serving, Uses, InFlight
      <4>4. Cardinality(Appending(w, s)') <= Cardinality(Serving(w))
        BY <4>3, CountedSetsAreFinite, FS_Subset
      <4>5. Cardinality(Serving(w)) <= Threads
        BY DEF ThreadBound
      <4>6. Len(bucket[w][s]) < Max
        <5>1. Bucket(r) = bucket[w][s]
          BY <3>1 DEF Bucket, Uses
        <5>2. Len(bucket[w][s]) \in Nat
          BY <3>0
        <5> QED BY <5>1, <5>2, <1>4, LimitsAreNatural
      <4>7. Cardinality(Serving(w)) \in Nat /\ Cardinality(Appending(w, s)) \in Nat
        BY CountedSetsAreFinite
      <4>8. Len(bucket[w][s]) \in Nat
        BY <3>0
      <4> QED BY <4>2, <4>4, <4>5, <4>6, <4>7, <4>8, LimitsAreNatural
    <3>2. CASE ~Uses(r, w, s)
      <4>1. Appending(w, s)' = Appending(w, s)
        BY <2>1, <2>2, <3>2 DEF Appending, Uses, SubjectTypeOK
      <4> QED BY <4>1 DEF BucketBound
    <3> QED BY <3>1, <3>2
  <2> QED BY <1>1, <2>2, <2>3, <2>4 DEF BucketBound
<1> QED BY <1>3, <1>4

(***************************************************************************)
(* Appending moves a request from those that found room into the deque.    *)
(***************************************************************************)
LEMMA AppendKeepsIInv ==
    ASSUME IInv, NEW r \in Requests, AppendNow(r)
    PROVE  IInv'
<1> USE DEF IInv
<1>1. worker[r] \in Workers /\ subject[r] \in Subjects /\ Bucket(r) \in Seq(Requests)
  BY DEF SubjectTypeOK, Bucket
<1>2. /\ pc' = [pc EXCEPT ![r] = "admitted"] /\ pc[r] = "appending"
      /\ worker' = worker /\ subject' = subject
      /\ bucket' = [bucket EXCEPT ![worker[r]][subject[r]] = Append(@, r)]
  BY DEF AppendNow, GoTo
<1>3. ASSUME NEW w \in Workers, NEW s \in Subjects
      PROVE  bucket'[w][s] = IF Uses(r, w, s) THEN Append(bucket[w][s], r) ELSE bucket[w][s]
  BY <1>1, <1>2 DEF SubjectTypeOK, Uses
<1>4. SubjectTypeOK'
  <2>1. Append(Bucket(r), r) \in Seq(Requests)
    BY <1>1
  <2>2. bucket' \in [Workers -> [Subjects -> Seq(Requests)]]
    BY <1>1, <1>2, <2>1 DEF SubjectTypeOK, Bucket
  <2>3. pc' \in [Requests -> {"idle"} \union InFlight \union Ended]
    BY <1>2 DEF SubjectTypeOK, Ended
  <2> QED BY <1>2, <2>2, <2>3 DEF SubjectTypeOK
<1>5. ThreadBound'
  <2>1. ASSUME NEW w \in Workers PROVE Cardinality(Serving(w)') <= Threads
    <3>1. Serving(w)' \subseteq Serving(w)
      BY <1>2 DEF Serving, SubjectTypeOK, InFlight
    <3>2. Cardinality(Serving(w)') <= Cardinality(Serving(w)) /\ Cardinality(Serving(w)') \in Nat
      BY <3>1, CountedSetsAreFinite, FS_Subset, FS_CardinalityType
    <3>3. Cardinality(Serving(w)) <= Threads /\ Cardinality(Serving(w)) \in Nat
      BY CountedSetsAreFinite DEF ThreadBound
    <3> QED BY <3>2, <3>3, LimitsAreNatural
  <2> QED BY <2>1 DEF ThreadBound
<1>6. ASSUME NEW w \in Workers, NEW s \in Subjects
      PROVE  Len(bucket'[w][s]) + Cardinality(Appending(w, s)') <= Max + Threads - 1
  <2>0. bucket[w][s] \in Seq(Requests)
    BY DEF SubjectTypeOK
  <2>1. Len(bucket[w][s]) + Cardinality(Appending(w, s)) <= Max + Threads - 1
    BY DEF BucketBound
  <2>2. CASE Uses(r, w, s)
    <3>1. Appending(w, s)' = Appending(w, s) \ {r} /\ r \in Appending(w, s)
      BY <1>2, <2>2 DEF Appending, Uses, SubjectTypeOK
    <3>2. Cardinality(Appending(w, s)') = Cardinality(Appending(w, s)) - 1
      <4>1. IsFiniteSet(Appending(w, s))
        BY CountedSetsAreFinite
      <4>2. Cardinality(Appending(w, s) \ {r}) = Cardinality(Appending(w, s)) - 1
        BY <3>1, <4>1, OneRemoved
      <4> QED BY <3>1, <4>2
    <3>3. Len(bucket'[w][s]) = Len(bucket[w][s]) + 1
      <4>1. bucket'[w][s] = Append(bucket[w][s], r)
        BY <1>3, <2>2
      <4> QED BY <4>1, <2>0, OneLonger
    <3>4. Cardinality(Appending(w, s)) \in Nat
      BY CountedSetsAreFinite
    <3>5. Len(bucket[w][s]) \in Nat
      BY <2>0, OneLonger
    <3> QED BY <2>1, <3>2, <3>3, <3>4, <3>5, LimitsAreNatural
  <2>3. CASE ~Uses(r, w, s)
    <3>1. Appending(w, s)' = Appending(w, s)
      BY <1>2, <2>3 DEF Appending, Uses, SubjectTypeOK
    <3>2. bucket'[w][s] = bucket[w][s]
      BY <1>3, <2>3
    <3> QED BY <2>1, <3>1, <3>2
  <2> QED BY <2>2, <2>3
<1> QED BY <1>4, <1>5, <1>6 DEF BucketBound

(***************************************************************************)
(* Walking down the deque drops requests and finds no room yet.            *)
(***************************************************************************)
LEMMA WalkKeepsIInv ==
    ASSUME IInv, NEW r \in Requests,
           CheckEmpty(r) \/ LookAtOldest(r) \/ PopOldest(r)
    PROVE  IInv'
<1> USE DEF IInv
<1>1. worker[r] \in Workers /\ subject[r] \in Subjects /\ Bucket(r) \in Seq(Requests)
  BY DEF SubjectTypeOK, Bucket
<1>2. /\ worker' = worker /\ subject' = subject
      /\ pc[r] \in {"checking", "looking", "popping"}
      /\ \E l \in {"checking", "looking", "popping", "counting", "failed"} :
           pc' = [pc EXCEPT ![r] = l]
  BY DEF CheckEmpty, LookAtOldest, PopOldest, GoTo
<1>3. \/ bucket' = bucket
      \/ /\ Bucket(r) # << >>
         /\ bucket' = [bucket EXCEPT ![worker[r]][subject[r]] = Tail(@)]
  BY DEF CheckEmpty, LookAtOldest, PopOldest
<1>4. Bucket(r) # << >> =>
        Tail(Bucket(r)) \in Seq(Requests) /\ Len(Tail(Bucket(r))) = Len(Bucket(r)) - 1
  BY <1>1
<1>5. bucket' \in [Workers -> [Subjects -> Seq(Requests)]]
  <2>1. bucket \in [Workers -> [Subjects -> Seq(Requests)]]
    BY DEF SubjectTypeOK
  <2>2. CASE bucket' = bucket
    BY <2>1, <2>2
  <2>3. CASE bucket' # bucket
    <3>1. Tail(bucket[worker[r]][subject[r]]) \in Seq(Requests)
      BY <1>3, <1>4, <2>3 DEF Bucket
    <3>2. bucket' = [bucket EXCEPT ![worker[r]][subject[r]] =
                                      Tail(bucket[worker[r]][subject[r]])]
      BY <1>3, <2>3
    <3> QED BY <1>1, <2>1, <3>1, <3>2
  <2> QED BY <2>2, <2>3
<1>6. pc' \in [Requests -> {"idle"} \union InFlight \union Ended]
  BY <1>2 DEF SubjectTypeOK, InFlight, Ended
<1>7. SubjectTypeOK'
  BY <1>2, <1>5, <1>6 DEF SubjectTypeOK
<1>8. \A w \in Workers : Serving(w)' \subseteq Serving(w)
  BY <1>2 DEF Serving, SubjectTypeOK, InFlight
<1>9. ASSUME NEW w \in Workers, NEW s \in Subjects
      PROVE  Appending(w, s)' \subseteq Appending(w, s) /\ Len(bucket'[w][s]) <= Len(bucket[w][s])
  <2>1. Appending(w, s)' \subseteq Appending(w, s)
    BY <1>2 DEF Appending, Uses, SubjectTypeOK
  <2>2. bucket[w][s] \in Seq(Requests)
    BY DEF SubjectTypeOK
  <2>3. Len(bucket[w][s]) \in Nat
    BY <2>2
  <2>4. CASE bucket' = bucket
    BY <2>1, <2>3, <2>4
  <2>5. CASE bucket' # bucket
    <3>1. bucket' = [bucket EXCEPT ![worker[r]][subject[r]] = Tail(@)] /\ Bucket(r) # << >>
      BY <1>3, <2>5
    <3>2. CASE Uses(r, w, s)
      <4>1. bucket'[w][s] = Tail(Bucket(r)) /\ bucket[w][s] = Bucket(r)
        BY <3>1, <3>2, <1>1 DEF Uses, Bucket, SubjectTypeOK
      <4> QED BY <2>1, <4>1, <3>1, <1>4, <2>3
    <3>3. CASE ~Uses(r, w, s)
      <4>1. bucket'[w][s] = bucket[w][s]
        BY <3>1, <3>3, <1>1 DEF Uses, SubjectTypeOK
      <4> QED BY <2>1, <4>1, <2>3
    <3> QED BY <3>2, <3>3
  <2> QED BY <2>1, <2>4, <2>5
<1> QED BY <1>7, <1>8, <1>9, ShrinkingStep

LEMMA RestartKeepsIInv ==
    ASSUME IInv, NEW v \in Workers, Restart(v)
    PROVE  IInv'
<1> USE DEF IInv
<1>1. /\ bucket' = [bucket EXCEPT ![v] = [s \in Subjects |-> << >>]]
      /\ pc' = [r \in Requests |-> IF r \in Serving(v) THEN "lost" ELSE pc[r]]
      /\ worker' = worker /\ subject' = subject
  BY DEF Restart
<1>2. SubjectTypeOK'
  <2>1. [s \in Subjects |-> << >>] \in [Subjects -> Seq(Requests)]
    OBVIOUS
  <2>2. bucket' \in [Workers -> [Subjects -> Seq(Requests)]]
    BY <1>1, <2>1 DEF SubjectTypeOK
  <2>3. pc' \in [Requests -> {"idle"} \union InFlight \union Ended]
    BY <1>1 DEF SubjectTypeOK, Ended
  <2> QED BY <1>1, <2>2, <2>3 DEF SubjectTypeOK
<1>3. \A w \in Workers : Serving(w)' \subseteq Serving(w)
  BY <1>1 DEF Serving, SubjectTypeOK, InFlight
<1>4. ASSUME NEW w \in Workers, NEW s \in Subjects
      PROVE  Appending(w, s)' \subseteq Appending(w, s) /\ Len(bucket'[w][s]) <= Len(bucket[w][s])
  <2>1. Appending(w, s)' \subseteq Appending(w, s)
    BY <1>1 DEF Appending, Uses, SubjectTypeOK
  <2>2. bucket[w][s] \in Seq(Requests)
    BY DEF SubjectTypeOK
  <2>3. Len(bucket[w][s]) \in Nat
    BY <2>2
  <2>4. bucket'[w][s] = IF w = v THEN << >> ELSE bucket[w][s]
    BY <1>1 DEF SubjectTypeOK
  <2> QED BY <2>1, <2>3, <2>4
<1> QED BY <1>2, <1>3, <1>4, ShrinkingStep

LEMMA NextIInv == IInv /\ [LimitNext]_limitVars => IInv'
<1> SUFFICES ASSUME IInv, [LimitNext]_limitVars PROVE IInv'
  OBVIOUS
<1>1. ASSUME NEW r \in Requests, NEW w \in Workers, NEW s \in Subjects, Enter(r, w, s)
      PROVE  IInv'
  BY <1>1, EnterKeepsIInv
<1>2. ASSUME NEW r \in Requests, Serve(r) PROVE IInv'
  BY <1>2, WalkKeepsIInv, CountKeepsIInv, AppendKeepsIInv DEF Serve
<1>3. CASE Tick
  BY <1>3 DEF Tick, subjectVars, requestVars, IInv, SubjectTypeOK, ThreadBound, BucketBound,
              Serving, Appending, Uses
<1>4. ASSUME NEW w \in Workers, Restart(w) PROVE IInv'
  BY <1>4, RestartKeepsIInv
<1>5. CASE UNCHANGED limitVars
  BY <1>5 DEF limitVars, subjectVars, requestVars, IInv, SubjectTypeOK, ThreadBound,
              BucketBound, Serving, Appending, Uses
<1> QED BY <1>1, <1>2, <1>3, <1>4, <1>5 DEF LimitNext

(***************************************************************************)
(* For any number of threads and any limit, a subject's deque with the     *)
(* requests about to be appended to it never holds more than the limit and *)
(* all threads but one.                                                    *)
(***************************************************************************)
THEOREM BucketStaysBounded == LimitSpec => []BucketBound
<1>1. LimitInit => IInv
  BY InitIInv
<1>2. IInv /\ [LimitNext]_limitVars => IInv'
  BY NextIInv
<1>3. IInv => BucketBound
  BY DEF IInv
<1> QED BY <1>1, <1>2, <1>3, PTL DEF LimitSpec

(***************************************************************************)
(* The limiter keeps to the types of its state.                            *)
(***************************************************************************)
THEOREM LimiterTypeCorrect == LimitSpec => []SubjectTypeOK
<1>1. LimitInit => IInv
  BY InitIInv
<1>2. IInv /\ [LimitNext]_limitVars => IInv'
  BY NextIInv
<1>3. IInv => SubjectTypeOK
  BY DEF IInv
<1> QED BY <1>1, <1>2, <1>3, PTL DEF LimitSpec

-----------------------------------------------------------------------------
(***************************************************************************)
(* What a deque remembers.                                                 *)
(***************************************************************************)

(* Stamps and times of admission are in the past, and the requests that    *)
(* are being served are served by processes that run.                      *)
TimesInOrder ==
    /\ clock \in Nat
    /\ stamp \in [Requests -> Nat]
    /\ admittedAt \in [Requests -> Nat]
    /\ present \subseteq Requests
    /\ \A r \in Requests :
         /\ stamp[r] <= clock
         /\ admittedAt[r] <= clock
         /\ pc[r] = "admitted" => stamp[r] <= admittedAt[r]
         /\ pc[r] \in InFlight => r \in present

Positions(w, s) == 1..Len(bucket[w][s])

(* A deque stores requests that were admitted, each once, in the order in  *)
(* which they were.                                                        *)
InOrder(w, s) ==
    /\ \A i \in Positions(w, s) : bucket[w][s][i] \in Admitted(w, s)
    /\ \A i, j \in Positions(w, s) : i < j =>
         /\ bucket[w][s][i] # bucket[w][s][j]
         /\ admittedAt[bucket[w][s][i]] <= admittedAt[bucket[w][s][j]]

(* What a request counts was admitted in the window before it.             *)
CountsRecent(w, s) ==
    \A r \in Requests : Uses(r, w, s) /\ pc[r] = "counting" =>
        \A i \in Positions(w, s) : admittedAt[bucket[w][s][i]] + Window >= stamp[r]

(* In a deque that no two requests have used at the same time, an admitted *)
(* request is missing only when it does not count any more, and a request  *)
(* still has the reason for which it pops or appends.                      *)
Held(w, s) == {bucket[w][s][i] : i \in Positions(w, s)}

Dropped(w, s) == Admitted(w, s) \ Held(w, s)

Serves(r, w, s) == Uses(r, w, s) /\ pc[r] \in InFlight

HasReason(r, w, s) ==
    /\ \A p \in Dropped(w, s) : stamp[p] + Window < stamp[r]
    /\ pc[r] = "popping" =>
         bucket[w][s] # << >> /\ stamp[bucket[w][s][1]] + Window < stamp[r]
    /\ pc[r] = "appending" => Len(bucket[w][s]) < Max

AdmittedFrom(w, s, t) == {p \in Admitted(w, s) : stamp[p] \in t..(t + Window)}

Serial(w, s) ==
    /\ \A p, q \in Requests : Serves(p, w, s) /\ Serves(q, w, s) => p = q
    /\ \A p \in Dropped(w, s) : stamp[p] + Window < clock
    /\ \A r \in Requests : Serves(r, w, s) => HasReason(r, w, s)
    /\ \A t \in Nat : Cardinality(AdmittedFrom(w, s, t)) <= Max

DequeOK(w, s) ==
    /\ InOrder(w, s)
    /\ CountsRecent(w, s)
    /\ <<w, s>> \notin raced => Serial(w, s)

History == TimesInOrder /\ \A w \in Workers, s \in Subjects : DequeOK(w, s)

(***************************************************************************)
(* A deque has as many requests as positions.                              *)
(***************************************************************************)
LEMMA HeldIsLen ==
    ASSUME SubjectTypeOK, NEW w \in Workers, NEW s \in Subjects, InOrder(w, s)
    PROVE  /\ Held(w, s) \subseteq Requests
           /\ IsFiniteSet(Held(w, s))
           /\ Cardinality(Held(w, s)) = Len(bucket[w][s])
<1> DEFINE b == bucket[w][s]
           n == Len(b)
<1>1. b \in Seq(Requests) /\ n \in Nat /\ b \in [1..n -> Requests]
  <2>1. b \in Seq(Requests)
    BY DEF SubjectTypeOK
  <2> QED BY <2>1
<1>2. b \in [1..n -> Held(w, s)]
  BY <1>1 DEF Held, Positions
<1>3. \A i, j \in 1..n : i # j => b[i] # b[j]
  <2> TAKE i \in 1..n, j \in 1..n
  <2>1. i < j \/ j < i \/ i = j
    BY <1>1
  <2> QED BY <2>1 DEF InOrder, Positions
<1>4. \A x \in Held(w, s) : \E i \in 1..n : b[i] = x
  BY DEF Held, Positions
<1>5. ExistsBijection(1..n, Held(w, s))
  <2>1. b \in Bijection(1..n, Held(w, s))
    BY <1>2, <1>3, <1>4 DEF Bijection, Injection, Surjection, IsInjective
  <2> QED BY <2>1 DEF ExistsBijection
<1>6. Held(w, s) \subseteq Requests
  BY <1>1 DEF Held, Positions
<1> QED BY <1>1, <1>5, <1>6, RequestsAreFinite, FS_Subset, FS_CountingElements

(***************************************************************************)
(* Sets of requests have a size, and a request adds at most one to it.     *)
(***************************************************************************)
LEMMA SizesOfRequests ==
    ASSUME NEW S \in SUBSET Requests, NEW T, T \subseteq S
    PROVE  /\ IsFiniteSet(S) /\ Cardinality(S) \in Nat
           /\ Cardinality(T) \in Nat /\ Cardinality(T) <= Cardinality(S)
  BY RequestsAreFinite, FS_Subset, FS_CardinalityType

(***************************************************************************)
(* A deque that a step leaves alone, with the requests that use it, keeps  *)
(* what it remembers as time passes.                                       *)
(***************************************************************************)
Active == InFlight \union {"admitted"}

LeftAlone(w, s) ==
    /\ bucket'[w][s] = bucket[w][s]
    /\ <<w, s>> \in raced' <=> <<w, s>> \in raced
    /\ \A r \in Requests :
         /\ (Uses(r, w, s) /\ pc[r] \in Active) <=> (Uses(r, w, s)' /\ pc'[r] \in Active)
         /\ Uses(r, w, s) /\ pc[r] \in Active =>
              /\ pc'[r] = pc[r] /\ stamp'[r] = stamp[r] /\ admittedAt'[r] = admittedAt[r]
              /\ r \in present' <=> r \in present

LEMMA LeftAloneKeeps ==
    ASSUME SubjectTypeOK, TimesInOrder, TimesInOrder',
           NEW w \in Workers, NEW s \in Subjects, DequeOK(w, s), LeftAlone(w, s),
           clock <= clock'
    PROVE  DequeOK(w, s)'
<1>1. present \subseteq Requests /\ present' \subseteq Requests /\ clock \in Nat /\ clock' \in Nat
  BY DEF TimesInOrder
<1>2. Admitted(w, s)' = Admitted(w, s) /\ Admitted(w, s) \subseteq Requests
  BY <1>1 DEF Admitted, LeftAlone, Active
<1>3. \A q \in Admitted(w, s) : stamp'[q] = stamp[q] /\ admittedAt'[q] = admittedAt[q]
  BY <1>2 DEF Admitted, LeftAlone, Active
<1>4. \A q \in Requests :
        /\ Serves(q, w, s)' <=> Serves(q, w, s)
        /\ Serves(q, w, s) => pc'[q] = pc[q] /\ stamp'[q] = stamp[q]
  BY DEF LeftAlone, Serves, Active, InFlight
<1>5. bucket'[w][s] = bucket[w][s] /\ Positions(w, s)' = Positions(w, s)
      /\ Held(w, s)' = Held(w, s) /\ Dropped(w, s)' = Dropped(w, s)
  BY <1>2 DEF LeftAlone, Positions, Held, Dropped
<1>6. InOrder(w, s) /\ InOrder(w, s)'
  BY <1>2, <1>3, <1>5 DEF DequeOK, InOrder
<1>7. CountsRecent(w, s)'
  <2>1. \A q \in Requests : Uses(q, w, s)' /\ pc'[q] = "counting" =>
          Uses(q, w, s) /\ pc[q] = "counting" /\ stamp'[q] = stamp[q]
    BY DEF LeftAlone, Active, InFlight
  <2>2. \A i \in Positions(w, s) :
          admittedAt'[bucket[w][s][i]] = admittedAt[bucket[w][s][i]]
    BY <1>3, <1>6 DEF InOrder
  <2> QED BY <1>5, <2>1, <2>2 DEF DequeOK, CountsRecent
<1>8. ASSUME <<w, s>> \notin raced' PROVE Serial(w, s)'
  <2>1. Serial(w, s)
    BY <1>8 DEF DequeOK, LeftAlone
  <2>2. \A p, q \in Requests : Serves(p, w, s)' /\ Serves(q, w, s)' => p = q
    BY <1>4, <2>1 DEF Serial
  <2>3. \A p \in Dropped(w, s)' : stamp'[p] + Window < clock'
    <3>1. \A p \in Dropped(w, s) : stamp'[p] = stamp[p] /\ stamp[p] + Window < clock
                                   /\ stamp[p] \in Nat
      BY <1>2, <1>3, <2>1 DEF Serial, Dropped, TimesInOrder
    <3> QED BY <1>1, <1>5, <3>1, LimitsAreNatural
  <2>4. \A r \in Requests : Serves(r, w, s)' => HasReason(r, w, s)'
    <3> SUFFICES ASSUME NEW r \in Requests, Serves(r, w, s)' PROVE HasReason(r, w, s)'
      OBVIOUS
    <3>1. HasReason(r, w, s) /\ pc'[r] = pc[r] /\ stamp'[r] = stamp[r]
      BY <1>4, <2>1 DEF Serial
    <3>2. \A p \in Dropped(w, s) : stamp'[p] = stamp[p]
      BY <1>3 DEF Dropped
    <3>3. bucket[w][s] # << >> => stamp'[bucket[w][s][1]] = stamp[bucket[w][s][1]]
      <4>1. bucket[w][s] \in Seq(Requests)
        BY DEF SubjectTypeOK
      <4>2. bucket[w][s] # << >> => 1 \in Positions(w, s)
        BY <4>1 DEF Positions
      <4> QED BY <1>3, <1>6, <4>2 DEF InOrder
    <3> QED BY <1>5, <3>1, <3>2, <3>3 DEF HasReason
  <2>5. \A t : AdmittedFrom(w, s, t)' = AdmittedFrom(w, s, t)
    BY <1>2, <1>3 DEF AdmittedFrom
  <2> QED BY <2>1, <2>2, <2>3, <2>4, <2>5 DEF Serial
<1> QED BY <1>6, <1>7, <1>8 DEF DequeOK

-----------------------------------------------------------------------------
(***************************************************************************)
(* A request that is served writes itself and its own deque.               *)
(***************************************************************************)
LEMMA ServeWrites ==
    ASSUME SubjectTypeOK, NEW r \in Requests, Serve(r)
    PROVE  /\ worker' = worker /\ subject' = subject /\ stamp' = stamp /\ raced' = raced
           /\ clock' = clock
           /\ worker[r] \in Workers /\ subject[r] \in Subjects
           /\ pc[r] \in InFlight
           /\ pc'[r] \in InFlight \union Ended
           /\ pc'[r] = "admitted" => AppendNow(r)
           /\ admittedAt' = admittedAt \/ admittedAt' = [admittedAt EXCEPT ![r] = clock]
           /\ \A q \in Requests \ {r} : pc'[q] = pc[q]
           /\ \A w \in Workers, s \in Subjects :
                ~Uses(r, w, s) => bucket'[w][s] = bucket[w][s]
<1>1. worker[r] \in Workers /\ subject[r] \in Subjects
  BY DEF SubjectTypeOK
<1>2. CASE CheckEmpty(r)
  BY <1>1, <1>2 DEF SubjectTypeOK, CheckEmpty, GoTo, InFlight, Ended
<1>3. CASE LookAtOldest(r)
  BY <1>1, <1>3 DEF SubjectTypeOK, LookAtOldest, GoTo, InFlight, Ended
<1>4. CASE PopOldest(r)
  BY <1>1, <1>4 DEF SubjectTypeOK, PopOldest, GoTo, InFlight, Ended, Uses
<1>5. CASE Count(r)
  BY <1>1, <1>5 DEF SubjectTypeOK, Count, GoTo, InFlight, Ended
<1>6. CASE AppendNow(r)
  BY <1>1, <1>6 DEF SubjectTypeOK, AppendNow, GoTo, InFlight, Ended, Uses
<1> QED BY <1>2, <1>3, <1>4, <1>5, <1>6 DEF Serve

LEMMA ServeKeepsTimes ==
    ASSUME SubjectTypeOK, TimesInOrder, NEW r \in Requests, Serve(r), UNCHANGED present
    PROVE  TimesInOrder'
<1>1. /\ admittedAt' \in [Requests -> Nat]
      /\ \A q \in Requests : admittedAt'[q] <= clock
  BY ServeWrites DEF TimesInOrder
<1>2. ASSUME NEW q \in Requests
      PROVE  /\ pc'[q] = "admitted" => stamp[q] <= admittedAt'[q]
             /\ pc'[q] \in InFlight => q \in present
  <2>1. CASE q = r
    <3>1. pc'[r] = "admitted" => admittedAt'[r] = clock
      BY ServeWrites DEF AppendNow, TimesInOrder
    <3> QED BY <2>1, <3>1, ServeWrites DEF TimesInOrder
  <2>2. CASE q # r
    <3>1. pc'[q] = pc[q] /\ admittedAt'[q] = admittedAt[q]
      BY <2>2, ServeWrites DEF TimesInOrder
    <3> QED BY <3>1 DEF TimesInOrder
  <2> QED BY <2>1, <2>2
<1> QED BY <1>1, <1>2, ServeWrites DEF TimesInOrder

(***************************************************************************)
(* The other deques, of this worker or another, are left alone.            *)
(***************************************************************************)
LEMMA ServeElsewhere ==
    ASSUME SubjectTypeOK, History, NEW r \in Requests, Serve(r), UNCHANGED present,
           NEW w \in Workers, NEW s \in Subjects, ~Uses(r, w, s)
    PROVE  DequeOK(w, s)'
<1>1. TimesInOrder'
  BY ServeKeepsTimes DEF History
<1>2. \A q \in Requests : Uses(q, w, s) =>
        q # r /\ pc'[q] = pc[q] /\ admittedAt'[q] = admittedAt[q] /\ stamp'[q] = stamp[q]
  BY ServeWrites DEF History, TimesInOrder
<1>3. LeftAlone(w, s)
  BY <1>2, ServeWrites DEF LeftAlone, Uses
<1>4. clock \in Nat /\ clock <= clock'
  BY ServeWrites DEF History, TimesInOrder
<1> QED BY <1>1, <1>3, <1>4, LeftAloneKeeps DEF History

(***************************************************************************)
(* A request looks at its deque and goes on: it pops what is too old,      *)
(* counts when nothing is, and appends when it has room.                   *)
(***************************************************************************)
LEMMA LookKeeps ==
    ASSUME SubjectTypeOK, History, NEW r \in Requests, UNCHANGED present,
           CheckEmpty(r) \/ LookAtOldest(r) \/ Count(r),
           NEW w \in Workers, NEW s \in Subjects, Uses(r, w, s)
    PROVE  DequeOK(w, s)'
<1> DEFINE b == bucket[w][s]
<1>1. Serve(r)
  BY DEF Serve
<1>2. b \in Seq(Requests) /\ Bucket(r) = b
  BY DEF SubjectTypeOK, Bucket, Uses
<1>3. /\ worker' = worker /\ subject' = subject /\ stamp' = stamp /\ raced' = raced
      /\ clock' = clock /\ bucket' = bucket /\ admittedAt' = admittedAt
      /\ pc[r] \in InFlight /\ pc'[r] # "admitted"
      /\ \A q \in Requests \ {r} : pc'[q] = pc[q]
  BY <1>1, ServeWrites DEF CheckEmpty, LookAtOldest, Count, GoTo, SubjectTypeOK, InFlight
<1>4. DequeOK(w, s) /\ TimesInOrder
  BY DEF History
<1>5. /\ Admitted(w, s)' = Admitted(w, s) /\ Positions(w, s)' = Positions(w, s)
      /\ Held(w, s)' = Held(w, s) /\ Dropped(w, s)' = Dropped(w, s)
  <2>1. Admitted(w, s)' = Admitted(w, s)
    BY <1>3, <1>4 DEF Admitted, Uses, TimesInOrder, InFlight
  <2> QED BY <1>3, <2>1 DEF Positions, Held, Dropped
<1>6. InOrder(w, s)'
  BY <1>3, <1>4, <1>5 DEF DequeOK, InOrder
<1>7. pc'[r] = "counting" => \A i \in Positions(w, s) : admittedAt[b[i]] + Window >= stamp[r]
  <2> SUFFICES ASSUME pc'[r] = "counting", NEW i \in Positions(w, s)
               PROVE  admittedAt[b[i]] + Window >= stamp[r]
    OBVIOUS
  <2>1. b # << >> /\ Len(b) \in Nat /\ i \in 1..Len(b) /\ 1 \in Positions(w, s)
    BY <1>2 DEF Positions
  <2>2. ~(stamp[r] > Window + stamp[Head(b)]) /\ Head(b) = b[1]
    <3>1. LookAtOldest(r)
      BY <1>2, <2>1 DEF CheckEmpty, Count, GoTo, SubjectTypeOK
    <3> QED BY <1>2, <2>1, <3>1 DEF LookAtOldest, GoTo, SubjectTypeOK
  <2>3. b[1] \in Admitted(w, s) /\ b[i] \in Admitted(w, s)
    BY <1>4, <2>1 DEF DequeOK, InOrder
  <2>4. /\ stamp[b[1]] \in Nat /\ admittedAt[b[1]] \in Nat /\ admittedAt[b[i]] \in Nat
        /\ stamp[r] \in Nat /\ stamp[b[1]] <= admittedAt[b[1]]
    BY <1>4, <2>3 DEF TimesInOrder, Admitted
  <2>5. admittedAt[b[1]] <= admittedAt[b[i]]
    <3>1. CASE i = 1
      BY <2>4, <3>1
    <3>2. CASE i # 1
      <4>1. 1 < i
        BY <2>1, <3>2
      <4> QED BY <1>4, <2>1, <4>1 DEF DequeOK, InOrder, Positions
    <3> QED BY <3>1, <3>2
  <2> HIDE DEF b
  <2> QED BY <2>2, <2>4, <2>5, LimitsAreNatural
<1>8. CountsRecent(w, s)'
  BY <1>3, <1>4, <1>5, <1>7 DEF DequeOK, CountsRecent, Uses
<1>9. ASSUME <<w, s>> \notin raced PROVE Serial(w, s)'
  <2>1. Serial(w, s)
    BY <1>4, <1>9 DEF DequeOK
  <2>2. \A q \in Requests : Serves(q, w, s)' => Serves(q, w, s)
    BY <1>3 DEF Serves, Uses, InFlight
  <2>3. \A p, q \in Requests : Serves(p, w, s)' /\ Serves(q, w, s)' => p = q
    BY <2>1, <2>2 DEF Serial
  <2>4. ASSUME NEW q \in Requests, Serves(q, w, s)' PROVE HasReason(q, w, s)'
    <3>1. HasReason(q, w, s) /\ q = r
      BY <1>3, <2>1, <2>2, <2>4 DEF Serial, Serves
    <3>2. pc'[r] = "popping" => b # << >> /\ stamp[b[1]] + Window < stamp[r]
      <4> SUFFICES ASSUME pc'[r] = "popping"
                   PROVE  b # << >> /\ stamp[b[1]] + Window < stamp[r]
        OBVIOUS
      <4>1. b # << >> /\ stamp[r] > Window + stamp[Head(b)] /\ Head(b) = b[1]
        BY <1>2, <1>3 DEF CheckEmpty, LookAtOldest, Count, GoTo, SubjectTypeOK
      <4>2. 1 \in Positions(w, s)
        BY <1>2, <4>1 DEF Positions
      <4>3. stamp[b[1]] \in Nat /\ stamp[r] \in Nat
        BY <1>4, <4>2 DEF DequeOK, InOrder, Admitted, TimesInOrder
      <4> HIDE DEF b
      <4> QED BY <4>1, <4>3, LimitsAreNatural
    <3>3. pc'[r] = "appending" => Len(b) < Max
      <4> SUFFICES ASSUME pc'[r] = "appending" PROVE Len(b) < Max
        OBVIOUS
      <4>1. ~(Len(b) >= Max)
        BY <1>2 DEF CheckEmpty, LookAtOldest, Count, GoTo, SubjectTypeOK
      <4>2. Len(b) \in Nat
        BY <1>2
      <4> QED BY <4>1, <4>2, LimitsAreNatural
    <3> QED BY <1>3, <1>5, <3>1, <3>2, <3>3 DEF HasReason
  <2>5. \A t : AdmittedFrom(w, s, t)' = AdmittedFrom(w, s, t)
    BY <1>3, <1>5 DEF AdmittedFrom
  <2> QED BY <1>3, <1>5, <2>1, <2>3, <2>4, <2>5 DEF Serial
<1> QED BY <1>3, <1>6, <1>8, <1>9 DEF DequeOK

(***************************************************************************)
(* popleft: where only one request uses the deque, what it pops is what it *)
(* found too old.                                                          *)
(***************************************************************************)
LEMMA PopKeeps ==
    ASSUME SubjectTypeOK, History, NEW r \in Requests, UNCHANGED present, PopOldest(r),
           NEW w \in Workers, NEW s \in Subjects, Uses(r, w, s)
    PROVE  DequeOK(w, s)'
<1> DEFINE b == bucket[w][s]
           c == bucket'[w][s]
<1>1. Serve(r)
  BY DEF Serve
<1>2. b \in Seq(Requests) /\ Bucket(r) = b
  BY DEF SubjectTypeOK, Bucket, Uses
<1>3. /\ worker' = worker /\ subject' = subject /\ stamp' = stamp /\ raced' = raced
      /\ clock' = clock /\ admittedAt' = admittedAt
      /\ pc[r] = "popping" /\ pc'[r] \in {"checking", "failed"}
      /\ \A q \in Requests \ {r} : pc'[q] = pc[q]
  BY <1>1, ServeWrites DEF PopOldest, GoTo, SubjectTypeOK
<1>4. DequeOK(w, s) /\ TimesInOrder
  BY DEF History
<1>5. /\ b = << >> => c = b
      /\ b # << >> => c = Tail(b) /\ pc'[r] = "checking"
  <2>1. worker[r] = w /\ subject[r] = s /\ bucket \in [Workers -> [Subjects -> Seq(Requests)]]
    BY DEF SubjectTypeOK, Uses
  <2>2. CASE b = << >>
    BY <1>2, <2>1, <2>2 DEF PopOldest
  <2>3. CASE b # << >>
    <3>1. /\ bucket' = [bucket EXCEPT ![w][s] = Tail(bucket[w][s])]
          /\ pc' = [pc EXCEPT ![r] = "checking"]
      BY <1>2, <2>1, <2>3 DEF PopOldest, GoTo
    <3>2. c = Tail(b)
      BY <2>1, <3>1
    <3> QED BY <2>3, <3>1, <3>2 DEF SubjectTypeOK
  <2> QED BY <2>2, <2>3
<1>6. c \in Seq(Requests) /\ Len(c) \in Nat /\ Len(b) \in Nat /\ Len(c) <= Len(b)
  <2>0. Len(b) \in Nat
    BY <1>2
  <2>1. CASE b = << >>
    <3> HIDE DEF b, c
    <3> QED BY <1>2, <1>5, <2>0, <2>1
  <2>2. CASE b # << >>
    <3>1. Tail(b) \in Seq(Requests) /\ Len(Tail(b)) = Len(b) - 1 /\ Len(b) \in Nat
          /\ Len(Tail(b)) \in Nat
      BY <1>2, <2>2
    <3> HIDE DEF b, c
    <3> QED BY <1>5, <2>2, <3>1
  <2> QED BY <2>1, <2>2
<1>7. ASSUME NEW i \in 1..Len(c)
      PROVE  \E k \in 0..1 : /\ i + k \in 1..Len(b) /\ c[i] = b[i + k]
                             /\ \A j \in 1..Len(c) : j + k \in 1..Len(b) /\ c[j] = b[j + k]
  <2>1. CASE c = b
    BY <1>6, <2>1
  <2>2. CASE b # << >> /\ c = Tail(b)
    BY <1>2, <1>6, <2>2
  <2> QED BY <1>5, <2>1, <2>2
<1>8. Admitted(w, s)' = Admitted(w, s)
  BY <1>3, <1>4 DEF Admitted, Uses, TimesInOrder
<1>9. InOrder(w, s)'
  <2>1. \A i \in 1..Len(c) : c[i] \in Admitted(w, s)
    BY <1>4, <1>7 DEF DequeOK, InOrder, Positions
  <2>2. ASSUME NEW i \in 1..Len(c), NEW j \in 1..Len(c), i < j
        PROVE  c[i] # c[j] /\ admittedAt[c[i]] <= admittedAt[c[j]]
    <3>1. PICK k \in 0..1 : /\ i + k \in 1..Len(b) /\ c[i] = b[i + k]
                            /\ j + k \in 1..Len(b) /\ c[j] = b[j + k]
      BY <1>7
    <3>2. i + k < j + k
      BY <1>6, <2>2
    <3> QED BY <1>4, <3>1, <3>2 DEF DequeOK, InOrder, Positions
  <2> QED BY <1>3, <1>8, <2>1, <2>2 DEF InOrder, Positions
<1>10. CountsRecent(w, s)'
  <2>1. \A q \in Requests : pc'[q] = "counting" => pc[q] = "counting"
    BY <1>3
  <2>2. \A i \in 1..Len(c) : \E j \in Positions(w, s) : c[i] = b[j]
    BY <1>7 DEF Positions
  <2> SUFFICES ASSUME NEW q \in Requests, Uses(q, w, s), pc[q] = "counting",
                      NEW i \in 1..Len(c)
               PROVE  admittedAt[c[i]] + Window >= stamp[q]
    BY <1>3, <2>1 DEF CountsRecent, Uses, Positions
  <2>3. \A j \in Positions(w, s) : admittedAt[b[j]] + Window >= stamp[q]
    BY <1>4 DEF DequeOK, CountsRecent
  <2> QED BY <2>2, <2>3
<1>11. ASSUME <<w, s>> \notin raced PROVE Serial(w, s)'
  <2>1. Serial(w, s) /\ Serves(r, w, s)
    BY <1>3, <1>4, <1>11 DEF DequeOK, Serves, InFlight
  <2>2. b # << >> /\ stamp[b[1]] + Window < stamp[r]
    BY <1>3, <2>1 DEF Serial, HasReason
  <2>3. c = Tail(b) /\ pc'[r] = "checking"
    BY <1>5, <2>2
  <2>4. Dropped(w, s)' \subseteq Dropped(w, s) \union {b[1]}
    <3> SUFFICES ASSUME NEW p \in Held(w, s), p # b[1] PROVE p \in Held(w, s)'
      BY <1>8 DEF Dropped
    <3>1. PICK i \in 1..Len(b) : p = b[i]
      BY DEF Held, Positions
    <3>2. i - 1 \in 1..Len(c) /\ c[i - 1] = b[i]
      BY <1>2, <2>2, <2>3, <3>1
    <3> QED BY <3>1, <3>2 DEF Held, Positions
  <2>5. \A q \in Requests : Serves(q, w, s)' => Serves(q, w, s)
    BY <1>3 DEF Serves, Uses, InFlight
  <2>6. \A p, q \in Requests : Serves(p, w, s)' /\ Serves(q, w, s)' => p = q
    BY <2>1, <2>5 DEF Serial
  <2>7. \A p \in Dropped(w, s)' : stamp[p] + Window < stamp[r]
    BY <2>1, <2>2, <2>4 DEF Serial, HasReason
  <2>8. \A p \in Dropped(w, s)' : stamp[p] + Window < clock
    <3>1. \A p \in Dropped(w, s)' : stamp[p] \in Nat
      BY <1>4, <1>8 DEF Dropped, Admitted, TimesInOrder
    <3>2. stamp[r] \in Nat /\ clock \in Nat /\ stamp[r] <= clock
      BY <1>4 DEF TimesInOrder
    <3> QED BY <2>7, <3>1, <3>2, LimitsAreNatural
  <2>9. \A q \in Requests : Serves(q, w, s)' => HasReason(q, w, s)'
    <3>1. \A q \in Requests : Serves(q, w, s)' => q = r
      BY <2>1, <2>5 DEF Serial
    <3> QED BY <1>3, <2>3, <2>7, <3>1 DEF HasReason
  <2>10. \A t : AdmittedFrom(w, s, t)' = AdmittedFrom(w, s, t)
    BY <1>3, <1>8 DEF AdmittedFrom
  <2> QED BY <1>3, <2>1, <2>6, <2>8, <2>9, <2>10 DEF Serial
<1> QED BY <1>3, <1>9, <1>10, <1>11 DEF DequeOK

(***************************************************************************)
(* append: where only one request uses the deque, whoever counts with the  *)
(* new one is still in it, and there were fewer than Max of them.          *)
(***************************************************************************)
LEMMA AppendKeeps ==
    ASSUME SubjectTypeOK, History, NEW r \in Requests, UNCHANGED present, AppendNow(r),
           NEW w \in Workers, NEW s \in Subjects, Uses(r, w, s)
    PROVE  DequeOK(w, s)'
<1> DEFINE b == bucket[w][s]
           c == bucket'[w][s]
<1>1. Serve(r)
  BY DEF Serve
<1>2. b \in Seq(Requests) /\ c = Append(b, r)
  BY DEF SubjectTypeOK, AppendNow, Uses
<1>3. /\ worker' = worker /\ subject' = subject /\ stamp' = stamp /\ raced' = raced
      /\ clock' = clock /\ admittedAt' = [admittedAt EXCEPT ![r] = clock]
      /\ pc[r] = "appending" /\ pc'[r] = "admitted"
      /\ \A q \in Requests \ {r} : pc'[q] = pc[q]
  BY <1>1, ServeWrites DEF AppendNow, GoTo, SubjectTypeOK
<1>4. DequeOK(w, s) /\ TimesInOrder
  BY DEF History
<1>5. /\ admittedAt'[r] = clock /\ clock \in Nat
      /\ \A q \in Requests : /\ admittedAt[q] \in Nat /\ stamp[q] \in Nat
                             /\ admittedAt[q] <= clock /\ stamp[q] <= clock
                             /\ q # r => admittedAt'[q] = admittedAt[q]
  BY <1>3, <1>4 DEF TimesInOrder
<1>6. Admitted(w, s)' = Admitted(w, s) \union {r} /\ r \notin Admitted(w, s)
      /\ Admitted(w, s) \subseteq Requests
  BY <1>3, <1>4 DEF Admitted, Uses, TimesInOrder, InFlight
<1>7. /\ Len(b) \in Nat /\ Len(c) = Len(b) + 1 /\ c[Len(b) + 1] = r
      /\ \A i \in 1..Len(b) : i \in 1..Len(c) /\ c[i] = b[i]
      /\ \A i \in 1..Len(c) : i \in 1..Len(b) \/ i = Len(b) + 1
  BY <1>2
<1>8. \A i \in 1..Len(b) : /\ b[i] \in Admitted(w, s) /\ b[i] # r /\ b[i] \in Requests
                           /\ admittedAt'[b[i]] = admittedAt[b[i]]
  BY <1>4, <1>5, <1>6 DEF DequeOK, InOrder, Positions
<1>9. InOrder(w, s)'
  <2>1. \A i \in 1..Len(c) : c[i] \in Admitted(w, s)'
    BY <1>6, <1>7, <1>8
  <2>2. ASSUME NEW i \in 1..Len(c), NEW j \in 1..Len(c), i < j
        PROVE  c[i] # c[j] /\ admittedAt'[c[i]] <= admittedAt'[c[j]]
    <3>1. i \in 1..Len(b) /\ c[i] = b[i]
      BY <1>7, <2>2
    <3>2. CASE j \in 1..Len(b)
      <4>1. c[j] = b[j]
        BY <1>7, <3>2
      <4> QED BY <1>4, <1>8, <2>2, <3>1, <3>2, <4>1 DEF DequeOK, InOrder, Positions
    <3>3. CASE j = Len(b) + 1
      BY <1>5, <1>7, <1>8, <3>1, <3>3
    <3> QED BY <1>7, <3>2, <3>3
  <2> QED BY <2>1, <2>2 DEF InOrder, Positions
<1>10. CountsRecent(w, s)'
  <2> SUFFICES ASSUME NEW q \in Requests, Uses(q, w, s), pc'[q] = "counting",
                      NEW i \in 1..Len(c)
               PROVE  admittedAt'[c[i]] + Window >= stamp[q]
    BY <1>3 DEF CountsRecent, Uses, Positions
  <2>1. pc[q] = "counting"
    BY <1>3
  <2>2. CASE i \in 1..Len(b)
    BY <1>4, <1>7, <1>8, <2>1, <2>2 DEF DequeOK, CountsRecent, Positions
  <2>3. CASE i = Len(b) + 1
    <3>1. c[i] = r
      BY <1>7, <2>3
    <3>2. admittedAt'[r] \in Nat /\ stamp[q] \in Nat /\ stamp[q] <= admittedAt'[r]
      BY <1>5
    <3> QED BY <3>1, <3>2, LimitsAreNatural
  <2> QED BY <1>7, <2>2, <2>3
<1>11. ASSUME <<w, s>> \notin raced PROVE Serial(w, s)'
  <2>1. Serial(w, s) /\ Serves(r, w, s)
    BY <1>3, <1>4, <1>11 DEF DequeOK, Serves, InFlight
  <2>2. /\ \A p \in Dropped(w, s) : stamp[p] + Window < stamp[r]
        /\ Len(b) < Max
    BY <1>3, <2>1 DEF Serial, HasReason
  <2>3. Dropped(w, s)' \subseteq Dropped(w, s)
    <3>1. Held(w, s) \subseteq Held(w, s)'
      <4> SUFFICES ASSUME NEW i \in 1..Len(b) PROVE b[i] \in Held(w, s)'
        BY DEF Held, Positions
      <4>1. i \in 1..Len(c) /\ c[i] = b[i]
        BY <1>7
      <4> QED BY <4>1 DEF Held, Positions
    <3>2. r \in Held(w, s)'
      <4>1. Len(b) + 1 \in 1..Len(c) /\ c[Len(b) + 1] = r
        BY <1>7
      <4> QED BY <4>1 DEF Held, Positions
    <3> QED BY <1>6, <3>1, <3>2 DEF Dropped
  <2>4. \A q \in Requests : ~Serves(q, w, s)'
    <3>1. \A q \in Requests : Serves(q, w, s)' => Serves(q, w, s) /\ q # r
      BY <1>3 DEF Serves, Uses, InFlight
    <3> QED BY <2>1, <3>1 DEF Serial
  <2>5. ASSUME NEW t \in Nat PROVE Cardinality(AdmittedFrom(w, s, t)') <= Max
    <3> DEFINE S == AdmittedFrom(w, s, t)
               T == AdmittedFrom(w, s, t)'
    <3>1. S \in SUBSET Requests /\ T \in SUBSET Requests
      BY <1>6 DEF AdmittedFrom
    <3>2. \A p \in T : /\ p \in Admitted(w, s) \/ p = r
                       /\ stamp[p] \in t..(t + Window)
      BY <1>3, <1>6 DEF AdmittedFrom
    <3>3. ASSUME r \notin T PROVE Cardinality(T) <= Max
      <4>1. T \subseteq S
        BY <3>2, <3>3 DEF AdmittedFrom
      <4>2. Cardinality(S) <= Max
        BY <2>1 DEF Serial
      <4>3. Cardinality(S) \in Nat /\ Cardinality(T) \in Nat /\ Cardinality(T) <= Cardinality(S)
        BY <3>1, <4>1, SizesOfRequests
      <4> HIDE DEF S, T
      <4> QED BY <4>2, <4>3, LimitsAreNatural
    <3>4. ASSUME r \in T PROVE Cardinality(T) <= Max
      <4>1. \A p \in T : p # r => p \in Held(w, s)
        <5> SUFFICES ASSUME NEW p \in T, p # r, p \notin Held(w, s) PROVE FALSE
          OBVIOUS
        <5>1. p \in Dropped(w, s) /\ p \in Requests
          BY <1>6, <3>2 DEF Dropped
        <5>2. stamp[p] >= t /\ stamp[r] <= t + Window
          BY <1>5, <3>2, <3>4, <5>1, LimitsAreNatural
        <5>3. stamp[p] + Window < stamp[r]
          BY <2>2, <5>1
        <5> QED BY <1>5, <5>1, <5>2, <5>3, LimitsAreNatural
      <4>2. T \subseteq Held(w, s) \union {r}
        BY <4>1
      <4>3. /\ Held(w, s) \subseteq Requests /\ IsFiniteSet(Held(w, s))
            /\ Cardinality(Held(w, s)) = Len(b)
        BY <1>4, HeldIsLen DEF DequeOK
      <4>4. r \notin Held(w, s)
        BY <1>8 DEF Held, Positions
      <4>5. Cardinality(Held(w, s) \union {r}) = Len(b) + 1
        BY <4>3, <4>4, FS_AddElement
      <4>6. Held(w, s) \union {r} \in SUBSET Requests
        BY <4>3
      <4>7. Cardinality(T) \in Nat /\ Cardinality(T) <= Cardinality(Held(w, s) \union {r})
        BY <4>2, <4>6, SizesOfRequests
      <4> HIDE DEF T
      <4> QED BY <1>7, <2>2, <4>5, <4>7, LimitsAreNatural
    <3> QED BY <3>3, <3>4
  <2>6. \A p \in Dropped(w, s)' : stamp[p] + Window < clock
    BY <2>1, <2>3 DEF Serial
  <2> QED BY <1>3, <2>4, <2>5, <2>6 DEF Serial
<1> QED BY <1>3, <1>9, <1>10, <1>11 DEF DequeOK

(***************************************************************************)
(* A request enters: if nobody else is being served, nothing that still    *)
(* counts for it has been dropped.                                         *)
(***************************************************************************)
LEMMA EnterKeeps ==
    ASSUME SubjectTypeOK, History, NEW r \in Requests, NEW v \in Workers, NEW t \in Subjects,
           Enter(r, v, t), present' = present \union {r}
    PROVE  History'
<1>1. /\ pc[r] = "idle" /\ pc' = [pc EXCEPT ![r] = "checking"]
      /\ worker' = [worker EXCEPT ![r] = v] /\ subject' = [subject EXCEPT ![r] = t]
      /\ stamp' = [stamp EXCEPT ![r] = clock]
      /\ clock' = clock /\ bucket' = bucket /\ admittedAt' = admittedAt
      /\ raced' = IF \E q \in Serving(v) : subject[q] = t
                  THEN raced \union {<<v, t>>} ELSE raced
  BY DEF Enter, GoTo
<1>2. /\ pc'[r] = "checking" /\ worker'[r] = v /\ subject'[r] = t /\ stamp'[r] = clock
      /\ \A q \in Requests \ {r} :
           /\ pc'[q] = pc[q] /\ worker'[q] = worker[q] /\ subject'[q] = subject[q]
           /\ stamp'[q] = stamp[q]
           /\ q \in present' <=> q \in present
  BY <1>1 DEF SubjectTypeOK, History, TimesInOrder
<1>3. TimesInOrder
  BY DEF History
<1>4. TimesInOrder'
  BY <1>1, <1>2, <1>3 DEF TimesInOrder, InFlight
<1>5. clock <= clock'
  BY <1>1, <1>3 DEF TimesInOrder
<1>6. pc[r] \notin Active /\ pc'[r] \in InFlight /\ pc'[r] \in Active
  BY <1>1, <1>2 DEF Active, InFlight
<1>7. ASSUME NEW w \in Workers, NEW s \in Subjects, ~(w = v /\ s = t)
      PROVE  DequeOK(w, s)'
  <2>1. <<w, s>> \in raced' <=> <<w, s>> \in raced
    BY <1>1, <1>7
  <2>2. ~Uses(r, w, s)'
    BY <1>2, <1>7 DEF Uses
  <2>3. \A q \in Requests \ {r} : Uses(q, w, s)' <=> Uses(q, w, s)
    BY <1>2 DEF Uses
  <2>4. LeftAlone(w, s)
    BY <1>1, <1>2, <1>6, <2>1, <2>2, <2>3 DEF LeftAlone
  <2> QED BY <1>3, <1>4, <1>5, <2>4, LeftAloneKeeps DEF History
<1>8. DequeOK(v, t)'
  <2>1. DequeOK(v, t)
    BY DEF History
  <2>2. /\ Admitted(v, t)' = Admitted(v, t) /\ Positions(v, t)' = Positions(v, t)
        /\ Held(v, t)' = Held(v, t) /\ Dropped(v, t)' = Dropped(v, t)
    <3>1. Admitted(v, t)' = Admitted(v, t)
      BY <1>1, <1>2, <1>3, <1>4 DEF Admitted, Uses, TimesInOrder
    <3> QED BY <1>1, <3>1 DEF Positions, Held, Dropped
  <2>3. \A p \in Admitted(v, t) : p \in Requests /\ p # r /\ stamp'[p] = stamp[p]
    BY <1>1, <1>2, <1>3 DEF Admitted, TimesInOrder
  <2>4. InOrder(v, t)'
    BY <1>1, <2>1, <2>2 DEF DequeOK, InOrder
  <2>5. CountsRecent(v, t)'
    <3>1. \A q \in Requests : Uses(q, v, t)' /\ pc'[q] = "counting" =>
            Uses(q, v, t) /\ pc[q] = "counting" /\ stamp'[q] = stamp[q]
      BY <1>2 DEF Uses
    <3>2. bucket' = bucket /\ admittedAt' = admittedAt /\ Positions(v, t)' = Positions(v, t)
      BY <1>1, <2>2
    <3> QED BY <2>1, <3>1, <3>2 DEF DequeOK, CountsRecent
  <2>6. ASSUME <<v, t>> \notin raced' PROVE Serial(v, t)'
    <3>1. <<v, t>> \notin raced /\ \A q \in Requests : ~Serves(q, v, t)
      BY <1>1, <2>6 DEF Serving, Serves, Uses
    <3>2. Serial(v, t)
      BY <2>1, <3>1 DEF DequeOK
    <3>3. \A q \in Requests : Serves(q, v, t)' => q = r
      BY <1>2, <3>1 DEF Serves, Uses
    <3>4. \A p \in Dropped(v, t) : stamp'[p] + Window < clock
      BY <2>3, <3>2 DEF Serial, Dropped
    <3>5. HasReason(r, v, t)'
      BY <1>2, <2>2, <3>4 DEF HasReason
    <3>6. \A u : AdmittedFrom(v, t, u)' = AdmittedFrom(v, t, u)
      BY <2>2, <2>3 DEF AdmittedFrom
    <3> QED BY <1>1, <2>2, <3>2, <3>3, <3>4, <3>5, <3>6 DEF Serial
  <2> QED BY <2>4, <2>5, <2>6 DEF DequeOK
<1> QED BY <1>4, <1>7, <1>8 DEF History

LEMMA ServeKeeps ==
    ASSUME SubjectTypeOK, History, NEW r \in Requests, Serve(r), UNCHANGED present
    PROVE  History'
<1>1. TimesInOrder'
  BY ServeKeepsTimes DEF History
<1>2. ASSUME NEW w \in Workers, NEW s \in Subjects PROVE DequeOK(w, s)'
  <2>1. CASE Uses(r, w, s)
    BY <2>1, LookKeeps, PopKeeps, AppendKeeps DEF Serve
  <2>2. CASE ~Uses(r, w, s)
    BY <2>2, ServeElsewhere
  <2> QED BY <2>1, <2>2
<1> QED BY <1>1, <1>2 DEF History

LEMMA TickKeeps ==
    ASSUME SubjectTypeOK, History, Tick \/ UNCHANGED limitVars, UNCHANGED present
    PROVE  History'
<1>1. /\ bucket' = bucket /\ pc' = pc /\ worker' = worker /\ subject' = subject
      /\ stamp' = stamp /\ admittedAt' = admittedAt /\ raced' = raced /\ present' = present
      /\ clock' = clock \/ clock' = clock + 1
  BY DEF Tick, limitVars, subjectVars, requestVars
<1>2. TimesInOrder
  BY DEF History
<1>3. clock \in Nat /\ clock' \in Nat /\ clock <= clock'
  BY <1>1, <1>2 DEF TimesInOrder
<1>4. TimesInOrder'
  <2>1. \A q \in Requests : stamp[q] <= clock' /\ admittedAt[q] <= clock'
    BY <1>2, <1>3 DEF TimesInOrder
  <2> QED BY <1>1, <1>2, <1>3, <2>1 DEF TimesInOrder
<1>5. \A w \in Workers, s \in Subjects : LeftAlone(w, s)
  BY <1>1 DEF LeftAlone, Uses
<1> QED BY <1>2, <1>3, <1>4, <1>5, LeftAloneKeeps DEF History

(***************************************************************************)
(* A new process has empty deques and serves nobody; the others go on.     *)
(***************************************************************************)
LEMMA RestartKeeps ==
    ASSUME SubjectTypeOK, History, NEW v \in Workers, Restart(v),
           present' = present \ ServedBy(v)
    PROVE  History'
<1>1. /\ bucket' = [bucket EXCEPT ![v] = [s \in Subjects |-> << >>]]
      /\ pc' = [r \in Requests |-> IF r \in Serving(v) THEN "lost" ELSE pc[r]]
      /\ raced' = {d \in raced : d[1] # v}
      /\ clock' = clock /\ worker' = worker /\ subject' = subject
      /\ stamp' = stamp /\ admittedAt' = admittedAt
  BY DEF Restart
<1>2. TimesInOrder
  BY DEF History
<1>3. \A q \in Requests : IF worker[q] = v /\ pc[q] \in InFlight
                          THEN pc'[q] = "lost" ELSE pc'[q] = pc[q]
  BY <1>1 DEF Serving
<1>4. \A q \in Requests : q \in present' <=>
        q \in present /\ ~(pc[q] # "idle" /\ worker[q] = v)
  BY DEF ServedBy
<1>5. TimesInOrder'
  <2>1. \A q \in Requests : /\ pc'[q] = "admitted" => pc[q] = "admitted"
                            /\ pc'[q] \in InFlight => pc[q] \in InFlight /\ worker[q] # v
    BY <1>3 DEF InFlight
  <2>2. present' \subseteq Requests
    BY <1>2 DEF TimesInOrder
  <2> QED BY <1>1, <1>2, <1>4, <2>1, <2>2 DEF TimesInOrder, InFlight
<1>6. clock <= clock'
  BY <1>1, <1>2 DEF TimesInOrder
<1>7. ASSUME NEW w \in Workers, NEW s \in Subjects, w # v PROVE DequeOK(w, s)'
  <2>1. bucket'[w][s] = bucket[w][s] /\ (<<w, s>> \in raced' <=> <<w, s>> \in raced)
    BY <1>1, <1>7 DEF SubjectTypeOK
  <2>2. LeftAlone(w, s)
    BY <1>1, <1>3, <1>4, <1>7, <2>1 DEF LeftAlone, Uses
  <2> QED BY <1>2, <1>5, <1>6, <2>2, LeftAloneKeeps DEF History
<1>8. ASSUME NEW s \in Subjects PROVE DequeOK(v, s)'
  <2>1. bucket'[v][s] = << >> /\ Len(bucket'[v][s]) = 0
    BY <1>1 DEF SubjectTypeOK
  <2>2. Positions(v, s)' = {}
    BY <2>1 DEF Positions
  <2>3. \A q \in Requests : ~Serves(q, v, s)' /\ ~(Uses(q, v, s)' /\ pc'[q] = "counting")
    BY <1>1, <1>3 DEF Serves, Uses, InFlight
  <2>4. Admitted(v, s)' = {}
    BY <1>1, <1>2, <1>3, <1>4, <1>5 DEF Admitted, Uses, InFlight, TimesInOrder
  <2>5. Dropped(v, s)' = {} /\ \A u : AdmittedFrom(v, s, u)' = {}
    BY <2>4 DEF Dropped, AdmittedFrom
  <2>6. Cardinality({}) <= Max
    BY FS_EmptySet, LimitsAreNatural
  <2>7. Serial(v, s)'
    BY <2>3, <2>5, <2>6 DEF Serial
  <2>8. InOrder(v, s)' /\ CountsRecent(v, s)'
    BY <2>2, <2>3 DEF InOrder, CountsRecent
  <2> QED BY <2>7, <2>8 DEF DequeOK
<1> QED BY <1>5, <1>7, <1>8 DEF History

LEMMA HistoryInit == LimitInit => History
<1> SUFFICES ASSUME LimitInit PROVE History
  OBVIOUS
<1>1. /\ clock = 0 /\ present = {} /\ raced = {}
      /\ pc = [r \in Requests |-> "idle"]
      /\ stamp = [r \in Requests |-> 0] /\ admittedAt = [r \in Requests |-> 0]
      /\ bucket = [w \in Workers |-> [s \in Subjects |-> << >>]]
  BY DEF LimitInit, SubjectInit
<1>2. TimesInOrder
  BY <1>1 DEF TimesInOrder, InFlight
<1>3. ASSUME NEW w \in Workers, NEW s \in Subjects PROVE DequeOK(w, s)
  <2>1. Positions(w, s) = {}
    BY <1>1 DEF Positions
  <2>2. Admitted(w, s) = {}
    BY <1>1 DEF Admitted
  <2>3. Dropped(w, s) = {} /\ \A u : AdmittedFrom(w, s, u) = {}
    BY <2>2 DEF Dropped, AdmittedFrom
  <2>4. \A q \in Requests : ~Serves(q, w, s) /\ pc[q] # "counting"
    BY <1>1 DEF Serves, InFlight
  <2>5. Cardinality({}) <= Max
    BY FS_EmptySet, LimitsAreNatural
  <2> QED BY <2>1, <2>3, <2>4, <2>5 DEF DequeOK, InOrder, CountsRecent, Serial
<1> QED BY <1>2, <1>3 DEF History

LEMMA HistoryNext ==
    ASSUME SubjectTypeOK, History, [LimitNext]_limitVars
    PROVE  History'
<1>1. CASE UNCHANGED limitVars
  BY <1>1, TickKeeps DEF limitVars
<1>2. CASE LimitNext
  BY <1>2, EnterKeeps, ServeKeeps, TickKeeps, RestartKeeps DEF LimitNext
<1> QED BY <1>1, <1>2

(***************************************************************************)
(* What the deques of the running processes remember, always.              *)
(***************************************************************************)
THEOREM Remembered == LimitSpec => [](SubjectTypeOK /\ History)
<1>1. LimitInit => History
  BY HistoryInit
<1>2. SubjectTypeOK /\ History /\ [LimitNext]_limitVars => History'
  BY HistoryNext
<1> QED BY <1>1, <1>2, LimiterTypeCorrect, PTL DEF LimitSpec

(***************************************************************************)
(* Where no two requests of a subject were served at the same time, its    *)
(* limit is exact, for any number of workers, threads and requests.        *)
(***************************************************************************)
THEOREM LimitIsExactInSeries == LimitSpec => []SerialLimit
<1>1. ASSUME SubjectTypeOK, History PROVE SerialLimit
  <2> SUFFICES ASSUME NEW w \in Workers, NEW s \in Subjects, <<w, s>> \notin raced,
                      NEW q \in Admitted(w, s)
               PROVE  Cardinality({p \in Admitted(w, s) :
                          stamp[p] \in stamp[q]..(stamp[q] + Window)}) <= Max
    BY DEF SerialLimit
  <2>1. stamp[q] \in Nat
    BY <1>1 DEF History, TimesInOrder, Admitted
  <2>2. Cardinality(AdmittedFrom(w, s, stamp[q])) <= Max
    BY <1>1, <2>1 DEF History, DequeOK, Serial
  <2> QED BY <2>2 DEF AdmittedFrom
<1> QED BY <1>1, Remembered, PTL

(***************************************************************************)
(* A request is refused by its own count, of requests that are all recent. *)
(***************************************************************************)
LEMMA RefusalStep ==
    ASSUME SubjectTypeOK, History, [LimitNext]_limitVars,
           NEW r \in Requests, pc[r] = "counting", pc'[r] = "refused"
    PROVE  Cardinality({q \in Admitted(worker[r], subject[r]) :
                          admittedAt[q] + Window >= stamp[r]}) >= Max
<1> DEFINE w == worker[r]
           s == subject[r]
           b == bucket[w][s]
           S == {q \in Admitted(w, s) : admittedAt[q] + Window >= stamp[r]}
<1>1. Count(r)
  <2>1. ASSUME NEW q \in Requests, NEW v \in Workers, NEW t \in Subjects, Enter(q, v, t)
        PROVE  FALSE
    BY <2>1 DEF Enter, GoTo, SubjectTypeOK
  <2>2. ASSUME NEW q \in Requests, Serve(q) PROVE q = r /\ Count(r)
    <3>1. q = r
      BY <2>2, ServeWrites
    <3> QED BY <2>2, <3>1 DEF Serve, CheckEmpty, LookAtOldest, PopOldest, AppendNow
  <2>3. ASSUME NEW v \in Workers, Restart(v) PROVE FALSE
    BY <2>3 DEF Restart
  <2>4. pc' # pc
    OBVIOUS
  <2> QED BY <2>1, <2>2, <2>3, <2>4
          DEF LimitNext, Tick, limitVars, subjectVars, requestVars
<1>2. w \in Workers /\ s \in Subjects /\ Uses(r, w, s) /\ b \in Seq(Requests) /\ Bucket(r) = b
  BY DEF SubjectTypeOK, Uses, Bucket
<1>3. InOrder(w, s) /\ CountsRecent(w, s)
  BY <1>2 DEF History, DequeOK
<1>4. Len(b) >= Max /\ Len(b) \in Nat
  BY <1>1, <1>2 DEF Count, GoTo, SubjectTypeOK
<1>5. Held(w, s) \subseteq S
  BY <1>2, <1>3 DEF Held, InOrder, CountsRecent
<1>6. S \in SUBSET Requests
  BY DEF History, TimesInOrder, Admitted
<1>7. Cardinality(Held(w, s)) = Len(b)
  BY <1>2, <1>3, HeldIsLen
<1>8. Cardinality(S) \in Nat /\ Cardinality(Held(w, s)) <= Cardinality(S)
  BY <1>5, <1>6, SizesOfRequests
<1>9. Cardinality(S) >= Max
  <2> HIDE DEF S, w, s, b
  <2> QED BY <1>4, <1>7, <1>8, LimitsAreNatural
<1> QED BY <1>9

(***************************************************************************)
(* However the threads cut into each other, a request is refused only      *)
(* because Max requests of its subject were admitted in the window before  *)
(* it.                                                                     *)
(***************************************************************************)
THEOREM RefusalsAreDeserved == LimitSpec => RefusalIsDeserved
<1>1. SubjectTypeOK /\ History /\ [LimitNext]_limitVars =>
        [\A r \in Requests : pc[r] = "counting" /\ pc'[r] = "refused" =>
           Cardinality({q \in Admitted(worker[r], subject[r]) :
                          admittedAt[q] + Window >= stamp[r]}) >= Max]_limitVars
  BY RefusalStep
<1> QED BY <1>1, Remembered, PTL DEF LimitSpec, RefusalIsDeserved
=============================================================================
