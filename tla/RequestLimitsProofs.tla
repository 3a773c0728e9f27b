------------------------- MODULE RequestLimitsProofs -------------------------
(***************************************************************************)
(* Proofs about IpRateLimit, for any number of requests, workers and       *)
(* addresses, any limits and any failures of Redis; and about              *)
(* RequestLimits, where the limit per subject is behind it: together they  *)
(* are what each is alone.                                                 *)
(***************************************************************************)
EXTENDS RequestLimits, FiniteSetTheorems, TLAPS

(***************************************************************************)
(* The parts of the inductive invariant.                                   *)
(***************************************************************************)

(* What has happened is not in the future; an idle request has no path.    *)
NothingAhead ==
    /\ clock \in 0..LastTick
    /\ present \subseteq Requests
    /\ \A w \in Workers : connection[w] \in Nat => connection[w] <= clock
    /\ \A r \in Requests :
         /\ arrivedAt[r] <= clock
         /\ verdict[r] = "idle" => path[r] = "none"

(* The requests of an address that Redis let pass in a minute are counted  *)
(* in its key at least until that minute is over: a key that is dropped    *)
(* was written KeyTtl earlier, in an earlier minute.                       *)
PassedInMinute(a, m) == {r \in Passed("redis", a) : Minute(arrivedAt[r]) = m}

KeysCount ==
    \A a \in Addresses, m \in Minutes :
        /\ Cardinality(PassedInMinute(a, m)) <= IpMax
        /\ m >= Minute(clock) => Cardinality(PassedInMinute(a, m)) <= counts[a][m].n
        /\ counts[a][m].n > 0 /\ counts[a][m].until # Forever =>
             \E c \in 0..clock : Minute(c) = m /\ counts[a][m].until = c + KeyTtl

(* The requests of an address that a running process let pass from memory  *)
(* are in its deque as long as they count.                                 *)
PassedFrom(w, a) == {r \in Passed("memory", a) \intersect present : via[r] = w}

PassedWithin(w, a, s) == {r \in PassedFrom(w, a) : arrivedAt[r] \in s..(s + IpWindow)}

DequesCount ==
    \A w \in Workers, a \in Addresses :
        /\ \A r \in PassedFrom(w, a) : clock - arrivedAt[r] <= IpWindow => r \in hits[w][a]
        /\ \A s \in 0..LastTick : Cardinality(PassedWithin(w, a, s)) <= IpMax

(* A worker that let a request pass uncounted has lost Redis since, or     *)
(* found it again RetryAfter later.                                        *)
FailuresRemembered ==
    \A r \in present : path[r] = "open" =>
        /\ connection[via[r]] # Unconfigured
        /\ connection[via[r]] \in Nat => arrivedAt[r] <= connection[via[r]]
        /\ connection[via[r]] = Connected => clock - arrivedAt[r] >= RetryAfter

IInv ==
    /\ IpTypeOK
    /\ NothingAhead
    /\ KeysCount
    /\ DequesCount
    /\ FailuresRemembered
    /\ FailsOpenRarely
    /\ LeakedKeysFollowFailures

-----------------------------------------------------------------------------
(***************************************************************************)
(* Minutes follow each other, and a minute is over a window later.         *)
(***************************************************************************)
LEMMA MinuteIsNatural ==
    ASSUME NEW t \in Nat
    PROVE  /\ Minute(t) \in Nat
           /\ IpWindow * Minute(t) <= t
           /\ t < IpWindow * Minute(t) + IpWindow
  BY IpLimitsAreNatural DEF Minute

LEMMA MinutesGrow ==
    ASSUME NEW t \in Nat, NEW u \in Nat, t <= u
    PROVE  Minute(t) <= Minute(u)
<1> DEFINE m == Minute(t)
           n == Minute(u)
<1>1. /\ m \in Nat /\ IpWindow * m <= t
      /\ n \in Nat /\ u < IpWindow * n + IpWindow
  BY MinuteIsNatural
<1>2. IpWindow * m < IpWindow * n + IpWindow
  BY <1>1, IpLimitsAreNatural
<1> HIDE DEF m, n
<1>3. m < n + 1
  <2> SUFFICES ASSUME n + 1 <= m PROVE FALSE
    BY <1>1
  <2>1. IpWindow * (n + 1) <= IpWindow * m
    BY <1>1, IpLimitsAreNatural
  <2> QED  BY <1>1, <1>2, <2>1, IpLimitsAreNatural
<1> QED  BY <1>1, <1>3 DEF m, n

LEMMA MinuteEnds ==
    ASSUME NEW t \in Nat, NEW u \in Nat, t + IpWindow <= u
    PROVE  Minute(t) < Minute(u)
<1> DEFINE m == Minute(t)
           n == Minute(u)
<1>1. /\ m \in Nat /\ IpWindow * m <= t
      /\ n \in Nat /\ u < IpWindow * n + IpWindow
  BY MinuteIsNatural
<1>2. IpWindow * m < IpWindow * n
  BY <1>1, IpLimitsAreNatural
<1> HIDE DEF m, n
<1>3. m < n
  <2> SUFFICES ASSUME n <= m PROVE FALSE
    BY <1>1
  <2>1. IpWindow * n <= IpWindow * m
    BY <1>1, IpLimitsAreNatural
  <2> QED  BY <1>1, <1>2, <2>1, IpLimitsAreNatural
<1> QED  BY <1>3 DEF m, n

LEMMA ThisMinute ==
    ASSUME NEW t \in 0..LastTick
    PROVE  Minute(t) \in Minutes
  BY MinuteIsNatural, MinutesGrow, TicksAreNumbers DEF Minutes

(***************************************************************************)
(* The counted sets are finite.                                            *)
(***************************************************************************)
LEMMA RequestsCount ==
    ASSUME NEW S \in SUBSET Requests
    PROVE  IsFiniteSet(S) /\ Cardinality(S) \in Nat
  BY RequestsAreFinite, FS_Subset, FS_CardinalityType

LEMMA OneMore ==
    ASSUME NEW S \in SUBSET Requests, NEW T \in SUBSET Requests, NEW r,
           T \subseteq S \union {r}
    PROVE  Cardinality(T) <= Cardinality(S) + 1
<1>1. IsFiniteSet(S) /\ Cardinality(S) \in Nat /\ IsFiniteSet(T) /\ Cardinality(T) \in Nat
  BY RequestsCount
<1>2. /\ IsFiniteSet(S \union {r})
      /\ Cardinality(S \union {r}) <= Cardinality(S) + 1
  BY <1>1, FS_AddElement
<1>3. Cardinality(T) <= Cardinality(S \union {r}) /\ Cardinality(S \union {r}) \in Nat
  BY <1>2, FS_Subset, FS_CardinalityType
<1> QED  BY <1>1, <1>2, <1>3

-----------------------------------------------------------------------------
(***************************************************************************)
(* A decision writes the one request that it is about.                     *)
(***************************************************************************)
LEMMA DecideWrites ==
    ASSUME IpTypeOK, NothingAhead, NEW r \in Requests, verdict[r] = "idle",
           NEW w \in Workers, NEW a \in Addresses, NEW v \in {"passed", "limited"},
           NEW p \in {"redis", "open", "memory"},
           Decide(r, w, a, v, p)
    PROVE  /\ verdict' \in [Requests -> {"idle", "passed", "limited"}]
           /\ path' \in [Requests -> {"none", "redis", "open", "memory"}]
           /\ address' \in [Requests -> Addresses \union {Unknown}]
           /\ via' \in [Requests -> Workers]
           /\ arrivedAt' \in [Requests -> 0..LastTick]
           /\ verdict'[r] = v /\ path'[r] = p /\ address'[r] = a /\ via'[r] = w
           /\ arrivedAt'[r] = clock
           /\ \A q \in Requests \ {r} :
                /\ verdict'[q] = verdict[q] /\ path'[q] = path[q]
                /\ address'[q] = address[q] /\ via'[q] = via[q]
                /\ arrivedAt'[q] = arrivedAt[q]
  BY DEF IpTypeOK, NothingAhead, Decide

(***************************************************************************)
(* What a dispatched request may have met.                                 *)
(***************************************************************************)
LEMMA DispatchCases ==
    ASSUME IpTypeOK, NothingAhead, NEW r \in Requests, Dispatch(r)
    PROVE  \E w \in Workers, a \in Addresses :
             \E c \in {Connected, Unconfigured} \union 0..LastTick :
               /\ c \in AfterReconnect(w)
               /\ \/ c = Connected /\ CountInRedis(r, w, a)
                  \/ c = Connected /\ RedisFails(r, w, a)
                  \/ c # Connected /\ CountInMemory(r, w, a, c)
<1>1. PICK w \in Workers, o \in Origins : \E c \in AfterReconnect(w) :
        IF c = Connected THEN CountInRedis(r, w, ClientIp(o)) \/ RedisFails(r, w, ClientIp(o))
        ELSE CountInMemory(r, w, ClientIp(o), c)
  BY DEF Dispatch
<1>2. ClientIp(o) \in Addresses
  BY DEF Addresses
<1>3. AfterReconnect(w) \subseteq {Connected, Unconfigured} \union 0..LastTick
  BY DEF AfterReconnect, IpTypeOK, NothingAhead
<1> QED  BY <1>1, <1>2, <1>3

(***************************************************************************)
(* INCR and EXPIRE write one key.                                          *)
(***************************************************************************)
LEMMA IncrementWrites ==
    ASSUME IpTypeOK, NothingAhead, NEW a \in Addresses, NEW ttl \in Nat \union {Forever}
    PROVE  LET d == Incremented(a, ttl)
               m == Minute(clock)
           IN  /\ d \in [Addresses -> [Minutes -> Key]]
               /\ d[a][m].n = counts[a][m].n + 1
               /\ d[a][m].until = IF counts[a][m].n = 0 THEN ttl ELSE counts[a][m].until
               /\ \A b \in Addresses, l \in Minutes :
                    b # a \/ l # m => d[b][l] = counts[b][l]
<1> DEFINE m == Minute(clock)
           k == counts[a][m]
           j == [n |-> k.n + 1, until |-> IF k.n = 0 THEN ttl ELSE k.until]
           d == Incremented(a, ttl)
<1>1. m \in Minutes
  BY ThisMinute DEF NothingAhead
<1>2. counts \in [Addresses -> [Minutes -> Key]] /\ k \in Key
  BY <1>1 DEF IpTypeOK
<1>3. j \in Key /\ j.n = k.n + 1 /\ j.until = IF k.n = 0 THEN ttl ELSE k.until
  BY <1>2 DEF Key
<1>4. d = [counts EXCEPT ![a][m] = j]
  BY DEF Incremented
<1> HIDE DEF j, m, d
<1>5. /\ d \in [Addresses -> [Minutes -> Key]] /\ d[a][m] = j
      /\ \A b \in Addresses, l \in Minutes : b # a \/ l # m => d[b][l] = counts[b][l]
  BY <1>1, <1>2, <1>3, <1>4
<1> QED  BY <1>3, <1>5 DEF d, m

LEMMA DispatchKeepsTypes ==
    ASSUME IpTypeOK, NothingAhead, NEW r \in Requests, Dispatch(r)
    PROVE  IpTypeOK' /\ NothingAhead'
<1>1. PICK w \in Workers, a \in Addresses, c \in {Connected, Unconfigured} \union 0..LastTick :
        /\ c \in AfterReconnect(w)
        /\ \/ c = Connected /\ CountInRedis(r, w, a)
           \/ c = Connected /\ RedisFails(r, w, a)
           \/ c # Connected /\ CountInMemory(r, w, a, c)
  BY DispatchCases
<1>2. verdict[r] = "idle" /\ present' = present \union {r} /\ clock' = clock
  BY DEF Dispatch
<1>3. \E v \in {"passed", "limited"}, p \in {"redis", "open", "memory"} : Decide(r, w, a, v, p)
  BY <1>1 DEF CountInRedis, RedisFails, CountInMemory
<1>4. \/ counts' = counts
      \/ \E ttl \in Nat \union {Forever} : counts' = Incremented(a, ttl)
  <2>1. clock + KeyTtl \in Nat
    BY IpLimitsAreNatural, TicksAreNumbers DEF NothingAhead
  <2> QED  BY <1>1, <2>1 DEF CountInRedis, RedisFails, CountInMemory
<1>5. counts' \in [Addresses -> [Minutes -> Key]]
  BY <1>4, IncrementWrites DEF IpTypeOK
<1>6. \E l \in {Connected, clock} \union {c} : connection' = [connection EXCEPT ![w] = l]
  BY <1>1 DEF CountInRedis, RedisFails, CountInMemory
<1>7. c \in Nat => c <= clock
  BY <1>1, MarksAreNotTimes DEF AfterReconnect, NothingAhead
<1>8. /\ connection' \in [Workers -> {Connected, Unconfigured} \union 0..LastTick]
      /\ \A u \in Workers : connection'[u] \in Nat => connection'[u] <= clock
  BY <1>6, <1>7, MarksAreNotTimes DEF IpTypeOK, NothingAhead
<1>9. hits' \in [Workers -> [Addresses -> SUBSET Requests]]
  <2>1. Recent(w, a) \in SUBSET Requests /\ Recent(w, a) \union {r} \in SUBSET Requests
    BY DEF Recent, IpTypeOK
  <2>2. \/ hits' = hits
        \/ hits' = [hits EXCEPT ![w][a] = Recent(w, a)]
        \/ hits' = [hits EXCEPT ![w][a] = Recent(w, a) \union {r}]
    BY <1>1 DEF CountInRedis, RedisFails, CountInMemory
  <2>3. ASSUME NEW S \in SUBSET Requests
        PROVE  [hits EXCEPT ![w][a] = S] \in [Workers -> [Addresses -> SUBSET Requests]]
    BY DEF IpTypeOK
  <2>4. hits \in [Workers -> [Addresses -> SUBSET Requests]]
    BY DEF IpTypeOK
  <2> QED  BY <2>1, <2>2, <2>3, <2>4
<1>10. /\ verdict' \in [Requests -> {"idle", "passed", "limited"}]
       /\ path' \in [Requests -> {"none", "redis", "open", "memory"}]
       /\ address' \in [Requests -> Addresses \union {Unknown}]
       /\ via' \in [Requests -> Workers]
       /\ arrivedAt' \in [Requests -> 0..LastTick]
       /\ \A q \in Requests : /\ arrivedAt'[q] <= clock
                              /\ verdict'[q] = "idle" => path'[q] = "none"
  <2>1. PICK v \in {"passed", "limited"}, p \in {"redis", "open", "memory"} :
          Decide(r, w, a, v, p)
    BY <1>3
  <2> QED  BY <1>2, <2>1, DecideWrites DEF NothingAhead
<1>11. IpTypeOK'
  BY <1>5, <1>8, <1>9, <1>10 DEF IpTypeOK, Key, Addresses, ClientIp, ForwardedIp, Minutes, Minute
<1> QED  BY <1>2, <1>8, <1>10, <1>11 DEF NothingAhead

(***************************************************************************)
(* A request that Redis let pass has been counted in the minute's key;     *)
(* nobody else is counted less, and no key loses the time it was given.    *)
(***************************************************************************)
LEMMA DispatchKeepsKeys ==
    ASSUME IpTypeOK, NothingAhead, KeysCount, NEW r \in Requests, Dispatch(r)
    PROVE  KeysCount'
<1> DEFINE now == Minute(clock)
<1>1. PICK w \in Workers, a \in Addresses, c \in {Connected, Unconfigured} \union 0..LastTick :
        \/ CountInRedis(r, w, a)
        \/ RedisFails(r, w, a)
        \/ CountInMemory(r, w, a, c)
  BY DispatchCases
<1>2. verdict[r] = "idle" /\ clock' = clock /\ clock \in 0..LastTick /\ now \in Minutes
  BY ThisMinute DEF Dispatch, NothingAhead
<1>3. \/ counts' = counts
      \/ \E ttl \in {Forever, clock + KeyTtl} : counts' = Incremented(a, ttl)
  BY <1>1 DEF CountInRedis, RedisFails, CountInMemory
<1>4. clock + KeyTtl \in Nat
  BY <1>2, IpLimitsAreNatural, TicksAreNumbers
<1>5. \A b \in Addresses, l \in Minutes : counts[b][l] \in Key /\ counts[b][l].n \in Nat
  BY DEF IpTypeOK, Key
<1>6. ASSUME NEW b \in Addresses, NEW l \in Minutes
      PROVE  /\ counts'[b][l].n \in Nat
             /\ counts'[b][l].n >= counts[b][l].n
             /\ counts'[b][l].n > 0 /\ counts'[b][l].until # Forever =>
                  \E d \in 0..clock : Minute(d) = l /\ counts'[b][l].until = d + KeyTtl
  <2>1. CASE counts' = counts
    BY <1>5, <2>1 DEF KeysCount
  <2>2. CASE counts' # counts
    <3> PICK ttl \in {Forever, clock + KeyTtl} : counts' = Incremented(a, ttl)
      BY <1>3, <2>2
    <3>1. /\ counts'[a][now].n = counts[a][now].n + 1
          /\ counts'[a][now].until = IF counts[a][now].n = 0 THEN ttl ELSE counts[a][now].until
          /\ b # a \/ l # now => counts'[b][l] = counts[b][l]
      <4> DEFINE d == Incremented(a, ttl)
      <4>1. ttl \in Nat \union {Forever}
        BY <1>4
      <4>2. /\ d[a][now].n = counts[a][now].n + 1
            /\ d[a][now].until = IF counts[a][now].n = 0 THEN ttl ELSE counts[a][now].until
            /\ b # a \/ l # now => d[b][l] = counts[b][l]
        <5> HIDE DEF KeysCount, Dispatch
        <5> QED  BY <4>1, IncrementWrites
      <4>3. counts' = d
        OBVIOUS
      <4> HIDE DEF d, now
      <4> QED  BY <4>2, <4>3
    <3>2. CASE b = a /\ l = now
      <4>1. counts'[b][l].n \in Nat /\ counts'[b][l].n >= counts[b][l].n
        BY <1>5, <3>1, <3>2
      <4>2. CASE counts[a][now].n = 0
        BY <1>2, <3>1, <3>2, <4>1, <4>2
      <4>3. CASE counts[a][now].n # 0
        BY <1>5, <3>1, <3>2, <4>1, <4>3 DEF KeysCount
      <4> QED  BY <4>2, <4>3
    <3>3. CASE b # a \/ l # now
      BY <1>5, <3>1, <3>3 DEF KeysCount
    <3> QED  BY <3>2, <3>3
  <2> QED  BY <2>1, <2>2
<1>7. PICK v \in {"passed", "limited"}, p \in {"redis", "open", "memory"} :
        /\ Decide(r, w, a, v, p)
        /\ p = "redis" /\ v = "passed" =>
             /\ counts' = Incremented(a, clock + KeyTtl)
             /\ ~(counts'[a][now].n > IpMax)
  BY <1>1 DEF CountInRedis, RedisFails, CountInMemory
<1>8. /\ verdict'[r] = v /\ path'[r] = p /\ address'[r] = a /\ arrivedAt'[r] = clock
      /\ \A q \in Requests \ {r} :
           /\ verdict'[q] = verdict[q] /\ path'[q] = path[q]
           /\ address'[q] = address[q] /\ arrivedAt'[q] = arrivedAt[q]
  BY <1>2, <1>7, DecideWrites
<1>9. ASSUME NEW b \in Addresses, NEW l \in Minutes
      PROVE  /\ Cardinality(PassedInMinute(b, l)') <= IpMax
             /\ l >= now => Cardinality(PassedInMinute(b, l)') <= counts'[b][l].n
  <2> DEFINE S == PassedInMinute(b, l)
             T == PassedInMinute(b, l)'
             Counted == /\ Cardinality(T) <= IpMax
                        /\ l >= now => Cardinality(T) <= counts'[b][l].n
  <2>0. \A q \in Requests :
          /\ q \in S <=> /\ verdict[q] = "passed" /\ path[q] = "redis"
                         /\ address[q] = b /\ Minute(arrivedAt[q]) = l
          /\ q \in T <=> /\ verdict'[q] = "passed" /\ path'[q] = "redis"
                         /\ address'[q] = b /\ Minute(arrivedAt'[q]) = l
    BY DEF PassedInMinute, Passed, Minute
  <2>1. S \subseteq Requests /\ T \subseteq Requests
    BY DEF PassedInMinute, Passed
  <2>2. /\ Cardinality(S) \in Nat /\ Cardinality(T) \in Nat
        /\ Cardinality(S) <= IpMax
        /\ l >= now => Cardinality(S) <= counts[b][l].n
    BY <2>1, RequestsCount DEF KeysCount
  <2>3. ASSUME v = "passed" /\ p = "redis" /\ b = a /\ l = now
        PROVE  Counted
    <3>1. T \subseteq S \union {r}
      BY <1>8, <2>0, <2>1
    <3>2. Cardinality(T) <= Cardinality(S) + 1
      BY <2>1, <3>1, OneMore
    <3>3. counts'[a][now].n = counts[a][now].n + 1 /\ ~(counts'[a][now].n > IpMax)
      BY <1>4, <1>7, <2>3, IncrementWrites
    <3>4. now \in Nat
      BY <1>2 DEF Minutes
    <3> HIDE DEF S, T, now
    <3> QED  BY <1>5, <2>2, <2>3, <3>2, <3>3, <3>4, IpLimitsAreNatural
  <2>4. ASSUME ~(v = "passed" /\ p = "redis" /\ b = a /\ l = now)
        PROVE  Counted
    <3>1. T \subseteq S
      <4> SUFFICES ASSUME NEW q \in T PROVE q \in S
        OBVIOUS
      <4>1. q \in Requests
        BY <2>1
      <4>2. CASE q = r
        BY <1>8, <2>0, <2>4, <4>1, <4>2
      <4>3. CASE q # r
        BY <1>8, <2>0, <4>1, <4>3
      <4> QED  BY <4>2, <4>3
    <3>2. Cardinality(T) <= Cardinality(S)
      BY <2>1, <3>1, RequestsCount, FS_Subset
    <3>3. counts[b][l].n \in Nat /\ counts'[b][l].n \in Nat /\ counts'[b][l].n >= counts[b][l].n
      BY <1>5, <1>6
    <3> HIDE DEF S, T, now
    <3> QED  BY <2>2, <3>2, <3>3, IpLimitsAreNatural
  <2> QED  BY <2>3, <2>4
<1>10. Addresses' = Addresses /\ Minutes' = Minutes /\ Minute(clock)' = now
  BY <1>2 DEF Addresses, ClientIp, ForwardedIp, Minutes, Minute
<1> HIDE DEF now
<1>11. \A b \in Addresses, l \in Minutes :
         /\ Cardinality(PassedInMinute(b, l)') <= IpMax
         /\ l >= now => Cardinality(PassedInMinute(b, l)') <= counts'[b][l].n
         /\ counts'[b][l].n > 0 /\ counts'[b][l].until # Forever =>
              \E d \in 0..clock : Minute(d) = l /\ counts'[b][l].until = d + KeyTtl
  BY <1>6, <1>9
<1> QED  BY <1>2, <1>10, <1>11 DEF KeysCount, Minute

(***************************************************************************)
(* A key only loses its time to live to a worker that failed.              *)
(***************************************************************************)
LEMMA DispatchLeaksByFailing ==
    ASSUME IpTypeOK, NothingAhead, LeakedKeysFollowFailures, NEW r \in Requests, Dispatch(r)
    PROVE  LeakedKeysFollowFailures'
<1> DEFINE now == Minute(clock)
<1>1. PICK w \in Workers, a \in Addresses, c \in {Connected, Unconfigured} \union 0..LastTick :
        \/ CountInRedis(r, w, a)
        \/ RedisFails(r, w, a)
        \/ CountInMemory(r, w, a, c)
  BY DispatchCases
<1>2. verdict[r] = "idle" /\ clock' = clock /\ clock \in 0..LastTick /\ now \in Minutes
  BY ThisMinute DEF Dispatch, NothingAhead
<1>3. PICK v \in {"passed", "limited"}, p \in {"redis", "open", "memory"} :
        /\ Decide(r, w, a, v, p)
        /\ \/ counts' \in {counts, Incremented(a, clock + KeyTtl)}
           \/ counts' = Incremented(a, Forever) /\ p = "open"
  BY <1>1 DEF CountInRedis, RedisFails, CountInMemory
<1>4. /\ path'[r] = p /\ address'[r] = a /\ arrivedAt'[r] = clock
      /\ \A q \in Requests \ {r} :
           path'[q] = path[q] /\ address'[q] = address[q] /\ arrivedAt'[q] = arrivedAt[q]
  BY <1>2, <1>3, DecideWrites
<1>5. clock + KeyTtl \in Nat /\ clock + KeyTtl # Forever
  BY <1>2, IpLimitsAreNatural, TicksAreNumbers, MarksAreNotTimes
<1>6. path[r] = "none"
  BY <1>2 DEF NothingAhead
<1>7. ASSUME NEW b \in Addresses, NEW l \in Minutes, counts'[b][l].until = Forever
      PROVE  \E q \in Requests : /\ path'[q] = "open" /\ address'[q] = b
                                 /\ Minute(arrivedAt'[q]) = l
  <2>1. CASE counts[b][l].until = Forever
    <3>1. PICK q \in Requests :
            path[q] = "open" /\ address[q] = b /\ Minute(arrivedAt[q]) = l
      BY <2>1 DEF LeakedKeysFollowFailures
    <3> QED  BY <1>4, <1>6, <3>1
  <2>2. CASE counts[b][l].until # Forever
    <3>1. PICK ttl \in {clock + KeyTtl, Forever} :
            counts' = Incremented(a, ttl) /\ (ttl = Forever => p = "open")
      BY <1>3, <1>5, <1>7, <2>2
    <3>2. b = a /\ l = now
      BY <1>5, <1>7, <2>2, <3>1, IncrementWrites
    <3>3. counts'[a][now].until = IF counts[a][now].n = 0 THEN ttl ELSE counts[a][now].until
      BY <1>5, <3>1, IncrementWrites
    <3>4. p = "open"
      BY <1>5, <1>7, <2>2, <3>1, <3>2, <3>3
    <3> QED  BY <1>4, <3>2, <3>4
  <2> QED  BY <2>1, <2>2
<1>8. Addresses' = Addresses /\ Minutes' = Minutes
  BY DEF Addresses, ClientIp, ForwardedIp, Minutes, Minute
<1> QED  BY <1>7, <1>8 DEF LeakedKeysFollowFailures, Minute

(***************************************************************************)
(* A deque holds whoever passed in the last window, so a request that      *)
(* memory lets pass finds fewer than IpMax of them.                        *)
(***************************************************************************)
LEMMA DispatchKeepsDeques ==
    ASSUME IpTypeOK, NothingAhead, DequesCount, NEW r \in Requests, Dispatch(r)
    PROVE  DequesCount'
<1>1. PICK w \in Workers, a \in Addresses, c \in {Connected, Unconfigured} \union 0..LastTick :
        \/ CountInRedis(r, w, a)
        \/ RedisFails(r, w, a)
        \/ CountInMemory(r, w, a, c)
  BY DispatchCases
<1>2. /\ verdict[r] = "idle" /\ clock' = clock /\ clock \in 0..LastTick /\ clock \in Nat
      /\ present' = present \union {r}
  BY TicksAreNumbers DEF Dispatch, NothingAhead
<1>3. PICK v \in {"passed", "limited"}, p \in {"redis", "open", "memory"} :
        /\ Decide(r, w, a, v, p)
        /\ \/ hits' = hits /\ p # "memory"
           \/ hits' = [hits EXCEPT ![w][a] = Recent(w, a)] /\ v = "limited"
           \/ /\ hits' = [hits EXCEPT ![w][a] = Recent(w, a) \union {r}]
              /\ ~(Cardinality(Recent(w, a)) >= IpMax)
  BY <1>1 DEF CountInRedis, RedisFails, CountInMemory
<1>4. /\ verdict'[r] = v /\ path'[r] = p /\ address'[r] = a /\ via'[r] = w
      /\ arrivedAt'[r] = clock
      /\ \A q \in Requests \ {r} :
           /\ verdict'[q] = verdict[q] /\ path'[q] = path[q] /\ via'[q] = via[q]
           /\ address'[q] = address[q] /\ arrivedAt'[q] = arrivedAt[q]
  BY <1>2, <1>3, DecideWrites
<1>5. \A q \in Requests : arrivedAt[q] \in 0..LastTick /\ arrivedAt[q] \in Nat
  BY TicksAreNumbers DEF IpTypeOK
<1>6. hits \in [Workers -> [Addresses -> SUBSET Requests]]
  BY DEF IpTypeOK
<1>7. Recent(w, a) \in SUBSET Requests
  BY <1>6 DEF Recent
<1>8. \A u \in Workers, b \in Addresses : u # w \/ b # a => hits'[u][b] = hits[u][b]
  <2>1. CASE hits' = hits
    BY <2>1
  <2>2. CASE hits' = [hits EXCEPT ![w][a] = Recent(w, a)]
    BY <1>6, <2>2
  <2>3. CASE hits' = [hits EXCEPT ![w][a] = Recent(w, a) \union {r}]
    BY <1>6, <2>3
  <2> QED  BY <1>3, <2>1, <2>2, <2>3
<1>9. Recent(w, a) \subseteq hits'[w][a]
  <2>1. \A S : [hits EXCEPT ![w][a] = S][w][a] = S
    BY <1>6
  <2>2. Recent(w, a) \subseteq hits[w][a]
    BY DEF Recent
  <2> QED  BY <1>3, <2>1, <2>2
<1>10. v = "passed" /\ p = "memory" =>
         r \in hits'[w][a] /\ ~(Cardinality(Recent(w, a)) >= IpMax)
  <2>1. \A S : [hits EXCEPT ![w][a] = S][w][a] = S
    BY <1>6
  <2> QED  BY <1>3, <2>1
<1>11. ASSUME NEW u \in Workers, NEW b \in Addresses, NEW q \in PassedFrom(u, b)'
       PROVE  /\ q \in Requests
              /\ \/ q # r /\ q \in PassedFrom(u, b) /\ arrivedAt'[q] = arrivedAt[q]
                 \/ q = r /\ u = w /\ b = a /\ v = "passed" /\ p = "memory"
  <2>1. /\ q \in Requests /\ q \in present' /\ verdict'[q] = "passed" /\ path'[q] = "memory"
        /\ address'[q] = b /\ via'[q] = u
    BY DEF PassedFrom, Passed
  <2>2. CASE q = r
    BY <1>4, <2>1, <2>2
  <2>3. CASE q # r
    BY <1>2, <1>4, <2>1, <2>3 DEF PassedFrom, Passed
  <2> QED  BY <2>2, <2>3
<1>12. ASSUME NEW u \in Workers, NEW b \in Addresses, NEW q \in PassedFrom(u, b)',
              clock - arrivedAt'[q] <= IpWindow
       PROVE  q \in hits'[u][b]
  <2>1. CASE q = r
    BY <1>10, <1>11, <2>1
  <2>2. CASE q # r
    <3>1. q \in hits[u][b] /\ clock - arrivedAt[q] <= IpWindow
      BY <1>11, <1>12, <2>2 DEF DequesCount
    <3>2. u = w /\ b = a => q \in Recent(w, a)
      BY <3>1 DEF Recent
    <3> QED  BY <1>8, <1>9, <3>1, <3>2
  <2> QED  BY <2>1, <2>2
<1>13. ASSUME NEW u \in Workers, NEW b \in Addresses, NEW s \in 0..LastTick
       PROVE  Cardinality(PassedWithin(u, b, s)') <= IpMax
  <2> DEFINE S == PassedWithin(u, b, s)
             T == PassedWithin(u, b, s)'
  <2>1. \A q \in T : q \in PassedFrom(u, b)' /\ arrivedAt'[q] \in s..(s + IpWindow)
    BY DEF PassedWithin
  <2>2. S \in SUBSET Requests /\ T \in SUBSET Requests
    BY <1>11, <2>1 DEF PassedWithin, PassedFrom, Passed
  <2>3. Cardinality(S) <= IpMax
    BY DEF DequesCount
  <2>4. ASSUME r \notin T PROVE Cardinality(T) <= IpMax
    <3>1. T \subseteq S
      BY <1>11, <2>1, <2>4 DEF PassedWithin
    <3>2. Cardinality(T) <= Cardinality(S) /\ Cardinality(S) \in Nat /\ Cardinality(T) \in Nat
      BY <2>2, <3>1, RequestsCount, FS_Subset
    <3> HIDE DEF S, T
    <3> QED  BY <2>3, <3>2, IpLimitsAreNatural
  <2>5. ASSUME r \in T PROVE Cardinality(T) <= IpMax
    <3>1. u = w /\ b = a /\ v = "passed" /\ p = "memory" /\ clock <= s + IpWindow /\ s \in Nat
      BY <1>4, <1>11, <2>1, <2>5, TicksAreNumbers, IpLimitsAreNatural
    <3>2. ASSUME NEW q \in T, q # r PROVE q \in Recent(w, a)
      <4>1. /\ q \in PassedFrom(w, a) /\ arrivedAt[q] >= s /\ q \in Requests
        BY <1>5, <1>11, <2>1, <3>1, <3>2, IpLimitsAreNatural
      <4>2. clock - arrivedAt[q] <= IpWindow
        BY <1>2, <1>5, <3>1, <4>1, IpLimitsAreNatural
      <4> QED  BY <4>1, <4>2 DEF DequesCount, Recent
    <3>3. T \subseteq Recent(w, a) \union {r}
      BY <3>2
    <3>4. Cardinality(T) <= Cardinality(Recent(w, a)) + 1
      BY <1>7, <2>2, <3>3, OneMore
    <3>5. Cardinality(T) \in Nat /\ Cardinality(Recent(w, a)) \in Nat
      BY <1>7, <2>2, RequestsCount
    <3> HIDE DEF T
    <3> QED  BY <1>10, <3>1, <3>4, <3>5, IpLimitsAreNatural
  <2> QED  BY <2>4, <2>5
<1>14. Addresses' = Addresses
  BY DEF Addresses, ClientIp, ForwardedIp
<1> QED  BY <1>2, <1>12, <1>13, <1>14 DEF DequesCount

(***************************************************************************)
(* A worker that lost Redis tries it again only RetryAfter later.          *)
(***************************************************************************)
LEMMA FoundAgainLater ==
    ASSUME IpTypeOK, NothingAhead, FailuresRemembered,
           NEW w \in Workers, Connected \in AfterReconnect(w),
           NEW q \in present, path[q] = "open", via[q] = w
    PROVE  clock - arrivedAt[q] >= RetryAfter
<1>1. /\ q \in Requests /\ arrivedAt[q] \in Nat /\ clock \in Nat /\ arrivedAt[q] <= clock
      /\ connection[w] \in {Connected, Unconfigured} \union 0..LastTick
  BY TicksAreNumbers DEF IpTypeOK, NothingAhead
<1>2. CASE connection[w] = Connected
  BY <1>2 DEF FailuresRemembered
<1>3. CASE connection[w] \in Nat
  <2>1. ~(clock - connection[w] < RetryAfter)
    BY <1>3, MarksAreNotTimes DEF AfterReconnect
  <2>2. arrivedAt[q] <= connection[w]
    BY <1>3 DEF FailuresRemembered
  <2> QED  BY <1>1, <1>3, <2>1, <2>2, IpLimitsAreNatural
<1>4. connection[w] # Unconfigured
  BY DEF FailuresRemembered
<1> QED  BY <1>1, <1>2, <1>3, <1>4, TicksAreNumbers

LEMMA DispatchRemembersFailures ==
    ASSUME IpTypeOK, NothingAhead, FailuresRemembered, FailsOpenRarely,
           NEW r \in Requests, Dispatch(r)
    PROVE  FailuresRemembered' /\ FailsOpenRarely'
<1>1. PICK w \in Workers, a \in Addresses, c \in {Connected, Unconfigured} \union 0..LastTick :
        /\ c \in AfterReconnect(w)
        /\ \/ c = Connected /\ CountInRedis(r, w, a)
           \/ c = Connected /\ RedisFails(r, w, a)
           \/ c # Connected /\ CountInMemory(r, w, a, c)
  BY DispatchCases
<1>2. /\ verdict[r] = "idle" /\ clock' = clock /\ clock \in Nat /\ present' = present \union {r}
      /\ clock \notin {Connected, Unconfigured}
  BY TicksAreNumbers, MarksAreNotTimes DEF Dispatch, NothingAhead
<1>3. PICK v \in {"passed", "limited"}, p \in {"redis", "open", "memory"} :
        /\ Decide(r, w, a, v, p)
        /\ \/ p = "redis" /\ c = Connected /\ connection' = [connection EXCEPT ![w] = Connected]
           \/ p = "open" /\ c = Connected /\ connection' = [connection EXCEPT ![w] = clock]
           \/ p = "memory" /\ c # Connected /\ connection' = [connection EXCEPT ![w] = c]
  BY <1>1 DEF CountInRedis, RedisFails, CountInMemory
<1>4. /\ path'[r] = p /\ via'[r] = w /\ arrivedAt'[r] = clock
      /\ \A q \in Requests \ {r} :
           path'[q] = path[q] /\ via'[q] = via[q] /\ arrivedAt'[q] = arrivedAt[q]
  BY <1>2, <1>3, DecideWrites
<1>5. \A q \in Requests : arrivedAt[q] \in Nat /\ arrivedAt[q] <= clock /\ via[q] \in Workers
  BY TicksAreNumbers DEF IpTypeOK, NothingAhead
<1>6. /\ connection'[w] = IF p = "redis" THEN Connected ELSE IF p = "open" THEN clock ELSE c
      /\ \A u \in Workers : u # w => connection'[u] = connection[u]
  BY <1>3 DEF IpTypeOK
<1>7. c = Connected => \A q \in present :
        path[q] = "open" /\ via[q] = w => clock - arrivedAt[q] >= RetryAfter
  BY <1>1, FoundAgainLater
<1>8. c # Connected => c \in {connection[w], clock}
  BY <1>1 DEF AfterReconnect
<1>9. ASSUME NEW q \in present', path'[q] = "open"
      PROVE  /\ connection'[via'[q]] # Unconfigured
             /\ connection'[via'[q]] \in Nat => arrivedAt'[q] <= connection'[via'[q]]
             /\ connection'[via'[q]] = Connected => clock - arrivedAt'[q] >= RetryAfter
  <2>1. CASE q = r
    BY <1>2, <1>4, <1>6, <1>9, <2>1
  <2>2. CASE q # r
    <3>1. /\ q \in present /\ q \in Requests /\ path[q] = "open"
          /\ via'[q] = via[q] /\ arrivedAt'[q] = arrivedAt[q]
      BY <1>2, <1>4, <1>9, <2>2 DEF NothingAhead
    <3>2. /\ connection[via[q]] # Unconfigured
          /\ connection[via[q]] \in Nat => arrivedAt[q] <= connection[via[q]]
          /\ connection[via[q]] = Connected => clock - arrivedAt[q] >= RetryAfter
      BY <3>1 DEF FailuresRemembered
    <3>3. CASE via[q] # w
      BY <1>5, <1>6, <3>1, <3>2, <3>3
    <3>4. CASE via[q] = w
      <4>1. CASE p = "redis"
        BY <1>3, <1>6, <1>7, <3>1, <3>4, <4>1, MarksAreNotTimes
      <4>2. CASE p = "open"
        BY <1>2, <1>5, <1>6, <3>1, <3>4, <4>2
      <4>3. CASE p = "memory"
        BY <1>2, <1>3, <1>5, <1>6, <1>8, <3>1, <3>2, <3>4, <4>3
      <4> QED  BY <4>1, <4>2, <4>3
    <3> QED  BY <3>3, <3>4
  <2> QED  BY <2>1, <2>2
<1>10. ASSUME NEW f \in present', NEW q \in present', path'[f] = "open", path'[q] = "open",
              f # q, via'[f] = via'[q], arrivedAt'[f] <= arrivedAt'[q]
       PROVE  arrivedAt'[q] - arrivedAt'[f] >= RetryAfter
  <2>1. f \in Requests /\ q \in Requests
    BY <1>2 DEF NothingAhead
  <2>2. CASE f # r /\ q # r
    BY <1>2, <1>4, <1>10, <2>1, <2>2 DEF FailsOpenRarely
  <2>3. CASE q = r
    <3>1. f \in present /\ path[f] = "open" /\ via[f] = w /\ p = "open"
      BY <1>2, <1>4, <1>10, <2>1, <2>3
    <3> QED  BY <1>3, <1>4, <1>7, <1>10, <2>1, <2>3, <3>1
  <2>4. CASE f = r
    <3>1. /\ q \in present /\ path[q] = "open" /\ via[q] = w /\ p = "open" /\ q # r
          /\ arrivedAt'[q] = arrivedAt[q]
      BY <1>2, <1>4, <1>10, <2>1, <2>4
    <3>2. arrivedAt[q] = clock /\ clock - arrivedAt[q] >= RetryAfter
      BY <1>2, <1>3, <1>4, <1>5, <1>7, <1>10, <2>1, <2>4, <3>1
    <3> QED  BY <1>4, <2>4, <3>1, <3>2
  <2> QED  BY <2>2, <2>3, <2>4
<1>11. FailuresRemembered'
  BY <1>2, <1>9 DEF FailuresRemembered
<1>12. FailsOpenRarely'
  BY <1>10 DEF FailsOpenRarely
<1> QED  BY <1>11, <1>12

-----------------------------------------------------------------------------
(***************************************************************************)
(* Time passes: a key that is dropped belongs to a minute that is over.    *)
(***************************************************************************)
LEMMA TickKeepsInv ==
    ASSUME IInv, clock < LastTick, clock' = clock + 1, IpTick, UNCHANGED present
    PROVE  IInv'
<1>1. /\ clock \in 0..LastTick /\ clock \in Nat /\ clock' \in 0..LastTick /\ clock' \in Nat
      /\ clock' = clock + 1
  BY TicksAreNumbers DEF IInv, NothingAhead
<1>2. /\ connection' = connection /\ hits' = hits /\ verdict' = verdict /\ path' = path
      /\ address' = address /\ via' = via /\ arrivedAt' = arrivedAt /\ counts' = KeysAfterTick
  BY DEF IpTick, ipRequestVars
<1>3. /\ counts \in [Addresses -> [Minutes -> Key]] /\ NoKey \in Key
      /\ NoKey.n = 0 /\ NoKey.until = 0 /\ Forever # 0
  BY MarksAreNotTimes DEF IInv, IpTypeOK, Key, NoKey
<1>4. ASSUME NEW b \in Addresses, NEW l \in Minutes
      PROVE  /\ counts[b][l] \in Key /\ counts[b][l].n \in Nat
             /\ \/ counts'[b][l] = counts[b][l]
                \/ /\ counts'[b][l] = NoKey
                   /\ counts[b][l].until # Forever /\ counts[b][l].until <= clock + 1
  BY <1>2, <1>3 DEF KeysAfterTick, Key
<1>5. counts' \in [Addresses -> [Minutes -> Key]]
  BY <1>2, <1>3, <1>4 DEF KeysAfterTick
<1>6. Addresses' = Addresses /\ Minutes' = Minutes
  BY DEF Addresses, ClientIp, ForwardedIp, Minutes, Minute
<1>7. IpTypeOK'
  BY <1>2, <1>5, <1>6 DEF IInv, IpTypeOK, Key
<1>80. \A r \in Requests : arrivedAt[r] \in Nat
  BY TicksAreNumbers DEF IInv, IpTypeOK
<1>8. NothingAhead'
  <2>1. \A r \in Requests : arrivedAt[r] \in Nat /\ arrivedAt[r] <= clock + 1
    BY <1>1, <1>80 DEF IInv, NothingAhead
  <2>2. \A w \in Workers : connection[w] \in Nat => connection[w] <= clock + 1
    BY <1>1 DEF IInv, NothingAhead
  <2> QED  BY <1>1, <1>2, <2>1, <2>2 DEF IInv, NothingAhead
<1>9. ASSUME NEW b \in Addresses, NEW l \in Minutes
      PROVE  /\ Cardinality(PassedInMinute(b, l)) <= IpMax
             /\ l >= Minute(clock + 1) => Cardinality(PassedInMinute(b, l)) <= counts'[b][l].n
             /\ counts'[b][l].n > 0 /\ counts'[b][l].until # Forever =>
                  \E d \in 0..(clock + 1) : Minute(d) = l /\ counts'[b][l].until = d + KeyTtl
  <2> DEFINE S == PassedInMinute(b, l)
  <2>1. /\ Cardinality(S) <= IpMax
        /\ l >= Minute(clock) => Cardinality(S) <= counts[b][l].n
        /\ counts[b][l].n > 0 /\ counts[b][l].until # Forever =>
             \E d \in 0..clock : Minute(d) = l /\ counts[b][l].until = d + KeyTtl
    BY DEF IInv, KeysCount
  <2>2. Cardinality(S) \in Nat
    BY RequestsCount DEF PassedInMinute, Passed
  <2>3. Minute(clock) <= Minute(clock + 1) /\ Minute(clock) \in Nat /\ Minute(clock + 1) \in Nat
    BY <1>1, MinutesGrow, MinuteIsNatural
  <2>4. l \in Nat
    BY TicksAreNumbers, MinuteIsNatural DEF Minutes
  <2> HIDE DEF S
  <2>5. l >= Minute(clock + 1) => l >= Minute(clock)
    BY <2>3, <2>4
  <2>6. \A d \in 0..clock : d \in 0..(clock + 1) /\ d \in Nat
    BY <1>1
  <2>7. CASE counts'[b][l] = counts[b][l]
    BY <2>1, <2>5, <2>6, <2>7 DEF S
  <2>8. CASE counts'[b][l] = NoKey /\ counts[b][l].until # Forever
             /\ counts[b][l].until <= clock + 1
    <3>1. CASE counts[b][l].n = 0
      <4>1. l >= Minute(clock + 1) => Cardinality(S) <= 0
        BY <2>1, <2>5, <3>1
      <4> QED  BY <1>3, <2>1, <2>8, <4>1 DEF S
    <3>2. CASE counts[b][l].n # 0
      <4>1. counts[b][l].n > 0
        BY <1>4, <3>2
      <4>2. PICK d \in 0..clock : Minute(d) = l /\ counts[b][l].until = d + KeyTtl
        BY <2>1, <2>8, <4>1
      <4>3. d \in Nat /\ d + IpWindow <= clock + 1
        BY <1>1, <2>8, <4>2, IpLimitsAreNatural, KeysOutliveMinutes
      <4>4. l < Minute(clock + 1)
        BY <1>1, <4>2, <4>3, MinuteEnds
      <4>5. ~(l >= Minute(clock + 1))
        BY <2>3, <2>4, <4>4
      <4> QED  BY <1>3, <2>1, <2>8, <4>5 DEF S
    <3> QED  BY <3>1, <3>2
  <2> QED  BY <1>4, <2>7, <2>8
<1>10. KeysCount'
  <2>1. \A b, l : PassedInMinute(b, l)' = PassedInMinute(b, l)
    BY <1>2 DEF PassedInMinute, Passed, Minute
  <2>2. Minute(clock)' = Minute(clock + 1)
    BY DEF Minute
  <2> QED  BY <1>6, <1>9, <2>1, <2>2 DEF KeysCount, Minute
<1>11. DequesCount'
  <2>1. /\ \A w, a : PassedFrom(w, a)' = PassedFrom(w, a)
        /\ \A w, a, s : PassedWithin(w, a, s)' = PassedWithin(w, a, s)
    BY <1>2 DEF PassedFrom, PassedWithin, Passed
  <2>2. \A r \in Requests : clock' - arrivedAt[r] <= IpWindow => clock - arrivedAt[r] <= IpWindow
    BY <1>1, <1>80, IpLimitsAreNatural
  <2>3. \A w, a : PassedFrom(w, a) \subseteq Requests
    BY DEF PassedFrom, Passed
  <2>4. \A w \in Workers, a \in Addresses :
          /\ \A r \in PassedFrom(w, a) : clock' - arrivedAt[r] <= IpWindow => r \in hits[w][a]
          /\ \A s \in 0..LastTick : Cardinality(PassedWithin(w, a, s)) <= IpMax
    BY <1>1, <2>2, <2>3 DEF IInv, DequesCount
  <2> QED  BY <1>1, <1>2, <1>6, <2>1, <2>4 DEF DequesCount
<1>12. FailuresRemembered'
  <2>1. \A r \in Requests : clock - arrivedAt[r] >= RetryAfter => clock' - arrivedAt[r] >= RetryAfter
    BY <1>1, <1>80, IpLimitsAreNatural
  <2>2. present \subseteq Requests
    BY DEF IInv, NothingAhead
  <2>3. \A r \in present : path[r] = "open" =>
          /\ connection[via[r]] # Unconfigured
          /\ connection[via[r]] \in Nat => arrivedAt[r] <= connection[via[r]]
          /\ connection[via[r]] = Connected => clock' - arrivedAt[r] >= RetryAfter
    BY <1>1, <2>1, <2>2 DEF IInv, FailuresRemembered
  <2> QED  BY <1>1, <1>2, <2>3 DEF FailuresRemembered
<1>13. FailsOpenRarely'
  BY <1>2 DEF IInv, FailsOpenRarely
<1>14. LeakedKeysFollowFailures'
  <2>1. \A b \in Addresses, l \in Minutes :
          counts'[b][l].until = Forever => counts[b][l].until = Forever
    BY <1>3, <1>4
  <2> QED  BY <1>2, <1>6, <2>1 DEF IInv, LeakedKeysFollowFailures, Minute
<1> QED  BY <1>7, <1>8, <1>10, <1>11, <1>12, <1>13, <1>14 DEF IInv

(***************************************************************************)
(* A new worker process remembers nothing, and nothing counts against it.  *)
(***************************************************************************)
LEMMA RestartKeepsInv ==
    ASSUME IInv, NEW w \in Workers, IpRestart(w),
           present' = {r \in present : via[r] # w}, UNCHANGED clock
    PROVE  IInv'
<1>1. /\ verdict' = verdict /\ path' = path /\ address' = address /\ via' = via
      /\ arrivedAt' = arrivedAt /\ counts' = counts /\ clock' = clock
      /\ present' \subseteq present
  BY DEF IpRestart, ipRequestVars
<1>2. /\ connection' \in [Workers -> {Connected, Unconfigured} \union 0..LastTick]
      /\ connection'[w] \in {Connected, Unconfigured}
      /\ \A u \in Workers : u # w => connection'[u] = connection[u]
  BY DEF IInv, IpTypeOK, IpRestart
<1>3. /\ hits' \in [Workers -> [Addresses -> SUBSET Requests]]
      /\ \A u \in Workers : u # w => hits'[u] = hits[u]
  BY DEF IInv, IpTypeOK, IpRestart
<1>4. Addresses' = Addresses /\ Minutes' = Minutes
  BY DEF Addresses, ClientIp, ForwardedIp, Minutes, Minute
<1>5. IpTypeOK'
  BY <1>1, <1>2, <1>3, <1>4 DEF IInv, IpTypeOK, Key
<1>6. NothingAhead'
  <2>1. \A u \in Workers : connection'[u] \in Nat => connection'[u] <= clock
    BY <1>2, MarksAreNotTimes DEF IInv, NothingAhead
  <2> QED  BY <1>1, <2>1 DEF IInv, NothingAhead
<1>7. KeysCount'
  <2>1. \A b, l : PassedInMinute(b, l)' = PassedInMinute(b, l)
    BY <1>1 DEF PassedInMinute, Passed, Minute
  <2> QED  BY <1>1, <1>4, <2>1 DEF IInv, KeysCount, Minute
<1>8. \A q \in present' : q \in present /\ via[q] # w /\ via[q] \in Workers
  BY DEF IInv, NothingAhead, IpTypeOK
<1>9. DequesCount'
  <2>1. ASSUME NEW u \in Workers, NEW a \in Addresses
        PROVE  /\ \A q \in PassedFrom(u, a)' :
                    clock - arrivedAt[q] <= IpWindow => q \in hits'[u][a]
               /\ \A s \in 0..LastTick : Cardinality(PassedWithin(u, a, s)') <= IpMax
    <3>1. /\ PassedFrom(u, a)' \subseteq PassedFrom(u, a)
          /\ PassedFrom(u, a)' # {} => u # w
      BY <1>1, <1>8 DEF PassedFrom, Passed
    <3>2. ASSUME NEW s \in 0..LastTick PROVE Cardinality(PassedWithin(u, a, s)') <= IpMax
      <4>1. PassedWithin(u, a, s)' \subseteq PassedWithin(u, a, s)
        BY <1>1, <3>1 DEF PassedWithin
      <4>2. PassedWithin(u, a, s) \in SUBSET Requests
        BY DEF PassedWithin, PassedFrom, Passed
      <4>3. /\ Cardinality(PassedWithin(u, a, s)') <= Cardinality(PassedWithin(u, a, s))
            /\ Cardinality(PassedWithin(u, a, s)') \in Nat
            /\ Cardinality(PassedWithin(u, a, s)) \in Nat
        BY <4>1, <4>2, RequestsCount, FS_Subset
      <4>4. Cardinality(PassedWithin(u, a, s)) <= IpMax
        BY DEF IInv, DequesCount
      <4> QED  BY <4>3, <4>4, IpLimitsAreNatural
    <3>3. \A q \in PassedFrom(u, a)' : clock - arrivedAt[q] <= IpWindow => q \in hits'[u][a]
      BY <1>3, <3>1 DEF IInv, DequesCount
    <3> QED  BY <3>2, <3>3
  <2> QED  BY <1>1, <1>4, <2>1 DEF DequesCount
<1>10. FailuresRemembered'
  BY <1>1, <1>2, <1>8 DEF IInv, FailuresRemembered
<1>11. FailsOpenRarely'
  BY <1>1 DEF IInv, FailsOpenRarely
<1>12. LeakedKeysFollowFailures'
  BY <1>1, <1>4 DEF IInv, LeakedKeysFollowFailures, Minute
<1> QED  BY <1>5, <1>6, <1>7, <1>9, <1>10, <1>11, <1>12 DEF IInv

LEMMA IpInitInv ==
    ASSUME clock = 0, present = {}, IpInit
    PROVE  IInv
<1>1. /\ verdict = [r \in Requests |-> "idle"] /\ path = [r \in Requests |-> "none"]
      /\ arrivedAt = [r \in Requests |-> 0] /\ 0 \in 0..LastTick
  BY TicksAreNumbers DEF IpInit
<1>2. IpTypeOK
  <2>1. (CHOOSE w \in Workers : TRUE) \in Workers
    BY SomeoneServes
  <2>2. NoKey \in Key
    BY DEF NoKey, Key
  <2>3. connection \in [Workers -> {Connected, Unconfigured} \union 0..LastTick]
    BY DEF IpInit
  <2> QED  BY <1>1, <2>1, <2>2, <2>3 DEF IpInit, IpTypeOK
<1>3. \A a \in Addresses, m \in Minutes : counts[a][m] = NoKey /\ NoKey.n = 0 /\ NoKey.until = 0
  BY DEF IpInit, NoKey
<1>4. NothingAhead
  <2>1. \A w \in Workers : connection[w] \notin Nat
    BY MarksAreNotTimes DEF IpInit
  <2> QED  BY <1>1, <2>1 DEF NothingAhead
<1>5. \A p, a : p # "none" => Passed(p, a) = {}
  BY <1>1 DEF Passed
<1>6. KeysCount
  <2>1. \A a \in Addresses, m \in Minutes : PassedInMinute(a, m) = {}
    BY <1>5 DEF PassedInMinute
  <2>2. Cardinality({}) = 0
    BY FS_EmptySet
  <2> QED  BY <1>3, <2>1, <2>2, IpLimitsAreNatural DEF KeysCount
<1>7. DequesCount
  <2>1. \A w, a : PassedFrom(w, a) = {}
    BY <1>5 DEF PassedFrom
  <2>2. \A w, a, s : PassedWithin(w, a, s) = {}
    BY <2>1 DEF PassedWithin
  <2>3. Cardinality({}) = 0
    BY FS_EmptySet
  <2> QED  BY <2>1, <2>2, <2>3, IpLimitsAreNatural DEF DequesCount
<1>8. FailuresRemembered /\ FailsOpenRarely
  BY DEF FailuresRemembered, FailsOpenRarely
<1>9. LeakedKeysFollowFailures
  BY <1>3, MarksAreNotTimes DEF LeakedKeysFollowFailures
<1> QED  BY <1>2, <1>4, <1>6, <1>7, <1>8, <1>9 DEF IInv

LEMMA IpNextInv ==
    ASSUME IInv, [IpNext]_<<clock, present, ipVars>>
    PROVE  IInv'
<1>1. ASSUME NEW r \in Requests, Dispatch(r) PROVE IInv'
  BY <1>1, DispatchKeepsTypes, DispatchKeepsKeys, DispatchKeepsDeques,
     DispatchRemembersFailures, DispatchLeaksByFailing DEF IInv
<1>2. ASSUME clock < LastTick, clock' = clock + 1, IpTick, UNCHANGED present PROVE IInv'
  BY <1>2, TickKeepsInv
<1>3. ASSUME NEW w \in Workers, IpRestart(w), present' = {r \in present : via[r] # w},
             UNCHANGED clock
      PROVE  IInv'
  BY <1>3, RestartKeepsInv
<1>4. ASSUME UNCHANGED <<clock, present, ipVars>> PROVE IInv'
  <2>1. /\ clock' = clock /\ present' = present /\ connection' = connection /\ hits' = hits
        /\ counts' = counts /\ verdict' = verdict /\ path' = path /\ address' = address
        /\ via' = via /\ arrivedAt' = arrivedAt
    BY <1>4 DEF ipVars, ipRequestVars
  <2>2. Addresses' = Addresses /\ Minutes' = Minutes
    BY DEF Addresses, ClientIp, ForwardedIp, Minutes, Minute
  <2>3. \A p, a : Passed(p, a)' = Passed(p, a)
    BY <2>1 DEF Passed
  <2>4. IpTypeOK' /\ NothingAhead'
    BY <2>1, <2>2 DEF IInv, IpTypeOK, NothingAhead, Key
  <2>5. KeysCount'
    BY <2>1, <2>2, <2>3 DEF IInv, KeysCount, PassedInMinute, Minute
  <2>6. DequesCount'
    BY <2>1, <2>2, <2>3 DEF IInv, DequesCount, PassedFrom, PassedWithin
  <2>7. FailuresRemembered' /\ FailsOpenRarely' /\ LeakedKeysFollowFailures'
    BY <2>1, <2>2 DEF IInv, FailuresRemembered, FailsOpenRarely, LeakedKeysFollowFailures,
       Minute
  <2> QED  BY <2>4, <2>5, <2>6, <2>7 DEF IInv
<1> QED  BY <1>1, <1>2, <1>3, <1>4 DEF IpNext

(***************************************************************************)
(* The inductive invariant holds in every state.                           *)
(***************************************************************************)
THEOREM IpInductive == IpSpec => []IInv
<1>1. clock = 0 /\ present = {} /\ IpInit => IInv
  BY IpInitInv
<1>2. IInv /\ [IpNext]_<<clock, present, ipVars>> => IInv'
  BY IpNextInv
<1> QED  BY <1>1, <1>2, PTL DEF IpSpec

(***************************************************************************)
(* The limit per address keeps to the types of its state.                  *)
(***************************************************************************)
THEOREM AddressTypes == IpSpec => []IpTypeOK
<1>1. IInv => IpTypeOK
  BY DEF IInv
<1> QED  BY <1>1, IpInductive, PTL

(***************************************************************************)
(* However many workers there are and however often Redis fails, is found  *)
(* again or forgets a key, no address passes more than IpMax requests in a *)
(* minute through Redis, nor in a window through one process's memory.     *)
(***************************************************************************)
THEOREM AddressLimitHolds == IpSpec => []AddressLimit
<1>1. ASSUME IInv PROVE AddressLimit
  <2>1. \A a \in Addresses, m \in Minutes :
          Cardinality({r \in Passed("redis", a) : Minute(arrivedAt[r]) = m}) <= IpMax
    BY <1>1 DEF IInv, KeysCount, PassedInMinute
  <2>2. ASSUME NEW a \in Addresses, NEW q \in present
        PROVE  Cardinality({r \in Passed("memory", a) \intersect present :
                              /\ via[r] = via[q]
                              /\ arrivedAt[r] \in arrivedAt[q]..(arrivedAt[q] + IpWindow)})
                  <= IpMax
    <3>1. via[q] \in Workers /\ arrivedAt[q] \in 0..LastTick
      BY <1>1 DEF IInv, IpTypeOK, NothingAhead
    <3>2. Cardinality(PassedWithin(via[q], a, arrivedAt[q])) <= IpMax
      BY <1>1, <3>1 DEF IInv, DequesCount
    <3>3. PassedWithin(via[q], a, arrivedAt[q])
            = {r \in Passed("memory", a) \intersect present :
                 /\ via[r] = via[q]
                 /\ arrivedAt[r] \in arrivedAt[q]..(arrivedAt[q] + IpWindow)}
      BY DEF PassedWithin, PassedFrom
    <3> QED  BY <3>2, <3>3
  <2> QED  BY <2>1, <2>2 DEF AddressLimit
<1> QED  BY <1>1, IpInductive, PTL

(***************************************************************************)
(* A process that loses Redis lets at most one request in RetryAfter pass  *)
(* uncounted.                                                              *)
(***************************************************************************)
THEOREM FailsOpenRarelyHolds == IpSpec => []FailsOpenRarely
<1>1. IInv => FailsOpenRarely
  BY DEF IInv
<1> QED  BY <1>1, IpInductive, PTL

(***************************************************************************)
(* Every key without a time to live goes back to a failure of its minute.  *)
(***************************************************************************)
THEOREM LeakedKeysHaveAFailure == IpSpec => []LeakedKeysFollowFailures
<1>1. IInv => LeakedKeysFollowFailures
  BY DEF IInv
<1> QED  BY <1>1, IpInductive, PTL

-----------------------------------------------------------------------------
(***************************************************************************)
(* The two limits together.  Seen by the limit per address, a request that *)
(* has been passed does nothing more.                                      *)
(***************************************************************************)
LEMMA TogetherStepsOfAddresses ==
    ASSUME [Next]_vars
    PROVE  [IpNext]_<<clock, present, ipVars>>
<1>1. ASSUME NEW r \in Requests, Arrive(r) PROVE IpNext
  BY <1>1 DEF Arrive, IpNext
<1>2. ASSUME NEW r \in Requests, CallNext(r) \/ RunThread(r)
      PROVE  UNCHANGED <<clock, present, ipVars>>
  BY <1>2 DEF CallNext, RunThread, Enter, Serve, CheckEmpty, LookAtOldest, PopOldest,
     Count, AppendNow
<1>3. PassTime => IpNext
  BY DEF PassTime, Tick, IpNext
<1>4. ASSUME NEW w \in Workers, ReplaceWorker(w) PROVE IpNext
  BY <1>4 DEF ReplaceWorker, Restart, IpNext
<1> QED  BY <1>1, <1>2, <1>3, <1>4 DEF Next, vars, limitVars

(***************************************************************************)
(* The limit per address is what it is without the other behind it.        *)
(***************************************************************************)
THEOREM AddressesServedAlike == Spec => KeepsAddressLimit
<1>1. Init => clock = 0 /\ present = {} /\ IpInit
  BY DEF Init, LimitInit
<1>2. [Next]_vars => [IpNext]_<<clock, present, ipVars>>
  BY TogetherStepsOfAddresses
<1> QED  BY <1>1, <1>2, PTL DEF Spec, KeepsAddressLimit, IpSpec

(***************************************************************************)
(* A request that entered a sensitive endpoint was decided on before, and  *)
(* as long as its process runs it is with the process that passed it.      *)
(***************************************************************************)
CameThrough ==
    /\ present \subseteq Requests
    /\ pc = [r \in Requests |-> pc[r]]
    /\ worker = [r \in Requests |-> worker[r]]
    /\ \A r \in Requests : verdict[r] = "idle" => pc[r] = "idle"
    /\ \A r \in Entered : worker[r] = via[r]

LEMMA ServeTouchesOne ==
    ASSUME NEW r \in Requests, Serve(r), pc = [q \in Requests |-> pc[q]]
    PROVE  /\ pc' = [q \in Requests |-> pc'[q]]
           /\ pc[r] # "idle" /\ pc'[r] # "idle"
           /\ \A q \in Requests \ {r} : pc'[q] = pc[q]
           /\ UNCHANGED <<clock, worker, subject, stamp>>
<1>1. \E l \in InFlight \union Ended : GoTo(r, l)
  BY DEF Serve, CheckEmpty, LookAtOldest, PopOldest, Count, AppendNow, InFlight, Ended
<1>2. pc[r] # "idle" /\ UNCHANGED <<clock, worker, subject, stamp>>
  BY DEF Serve, CheckEmpty, LookAtOldest, PopOldest, Count, AppendNow
<1> QED  BY <1>1, <1>2 DEF GoTo, InFlight, Ended

(***************************************************************************)
(* What each step does to the requests that came through.                  *)
(***************************************************************************)
LEMMA TogetherKeepsThrough ==
    ASSUME IpTypeOK, CameThrough, [Next]_vars
    PROVE  CameThrough'
<1>1. ASSUME NEW r \in Requests, Arrive(r) PROVE CameThrough'
  <2>1. /\ verdict[r] = "idle" /\ present' = present \union {r}
        /\ UNCHANGED <<pc, worker>>
        /\ \E w, a, v, p : Decide(r, w, a, v, p) /\ v # "idle"
    BY <1>1 DEF Arrive, Dispatch, CountInRedis, RedisFails, CountInMemory,
       subjectVars, requestVars
  <2>2. pc[r] = "idle"
    BY <2>1 DEF CameThrough
  <2>3. /\ verdict'[r] # "idle"
        /\ \A q \in Requests \ {r} : verdict'[q] = verdict[q] /\ via'[q] = via[q]
    BY <2>1 DEF Decide, IpTypeOK
  <2> QED  BY <2>1, <2>2, <2>3 DEF CameThrough, Entered
<1>2. ASSUME NEW r \in Requests, CallNext(r) PROVE CameThrough'
  <2>1. /\ r \in present /\ verdict[r] = "passed" /\ UNCHANGED <<present, verdict, via>>
        /\ pc' = [pc EXCEPT ![r] = "checking"]
        /\ worker' = [worker EXCEPT ![r] = via[r]]
    BY <1>2 DEF CallNext, Enter, GoTo, ipVars, ipRequestVars
  <2> QED  BY <2>1 DEF CameThrough, Entered
<1>3. ASSUME NEW r \in Requests, RunThread(r) PROVE CameThrough'
  <2>1. Serve(r) /\ UNCHANGED <<present, verdict, via>>
    BY <1>3 DEF RunThread, ipVars, ipRequestVars
  <2> QED  BY <2>1, ServeTouchesOne DEF CameThrough, Entered
<1>4. ASSUME NEW w \in Workers, ReplaceWorker(w) PROVE CameThrough'
  <2>1. /\ pc' = [r \in Requests |-> IF r \in Serving(w) THEN "lost" ELSE pc[r]]
        /\ present' \subseteq present
        /\ UNCHANGED <<worker, verdict, via>>
    BY <1>4 DEF ReplaceWorker, Restart, IpRestart, ipRequestVars
  <2> QED  BY <2>1 DEF CameThrough, Entered, Serving, InFlight
<1>5. PassTime \/ UNCHANGED vars => UNCHANGED <<present, pc, worker, verdict, via>>
  BY DEF PassTime, Tick, IpTick, vars, limitVars, subjectVars, requestVars, ipVars,
     ipRequestVars
<1>6. UNCHANGED <<present, pc, worker, verdict, via>> => CameThrough'
  BY DEF CameThrough, Entered
<1> QED  BY <1>1, <1>2, <1>3, <1>4, <1>5, <1>6 DEF Next

(***************************************************************************)
(* No request reaches a sensitive endpoint by any way but through the      *)
(* middleware, nor in another process than the one that passed it.         *)
(***************************************************************************)
THEOREM ServedWherePassed == Spec => [](IpTypeOK /\ CameThrough)
<1>1. Init => CameThrough
  BY DEF Init, LimitInit, SubjectInit, IpInit, CameThrough, Entered
<1>2. IpTypeOK /\ CameThrough /\ [Next]_vars => CameThrough'
  BY TogetherKeepsThrough
<1>3. Spec => []IpTypeOK
  BY AddressesServedAlike, AddressTypes, PTL DEF KeepsAddressLimit
<1> QED  BY <1>1, <1>2, <1>3, PTL DEF Spec

(***************************************************************************)
(* The actions of SubjectRateLimit say the same of the requests that came  *)
(* through, as none but its last part mentions which these are.            *)
(***************************************************************************)
LEMMA SameActions ==
    /\ \A r, w, s : BehindMiddleware!Enter(r, w, s) <=> Enter(r, w, s)
    /\ \A r : BehindMiddleware!Serve(r) <=> Serve(r)
    /\ BehindMiddleware!Tick <=> Tick
    /\ \A w : BehindMiddleware!Restart(w) <=> Restart(w)
    /\ \A w : BehindMiddleware!ServedBy(w) = ServedBy(w)
    /\ BehindMiddleware!SubjectInit <=> SubjectInit
<1>1. \A w : /\ BehindMiddleware!Serving(w) = Serving(w)
             /\ BehindMiddleware!ServedBy(w) = ServedBy(w)
  BY DEF Serving, BehindMiddleware!Serving, ServedBy, BehindMiddleware!ServedBy,
     InFlight, BehindMiddleware!InFlight
<1>2. \A S : BehindMiddleware!Cardinality(S) = Cardinality(S)
  BY DEF Cardinality, BehindMiddleware!Cardinality
<1>3. \A r, w, s : BehindMiddleware!Enter(r, w, s) <=> Enter(r, w, s)
  BY <1>1, <1>2 DEF Enter, BehindMiddleware!Enter, GoTo, BehindMiddleware!GoTo
<1>4. \A r : BehindMiddleware!Serve(r) <=> Serve(r)
  BY DEF Serve, CheckEmpty, LookAtOldest, PopOldest, Count, AppendNow, Bucket, GoTo,
     BehindMiddleware!Serve, BehindMiddleware!CheckEmpty, BehindMiddleware!LookAtOldest,
     BehindMiddleware!PopOldest, BehindMiddleware!Count, BehindMiddleware!AppendNow,
     BehindMiddleware!Bucket, BehindMiddleware!GoTo
<1>5. BehindMiddleware!Tick <=> Tick
  BY DEF Tick, BehindMiddleware!Tick, subjectVars, requestVars,
     BehindMiddleware!subjectVars, BehindMiddleware!requestVars
<1>6. \A w : BehindMiddleware!Restart(w) <=> Restart(w)
  BY <1>1 DEF Restart, BehindMiddleware!Restart
<1>7. BehindMiddleware!SubjectInit <=> SubjectInit
  BY DEF SubjectInit, BehindMiddleware!SubjectInit
<1> QED  BY <1>1, <1>3, <1>4, <1>5, <1>6, <1>7

(***************************************************************************)
(* Behind the middleware a request enters where it was passed, and a       *)
(* replaced process loses just those that entered there.                   *)
(***************************************************************************)
LEMMA TogetherStepsOfSubjects ==
    ASSUME IpTypeOK, CameThrough, [Next]_vars
    PROVE  [BehindMiddleware!LimitNext]_BehindMiddleware!limitVars
<1>1. ASSUME NEW r \in Requests, Arrive(r)
      PROVE  UNCHANGED BehindMiddleware!limitVars
  <2>1. /\ verdict[r] = "idle" /\ present' = present \union {r}
        /\ UNCHANGED <<clock, subjectVars>>
    BY <1>1 DEF Arrive, Dispatch
  <2>2. Entered' = Entered
    BY <2>1 DEF CameThrough, Entered, subjectVars, requestVars
  <2> QED  BY <2>1, <2>2 DEF BehindMiddleware!limitVars, BehindMiddleware!subjectVars,
              BehindMiddleware!requestVars, subjectVars, requestVars
<1>2. ASSUME NEW r \in Requests, CallNext(r) PROVE BehindMiddleware!LimitNext
  <2>1. PICK s \in Subjects : Enter(r, via[r], s)
    BY <1>2 DEF CallNext
  <2>2. via[r] \in Workers
    BY DEF IpTypeOK
  <2>3. Entered' = Entered \union {r}
    BY <1>2, <2>1 DEF CallNext, Enter, GoTo, CameThrough, Entered
  <2> QED  BY <2>1, <2>2, <2>3, SameActions DEF BehindMiddleware!LimitNext
<1>3. ASSUME NEW r \in Requests, RunThread(r) PROVE BehindMiddleware!LimitNext
  <2>1. Serve(r) /\ UNCHANGED present
    BY <1>3 DEF RunThread
  <2>2. Entered' = Entered
    BY <2>1, ServeTouchesOne DEF CameThrough, Entered
  <2> QED  BY <2>1, <2>2, SameActions DEF BehindMiddleware!LimitNext
<1>4. CASE PassTime
  <2>1. Tick /\ Entered' = Entered
    BY <1>4 DEF PassTime, Tick, Entered, subjectVars, requestVars
  <2> QED  BY <2>1, SameActions DEF BehindMiddleware!LimitNext
<1>5. ASSUME NEW w \in Workers, ReplaceWorker(w) PROVE BehindMiddleware!LimitNext
  <2>1. Restart(w) /\ present' = {r \in present : via[r] # w}
    BY <1>5 DEF ReplaceWorker
  <2>2. \A r \in Requests : pc'[r] = "idle" <=> pc[r] = "idle"
    BY <2>1 DEF Restart, Serving, InFlight
  <2>3. Entered' = Entered \ ServedBy(w)
    BY <2>1, <2>2 DEF CameThrough, Entered, ServedBy
  <2> QED  BY <2>1, <2>3, SameActions DEF BehindMiddleware!LimitNext
<1>6. UNCHANGED vars => UNCHANGED BehindMiddleware!limitVars
  BY DEF vars, limitVars, subjectVars, requestVars, Entered, BehindMiddleware!limitVars,
     BehindMiddleware!subjectVars, BehindMiddleware!requestVars
<1> QED  BY <1>1, <1>2, <1>3, <1>4, <1>5, <1>6 DEF Next

(***************************************************************************)
(* The limit per subject is what it is without the middleware before it.   *)
(***************************************************************************)
THEOREM SubjectsServedAlike == Spec => KeepsSubjectLimit
<1>1. Init => BehindMiddleware!LimitInit
  BY SameActions DEF Init, LimitInit, Entered, BehindMiddleware!LimitInit
<1>2. IpTypeOK /\ CameThrough /\ [Next]_vars
        => [BehindMiddleware!LimitNext]_BehindMiddleware!limitVars
  BY TogetherStepsOfSubjects
<1> QED  BY <1>1, <1>2, ServedWherePassed, PTL
         DEF Spec, KeepsSubjectLimit, BehindMiddleware!LimitSpec

-----------------------------------------------------------------------------
(***************************************************************************)
(* What SubjectRateLimitProofs shows of the limit per subject holds behind *)
(* the middleware: of the same actions, ...                                *)
(***************************************************************************)
SubjectProofs == INSTANCE SubjectRateLimitProofs WITH present <- Entered

LEMMA SameCardinality == \A S : SubjectProofs!Cardinality(S) = Cardinality(S)
  BY DEF Cardinality, SubjectProofs!Cardinality

(***************************************************************************)
(* ..., with the same constants, ...                                       *)
(***************************************************************************)
LEMMA SameAssumptions ==
    /\ SubjectProofs!IsFiniteSet(Requests)
    /\ Workers # {} /\ LastTick \in Nat
    /\ Threads \in Nat \ {0} /\ Max \in Nat \ {0} /\ Window \in Nat
<1>1. SubjectProofs!IsFiniteSet(Requests) <=> IsFiniteSet(Requests)
  BY DEF IsFiniteSet, SubjectProofs!IsFiniteSet
<1> QED  BY <1>1, RequestsAreFinite, SomeoneServes, TicksAreNumbers, LimitsAreNatural

(***************************************************************************)
(* ... taking the same steps, ...                                          *)
(***************************************************************************)
LEMMA SameSpec ==
    /\ BehindMiddleware!LimitInit <=> SubjectProofs!LimitInit
    /\ BehindMiddleware!LimitNext <=> SubjectProofs!LimitNext
    /\ BehindMiddleware!limitVars = SubjectProofs!limitVars
    /\ BehindMiddleware!limitVars' = SubjectProofs!limitVars'
<1>1. \A w : /\ SubjectProofs!Serving(w) = Serving(w)
             /\ SubjectProofs!ServedBy(w) = ServedBy(w)
  BY DEF Serving, SubjectProofs!Serving, ServedBy, SubjectProofs!ServedBy,
     InFlight, SubjectProofs!InFlight
<1>2. \A r, w, s : SubjectProofs!Enter(r, w, s) <=> Enter(r, w, s)
  BY <1>1, SameCardinality DEF Enter, SubjectProofs!Enter, GoTo, SubjectProofs!GoTo
<1>3. \A r : SubjectProofs!Serve(r) <=> Serve(r)
  BY DEF Serve, CheckEmpty, LookAtOldest, PopOldest, Count, AppendNow, Bucket, GoTo,
     SubjectProofs!Serve, SubjectProofs!CheckEmpty, SubjectProofs!LookAtOldest,
     SubjectProofs!PopOldest, SubjectProofs!Count, SubjectProofs!AppendNow,
     SubjectProofs!Bucket, SubjectProofs!GoTo
<1>4. SubjectProofs!Tick <=> Tick
  BY DEF Tick, SubjectProofs!Tick, subjectVars, requestVars,
     SubjectProofs!subjectVars, SubjectProofs!requestVars
<1>5. \A w : SubjectProofs!Restart(w) <=> Restart(w)
  BY <1>1 DEF Restart, SubjectProofs!Restart
<1>6. SubjectProofs!SubjectInit <=> SubjectInit
  BY DEF SubjectInit, SubjectProofs!SubjectInit
<1>7. BehindMiddleware!LimitInit <=> SubjectProofs!LimitInit
  BY <1>6, SameActions DEF BehindMiddleware!LimitInit, SubjectProofs!LimitInit
<1>8. BehindMiddleware!LimitNext <=> SubjectProofs!LimitNext
  BY <1>1, <1>2, <1>3, <1>4, <1>5, SameActions
     DEF BehindMiddleware!LimitNext, SubjectProofs!LimitNext
<1>9. /\ BehindMiddleware!limitVars = SubjectProofs!limitVars
      /\ BehindMiddleware!limitVars' = SubjectProofs!limitVars'
  BY DEF BehindMiddleware!limitVars, BehindMiddleware!subjectVars,
     BehindMiddleware!requestVars, SubjectProofs!limitVars, SubjectProofs!subjectVars,
     SubjectProofs!requestVars
<1> QED  BY <1>7, <1>8, <1>9

(***************************************************************************)
(* ... and of the same properties: a request that a running process        *)
(* admitted did come through to it.                                        *)
(***************************************************************************)
LEMMA SameProperties ==
    /\ SubjectProofs!SubjectTypeOK => SubjectTypeOK
    /\ SubjectProofs!BucketBound => BucketBound
    /\ SubjectProofs!SerialLimit => SerialLimit
<1>1. SubjectProofs!SubjectTypeOK => SubjectTypeOK
  BY DEF SubjectProofs!SubjectTypeOK, SubjectTypeOK, SubjectProofs!InFlight, InFlight,
     SubjectProofs!Ended, Ended
<1>2. \A w, s : SubjectProofs!Appending(w, s) = Appending(w, s)
  BY DEF SubjectProofs!Appending, Appending, SubjectProofs!Uses, Uses
<1>3. SubjectProofs!BucketBound => BucketBound
  BY <1>2, SameCardinality DEF SubjectProofs!BucketBound, BucketBound
<1>4. \A w, s : SubjectProofs!Admitted(w, s) = Admitted(w, s)
  BY DEF SubjectProofs!Admitted, Admitted, SubjectProofs!Uses, Uses, Entered
<1>5. SubjectProofs!SerialLimit => SerialLimit
  BY <1>4, SameCardinality DEF SubjectProofs!SerialLimit, SerialLimit
<1> QED  BY <1>1, <1>3, <1>5

(***************************************************************************)
(* So a process with both limits is one that SubjectRateLimitProofs speaks *)
(* of, for the requests that came through.                                 *)
(***************************************************************************)
THEOREM BehindAsProved == Spec => SubjectProofs!LimitSpec
<1>1. BehindMiddleware!LimitInit => SubjectProofs!LimitInit
  BY SameSpec
<1>2. [BehindMiddleware!LimitNext]_BehindMiddleware!limitVars
        => [SubjectProofs!LimitNext]_SubjectProofs!limitVars
  BY SameSpec
<1> QED  BY <1>1, <1>2, SubjectsServedAlike, PTL
         DEF KeepsSubjectLimit, BehindMiddleware!LimitSpec, SubjectProofs!LimitSpec

(***************************************************************************)
(* A process with both limits keeps to all their types.                    *)
(***************************************************************************)
THEOREM TogetherTypeCorrect == Spec => []TypeOK
<1>1. SubjectProofs!LimitSpec => []SubjectProofs!SubjectTypeOK
  BY SubjectProofs!LimiterTypeCorrect, SameAssumptions
     DEF SubjectProofs!LimiterTypeCorrect
<1>2. SubjectProofs!SubjectTypeOK => SubjectTypeOK
  BY SameProperties
<1>3. SubjectTypeOK /\ IpTypeOK => TypeOK
  BY DEF TypeOK
<1> QED  BY <1>1, <1>2, <1>3, BehindAsProved, ServedWherePassed, PTL

BothLimits ==
    /\ BucketBound
    /\ SerialLimit
    /\ AddressLimit
    /\ FailsOpenRarely
    /\ LeakedKeysFollowFailures

(***************************************************************************)
(* Whatever both limits do, in whatever processes, what holds of each      *)
(* alone holds of both together.                                           *)
(***************************************************************************)
THEOREM BothLimitsHold == Spec => []BothLimits
<1>1. SubjectProofs!LimitSpec => [](SubjectProofs!BucketBound /\ SubjectProofs!SerialLimit)
  <2>1. SubjectProofs!LimitSpec => []SubjectProofs!BucketBound
    BY SubjectProofs!BucketStaysBounded, SameAssumptions
       DEF SubjectProofs!BucketStaysBounded
  <2>2. SubjectProofs!LimitSpec => []SubjectProofs!SerialLimit
    BY SubjectProofs!LimitIsExactInSeries, SameAssumptions
       DEF SubjectProofs!LimitIsExactInSeries
  <2> QED  BY <2>1, <2>2, PTL
<1>2. SubjectProofs!BucketBound /\ SubjectProofs!SerialLimit => BucketBound /\ SerialLimit
  BY SameProperties
<1>3. KeepsAddressLimit => [](AddressLimit /\ FailsOpenRarely /\ LeakedKeysFollowFailures)
  BY AddressLimitHolds, FailsOpenRarelyHolds, LeakedKeysHaveAFailure, PTL
     DEF KeepsAddressLimit
<1>4. BucketBound /\ SerialLimit /\ AddressLimit /\ FailsOpenRarely
        /\ LeakedKeysFollowFailures => BothLimits
  BY DEF BothLimits
<1> QED  BY <1>1, <1>2, <1>3, <1>4, BehindAsProved, AddressesServedAlike, PTL

(***************************************************************************)
(* Behind the middleware too a request is refused only because Max         *)
(* requests of its subject were admitted in the window before it.          *)
(***************************************************************************)
THEOREM RefusalsStayDeserved == Spec => RefusalIsDeserved
<1> DEFINE Deserved ==
             \A r \in Requests : pc[r] = "counting" /\ pc'[r] = "refused" =>
               Cardinality({q \in Admitted(worker[r], subject[r]) :
                              admittedAt[q] + Window >= stamp[r]}) >= Max
           DeservedBehind ==
             \A r \in Requests : pc[r] = "counting" /\ pc'[r] = "refused" =>
               SubjectProofs!Cardinality(
                   {q \in SubjectProofs!Admitted(worker[r], subject[r]) :
                      admittedAt[q] + Window >= stamp[r]}) >= Max
<1>1. SubjectProofs!LimitSpec => [][DeservedBehind]_SubjectProofs!limitVars
  <2>1. SubjectProofs!LimitSpec => SubjectProofs!RefusalIsDeserved
    BY SubjectProofs!RefusalsAreDeserved, SameAssumptions
       DEF SubjectProofs!RefusalsAreDeserved
  <2>2. SubjectProofs!RefusalIsDeserved => [][DeservedBehind]_SubjectProofs!limitVars
    BY PTL DEF SubjectProofs!RefusalIsDeserved
  <2> QED  BY <2>1, <2>2, PTL
<1>2. DeservedBehind => Deserved
  <2>1. \A w, s : SubjectProofs!Admitted(w, s) = Admitted(w, s)
    BY DEF SubjectProofs!Admitted, Admitted, SubjectProofs!Uses, Uses, Entered
  <2> QED  BY <2>1, SameCardinality
<1>3. UNCHANGED SubjectProofs!limitVars => Deserved
  BY DEF SubjectProofs!limitVars, SubjectProofs!subjectVars, SubjectProofs!requestVars
<1>4. [DeservedBehind]_SubjectProofs!limitVars => [Deserved]_limitVars
  BY <1>2, <1>3
<1>5. [][DeservedBehind]_SubjectProofs!limitVars => [][Deserved]_limitVars
  BY <1>4, PTL
<1>6. [][Deserved]_limitVars => RefusalIsDeserved
  BY PTL DEF RefusalIsDeserved
<1> QED  BY <1>1, <1>5, <1>6, BehindAsProved, PTL
=============================================================================
