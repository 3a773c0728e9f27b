----------------------------- MODULE IpRateLimit -----------------------------
(***************************************************************************)
(* RateLimitMiddleware: how many requests an address may make.  While a    *)
(* worker has a Redis client it counts in a key per address and minute     *)
(* that all workers share; a failing call makes it drop the client, let    *)
(* the request pass, and count in a deque of its own until, at least       *)
(* RetryAfter later, a request finds Redis reachable again.                *)
(*                                                                         *)
(* dispatch does not await anything before it has decided, so one action   *)
(* is one decision: the other worker can come between INCR and EXPIRE, but *)
(* neither of its calls depends on the key's time to live.  The periodic   *)
(* cleanup deletes empty deques only; here an absent deque is an empty     *)
(* one.  Any call to Redis may fail, before or after it took effect.       *)
(*                                                                         *)
(* A deque's times are in order, as time does not run backwards, so a      *)
(* deque is the set of the requests whose times it stores.                 *)
(***************************************************************************)
EXTENDS WorkerProcesses

CONSTANTS
    Origins,        \* what a request says about where it comes from
    TrustProxy,     \* settings.trust_proxy_headers
    IpWindow,       \* window_seconds
    IpMax,          \* settings.rate_limit_per_minute
    RetryAfter,     \* _REDIS_RETRY_INTERVAL
    KeyTtl,         \* how long EXPIRE lets a key live
    Connected,      \* the worker has a client
    Unconfigured,   \* redis_url is not set
    NoAddress,      \* a header that is absent or holds no IP address
    Unknown,        \* the address of a request without one
    Forever         \* a key without a time to live

ASSUME IpLimitsAreNatural ==
    /\ IpWindow \in Nat \ {0}
    /\ IpMax \in Nat
    /\ RetryAfter \in Nat
    /\ KeyTtl \in Nat

(* expire(key, window_seconds + 5) *)
ASSUME KeysOutliveMinutes == KeyTtl >= IpWindow

ASSUME MarksAreNotTimes ==
    /\ {Connected, Unconfigured, Forever} \intersect Nat = {}
    /\ Connected # Unconfigured

VARIABLES
    connection,     \* per worker: Connected, Unconfigured or the last failure
    hits,           \* per worker and address, the requests in its deque
    counts,         \* the keys in Redis, per address and minute
    verdict,        \* per request: idle, passed or limited
    path,           \* who decided: Redis, a failure or the worker's memory
    address,        \* its address
    via,            \* its worker
    arrivedAt

ipRequestVars == <<verdict, path, address, via, arrivedAt>>
ipVars == <<connection, hits, counts, ipRequestVars>>

(***************************************************************************)
(* get_client_ip: a proxy's headers count only if they are trusted.        *)
(***************************************************************************)
ForwardedIp(o) == IF o.cloudflare # NoAddress THEN o.cloudflare ELSE o.forwardedFor

ClientIp(o) ==
    CASE TrustProxy /\ ForwardedIp(o) # NoAddress -> ForwardedIp(o)
      [] OTHER -> IF o.peer # NoAddress THEN o.peer ELSE Unknown

Addresses == {ClientIp(o) : o \in Origins}

Minute(t) == t \div IpWindow
Minutes == 0..Minute(LastTick)

NoKey == [n |-> 0, until |-> 0]

IpInit ==
    /\ connection \in [Workers -> {Connected}] \union [Workers -> {Unconfigured}]
    /\ hits = [w \in Workers |-> [a \in Addresses |-> {}]]
    /\ counts = [a \in Addresses |-> [m \in Minutes |-> NoKey]]
    /\ verdict = [r \in Requests |-> "idle"]
    /\ path = [r \in Requests |-> "none"]
    /\ address = [r \in Requests |-> Unknown]
    /\ via = [r \in Requests |-> CHOOSE w \in Workers : TRUE]
    /\ arrivedAt = [r \in Requests |-> 0]

-----------------------------------------------------------------------------
(* Mutant: a failed worker asks Redis again at its next request. *)
AfterReconnectAtOnce(w) ==
    IF connection[w] \in {Connected, Unconfigured}
    THEN {connection[w]} ELSE {Connected, clock}

(***************************************************************************)
(* _try_reconnect_redis: the connections a worker may have once it tried.  *)
(***************************************************************************)
AfterReconnect(w) ==
    IF \/ connection[w] \in {Connected, Unconfigured}
       \/ clock - connection[w] < RetryAfter
    THEN {connection[w]}
    ELSE {Connected, clock}

Decide(r, w, a, v, p) ==
    /\ verdict' = [verdict EXCEPT ![r] = v]
    /\ path' = [path EXCEPT ![r] = p]
    /\ address' = [address EXCEPT ![r] = a]
    /\ via' = [via EXCEPT ![r] = w]
    /\ arrivedAt' = [arrivedAt EXCEPT ![r] = clock]

(***************************************************************************)
(* INCR, and EXPIRE after the first.                                       *)
(***************************************************************************)
Incremented(a, ttl) ==
    LET k == counts[a][Minute(clock)]
    IN  [counts EXCEPT ![a][Minute(clock)] =
            [n |-> k.n + 1, until |-> IF k.n = 0 THEN ttl ELSE k.until]]

(* Mutant: the request that exceeds the limit still passes. *)
CountInRedisOneMore(r, w, a) ==
    /\ connection' = [connection EXCEPT ![w] = Connected]
    /\ counts' = Incremented(a, clock + KeyTtl)
    /\ Decide(r, w, a,
              IF counts'[a][Minute(clock)].n > IpMax + 1 THEN "limited" ELSE "passed",
              "redis")
    /\ UNCHANGED hits

CountInRedis(r, w, a) ==
    /\ connection' = [connection EXCEPT ![w] = Connected]
    /\ counts' = Incremented(a, clock + KeyTtl)
    /\ Decide(r, w, a,
              IF counts'[a][Minute(clock)].n > IpMax THEN "limited" ELSE "passed",
              "redis")
    /\ UNCHANGED hits

(***************************************************************************)
(* A call fails, INCR or EXPIRE, with or without effect: the request       *)
(* passes, and is counted in no deque.                                     *)
(***************************************************************************)
RedisFails(r, w, a) ==
    /\ connection' = [connection EXCEPT ![w] = clock]
    /\ counts' \in {counts, Incremented(a, Forever), Incremented(a, clock + KeyTtl)}
    /\ Decide(r, w, a, "passed", "open")
    /\ UNCHANGED hits

Recent(w, a) == {q \in hits[w][a] : clock - arrivedAt[q] <= IpWindow}

CountInMemory(r, w, a, c) ==
    /\ connection' = [connection EXCEPT ![w] = c]
    /\ IF Cardinality(Recent(w, a)) >= IpMax
       THEN /\ hits' = [hits EXCEPT ![w][a] = Recent(w, a)]
            /\ Decide(r, w, a, "limited", "memory")
       ELSE /\ hits' = [hits EXCEPT ![w][a] = Recent(w, a) \union {r}]
            /\ Decide(r, w, a, "passed", "memory")
    /\ UNCHANGED counts

Dispatch(r) ==
    /\ verdict[r] = "idle"
    /\ present' = present \union {r}
    /\ \E w \in Workers, o \in Origins : \E c \in AfterReconnect(w) :
         IF c = Connected
         THEN CountInRedis(r, w, ClientIp(o)) \/ RedisFails(r, w, ClientIp(o))
         ELSE CountInMemory(r, w, ClientIp(o), c)
    /\ UNCHANGED clock

(***************************************************************************)
(* Time passes; Redis drops the keys that have lived their time.           *)
(***************************************************************************)
KeysAfterTick ==
    [a \in Addresses |-> [m \in Minutes |->
        IF counts[a][m].until # Forever /\ counts[a][m].until <= clock + 1
        THEN NoKey ELSE counts[a][m]]]

IpTick == counts' = KeysAfterTick /\ UNCHANGED <<connection, hits, ipRequestVars>>

(***************************************************************************)
(* A worker process is replaced: its deques and its connection start anew. *)
(***************************************************************************)
IpRestart(w) ==
    /\ connection' =
         [connection EXCEPT ![w] = IF @ = Unconfigured THEN @ ELSE Connected]
    /\ hits' = [hits EXCEPT ![w] = [a \in Addresses |-> {}]]
    /\ UNCHANGED <<counts, ipRequestVars>>

IpNext ==
    \/ \E r \in Requests : Dispatch(r)
    \/ clock < LastTick /\ clock' = clock + 1 /\ IpTick /\ UNCHANGED present
    \/ \E w \in Workers :
         /\ IpRestart(w)
         /\ present' = {r \in present : via[r] # w}
         /\ UNCHANGED clock

IpSpec == clock = 0 /\ present = {} /\ IpInit /\ [][IpNext]_<<clock, present, ipVars>>

-----------------------------------------------------------------------------
(***************************************************************************)
(* Types of the per-address state.                                         *)
(***************************************************************************)
Key == [n: Nat, until: Nat \union {Forever}]

IpTypeOK ==
    /\ connection \in [Workers -> {Connected, Unconfigured} \union 0..LastTick]
    /\ hits \in [Workers -> [Addresses -> SUBSET Requests]]
    /\ counts \in [Addresses -> [Minutes -> Key]]
    /\ verdict \in [Requests -> {"idle", "passed", "limited"}]
    /\ path \in [Requests -> {"none", "redis", "open", "memory"}]
    /\ address \in [Requests -> Addresses \union {Unknown}]
    /\ via \in [Requests -> Workers]
    /\ arrivedAt \in [Requests -> 0..LastTick]

Passed(p, a) ==
    {r \in Requests : verdict[r] = "passed" /\ path[r] = p /\ address[r] = a}

(***************************************************************************)
(* Redis lets at most IpMax requests of an address pass in a minute, over  *)
(* all workers and whatever fails or loses its time to live meanwhile; and *)
(* the deque of a running process lets at most IpMax pass in any window,   *)
(* also if it is abandoned for Redis and taken up again.                   *)
(***************************************************************************)
AddressLimit ==
    /\ \A a \in Addresses, m \in Minutes :
         Cardinality({r \in Passed("redis", a) : Minute(arrivedAt[r]) = m}) <= IpMax
    /\ \A a \in Addresses, q \in present :
         Cardinality({r \in Passed("memory", a) \intersect present :
                        /\ via[r] = via[q]
                        /\ arrivedAt[r] \in arrivedAt[q]..(arrivedAt[q] + IpWindow)}) <= IpMax

(***************************************************************************)
(* A process lets a request pass uncounted, because Redis failed it, at    *)
(* most once in RetryAfter: a dead Redis does not switch the limit off.    *)
(***************************************************************************)
FailsOpenRarely ==
    \A p, q \in {r \in present : path[r] = "open"} :
        /\ p # q
        /\ via[p] = via[q]
        /\ arrivedAt[p] <= arrivedAt[q]
        => arrivedAt[q] - arrivedAt[p] >= RetryAfter

(***************************************************************************)
(* A key is left without a time to live only in a minute in which a worker *)
(* lost Redis between INCR and EXPIRE, so there are no more of them than   *)
(* failures.                                                               *)
(***************************************************************************)
LeakedKeysFollowFailures ==
    \A a \in Addresses, m \in Minutes : counts[a][m].until = Forever =>
        \E r \in Requests :
            path[r] = "open" /\ address[r] = a /\ Minute(arrivedAt[r]) = m
=============================================================================
