--------------------------- MODULE SubjectRateLimit ---------------------------
(***************************************************************************)
(* _make_rate_limiter: how many requests a subject may make to a sensitive *)
(* endpoint.  The dependency is a plain function, so FastAPI runs it in a  *)
(* thread; the threads of a worker share the subject's deque without a     *)
(* lock, and every worker process has deques of its own.  One action is    *)
(* one operation on the deque, between which the interpreter may switch    *)
(* threads.                                                                *)
(*                                                                         *)
(* A deque holds the requests whose times it stores.                       *)
(***************************************************************************)
EXTENDS WorkerProcesses, Sequences

CONSTANTS
    Subjects,   \* authenticated subjects, or "anonymous"
    Threads,    \* how many threads of a worker serve requests
    Window,     \* window_seconds
    Max         \* max_requests

ASSUME LimitsAreNatural ==
    Threads \in Nat \ {0} /\ Max \in Nat \ {0} /\ Window \in Nat

VARIABLES
    bucket,     \* per worker and subject, the requests in its deque
    pc,         \* where a request is, or how it ended
    worker, subject, stamp,   \* its worker, its subject and its `now`
    admittedAt, \* when it was appended to the deque
    raced       \* the deques that two requests have used at the same time

requestVars == <<pc, worker, subject, stamp, admittedAt>>
subjectVars == <<bucket, requestVars, raced>>
limitVars == <<clock, present, subjectVars>>

InFlight == {"checking", "looking", "popping", "counting", "appending"}
Ended == {"admitted", "refused", "failed", "lost"}

Uses(r, w, s) == worker[r] = w /\ subject[r] = s

Serving(w) == {r \in Requests : worker[r] = w /\ pc[r] \in InFlight}

(* The requests that found room and have not been appended yet. *)
Appending(w, s) == {r \in Requests : Uses(r, w, s) /\ pc[r] = "appending"}

Bucket(r) == bucket[worker[r]][subject[r]]

SubjectInit ==
    /\ bucket = [w \in Workers |-> [s \in Subjects |-> << >>]]
    /\ pc = [r \in Requests |-> "idle"]
    /\ worker \in {[r \in Requests |-> w] : w \in Workers}
    /\ subject \in {[r \in Requests |-> s] : s \in Subjects}
    /\ stamp = [r \in Requests |-> 0]
    /\ admittedAt = [r \in Requests |-> 0]
    /\ raced = {}

LimitInit == clock = 0 /\ present = {} /\ SubjectInit

GoTo(r, l) == pc' = [pc EXCEPT ![r] = l]

-----------------------------------------------------------------------------
(* Mutant: a request without a subject is not counted under "anonymous". *)
EnterWithoutDefault(r, w, s) ==
    /\ pc[r] = "idle"
    /\ Cardinality(Serving(w)) < Threads
    /\ GoTo(r, "checking")
    /\ worker' = [worker EXCEPT ![r] = w]
    /\ subject' = [subject EXCEPT ![r] = "none"]
    /\ stamp' = [stamp EXCEPT ![r] = clock]
    /\ UNCHANGED <<clock, bucket, admittedAt, raced>>

(***************************************************************************)
(* The dependency is called: it takes the time and the subject's deque.    *)
(***************************************************************************)
Enter(r, w, s) ==
    /\ pc[r] = "idle"
    /\ Cardinality(Serving(w)) < Threads
    /\ GoTo(r, "checking")
    /\ worker' = [worker EXCEPT ![r] = w]
    /\ subject' = [subject EXCEPT ![r] = s]
    /\ stamp' = [stamp EXCEPT ![r] = clock]
    /\ raced' = IF \E q \in Serving(w) : subject[q] = s
                THEN raced \union {<<w, s>>} ELSE raced
    /\ UNCHANGED <<clock, bucket, admittedAt>>

(* `while bucket` *)
CheckEmpty(r) ==
    /\ pc[r] = "checking"
    /\ GoTo(r, IF Bucket(r) = << >> THEN "counting" ELSE "looking")
    /\ UNCHANGED <<clock, bucket, worker, subject, stamp, admittedAt, raced>>

(* Mutant: a request still counts Window + 1 ticks later. *)
LookAtOldestLate(r) ==
    /\ pc[r] = "looking"
    /\ GoTo(r, CASE Bucket(r) = << >> -> "failed"
                 [] Bucket(r) # << >> /\ stamp[r] > Window + 1 + stamp[Head(Bucket(r))] -> "popping"
                 [] OTHER -> "counting")
    /\ UNCHANGED <<clock, bucket, worker, subject, stamp, admittedAt, raced>>

(* Mutant: `>=` for `>`, a request counts one tick less. *)
LookAtOldestEarly(r) ==
    /\ pc[r] = "looking"
    /\ GoTo(r, CASE Bucket(r) = << >> -> "failed"
                 [] Bucket(r) # << >> /\ stamp[r] >= Window + stamp[Head(Bucket(r))] -> "popping"
                 [] OTHER -> "counting")
    /\ UNCHANGED <<clock, bucket, worker, subject, stamp, admittedAt, raced>>

(***************************************************************************)
(* `now - bucket[0] > window_seconds`; on a deque that another thread has  *)
(* emptied, an IndexError that ends the request with a 500.                *)
(***************************************************************************)
LookAtOldest(r) ==
    /\ pc[r] = "looking"
    /\ GoTo(r, CASE Bucket(r) = << >> -> "failed"
                 [] Bucket(r) # << >> /\ stamp[r] > Window + stamp[Head(Bucket(r))] -> "popping"
                 [] OTHER -> "counting")
    /\ UNCHANGED <<clock, bucket, worker, subject, stamp, admittedAt, raced>>

(***************************************************************************)
(* popleft: takes the oldest request, which need not be the one that was   *)
(* found too old.                                                          *)
(***************************************************************************)
PopOldest(r) ==
    /\ pc[r] = "popping"
    /\ IF Bucket(r) = << >>
       THEN GoTo(r, "failed") /\ UNCHANGED bucket
       ELSE /\ GoTo(r, "checking")
            /\ bucket' = [bucket EXCEPT ![worker[r]][subject[r]] = Tail(@)]
    /\ UNCHANGED <<clock, worker, subject, stamp, admittedAt, raced>>

(* Mutant: `>` for `>=`. *)
CountOneMore(r) ==
    /\ pc[r] = "counting"
    /\ GoTo(r, IF Len(Bucket(r)) > Max THEN "refused" ELSE "appending")
    /\ UNCHANGED <<clock, bucket, worker, subject, stamp, admittedAt, raced>>

Count(r) ==
    /\ pc[r] = "counting"
    /\ GoTo(r, IF Len(Bucket(r)) >= Max THEN "refused" ELSE "appending")
    /\ UNCHANGED <<clock, bucket, worker, subject, stamp, admittedAt, raced>>

AppendNow(r) ==
    /\ pc[r] = "appending"
    /\ GoTo(r, "admitted")
    /\ bucket' = [bucket EXCEPT ![worker[r]][subject[r]] = Append(@, r)]
    /\ admittedAt' = [admittedAt EXCEPT ![r] = clock]
    /\ UNCHANGED <<clock, worker, subject, stamp, raced>>

Serve(r) ==
    \/ CheckEmpty(r)
    \/ LookAtOldest(r)
    \/ PopOldest(r)
    \/ Count(r)
    \/ AppendNow(r)

Tick == clock < LastTick /\ clock' = clock + 1 /\ UNCHANGED subjectVars

(***************************************************************************)
(* A worker process is replaced: its deques and its threads are gone.      *)
(***************************************************************************)
Restart(w) ==
    /\ bucket' = [bucket EXCEPT ![w] = [s \in Subjects |-> << >>]]
    /\ pc' = [r \in Requests |-> IF r \in Serving(w) THEN "lost" ELSE pc[r]]
    /\ raced' = {d \in raced : d[1] # w}
    /\ UNCHANGED <<clock, worker, subject, stamp, admittedAt>>

ServedBy(w) == {r \in Requests : pc[r] # "idle" /\ worker[r] = w}

LimitNext ==
    \/ \E r \in Requests :
         \/ \E w \in Workers, s \in Subjects :
              Enter(r, w, s) /\ present' = present \union {r}
         \/ Serve(r) /\ UNCHANGED present
    \/ Tick /\ UNCHANGED present
    \/ \E w \in Workers : Restart(w) /\ present' = present \ ServedBy(w)

LimitSpec == LimitInit /\ [][LimitNext]_limitVars

-----------------------------------------------------------------------------
SubjectTypeOK ==
    /\ bucket \in [Workers -> [Subjects -> Seq(Requests)]]
    /\ pc \in [Requests -> {"idle"} \union InFlight \union Ended]
    /\ worker \in [Requests -> Workers]
    /\ subject \in [Requests -> Subjects]

(***************************************************************************)
(* A deque grows past Max only by the requests that counted it at the same *)
(* time: with those that are about to be appended it never holds more than *)
(* Max and the other threads of its worker, whatever they interleave.      *)
(***************************************************************************)
BucketBound ==
    \A w \in Workers, s \in Subjects :
        Len(bucket[w][s]) + Cardinality(Appending(w, s)) <= Max + Threads - 1

(***************************************************************************)
(* The limit is exact where no two requests of a subject were served at    *)
(* the same time by a running process: in no window are more than Max      *)
(* admitted.                                                               *)
(***************************************************************************)
Admitted(w, s) == {r \in present : pc[r] = "admitted" /\ Uses(r, w, s)}

SerialLimit ==
    \A w \in Workers, s \in Subjects :
        <<w, s>> \notin raced =>
            \A q \in Admitted(w, s) :
                Cardinality({p \in Admitted(w, s) :
                    stamp[p] \in stamp[q]..(stamp[q] + Window)}) <= Max

(***************************************************************************)
(* A request is refused only if its worker admitted Max requests of the    *)
(* same subject within the window before it, however the threads that      *)
(* drop old requests cut into each other.                                  *)
(***************************************************************************)
RefusalIsDeserved ==
    [][\A r \in Requests : pc[r] = "counting" /\ pc'[r] = "refused" =>
         Cardinality({q \in Admitted(worker[r], subject[r]) :
                        admittedAt[q] + Window >= stamp[r]}) >= Max]_limitVars

(***************************************************************************)
(* What the documentation says of account deletion: a subject is admitted  *)
(* once in a window.                                                       *)
(***************************************************************************)
OncePerWindow ==
    \A p, q \in {r \in Requests : pc[r] = "admitted"} :
        /\ p # q
        /\ subject[p] = subject[q]
        /\ stamp[p] <= stamp[q]
        => stamp[q] - stamp[p] > Window
=============================================================================
