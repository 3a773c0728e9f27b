---------------------------- MODULE RequestLimits ----------------------------
(***************************************************************************)
(* Worker processes with both of their limits.  Every request goes through *)
(* RateLimitMiddleware.dispatch, on the event loop; where the middleware   *)
(* calls the next, and the endpoint is a sensitive one, the dependency     *)
(* made by _make_rate_limiter follows in a thread of the same process.     *)
(* The limits share the clock and the life of the process.                 *)
(***************************************************************************)
EXTENDS SubjectRateLimit, IpRateLimit

vars == <<limitVars, ipVars>>

Init == LimitInit /\ IpInit

-----------------------------------------------------------------------------
(* dispatch: a request is served by the process that decided on it. *)
Arrive(r) == Dispatch(r) /\ UNCHANGED subjectVars

(***************************************************************************)
(* call_next, up to the dependency.  In between come other requests, and   *)
(* whatever ends one that never gets so far.                               *)
(***************************************************************************)
CallNext(r) ==
    /\ r \in present /\ verdict[r] = "passed"
    /\ \E s \in Subjects : Enter(r, via[r], s)
    /\ UNCHANGED <<present, ipVars>>

RunThread(r) == Serve(r) /\ UNCHANGED <<present, ipVars>>

PassTime == Tick /\ IpTick /\ UNCHANGED present

(* A worker process is replaced, and with it all it had in memory. *)
ReplaceWorker(w) ==
    /\ Restart(w)
    /\ IpRestart(w)
    /\ present' = {r \in present : via[r] # w}

Next ==
    \/ \E r \in Requests : Arrive(r) \/ CallNext(r) \/ RunThread(r)
    \/ PassTime
    \/ \E w \in Workers : ReplaceWorker(w)

Spec == Init /\ [][Next]_vars

-----------------------------------------------------------------------------
(***************************************************************************)
(* Both limits keep to the types of their state.                           *)
(***************************************************************************)
TypeOK == SubjectTypeOK /\ IpTypeOK

(***************************************************************************)
(* Behind the middleware the limit per subject works as it does alone: the *)
(* requests it knows of are those that came through to it.                 *)
(***************************************************************************)
Entered == {r \in present : pc[r] # "idle"}

BehindMiddleware == INSTANCE SubjectRateLimit WITH present <- Entered

KeepsSubjectLimit == BehindMiddleware!LimitSpec

(***************************************************************************)
(* What the threads do with the requests it passed is nothing to the limit *)
(* per address.                                                            *)
(***************************************************************************)
KeepsAddressLimit == IpSpec
=============================================================================
