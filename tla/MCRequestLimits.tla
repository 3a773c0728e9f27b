--------------------------- MODULE MCRequestLimits ---------------------------
(***************************************************************************)
(* Values and symmetry for checking the two limits with TLC: two requests  *)
(* that may meet both, or, which leaves TLC room for more requests and     *)
(* more time, requests that meet one of the two, those to ordinary         *)
(* endpoints, or those to a sensitive one from addresses far below theirs. *)
(***************************************************************************)
EXTENDS RequestLimits, TLC

CONSTANTS r1, r2, r3, r4, w1, w2, here, there

(* A direct request, and one that comes through the proxy. *)
TwoOrigins ==
    {[cloudflare |-> NoAddress, forwardedFor |-> NoAddress, peer |-> here],
     [cloudflare |-> there, forwardedFor |-> here, peer |-> here]}

LimitsSymmetry == Permutations(Requests) \union Permutations(Workers)

VARIABLE watched   \* the limit this behaviour is about

WatchedInit == Init /\ watched \in {"both", "address", "subject"}

ArrivalsBound == [both |-> 2, address |-> 3]

TicksBound == 3

(* The addresses may change places, so one of them has most requests; with *)
(* the other in use time runs for three ticks only.                        *)
DirectBound == [both |-> 0, address |-> 1]

InBound ==
    LET direct == {r \in Requests : address'[r] = here}
    IN  /\ Cardinality({r \in Requests : verdict'[r] # "idle"}) <= ArrivalsBound[watched]
        /\ Cardinality(direct) <= DirectBound[watched]
        /\ direct # {} => clock' <= TicksBound

BothStep == Next /\ InBound /\ clock' <= TicksBound

AddressStep == IpNext /\ InBound /\ UNCHANGED subjectVars

(* The deques of two workers are separate: here all requests meet in one. *)
SubjectStep ==
    /\ LimitNext
    /\ \A q, r \in Requests : pc[q] # "idle" /\ pc'[r] # "idle" => worker'[q] = worker'[r]
    /\ UNCHANGED ipVars

WatchedNext ==
    /\ UNCHANGED watched
    /\ \/ watched = "both" /\ BothStep
       \/ watched = "address" /\ AddressStep
       \/ watched = "subject" /\ SubjectStep

WatchedSpec == WatchedInit /\ [][WatchedNext]_<<vars, watched>>
=============================================================================
