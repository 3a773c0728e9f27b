--------------------------- MODULE WorkerProcesses ---------------------------
(***************************************************************************)
(* What the two rate limits share: gunicorn's worker processes, which keep *)
(* their counts in memory and lose them when they are replaced, and time,  *)
(* which is counted in ticks, up to LastTick, and does not run backwards.  *)
(***************************************************************************)
EXTENDS Naturals, FiniteSets

CONSTANTS
    Requests,   \* requests, each served once
    Workers,    \* worker processes
    LastTick

ASSUME RequestsAreFinite == IsFiniteSet(Requests)
ASSUME SomeoneServes == Workers # {}
ASSUME TicksAreNumbers == LastTick \in Nat

VARIABLES
    clock,
    present     \* requests served by the processes that now run
=============================================================================
