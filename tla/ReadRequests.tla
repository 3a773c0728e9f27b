----------------------------- MODULE ReadRequests -----------------------------
(***************************************************************************)
(* What every read of the API shares.  A request has one database session  *)
(* and runs a few SELECTs through it, each at READ COMMITTED: between two  *)
(* of them the ingestion jobs, migrations and operators may commit         *)
(* anything.  A SELECT that fails makes the repository raise               *)
(* DatabaseUnavailableError, and the request answers 503.                  *)
(*                                                                         *)
(* Of a row only what selects, orders or limits it is kept.  An answer is  *)
(* the set of its rows: ORDER BY matters for what LIMIT keeps.  Copying a  *)
(* row's columns into a response is layout.  An optional parameter is a    *)
(* set of at most one value.                                               *)
(***************************************************************************)
EXTENDS Integers, FiniteSetsExt

CONSTANTS
    Calls,      \* requests: a record of the operation and its parameters
    Databases,  \* per operation, the contents of the tables it may meet
    MaxWrites,  \* bound on how often they change under one request
    LastDay,    \* days are 1..LastDay
    Upper,      \* UPPER(text)
    Alphabet    \* the place of a text in the collation

VARIABLES
    db,         \* relations to sets of rows
    call,       \* the request
    step,       \* which of its statements is next
    held,       \* what the statements before returned
    answer,
    writes

vars == <<db, call, step, held, answer, writes>>

Null == 0
Pending == [status |-> "pending", rows |-> {}]
Statuses == {"OK", "NOT_FOUND", "CONFLICT", "INVALID", "FORBIDDEN", "UNAVAILABLE"}

Init ==
    /\ call \in Calls
    /\ db \in Databases[call.op]
    /\ step = 1
    /\ held = {}
    /\ answer = Pending
    /\ writes = 0

At(op, n) == call.op = op /\ step = n /\ answer = Pending

Reply(status, rows) ==
    /\ answer' = [status |-> status, rows |-> rows]
    /\ UNCHANGED <<db, call, step, held, writes>>

(* Keep what a statement returned and go on to the next one. *)
Hold(rows) ==
    /\ held' = rows
    /\ step' = step + 1
    /\ UNCHANGED <<db, call, answer, writes>>

(* A request of one statement, whose possible results are given. *)
Answers(op, results) == At(op, 1) /\ \E rows \in results : Reply("OK", rows)

(* One that looks for a single row: the route answers 404 without it. *)
AnswersOne(op, rows) ==
    /\ At(op, 1)
    /\ \/ rows = {} /\ Reply("NOT_FOUND", {})
       \/ \E row \in rows : Reply("OK", {row})

(* Requests that do not turn a failed statement into an error response. *)
Tolerant == {"worker-heartbeats", "health", "dashboard"}

StatementFails ==
    /\ answer = Pending
    /\ call.op \notin Tolerant
    /\ Reply("UNAVAILABLE", {})

(* Others commit between two statements of the request. *)
OthersCommit ==
    /\ answer = Pending
    /\ step > 1
    /\ writes < MaxWrites
    /\ db' \in Databases[call.op] \ {db}
    /\ writes' = writes + 1
    /\ UNCHANGED <<call, step, held, answer>>

(***************************************************************************)
(* SQL.  PostgreSQL takes NULL for the largest value when it sorts.        *)
(***************************************************************************)
SameText(a, b) == Upper[a] = Upper[b]

(* A row's "at" is a day, or for a timestamp the half of a day. *)
DayOf(at) == at \div 2
AtMidnight(day) == 2 * day
SortKey(at) == IF at = Null THEN AtMidnight(LastDay) + 2 ELSE at

InRange(day, start, end) ==
    /\ \A first \in start : day >= first
    /\ \A last \in end : day <= last

(* ORDER BY ... LIMIT: ties are kept in any way. *)
First(rows, Before(_, _), limit) ==
    {kept \in kSubset(Min({limit, Cardinality(rows)}), rows) :
        \A row \in kept, other \in rows \ kept : ~ Before(other, row)}

AboveOrNull(a, b) == a # Null /\ (b = Null \/ a > b)     \* DESC NULLS LAST

NewestFirst(a, b) == SortKey(a.at) > SortKey(b.at)
Newest(rows, limit) == First(rows, NewestFirst, limit)
===============================================================================
