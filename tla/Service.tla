------------------------------ MODULE Service ------------------------------
(***************************************************************************)
(* How the backends that keep their state in a database handle requests    *)
(* (see the module Cloud for which they are).  A service is 1 to n         *)
(* processes on one database; every connection is in autocommit mode, so a *)
(* request is a sequence of statements, each its own transaction, and the  *)
(* statements of two processes interleave.  Inside a process a handler     *)
(* keeps the event loop until it awaits something, so a process works on   *)
(* one request at a time; a handler that does await in the middle is       *)
(* parked by the module that models it.                                    *)
(***************************************************************************)
EXTENDS Naturals, FiniteSets

CONSTANTS
    Workers,    \* the processes of the service
    MaxOverlap  \* bound: requests handled when there are several processes

ASSUME ServiceAssumption == MaxOverlap \in Nat /\ IsFiniteSet(Workers)

VARIABLES
    alive,      \* the processes that were started
    handled,    \* requests so far, counted when there are several processes
    req         \* per process, the request it works on and its next statement

serviceVars == <<alive, handled, req>>

Idle == [op |-> "idle"]

ServiceInit ==
    /\ alive \in SUBSET Workers \ {{}}
    /\ handled = 0
    /\ req = [w \in Workers |-> Idle]

\* The deployment with one process, in which requests do not overlap.
Sequential == Cardinality(alive) = 1

Free(w) == w \in alive /\ req[w] = Idle

\* Process w works on a request of kind op and is about to do statement `at`.
At(w, op, at) == req[w].op = op /\ req[w].at = at

\* What the request is after this statement, and the end of a request.
Continue(w, r) == req' = [req EXCEPT ![w] = r] /\ UNCHANGED <<alive, handled>>
Answer(w) == Continue(w, Idle)
Goto(w, at) == Continue(w, [req[w] EXCEPT !.at = at])

Counted == IF Sequential THEN UNCHANGED handled
           ELSE handled < MaxOverlap /\ handled' = handled + 1

\* A request arrives at a process that is not working on one.
Receive(w, r) ==
    /\ Free(w)
    /\ req' = [req EXCEPT ![w] = r]
    /\ Counted
    /\ UNCHANGED alive

=============================================================================
