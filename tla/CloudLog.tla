------------------------------ MODULE CloudLog ------------------------------
(***************************************************************************)
(* The way of a log message to the cloud (modules/logger.py, CloudPrinter  *)
(* of core/logging.py).  The logger's handler of a LOG event prints it to  *)
(* the cloud printer and puts it into events, from where cloudprint prints *)
(* it to the same cloud printer again.  The cloud printer collects, and    *)
(* hands all it has to the bridge with the first message that comes five   *)
(* seconds after the last batch.  Handlers run side by side (EventListener *)
(* makes a task of each), and a batch's sender waits for the queue.        *)
(***************************************************************************)
EXTENDS Naturals, Sequences, FiniteSets

CONSTANTS
    Messages        \* LOG events, each of them handled once

Cloudprint == "cloudprint"      \* the task that runs cloudprint

ASSUME LogAssumption == Cloudprint \notin Messages

VARIABLES
    events,         \* LoggerModule.events
    printing,       \* the local copy that cloudprint works on
    collected,      \* CloudPrinter.data
    due,            \* whether five seconds have passed since the last batch
    putting,        \* batches whose sender waits for the queue, by task
    handled,        \* messages that a handler has taken up
    uploaded        \* what CLOUDLOGGING events brought to the bridge

logVars == <<events, printing, collected, due, putting, handled, uploaded>>

LogInit ==
    /\ events = <<>> /\ printing = <<>> /\ collected = <<>> /\ due = FALSE
    /\ putting = <<>> /\ handled = {} /\ uploaded = <<>>

Busy(task) == task \in DOMAIN putting

-----------------------------------------------------------------------------
BatchKept(batch) == batch                                            \* mutant
Remaining(batch) == <<>>

\* CloudPrinter.append: the data is replaced before the queue is waited for.
\* TRUE when the task goes on without waiting.
PrintAppend(task, m) ==
    LET all == Append(collected, m)
    IN IF due
       THEN /\ collected' = Remaining(all) /\ due' = FALSE
            /\ putting' = [t \in DOMAIN putting \cup {task} |-> IF t = task THEN all ELSE putting[t]]
       ELSE collected' = all /\ UNCHANGED <<due, putting>>

\* on_log_event, to the end when nothing is to be sent.
Handle(m) ==
    /\ m \notin handled
    /\ handled' = handled \cup {m}
    /\ PrintAppend(m, m)
    /\ events' = IF due THEN events ELSE Append(events, m)
    /\ UNCHANGED <<printing, uploaded>>

\* The queue took the batch; the handler notes its message for cloudprint.
Sent(task) ==
    /\ Busy(task)
    /\ uploaded' = uploaded \o putting[task]
    /\ putting' = [t \in DOMAIN putting \ {task} |-> putting[t]]
    /\ events' = IF task = Cloudprint THEN events ELSE Append(events, task)
    /\ UNCHANGED <<printing, collected, due, handled>>

\* cloudprint takes what there is at once ...
TakeEvents ==
    /\ printing = <<>> /\ ~Busy(Cloudprint) /\ events # <<>>
    /\ printing' = events /\ events' = <<>>
    /\ UNCHANGED <<collected, due, putting, handled, uploaded>>

\* ... and prints one after the other.
PrintNext ==
    /\ printing # <<>> /\ ~Busy(Cloudprint)
    /\ PrintAppend(Cloudprint, Head(printing))
    /\ printing' = Tail(printing)
    /\ UNCHANGED <<events, handled, uploaded>>

FiveSeconds == ~due /\ due' = TRUE /\ UNCHANGED <<events, printing, collected, putting, handled, uploaded>>

LogNext ==
    \/ \E m \in Messages : Handle(m)
    \/ \E t \in Messages \cup {Cloudprint} : Sent(t)
    \/ TakeEvents \/ PrintNext \/ FiveSeconds

LogSpec == LogInit /\ [][LogNext]_logVars

-----------------------------------------------------------------------------
(* Properties.                                                             *)

Times(m, s) == Cardinality({k \in DOMAIN s : s[k] = m})
Batched == UNION {{t} \X DOMAIN putting[t] : t \in DOMAIN putting}
InBatches(m) == Cardinality({p \in Batched : putting[p[1]][p[2]] = m})
Printed(m) == Times(m, collected) + Times(m, uploaded) + InBatches(m)
ToPrint(m) == Times(m, events) + Times(m, printing) + (IF Busy(m) THEN 1 ELSE 0)

\* Whatever the handlers and cloudprint do to the printer between each other's
\* steps, no message is lost and none is sent more often than the two times that
\* the code prints it.
LogConserved ==
    \A m \in Messages :
        IF m \in handled THEN Printed(m) + ToPrint(m) = 2 /\ Printed(m) >= 1
        ELSE Printed(m) + ToPrint(m) = 0

=============================================================================
