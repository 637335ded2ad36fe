----------------------------- MODULE LossyQueue -----------------------------
(***************************************************************************)
(* What a watchdog queue promises its users, whatever the server process,  *)
(* its tasks and the sockets do: a packet enters the queue once, is given  *)
(* to at most one receiver, and is lost only if the receiver it was given  *)
(* to dies with unread packets or the queue itself is closed.              *)
(* QueueServer implements this specification.                              *)
(***************************************************************************)
EXTENDS Sequences

CONSTANTS Receivers, Packets

VARIABLES
  fresh,     (* packets that have not entered the queue                    *)
  pending,   (* packets in the queue, given to nobody                      *)
  inbox,     (* inbox[r]: packets given to r and not yet read              *)
  got        (* got[r]: packets r has read, in order                       *)

vars == <<fresh, pending, inbox, got>>

Init ==
  /\ fresh = Packets
  /\ pending = {}
  /\ inbox = [r \in Receivers |-> <<>>]
  /\ got = [r \in Receivers |-> <<>>]

(* Packets of one sender enter together when one read() returns several.   *)
Enter(ps) ==
  /\ ps \subseteq fresh
  /\ fresh' = fresh \ ps
  /\ pending' = pending \cup ps
  /\ UNCHANGED <<inbox, got>>

Give(r, p) ==
  /\ p \in pending
  /\ pending' = pending \ {p}
  /\ inbox' = [inbox EXCEPT ![r] = Append(@, p)]
  /\ UNCHANGED <<fresh, got>>

Read(r) ==
  /\ inbox[r] # <<>>
  /\ got' = [got EXCEPT ![r] = Append(@, Head(inbox[r]))]
  /\ inbox' = [inbox EXCEPT ![r] = Tail(@)]
  /\ UNCHANGED <<fresh, pending>>

ReceiverDies(r) ==
  /\ inbox' = [inbox EXCEPT ![r] = <<>>]
  /\ UNCHANGED <<fresh, pending, got>>

Close ==
  /\ pending' = {}
  /\ UNCHANGED <<fresh, inbox, got>>

Next ==
  \/ \E ps \in SUBSET fresh : Enter(ps)
  \/ \E r \in Receivers :
       \/ \E p \in pending : Give(r, p)
       \/ Read(r)
       \/ ReceiverDies(r)
  \/ Close

Spec == Init /\ [][Next]_vars
=============================================================================
