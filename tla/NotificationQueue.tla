-------------------------- MODULE NotificationQueue --------------------------
(***************************************************************************)
(* What the data queue between the filter and the client promises: the     *)
(* client gets the messages the filter put in, each once, in their order.  *)
(* The filter may be told that there is no room; nothing is lost silently. *)
(* NkeDataQueue implements it.                                             *)
(***************************************************************************)
EXTENDS Sequences

CONSTANTS Message, NoMessage

VARIABLES queue, received

vars == <<queue, received>>

Init ==
  /\ queue = <<>>
  /\ received = NoMessage

Enqueue(m) ==
  /\ queue' = Append(queue, m)
  /\ UNCHANGED received

Dequeue ==
  /\ queue # <<>>
  /\ received' = Head(queue)
  /\ queue' = Tail(queue)

Next == Dequeue \/ \E m \in Message : Enqueue(m)

Spec == Init /\ [][Next]_vars
=============================================================================
