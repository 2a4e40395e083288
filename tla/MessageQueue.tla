---------------------------- MODULE MessageQueue ----------------------------
(***************************************************************************)
(* What the program takes a queue of the kernel to be: the messages come   *)
(* out once each and in the order in which they went in, and there are     *)
(* never more of them than the queue was created for.                      *)
(***************************************************************************)
EXTENDS Integers, Sequences

CONSTANTS
  QueueLength,
  Messages

VARIABLES
  queue,      (* the messages that wait, the oldest first                  *)
  got         (* the message that was received last, none in the beginning *)

Init == queue = << >> /\ got \notin Messages

Put(m) ==
  /\ Len(queue) < QueueLength
  /\ queue' = Append(queue, m)
  /\ UNCHANGED got

Get ==
  /\ queue # << >>
  /\ got' = Head(queue)
  /\ queue' = Tail(queue)

Next == Get \/ \E m \in Messages : Put(m)

Spec == Init /\ [][Next]_<<queue, got>>
=============================================================================
