-------------------------- MODULE TransmitPromise --------------------------
(***************************************************************************)
(* What the CAN driver promises to the owners of transmit objects, without *)
(* mailboxes, scan and count.  An owner writes new contents and hands them *)
(* over.  They are sent at once, or the object is due.  A due object stays *)
(* due until it is sent, once, with the newest contents; nothing else is   *)
(* sent.  When it is sent is not promised, nor that it ever is: the driver *)
(* may leave an object full (WaitingMessageSent of CanTx).                 *)
(***************************************************************************)
EXTENDS Naturals

CONSTANT Objects

VARIABLES
  written,   (* the version of the contents of every object                *)
  accepted,  (* the version last handed over                               *)
  sent,      (* the version last sent                                      *)
  due        (* the objects to be sent later                               *)

vars == <<written, accepted, sent, due>>

Init ==
  /\ written = [b \in Objects |-> 0]
  /\ accepted = [b \in Objects |-> 0]
  /\ sent = [b \in Objects |-> 0]
  /\ due = {}

Write(b) ==
  /\ written' = [written EXCEPT ![b] = @ + 1]
  /\ UNCHANGED <<accepted, sent, due>>

(* Contents are handed over once.                                          *)
Accept(b) ==
  /\ accepted[b] < written[b]
  /\ accepted' = [accepted EXCEPT ![b] = written[b]]
  /\ \/ sent' = [sent EXCEPT ![b] = written[b]] /\ UNCHANGED due
     \/ due' = due \cup {b} /\ UNCHANGED sent
  /\ UNCHANGED written

SendLater(b) ==
  /\ b \in due
  /\ due' = due \ {b}
  /\ sent' = [sent EXCEPT ![b] = written[b]]
  /\ UNCHANGED <<written, accepted>>

Next == \E b \in Objects : Write(b) \/ Accept(b) \/ SendLater(b)

Spec == Init /\ [][Next]_vars

=============================================================================
