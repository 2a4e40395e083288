---------------------------- MODULE ErrorHistory ---------------------------
(***************************************************************************)
(* What object 0x1003 promises its reader: the latest changes of the       *)
(* errors, the newest under subindex 1, and no more of them than the       *)
(* object has subindices.  A change may be missing when the device could   *)
(* not store it.  It gets the error register when its message is sent;     *)
(* writing 0 to subindex 0 clears the history.                             *)
(***************************************************************************)
EXTENDS Integers, Sequences

CONSTANTS
  Capacity,   (* the subindices of the object                              *)
  Bits        (* the errors                                                *)

VARIABLES
  status,     (* the errors that are set                                   *)
  history     (* changes of errors, the newest first                       *)

Init == status = {} /\ history = << >>

Toggle(bit) ==
  status' = IF bit \in status THEN status \ {bit} ELSE status \cup {bit}

(* An error is set or reset: the change comes first, the oldest one leaves *)
(* a full history.                                                         *)
Change(bit) ==
  /\ Toggle(bit)
  /\ LET e == [bit |-> bit, set |-> bit \in status', register |-> FALSE] IN
     history' = IF Len(history) < Capacity
                THEN <<e>> \o history
                ELSE <<e>> \o SubSeq(history, 1, Capacity - 1)

Miss(bit) == Toggle(bit) /\ UNCHANGED history

Stamp(i) ==
  /\ history' = [history EXCEPT ![i].register = TRUE]
  /\ UNCHANGED status

Clear == history' = << >> /\ UNCHANGED status

Next ==
  \/ \E bit \in Bits : Change(bit) \/ Miss(bit)
  \/ \E i \in DOMAIN history : Stamp(i)
  \/ Clear

Spec == Init /\ [][Next]_<<status, history>>
=============================================================================
