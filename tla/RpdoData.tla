------------------------------ MODULE RpdoData ------------------------------
(***************************************************************************)
(* The way of the data of a received PDO: CO_PDO_receive, which the        *)
(* receive interrupt calls, and CO_RPDO_process, which the periodic task   *)
(* calls for every RPDO while it holds co_mutex (CO_PDO.c, CANopen.c).     *)
(*                                                                         *)
(* The interrupt leaves the message in CANrxData and sets CANrxNew, at any *)
(* moment.  The task clears the flag and writes the mapped objects one     *)
(* after the other, each from the buffer as it is then, and begins again   *)
(* if the flag was set meanwhile.  The objects are also written by the SDO *)
(* server, in the mainline task, under the same mutex.                     *)
(*                                                                         *)
(* The k-th object mapped to RPDO r is od[r][k]; no object is mapped       *)
(* twice.  The objects are of one byte each (OD.c, 0x1600 to 0x1603).      *)
(* Length errors, which leave the data alone, are in module Emergency.     *)
(***************************************************************************)
EXTENDS Integers

CONSTANTS
  RpdoCount,   (* OD_CNT_RPDO, 4                                           *)
  Mapped,      (* mappedObjectsCount of every RPDO                         *)
  Byte,        (* for every RPDO, the values of one of its bytes           *)
  Accepted,    (* for every RPDO, the values its objects' handler accepts  *)
  Start,       (* the value of the objects of every RPDO at start          *)
  Sent,        (* for every RPDO, the messages other nodes send to it      *)
  Written,     (* for every RPDO, the values SDO clients write to it       *)
  MaxBurst     (* bounds the messages that arrive during one pass          *)

Rpdos == 1..RpdoCount
Message(r) == [1..Mapped[r] -> Byte[r]]

(* What is assumed of the constants; module Lights assumes it of its own.  *)
RpdoDataAssumption ==
  /\ RpdoCount \in Nat \ {0}
  /\ Mapped \in [Rpdos -> Nat]
  /\ \A r \in Rpdos : /\ Accepted[r] \subseteq Byte[r]
                       /\ Start[r] \in Byte[r]
                       /\ Sent[r] \subseteq Message(r)
                       /\ Written[r] \subseteq Byte[r]
  /\ MaxBurst \in Nat

VARIABLES
  CANrxNew,     (* RPDO->CANrxNew[0] of every RPDO                         *)
  CANrxData,    (* RPDO->CANrxData[0]                                      *)
  operational,  (* the NMT state is OPERATIONAL                            *)
  od,           (* the mapped objects: the values their handlers took over *)
                (* last, which those of 0x2003 do not store                *)
  pc,           (* where the periodic task is                              *)
  cur,          (* the RPDO its loop is at                                 *)
  k,            (* the object of it to be written next                     *)
  burst,        (* the messages since the pass began                       *)
  owed          (* history: what every object is to be, after the messages *)
                (* received and not discarded, and the SDO writes          *)

task     == <<operational, od, pc, cur, k>>
rpdoVars == <<CANrxNew, CANrxData, operational, od, pc, cur, k, burst, owed>>

TypeOK ==
  /\ CANrxNew \in [Rpdos -> BOOLEAN]
  /\ \A r \in Rpdos : CANrxData[r] \in Message(r)
  /\ operational \in BOOLEAN
  /\ \A r \in Rpdos : od[r] \in Message(r) /\ owed[r] \in Message(r)
  /\ pc \in {"idle", "test", "copy"}
  /\ cur \in 1..(RpdoCount + 1)
  /\ k \in Nat
  /\ burst \in 0..MaxBurst

(* CO_RPDO_init: no message; the node starts pre-operational.              *)
Init ==
  /\ CANrxNew = [r \in Rpdos |-> FALSE]
  /\ od = [r \in Rpdos |-> [n \in 1..Mapped[r] |-> Start[r]]]
  /\ CANrxData = od
  /\ operational = FALSE
  /\ pc = "idle" /\ cur = 1 /\ k = 1 /\ burst = 0
  /\ owed = od

---------------------------------------------------------------------------
(* The receive interrupt                                                   *)

(* The objects of RPDO r once message m is copied: an object whose handler *)
(* refuses the value stays as it is.                                       *)
Outcome(r, m) ==
  [n \in 1..Mapped[r] |-> IF m[n] \in Accepted[r] THEN m[n] ELSE od[r][n]]

(* CO_PDO_receive: the message replaces one that was not processed yet.    *)
Receive(r, m) ==
  /\ pc # "idle" => burst < MaxBurst
  /\ burst' = IF pc = "idle" THEN burst ELSE burst + 1
  /\ CANrxData' = [CANrxData EXCEPT ![r] = m]
  /\ CANrxNew' = [CANrxNew EXCEPT ![r] = TRUE]
  /\ owed' = [owed EXCEPT ![r] = Outcome(r, m)]
  /\ UNCHANGED task

---------------------------------------------------------------------------
(* The periodic task                                                       *)

(* CO_process_RPDO, with the mutex taken: the NMT state, which only the    *)
(* mainline task changes, stays as it is until the pass is over.           *)
StartPass ==
  /\ pc = "idle"
  /\ pc' = "test" /\ cur' = 1 /\ burst' = 0
  /\ UNCHANGED <<CANrxNew, CANrxData, operational, od, k, owed>>

(* The "else" of CO_RPDO_process: not operational, the flag is cleared.    *)
Discard ==
  /\ pc = "test" /\ cur \in Rpdos /\ ~operational
  /\ CANrxNew' = [CANrxNew EXCEPT ![cur] = FALSE]
  /\ owed' = [owed EXCEPT ![cur] = od[cur]]
  /\ cur' = cur + 1
  /\ UNCHANGED <<CANrxData, operational, od, pc, k, burst>>

(* Mutant of TestNew: the flag is left to be cleared after the copy.       *)
TestNew_KeepsFlag ==
  /\ pc = "test" /\ cur \in Rpdos /\ operational /\ CANrxNew[cur]
  /\ k' = 1
  /\ pc' = "copy"
  /\ UNCHANGED <<CANrxNew, CANrxData, operational, od, cur, burst, owed>>

(* The head of the loop, with a new message: the flag is cleared before    *)
(* the copy.                                                               *)
TestNew ==
  /\ pc = "test" /\ cur \in Rpdos /\ operational /\ CANrxNew[cur]
  /\ CANrxNew' = [CANrxNew EXCEPT ![cur] = FALSE]
  /\ k' = 1
  /\ pc' = "copy"
  /\ UNCHANGED <<CANrxData, operational, od, cur, burst, owed>>

TestOld ==
  /\ pc = "test" /\ cur \in Rpdos /\ operational /\ ~CANrxNew[cur]
  /\ cur' = cur + 1
  /\ UNCHANGED <<CANrxNew, CANrxData, operational, od, pc, k, burst, owed>>

(* OD_IO->write of one mapped object with its byte of the buffer: a value  *)
(* its handler refuses changes nothing, and the result is not looked at.   *)
Copy ==
  /\ pc = "copy" /\ k \in 1..Mapped[cur]
  /\ od' = IF CANrxData[cur][k] \in Accepted[cur]
           THEN [od EXCEPT ![cur][k] = CANrxData[cur][k]] ELSE od
  /\ k' = k + 1
  /\ UNCHANGED <<CANrxNew, CANrxData, operational, pc, cur, burst, owed>>

(* Mutant of CopyEnd: the flag is cleared after the copy as well.          *)
CopyEnd_Clears ==
  /\ pc = "copy" /\ k \notin 1..Mapped[cur]
  /\ CANrxNew' = [CANrxNew EXCEPT ![cur] = FALSE]
  /\ pc' = "test"
  /\ UNCHANGED <<CANrxData, operational, od, cur, k, burst, owed>>

CopyEnd ==
  /\ pc = "copy" /\ k \notin 1..Mapped[cur]
  /\ pc' = "test"
  /\ UNCHANGED <<CANrxNew, CANrxData, operational, od, cur, k, burst, owed>>

(* The loop over the RPDOs is over; the mutex is released.                 *)
EndPass ==
  /\ pc = "test" /\ cur \notin Rpdos
  /\ pc' = "idle"
  /\ UNCHANGED <<CANrxNew, CANrxData, operational, od, cur, k, burst, owed>>

---------------------------------------------------------------------------
(* The mainline task, which needs the mutex the periodic task holds        *)

(* The SDO server writes object n of RPDO r; a message that waits will     *)
(* overwrite it.                                                           *)
Write(r, n, b) ==
  /\ pc = "idle"
  /\ b \in Accepted[r]
  /\ od' = [od EXCEPT ![r][n] = b]
  /\ owed' = IF CANrxNew[r] /\ CANrxData[r][n] \in Accepted[r] THEN owed
             ELSE [owed EXCEPT ![r][n] = b]
  /\ UNCHANGED <<CANrxNew, CANrxData, operational, pc, cur, k, burst>>

(* CO_NMT_process changes the state (module NmtSlave).                     *)
NmtChange ==
  /\ pc = "idle"
  /\ operational' = ~operational
  /\ UNCHANGED <<CANrxNew, CANrxData, od, pc, cur, k, burst, owed>>

---------------------------------------------------------------------------
Periodic == StartPass \/ Discard \/ TestNew \/ TestOld \/ Copy \/ CopyEnd \/ EndPass

Next ==
  \/ \E r \in Rpdos : \E m \in Sent[r] : Receive(r, m)
  \/ Periodic
  \/ \E r \in Rpdos : \E n \in 1..Mapped[r], b \in Written[r] : Write(r, n, b)
  \/ NmtChange

RpdoSpec == Init /\ [][Next]_rpdoVars

---------------------------------------------------------------------------
(* Properties                                                              *)

(* A message is applied whole or not at all, whatever arrives while it is  *)
(* copied: an RPDO that is not being copied and has no message waiting has *)
(* in all its objects the values of the last message that was not          *)
(* discarded, but for those an SDO wrote after it.  (CO_RPDO_process       *)
(* against CO_PDO_receive.)                                                *)
Copying(r) == pc = "copy" /\ cur = r

RpdoWhole ==
  \A r \in Rpdos : ~Copying(r) /\ ~CANrxNew[r] => od[r] = owed[r]

=============================================================================
