----------------------------- MODULE Emergency -----------------------------
(***************************************************************************)
(* Errors and their messages: CO_error, CO_EM_process and object 0x1003    *)
(* (CO_Emergency.c), the sources of errors this program has, which are an  *)
(* RPDO of the wrong length (CO_PDO.c), a full transmit object             *)
(* (CO_CANsend) and the emergency queue itself, and what the error         *)
(* register does to the NMT state (CO_NMT_process).                        *)
(*                                                                         *)
(* The mainline task (EmDriver .. NmtProcess, ClearHistory) and the loop   *)
(* over the RPDOs of the periodic task hold co_mutex; the interrupts may   *)
(* fall between any two of their steps.                                    *)
(***************************************************************************)
EXTENDS Integers

CONSTANTS
  RpdoCount,  (* OD_CNT_RPDO, 4                                            *)
  FifoSize    (* fifoSize: OD_CNT_ARR_1003 + 1, 17                         *)

ASSUME EmergencyAssumption ==
  /\ RpdoCount \in Nat \ {0}
  /\ FifoSize \in Nat /\ FifoSize >= 3

Rpdos == 1..RpdoCount
Slots == 0..(FifoSize - 1)

(* The bits of errorStatusBits that this program sets.                     *)
ErrorBits == {"CAN_TX_OVERFLOW", "RPDO_WRONG_LENGTH", "EMERGENCY_BUFFER_FULL"}

(* A message of the fifo; register is the communication bit of the error   *)
(* register, the only one these errors can set.                            *)
Messages == [bit : ErrorBits \cup {"NO_ERROR"}, set : BOOLEAN, register : BOOLEAN]
Blank    == [bit |-> "NO_ERROR", set |-> FALSE, register |-> FALSE]

VARIABLES
  receiveError,   (* receiveError of every RPDO                            *)
  rpdo,           (* the RPDO the periodic task is at, 0 outside its loop  *)
  txOverflow,     (* CO_CAN_ERRTX_OVERFLOW in CANerrorStatus               *)
  txOverflowOld,  (* the same bit of em->CANerrorStatusOld                 *)
  bufferFull,     (* of the transmit object of the emergency producer      *)
  pc,             (* where the mainline task is in CO_process              *)
  state,          (* the NMT state                                         *)
  errorRegister,  (* the communication bit of object 0x1001                *)
  status,         (* errorStatusBits                                       *)
  fifo, fifoWrPtr, fifoPpPtr, fifoOverflow, fifoCount,
  told,           (* history: the errors the bus was told of last          *)
  lost            (* history: the errors whose last change got no message  *)

driver == <<txOverflow, txOverflowOld, bufferFull>>
nmt    == <<state, errorRegister>>
errors == <<status, fifo, fifoWrPtr, fifoOverflow, fifoCount, lost>>
vars   == <<receiveError, rpdo, driver, pc, nmt, errors, fifoPpPtr, told>>

TypeOK ==
  /\ receiveError \in [Rpdos -> {"ACK_NO_ERROR", "ACK_ERROR", "OK", "WRONG"}]
  /\ rpdo \in 0..RpdoCount
  /\ txOverflow \in BOOLEAN /\ txOverflowOld \in BOOLEAN /\ bufferFull \in BOOLEAN
  /\ pc \in {"idle", "post", "report", "reset", "nmt"}
  /\ state \in {"INITIALIZING", "PRE_OPERATIONAL", "OPERATIONAL", "STOPPED"}
  /\ errorRegister \in BOOLEAN
  /\ status \subseteq ErrorBits
  /\ fifo \in [Slots -> Messages]
  /\ fifoWrPtr \in Slots /\ fifoPpPtr \in Slots
  /\ fifoOverflow \in 0..2
  /\ fifoCount \in 0..(FifoSize - 1)
  /\ told \subseteq ErrorBits \cup {"NO_ERROR"} /\ lost \subseteq ErrorBits

(* CO_EM_init, CO_RPDO_init, CO_CANmodule_init and CO_NMT_init.            *)
Init ==
  /\ receiveError = [r \in Rpdos |-> "ACK_NO_ERROR"]
  /\ rpdo = 0
  /\ txOverflow = FALSE /\ txOverflowOld = FALSE /\ bufferFull = FALSE
  /\ pc = "idle"
  /\ state = "INITIALIZING" /\ errorRegister = FALSE
  /\ status = {}
  /\ fifo = [i \in Slots |-> Blank]
  /\ fifoWrPtr = 0 /\ fifoPpPtr = 0 /\ fifoOverflow = 0 /\ fifoCount = 0
  /\ told = {} /\ lost = {}

---------------------------------------------------------------------------
(* CO_error                                                                *)

Following(i) == IF i + 1 >= FifoSize THEN 0 ELSE i + 1

ToggleBit(setError, bit) ==
  status' = IF setError THEN status \cup {bit} ELSE status \ {bit}

(* The fifo is full: there will be no message.                             *)
Drop(bit) ==
  /\ Following(fifoWrPtr) = fifoPpPtr
  /\ fifoOverflow' = 1
  /\ lost' = lost \cup {bit}
  /\ UNCHANGED <<fifo, fifoWrPtr, fifoCount>>

(* Mutants of Store: no test for a full fifo, or the message goes to the   *)
(* slot behind the write pointer.                                          *)
Store_Always(setError, bit) ==
  /\ fifo' = [fifo EXCEPT ![fifoWrPtr] =
                [bit |-> bit, set |-> setError, register |-> FALSE]]
  /\ fifoWrPtr' = Following(fifoWrPtr)
  /\ fifoCount' = IF fifoCount < FifoSize - 1 THEN fifoCount + 1 ELSE fifoCount
  /\ lost' = lost \ {bit}
  /\ UNCHANGED fifoOverflow

Store_NextSlot(setError, bit) ==
  /\ Following(fifoWrPtr) # fifoPpPtr
  /\ fifo' = [fifo EXCEPT ![Following(fifoWrPtr)] =
                [bit |-> bit, set |-> setError, register |-> FALSE]]
  /\ fifoWrPtr' = Following(fifoWrPtr)
  /\ fifoCount' = IF fifoCount < FifoSize - 1 THEN fifoCount + 1 ELSE fifoCount
  /\ lost' = lost \ {bit}
  /\ UNCHANGED fifoOverflow

Store(setError, bit) ==
  /\ Following(fifoWrPtr) # fifoPpPtr
  /\ fifo' = [fifo EXCEPT ![fifoWrPtr] =
                [bit |-> bit, set |-> setError, register |-> FALSE]]
  /\ fifoWrPtr' = Following(fifoWrPtr)
  /\ fifoCount' = IF fifoCount < FifoSize - 1 THEN fifoCount + 1 ELSE fifoCount
  /\ lost' = lost \ {bit}
  /\ UNCHANGED fifoOverflow

(* Only a change of the error is a message.                                *)
CO_error(setError, bit) ==
  \/ /\ setError <=> bit \in status
     /\ UNCHANGED errors
  \/ /\ ~(setError <=> bit \in status)
     /\ ToggleBit(setError, bit)
     /\ Drop(bit) \/ Store(setError, bit)

---------------------------------------------------------------------------
(* The interrupts                                                          *)

(* CO_PDO_receive: a wrong length, or the first right one after it.        *)
Receive(r, right) ==
  /\ \/ right /\ receiveError[r] = "ACK_ERROR"
     \/ ~right /\ receiveError[r] = "ACK_NO_ERROR"
  /\ receiveError' = [receiveError EXCEPT ![r] = IF right THEN "OK" ELSE "WRONG"]
  /\ UNCHANGED <<rpdo, driver, pc, nmt, errors, fifoPpPtr, told>>

(* The transmit interrupt empties the emergency object.                    *)
BufferSent ==
  /\ bufferFull
  /\ bufferFull' = FALSE
  /\ UNCHANGED <<receiveError, rpdo, txOverflow, txOverflowOld, pc, nmt, errors,
                 fifoPpPtr, told>>

---------------------------------------------------------------------------
(* The periodic task: the loop over the RPDOs                              *)

RpdoBegin ==
  /\ pc = "idle" /\ rpdo = 0
  /\ state = "OPERATIONAL"
  /\ rpdo' = 1
  /\ UNCHANGED <<receiveError, driver, pc, nmt, errors, fifoPpPtr, told>>

(* CO_RPDO_process: a change not yet acknowledged is an error or its end.  *)
RpdoProcess ==
  /\ rpdo # 0
  /\ rpdo' = IF rpdo < RpdoCount THEN rpdo + 1 ELSE 0
  /\ LET e == receiveError[rpdo] IN
     \/ /\ e \in {"ACK_NO_ERROR", "ACK_ERROR"}
        /\ UNCHANGED <<receiveError, errors>>
     \/ /\ e \in {"OK", "WRONG"}
        /\ CO_error(e # "OK", "RPDO_WRONG_LENGTH")
        /\ receiveError' = [receiveError EXCEPT ![rpdo] =
             IF e # "OK" THEN "ACK_ERROR" ELSE "ACK_NO_ERROR"]
  /\ UNCHANGED <<driver, pc, nmt, fifoPpPtr, told>>

(* CO_CANsend finds another object, the heartbeat or the TPDO, still full. *)
TxOverflow ==
  /\ pc = "idle"
  /\ txOverflow' = TRUE
  /\ UNCHANGED <<receiveError, rpdo, txOverflowOld, bufferFull, pc, nmt, errors,
                 fifoPpPtr, told>>

---------------------------------------------------------------------------
(* The mainline task: CO_process                                           *)

(* The counters CO_CANmodule_process compares with errOld: static, and     *)
(* nothing counts in them.                                                 *)
errCounters == 0

(* CO_CANmodule_process looks at CANerrorStatus when the counters changed. *)
CANmodule_process(overflow) == IF errCounters # 0 THEN FALSE ELSE overflow

(* Mutant of EmDriver: messages only in the operational state.             *)
EmDriver_Operational ==
  /\ pc = "idle" /\ rpdo = 0
  /\ txOverflow' = CANmodule_process(txOverflow)
  /\ txOverflowOld' = txOverflow'
  /\ IF txOverflow' # txOverflowOld
     THEN CO_error(txOverflow', "CAN_TX_OVERFLOW")
     ELSE UNCHANGED errors
  /\ errorRegister' = ("CAN_TX_OVERFLOW" \in status')
  /\ pc' = IF state = "OPERATIONAL" THEN "post" ELSE "nmt"
  /\ UNCHANGED <<receiveError, rpdo, bufferFull, state, fifoPpPtr, told>>

(* CO_EM_process: errors of the driver, then the error register.           *)
EmDriver ==
  /\ pc = "idle" /\ rpdo = 0
  /\ txOverflow' = CANmodule_process(txOverflow)
  /\ txOverflowOld' = txOverflow'
  /\ IF txOverflow' # txOverflowOld
     THEN CO_error(txOverflow', "CAN_TX_OVERFLOW")
     ELSE UNCHANGED errors
  /\ errorRegister' = ("CAN_TX_OVERFLOW" \in status')
  /\ pc' = IF state \in {"PRE_OPERATIONAL", "OPERATIONAL"} THEN "post" ELSE "nmt"
  /\ UNCHANGED <<receiveError, rpdo, bufferFull, state, fifoPpPtr, told>>

EmNoSend ==
  /\ pc = "post"
  /\ fifoPpPtr = fifoWrPtr \/ bufferFull
  /\ pc' = "nmt"
  /\ UNCHANGED <<receiveError, rpdo, driver, nmt, errors, fifoPpPtr, told>>

(* Mutant of EmSend: the end of an overflow is not reported.               *)
EmSend_NoReset ==
  /\ pc = "post"
  /\ fifoPpPtr # fifoWrPtr /\ ~bufferFull
  /\ LET m == fifo[fifoPpPtr] IN
     /\ fifo' = [fifo EXCEPT ![fifoPpPtr].register = m.register \/ errorRegister]
     /\ told' = IF m.set THEN told \cup {m.bit} ELSE told \ {m.bit}
  /\ bufferFull' \in BOOLEAN
  /\ fifoPpPtr' = Following(fifoPpPtr)
  /\ CASE fifoOverflow = 1 -> fifoOverflow' = 2 /\ pc' = "report"
       [] fifoOverflow = 2 /\ fifoPpPtr' = fifoWrPtr -> fifoOverflow' = 0 /\ pc' = "nmt"
       [] OTHER -> pc' = "nmt" /\ UNCHANGED fifoOverflow
  /\ UNCHANGED <<receiveError, rpdo, txOverflow, txOverflowOld, nmt, status,
                 fifoWrPtr, fifoCount, lost>>

(* One message: add the error register, hand it to CO_CANsend, advance,    *)
(* and look at the overflow.                                               *)
EmSend ==
  /\ pc = "post"
  /\ fifoPpPtr # fifoWrPtr /\ ~bufferFull
  /\ LET m == fifo[fifoPpPtr] IN
     /\ fifo' = [fifo EXCEPT ![fifoPpPtr].register = m.register \/ errorRegister]
     /\ told' = IF m.set THEN told \cup {m.bit} ELSE told \ {m.bit}
  /\ bufferFull' \in BOOLEAN
  /\ fifoPpPtr' = Following(fifoPpPtr)
  /\ CASE fifoOverflow = 1 -> fifoOverflow' = 2 /\ pc' = "report"
       [] fifoOverflow = 2 /\ fifoPpPtr' = fifoWrPtr -> fifoOverflow' = 0 /\ pc' = "reset"
       [] OTHER -> pc' = "nmt" /\ UNCHANGED fifoOverflow
  /\ UNCHANGED <<receiveError, rpdo, txOverflow, txOverflowOld, nmt, status,
                 fifoWrPtr, fifoCount, lost>>

(* CO_errorReport or CO_errorReset of the emergency buffer itself.         *)
EmReport ==
  /\ pc \in {"report", "reset"}
  /\ CO_error(pc = "report", "EMERGENCY_BUFFER_FULL")
  /\ pc' = "nmt"
  /\ UNCHANGED <<receiveError, rpdo, driver, nmt, fifoPpPtr, told>>

(* Mutant of NmtProcess: the error register does not matter.               *)
NmtProcess_NoCheck(next) ==
  /\ pc = "nmt"
  /\ next = "INITIALIZING" => state # "INITIALIZING"
  /\ state' = IF next = "INITIALIZING" THEN state ELSE next
  /\ pc' = "idle"
  /\ UNCHANGED <<receiveError, rpdo, driver, errorRegister, errors, fifoPpPtr, told>>

(* CO_NMT_process: an NMT command or the start-up asks for the state next, *)
(* INITIALIZING stands for no request; then the error register.            *)
NmtProcess(next) ==
  /\ pc = "nmt"
  /\ next = "INITIALIZING" => state # "INITIALIZING"
  /\ LET asked == IF next = "INITIALIZING" THEN state ELSE next IN
     state' = IF asked = "OPERATIONAL" /\ errorRegister THEN "PRE_OPERATIONAL"
                                                        ELSE asked
  /\ pc' = "idle"
  /\ UNCHANGED <<receiveError, rpdo, driver, errorRegister, errors, fifoPpPtr, told>>

(* OD_write_1003 in the SDO server: clear the history.                     *)
ClearHistory ==
  /\ pc = "idle" /\ rpdo = 0
  /\ state \in {"PRE_OPERATIONAL", "OPERATIONAL"}
  /\ fifoCount' = 0
  /\ UNCHANGED <<receiveError, rpdo, driver, pc, nmt, status, fifo, fifoWrPtr,
                 fifoOverflow, lost, fifoPpPtr, told>>

---------------------------------------------------------------------------
NmtStates == {"INITIALIZING", "PRE_OPERATIONAL", "OPERATIONAL", "STOPPED"}

Mainline == EmDriver \/ EmNoSend \/ EmSend \/ EmReport
              \/ \E next \in NmtStates : NmtProcess(next)
Periodic == RpdoBegin \/ RpdoProcess

Next ==
  \/ \E r \in Rpdos, right \in BOOLEAN : Receive(r, right)
  \/ BufferSent
  \/ RpdoBegin \/ RpdoProcess
  \/ TxOverflow
  \/ EmDriver \/ EmNoSend \/ EmSend \/ EmReport
  \/ \E next \in NmtStates : NmtProcess(next)
  \/ ClearHistory

Spec == Init /\ [][Next]_vars

(* Both tasks wake at least every 10 ms, a released co_mutex goes to the    *)
(* waiting task of the highest priority, which the mainline task has, and  *)
(* the bus takes messages: the emergency producer's object is the first of *)
(* the driver's, which is never left full (FirstIsSent of CanTx).          *)
FairSpec == Spec /\ SF_vars(Mainline) /\ WF_vars(Periodic) /\ WF_vars(BufferSent)

---------------------------------------------------------------------------
(* Properties                                                              *)

(* How many messages are processed before the one in slot i is.            *)
Place(i) == (i - fifoPpPtr) % FifoSize
Pending  == {i \in Slots : Place(i) < Place(fifoWrPtr)}

(* Whatever overflows and drains in between: unless the last change of an  *)
(* error was dropped, the last message about it, on the bus or still in    *)
(* the fifo, tells its status.  (CO_error against CO_EM_process.)          *)
LastMessageTrue ==
  \A b \in ErrorBits \ lost :
    LET Mine == {i \in Pending : fifo[i].bit = b} IN
    \/ Mine = {} /\ (b \in told <=> b \in status)
    \/ \E i \in Mine : /\ \A j \in Mine : Place(j) <= Place(i)
                       /\ fifo[i].set <=> b \in status

(* An overflow is always reported and always ends: its flag is up only     *)
(* while there are messages whose processing will take it down, it agrees  *)
(* with the error EMERGENCY_BUFFER_FULL, and that error is never dropped   *)
(* itself.  (fifoOverflow in CO_error and CO_EM_process.)                  *)
OverflowReported ==
  /\ fifoOverflow # 0 => fifoPpPtr # fifoWrPtr
  /\ fifoOverflow = 2 /\ pc # "report" => "EMERGENCY_BUFFER_FULL" \in status
  /\ "EMERGENCY_BUFFER_FULL" \in status /\ pc # "reset" => fifoOverflow # 0
  /\ "EMERGENCY_BUFFER_FULL" \notin lost

(* Between two runs of CO_process the node is not operational while an     *)
(* error of the error register is known.  (CO_EM_process before            *)
(* CO_NMT_process in CO_process.)                                          *)
CriticalStops ==
  pc = "idle" /\ "CAN_TX_OVERFLOW" \in status => state # "OPERATIONAL"

(* Object 0x1003 is the abstract error history: OD_read_1003 finds subindex *)
(* i in the slot i places behind fifoWrPtr.                                *)
History == INSTANCE ErrorHistory
  WITH Capacity <- FifoSize - 1, Bits <- ErrorBits,
       history <- [i \in 1..fifoCount |-> fifo[(fifoWrPtr - i) % FifoSize]]
HistoryRefined == History!Spec

(* When the RPDOs stop changing and the node is not stopped, all messages  *)
(* are sent and no overflow stays up.  (CO_EM_process sends one message    *)
(* per call and only into a free transmit object.)                         *)
AllTold ==
  \A S \in [Rpdos -> {"ACK_NO_ERROR", "ACK_ERROR", "OK", "WRONG"}] :
    <>[](receiveError = S /\ state # "STOPPED")
      => <>[](fifoPpPtr = fifoWrPtr /\ fifoOverflow = 0)

(* CO_Emergency.h on CO_error: setError is "false if error resolved": an   *)
(* RPDO whose wrong length is acknowledged keeps the error set.            *)
RpdoErrorIndicated ==
  \A r \in Rpdos : receiveError[r] = "ACK_ERROR" => "RPDO_WRONG_LENGTH" \in status

=============================================================================
