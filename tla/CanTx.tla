------------------------------- MODULE CanTx -------------------------------
(***************************************************************************)
(* The CAN transmit path of the driver, CO_driver_ST32F103.c, over the     *)
(* transmit mailboxes of the CAN controller.                               *)
(*                                                                         *)
(* Tasks that hold co_mutex fill one of the transmit objects txArray[b]    *)
(* and call CO_CANsend().  A message goes straight to a free mailbox; when *)
(* there is none it is left in its object with bufferFull set, for the     *)
(* transmit interrupt (CAN_SendMessage) to send when a mailbox is freed.   *)
(* The interrupt preempts the tasks anywhere but in a critical section;    *)
(* the controller works on its mailboxes at any time.                      *)
(*                                                                         *)
(* Message bytes are abstracted to a version number per object.  A version *)
(* grows each time the owner refills the object, so a later version means  *)
(* newer contents.                                                         *)
(***************************************************************************)
EXTENDS Integers, FiniteSets

CONSTANTS
  TxSize,      (* CANmodule->txSize, the number of transmit objects        *)
  Polled,      (* the objects whose owner waits until bufferFull is clear  *)
               (* before it refills them (emergency, SDO server)           *)
  Mailboxes,   (* the number of transmit mailboxes of the controller       *)
  CountMod,    (* 2^16: CANtxCount is a uint16_t                           *)
  MaxVersion   (* bounds the refills of one object                         *)

Objects == 1..TxSize
Mbx     == 1..Mailboxes
Version == 0..MaxVersion

ASSUME CanTxAssumption ==
  /\ TxSize \in Nat \ {0}
  /\ Mailboxes \in Nat \ {0}
  /\ CountMod \in Nat /\ CountMod > 1
  /\ MaxVersion \in Nat \ {0}
  /\ Polled \subseteq Objects

VARIABLES
  bufferFull,        (* txArray[b].bufferFull                              *)
  data,              (* txArray[b].data, as a version                      *)
  CANtxCount,        (* CANmodule->CANtxCount                              *)
  firstCANtxMessage, (* CANmodule->firstCANtxMessage                       *)
  txOverflow,        (* CO_CAN_ERRTX_OVERFLOW in CANerrorStatus            *)
  loaded,            (* the mailboxes with a transmission requested (~TME) *)
  rqcp,              (* the mailboxes whose RQCP flag is set               *)
  task,              (* where the task that holds co_mutex is              *)
  cur,               (* the object it is sending                           *)
  isr,               (* where the transmit interrupt is                    *)
  idx,               (* the object its scan looks at next                  *)
  accepted,          (* history: version of the last CO_CANsend of b       *)
  copied,            (* history: version last copied to a mailbox          *)
  scanSent           (* history: the current scan has copied a message     *)

driver  == <<bufferFull, CANtxCount, firstCANtxMessage, txOverflow>>
can     == <<loaded, rqcp>>
history == <<accepted, copied, scanSent>>
vars    == <<driver, can, data, task, cur, isr, idx, history>>

TypeOK ==
  /\ bufferFull \in [Objects -> BOOLEAN]
  /\ data \in [Objects -> Version]
  /\ CANtxCount \in 0..(CountMod - 1)
  /\ firstCANtxMessage \in BOOLEAN
  /\ txOverflow \in BOOLEAN
  /\ loaded \subseteq Mbx
  /\ rqcp \subseteq Mbx
  /\ task \in {"idle", "filled", "verified"}
  /\ cur \in Objects
  /\ isr \in {"off", "scan", "end"}
  /\ idx \in 1..(TxSize + 1)
  /\ accepted \in [Objects -> Version]
  /\ copied \in [Objects -> Version]
  /\ scanSent \in BOOLEAN

(* CO_CANmodule_init: every object empty, the count zero.                  *)
Init ==
  /\ bufferFull = [b \in Objects |-> FALSE]
  /\ data = [b \in Objects |-> 0]
  /\ CANtxCount = 0
  /\ firstCANtxMessage = TRUE
  /\ txOverflow = FALSE
  /\ loaded = {} /\ rqcp = {}
  /\ task = "idle" /\ cur = 1
  /\ isr = "off" /\ idx = 1
  /\ accepted = [b \in Objects |-> 0]
  /\ copied = [b \in Objects |-> 0]
  /\ scanSent = FALSE

---------------------------------------------------------------------------
(* The controller                                                          *)

(* CAN_Transmit through HAL_CANSend and prv_send_can_message: the message  *)
(* goes to a mailbox that is empty.  Requesting the transmission clears    *)
(* the RQCP flag of that mailbox.                                          *)
Load(b) ==
  \E m \in Mbx \ loaded :
    /\ \A k \in Mbx \ loaded : m <= k
    /\ loaded' = loaded \cup {m}
    /\ rqcp' = rqcp \ {m}
    /\ copied' = [copied EXCEPT ![b] = data[b]]

(* CAN_TxStatus_NoMailBox                                                  *)
NoMailBox == Mbx \subseteq loaded

(* The controller is done with a mailbox.  The automatic retransmission is *)
(* off (CAN_NART), so a frame that lost arbitration or met an error ends   *)
(* here as well: the mailbox is empty and RQCP asks for the interrupt.     *)
Complete(m) ==
  /\ m \in loaded
  /\ loaded' = loaded \ {m}
  /\ rqcp' = rqcp \cup {m}
  /\ UNCHANGED <<driver, data, task, cur, isr, idx, history>>

---------------------------------------------------------------------------
(* The task that holds co_mutex                                            *)

(* The owner of object b writes its data.  The emergency producer and the  *)
(* SDO server do so only when bufferFull is clear; the heartbeat producer  *)
(* and the TPDO do not look.                                               *)
Fill(b) ==
  /\ task = "idle" /\ isr = "off"
  /\ b \in Polled => ~bufferFull[b]
  /\ data[b] < MaxVersion
  /\ data' = [data EXCEPT ![b] = @ + 1]
  /\ cur' = b
  /\ task' = "filled"
  /\ UNCHANGED <<driver, can, isr, idx, history>>

(* CO_CANsend, "Verify overflow": outside the critical section.            *)
VerifyOverflow ==
  /\ task = "filled" /\ isr = "off"
  /\ txOverflow' = (txOverflow \/ (bufferFull[cur] /\ ~firstCANtxMessage))
  /\ task' = "verified"
  /\ UNCHANGED <<bufferFull, CANtxCount, firstCANtxMessage, can, data, cur,
                 isr, idx, history>>

(* Mutant of SendLocked: bufferFull is not set when no mailbox is free.    *)
SendLocked_Unmarked ==
  /\ task = "verified" /\ isr = "off"
  /\ accepted' = [accepted EXCEPT ![cur] = data[cur]]
  /\ \/ Load(cur) /\ UNCHANGED CANtxCount
     \/ /\ NoMailBox
        /\ CANtxCount' = (CANtxCount + 1) % CountMod
        /\ UNCHANGED <<can, copied>>
  /\ task' = "idle"
  /\ UNCHANGED <<bufferFull, firstCANtxMessage, txOverflow, data, cur, isr, idx,
                 scanSent>>

(* CO_CANsend, the critical section: tried whether or not the object was   *)
(* already full.                                                           *)
SendLocked ==
  /\ task = "verified" /\ isr = "off"
  /\ accepted' = [accepted EXCEPT ![cur] = data[cur]]
  /\ \/ /\ Load(cur)
        /\ UNCHANGED <<bufferFull, CANtxCount>>
     \/ /\ NoMailBox
        /\ bufferFull' = [bufferFull EXCEPT ![cur] = TRUE]
        /\ CANtxCount' = (CANtxCount + 1) % CountMod
        /\ UNCHANGED <<can, copied>>
  /\ task' = "idle"
  /\ UNCHANGED <<firstCANtxMessage, txOverflow, data, cur, isr, idx, scanSent>>

---------------------------------------------------------------------------
(* The transmit interrupt, USB_HP_CAN1_TX_IRQHandler and CAN_SendMessage   *)

(* Mutant of IsrBegin: the test for a count is off by one.                 *)
IsrBegin_OffByOne ==
  /\ isr = "off" /\ rqcp # {}
  /\ rqcp' = {}
  /\ firstCANtxMessage' = FALSE
  /\ isr' = IF CANtxCount > 1 THEN "scan" ELSE "end"
  /\ idx' = 1 /\ scanSent' = FALSE
  /\ UNCHANGED <<bufferFull, CANtxCount, txOverflow, loaded, data, task, cur,
                 accepted, copied>>

(* Acknowledge the completed mailboxes; look at the count.                 *)
IsrBegin ==
  /\ isr = "off" /\ rqcp # {}
  /\ rqcp' = {}
  /\ firstCANtxMessage' = FALSE
  /\ isr' = IF CANtxCount > 0 THEN "scan" ELSE "end"
  /\ idx' = 1
  /\ scanSent' = FALSE
  /\ UNCHANGED <<bufferFull, CANtxCount, txOverflow, loaded, data, task, cur,
                 accepted, copied>>

(* Mutant of IsrSend: the count is decremented without its 16-bit wrap.    *)
IsrSend_Signed ==
  /\ isr = "scan" /\ idx \in Objects /\ bufferFull[idx]
  /\ Load(idx)
  /\ bufferFull' = [bufferFull EXCEPT ![idx] = FALSE]
  /\ CANtxCount' = CANtxCount - 1
  /\ idx' = idx + 1
  /\ scanSent' = TRUE
  /\ UNCHANGED <<firstCANtxMessage, txOverflow, data, task, cur, isr, accepted>>

(* Mutant of IsrSend: bufferFull is not cleared.                           *)
IsrSend_KeepsFull ==
  /\ isr = "scan" /\ idx \in Objects /\ bufferFull[idx]
  /\ Load(idx)
  /\ CANtxCount' = (CANtxCount - 1) % CountMod
  /\ idx' = idx + 1
  /\ scanSent' = TRUE
  /\ UNCHANGED <<bufferFull, firstCANtxMessage, txOverflow, data, task, cur, isr,
                 accepted>>

(* One pass of the scan: a full object that finds a mailbox is sent.       *)
IsrSend ==
  /\ isr = "scan" /\ idx \in Objects /\ bufferFull[idx]
  /\ Load(idx)
  /\ bufferFull' = [bufferFull EXCEPT ![idx] = FALSE]
  /\ CANtxCount' = (CANtxCount - 1) % CountMod
  /\ idx' = idx + 1
  /\ scanSent' = TRUE
  /\ UNCHANGED <<firstCANtxMessage, txOverflow, data, task, cur, isr, accepted>>

IsrSkip ==
  /\ isr = "scan" /\ idx \in Objects
  /\ ~bufferFull[idx] \/ NoMailBox
  /\ idx' = idx + 1
  /\ UNCHANGED <<driver, can, data, task, cur, isr, history>>

(* Mutant of IsrClearCount: the count is left at what the scan made it.    *)
IsrClearCount_Kept ==
  /\ isr = "scan" /\ idx \notin Objects
  /\ isr' = "end"
  /\ UNCHANGED <<driver, can, data, task, cur, idx, history>>

(* "Clear counter if no more messages": the loop has no early exit, so its *)
(* counter is always 0 here and the clearing is unconditional.             *)
IsrClearCount ==
  /\ isr = "scan" /\ idx \notin Objects
  /\ CANtxCount' = 0
  /\ isr' = "end"
  /\ UNCHANGED <<bufferFull, firstCANtxMessage, txOverflow, can, data, task,
                 cur, idx, history>>

(* CAN_ClearITPendingBit(CAN_IT_TME), after the callback.                  *)
IsrEnd ==
  /\ isr = "end"
  /\ rqcp' = {}
  /\ isr' = "off"
  /\ UNCHANGED <<driver, loaded, data, task, cur, idx, history>>

---------------------------------------------------------------------------
Isr == IsrBegin \/ IsrSend \/ IsrSkip \/ IsrClearCount \/ IsrEnd

Send == VerifyOverflow \/ SendLocked

Next ==
  \/ \E b \in Objects : Fill(b)
  \/ VerifyOverflow
  \/ SendLocked
  \/ \E m \in Mbx : Complete(m)
  \/ IsrBegin
  \/ IsrSend
  \/ IsrSkip
  \/ IsrClearCount
  \/ IsrEnd

Spec == Init /\ [][Next]_vars

(* The processor runs a requested interrupt to its end, the mutex holder   *)
(* finishes its call, and the controller gets rid of every frame: without  *)
(* retransmission each attempt ends when the bus is next idle.             *)
FairSpec ==
  /\ Spec
  /\ WF_vars(Isr)
  /\ WF_vars(Send)
  /\ \A m \in Mbx : WF_vars(Complete(m))

---------------------------------------------------------------------------
(* Properties                                                              *)

(* A message CO_CANsend accepted is in the controller or still marked for  *)
(* the interrupt: as long as its contents were never copied to a mailbox,  *)
(* bufferFull is set.  (CO_CANsend and the scan of CAN_SendMessage.)       *)
AcceptedNotLost ==
  \A b \in Objects : accepted[b] > copied[b] => bufferFull[b]

(* A counted message never waits for an interrupt that cannot come: while  *)
(* CANtxCount is not zero, a mailbox is still loaded or has completed and  *)
(* asks for the interrupt, although the handler clears RQCP twice.         *)
NoLostWakeup ==
  isr = "off" /\ CANtxCount > 0 => loaded # {} \/ rqcp # {}

(* Every scan helps the waiting object with the lowest index: a full       *)
(* object is passed over for want of a mailbox only after the same scan    *)
(* copied another one, so no interrupt with a count is spent in vain.      *)
LowestFullIsSent ==
  isr = "scan" /\ ~scanSent => ~NoMailBox

(* The first object, the emergency producer's, cannot be stranded: a scan  *)
(* has sent it before it goes on to the next one, so that the count is     *)
(* never cleared while it is full.  (CAN_SendMessage clears CANtxCount     *)
(* after every scan, whatever other objects are full.)                     *)
FirstIsSent == isr = "scan" /\ idx > 1 => ~bufferFull[1]

(* CANtxCount is served: once an object is counted, the interrupt comes    *)
(* and takes the count to zero, whatever the tasks send in the meantime.   *)
CountServed == CANtxCount > 0 ~> CANtxCount = 0

(* The driver keeps the promise of TransmitPromise: every message that     *)
(* CO_CANsend accepted is sent at once or marked, and a mark brings one    *)
(* transmission, of the newest contents.  An object that is refilled and   *)
(* sent again while it is marked is sent twice, once for each call.        *)
Promise == INSTANCE TransmitPromise
  WITH written <- data, sent <- copied, due <- {b \in Objects : bufferFull[b]}
PromiseKept == Promise!Spec

(* CO_driver.h, "Message will be then sent by CAN TX interrupt as soon as  *)
(* CAN module is freed": a full object is emptied, provided the mailboxes  *)
(* keep completing.                                                        *)
WaitingMessageSent == \A b \in Objects : bufferFull[b] ~> ~bufferFull[b]

=============================================================================
