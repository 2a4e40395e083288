------------------------------ MODULE KeyTpdo ------------------------------
(***************************************************************************)
(* From a key to the bus: the keyboard task posts make and break events,   *)
(* vProcessTask (process.c) applies one event per tick to object 0x2000    *)
(* and requests the TPDO, and the periodic CANopen task sends it           *)
(* (CO_TPDO_process and CO_TPDOsend in CO_PDO.c).                          *)
(*                                                                         *)
(* vProcessTask has the highest priority of the three: one iteration of it *)
(* is atomic, it runs once in every tick, and it may fall between any two  *)
(* steps of the periodic task.  The periodic task holds co_mutex from      *)
(* CO_TPDO_process to CO_CANsend, so the mainline task changes the NMT     *)
(* state only when it is idle.                                             *)
(*                                                                         *)
(* The bits of the one-byte object 0x2000.01 are a set of keys.  TPDO1 is  *)
(* event driven and maps this object; its inhibit time is always zero.     *)
(***************************************************************************)
EXTENDS Integers, Sequences

CONSTANTS
  KeyCount,        (* KEY_COUNT                                            *)
  QueueLength,     (* the length of the event queue, 16                    *)
  KeyboardPeriod,  (* ticks between two passes of the keyboard task, 20    *)
  EventTime,       (* eventTime_us in calls of CO_TPDO_process, 0 for none *)
  MaxNmtChanges    (* bounds the changes of the NMT state                  *)

Keys == 1..KeyCount
KeyEvents == [KeyCode : Keys, Status : {"MAKECODE", "BREAKECODE"}]

ASSUME KeyTpdoAssumption ==
  /\ KeyCount \in Nat \ {0}
  /\ QueueLength \in Nat /\ KeyCount <= QueueLength
  /\ KeyboardPeriod \in Nat /\ KeyCount <= KeyboardPeriod
  /\ EventTime \in Nat
  /\ MaxNmtChanges \in Nat

VARIABLES
  pressed,      (* the keys the keyboard task holds for pressed            *)
  scan,         (* the key its pass looks at next, 0 between passes        *)
  ticks,        (* ticks since its last pass                               *)
  pKeyboard,    (* the queue of key events                                 *)
  odKeys,       (* object 0x2000.01                                        *)
  requested,    (* the flagsPDO bit of 0x2000.01 is clear                  *)
  operational,  (* the NMT state is operational                            *)
  nmtChanges,
  pc,           (* where the periodic task is                              *)
  sendRequest,  (* TPDO->sendRequest                                       *)
  eventTimer,   (* TPDO->eventTimer                                        *)
  txData,       (* the data of the transmit object of TPDO1                *)
  wire,         (* the data last handed to the CAN driver                  *)
  raced         (* history: a key event came between the read of 0x2000    *)
                (* and the mark in flagsPDO of the last TPDO               *)

keyboard == <<pressed, scan, ticks>>
nmt      == <<operational, nmtChanges>>
tpdo     == <<pc, sendRequest, eventTimer, txData, wire>>
vars     == <<keyboard, pKeyboard, odKeys, requested, nmt, tpdo, raced>>

TypeOK ==
  /\ pressed \subseteq Keys
  /\ scan \in 0..KeyCount
  /\ ticks \in 0..KeyboardPeriod
  /\ pKeyboard \in Seq(KeyEvents)
  /\ odKeys \subseteq Keys
  /\ requested \in BOOLEAN
  /\ operational \in BOOLEAN
  /\ nmtChanges \in 0..MaxNmtChanges
  /\ pc \in {"idle", "read", "mark", "send"}
  /\ sendRequest \in BOOLEAN
  /\ eventTimer \in 0..EventTime
  /\ txData \subseteq Keys
  /\ wire \subseteq Keys
  /\ raced \in BOOLEAN

(* CO_TPDO_init; the extension of 0x2000 is static, so its flagsPDO are    *)
(* zero and the TPDO is requested; the node is not yet operational.        *)
Init ==
  /\ pressed = {} /\ scan = 0 /\ ticks = 0
  /\ pKeyboard = << >>
  /\ odKeys = {} /\ requested = TRUE
  /\ operational = FALSE /\ nmtChanges = 0
  /\ pc = "idle" /\ sendRequest = TRUE /\ eventTimer = 0
  /\ txData = {} /\ wire = {}
  /\ raced = FALSE

---------------------------------------------------------------------------
(* The keyboard task.  Its state machine is a library outside of src/: one *)
(* pass looks at every key and posts an event for each that changed.       *)

(* Mutant of StartPass: the task does not wait for its period.             *)
StartPass_NoDelay ==
  /\ scan = 0
  /\ scan' = 1
  /\ UNCHANGED <<pressed, ticks, pKeyboard, odKeys, requested, nmt, tpdo, raced>>

(* vTaskDelay is over: a pass begins.                                      *)
StartPass ==
  /\ scan = 0 /\ ticks = KeyboardPeriod
  /\ scan' = 1
  /\ UNCHANGED <<pressed, ticks, pKeyboard, odKeys, requested, nmt, tpdo, raced>>

(* The next key of the pass; vTaskDelay starts when the pass is over.      *)
NextKey ==
  IF scan < KeyCount
  THEN scan' = scan + 1 /\ UNCHANGED ticks
  ELSE scan' = 0 /\ ticks' = 0

KeyUnchanged ==
  /\ scan # 0
  /\ NextKey
  /\ UNCHANGED <<pressed, pKeyboard, odKeys, requested, nmt, tpdo, raced>>

KeyMake ==
  /\ scan # 0 /\ scan \notin pressed
  /\ pressed' = pressed \cup {scan}
  /\ pKeyboard' = Append(pKeyboard, [KeyCode |-> scan, Status |-> "MAKECODE"])
  /\ NextKey
  /\ UNCHANGED <<odKeys, requested, nmt, tpdo, raced>>

KeyBreak ==
  /\ scan \in pressed
  /\ pressed' = pressed \ {scan}
  /\ pKeyboard' = Append(pKeyboard, [KeyCode |-> scan, Status |-> "BREAKECODE"])
  /\ NextKey
  /\ UNCHANGED <<odKeys, requested, nmt, tpdo, raced>>

---------------------------------------------------------------------------
(* vProcessTask, once per tick                                             *)

NextTick == ticks' = IF ticks < KeyboardPeriod THEN ticks + 1 ELSE ticks

NoEvent ==
  /\ pKeyboard = << >>
  /\ NextTick
  /\ UNCHANGED <<pressed, scan, pKeyboard, odKeys, requested, nmt, tpdo, raced>>

(* Mutants of KeyEvent: a make assigns its mask instead of adding it; the   *)
(* break of a key does not request the TPDO.                               *)
KeyEvent_Assigns ==
  /\ pKeyboard # << >>
  /\ LET e == Head(pKeyboard) IN
     odKeys' = IF e.Status = "MAKECODE" THEN {e.KeyCode}
                                        ELSE odKeys \ {e.KeyCode}
  /\ requested' = TRUE
  /\ raced' = (raced \/ pc = "mark")
  /\ pKeyboard' = Tail(pKeyboard)
  /\ NextTick
  /\ UNCHANGED <<pressed, scan, nmt, tpdo>>

KeyEvent_NoRequest ==
  /\ pKeyboard # << >>
  /\ LET e == Head(pKeyboard) IN
     odKeys' = IF e.Status = "MAKECODE" THEN odKeys \cup {e.KeyCode}
                                        ELSE odKeys \ {e.KeyCode}
  /\ requested' = (requested \/ Head(pKeyboard).Status = "MAKECODE")
  /\ raced' = (raced \/ pc = "mark")
  /\ pKeyboard' = Tail(pKeyboard)
  /\ NextTick
  /\ UNCHANGED <<pressed, scan, nmt, tpdo>>

(* One event: the bit of the key in 0x2000.01, then OD_requestTPDO.        *)
KeyEvent ==
  /\ pKeyboard # << >>
  /\ LET e == Head(pKeyboard) IN
     odKeys' = IF e.Status = "MAKECODE" THEN odKeys \cup {e.KeyCode}
                                        ELSE odKeys \ {e.KeyCode}
  /\ requested' = TRUE
  /\ raced' = (raced \/ pc = "mark")
  /\ pKeyboard' = Tail(pKeyboard)
  /\ NextTick
  /\ UNCHANGED <<pressed, scan, nmt, tpdo>>

---------------------------------------------------------------------------
(* The periodic task                                                       *)

(* CO_TPDO_process when the node is not operational: reset the triggers.   *)
TpdoReset ==
  /\ pc = "idle" /\ ~operational
  /\ sendRequest' = TRUE
  /\ eventTimer' = 0
  /\ UNCHANGED <<keyboard, pKeyboard, odKeys, requested, nmt, pc, txData, wire,
                 raced>>

(* Mutant of TpdoTrigger: the end of the event timer requests no send.    *)
TpdoTrigger_NoTimer ==
  /\ pc = "idle" /\ operational
  /\ eventTimer' = IF EventTime # 0 /\ eventTimer > 0 THEN eventTimer - 1
                                                      ELSE eventTimer
  /\ sendRequest' = (sendRequest \/ requested)
  /\ pc' = IF sendRequest' THEN "read" ELSE "idle"
  /\ UNCHANGED <<keyboard, pKeyboard, odKeys, requested, nmt, txData, wire, raced>>

(* CO_TPDO_process when it is: the event timer and OD_requestTPDO.         *)
TpdoTrigger ==
  /\ pc = "idle" /\ operational
  /\ eventTimer' = IF EventTime # 0 /\ eventTimer > 0 THEN eventTimer - 1
                                                      ELSE eventTimer
  /\ sendRequest' = \/ sendRequest
                    \/ EventTime # 0 /\ eventTimer' = 0
                    \/ requested
  /\ pc' = IF sendRequest' THEN "read" ELSE "idle"
  /\ UNCHANGED <<keyboard, pKeyboard, odKeys, requested, nmt, txData, wire, raced>>

(* CO_TPDOsend reads the mapped object into the transmit object.           *)
TpdoRead ==
  /\ pc = "read"
  /\ txData' = odKeys
  /\ raced' = FALSE
  /\ pc' = "mark"
  /\ UNCHANGED <<keyboard, pKeyboard, odKeys, requested, nmt, sendRequest,
                 eventTimer, wire>>

(* It then sets the flagsPDO bit, whatever happened since the read.        *)
TpdoMark ==
  /\ pc = "mark"
  /\ requested' = FALSE
  /\ sendRequest' = FALSE
  /\ eventTimer' = EventTime
  /\ pc' = "send"
  /\ UNCHANGED <<keyboard, pKeyboard, odKeys, nmt, txData, wire, raced>>

(* CO_CANsend takes the message; module CanTx has the rest of its way.     *)
TpdoSend ==
  /\ pc = "send"
  /\ wire' = txData
  /\ pc' = "idle"
  /\ UNCHANGED <<keyboard, pKeyboard, odKeys, requested, nmt, sendRequest,
                 eventTimer, txData, raced>>

(* The mainline task, under co_mutex: CO_NMT_process changes the state.    *)
NmtChange ==
  /\ pc = "idle"
  /\ nmtChanges < MaxNmtChanges
  /\ nmtChanges' = nmtChanges + 1
  /\ operational' = ~operational
  /\ UNCHANGED <<keyboard, pKeyboard, odKeys, requested, tpdo, raced>>

---------------------------------------------------------------------------
KeyScan  == StartPass \/ KeyUnchanged \/ KeyMake \/ KeyBreak
Process  == NoEvent \/ KeyEvent
Periodic == TpdoReset \/ TpdoTrigger \/ TpdoRead \/ TpdoMark \/ TpdoSend

Next ==
  \/ StartPass \/ KeyUnchanged \/ KeyMake \/ KeyBreak
  \/ NoEvent \/ KeyEvent
  \/ TpdoReset \/ TpdoTrigger \/ TpdoRead \/ TpdoMark \/ TpdoSend
  \/ NmtChange

Spec == Init /\ [][Next]_vars

(* The two tasks are woken by the tick and by the mainline task for ever,  *)
(* and the keyboard task finishes every pass.                              *)
FairSpec == Spec /\ WF_vars(KeyScan) /\ WF_vars(Process) /\ WF_vars(Periodic)

---------------------------------------------------------------------------
(* Properties                                                              *)

(* The queue of key events never overflows: vProcessTask drains one event  *)
(* per tick, the keyboard task posts at most one per key and period.       *)
QueueFits == Len(pKeyboard) <= QueueLength

(* 0x2000 and the queue together are the pressed keys: for every key the   *)
(* last queued event, or the bit in 0x2000 when there is none, tells       *)
(* whether it is pressed, so no sequence of makes and breaks leaves a key  *)
(* stuck in the object.  (The switch and the masks of vProcessTask.)       *)
OdFollowsKeys ==
  \A k \in Keys :
    \/ /\ \A i \in DOMAIN pKeyboard : pKeyboard[i].KeyCode # k
       /\ k \in odKeys <=> k \in pressed
    \/ \E i \in DOMAIN pKeyboard :
         /\ pKeyboard[i].KeyCode = k
         /\ \A j \in DOMAIN pKeyboard : j > i => pKeyboard[j].KeyCode # k
         /\ pKeyboard[i].Status = "MAKECODE" <=> k \in pressed

(* The one way a change of 0x2000 goes unreported: when the periodic task  *)
(* is idle, what was sent last is what the object holds, unless a send is  *)
(* still requested, or a key event came between the read and the mark of   *)
(* the last TPDO.  (OD_requestTPDO against CO_TPDOsend.)                   *)
OnlyRaceLoses ==
  pc = "idle" /\ wire # odKeys => requested \/ sendRequest \/ raced

(* With the event timer on, the bus follows the keys: if from some time on *)
(* the keys pressed stay the same and the node stays operational, the TPDO *)
(* sent last shows them.                                                   *)
WireFollowsKeys ==
  \A S \in SUBSET Keys :
    <>[](pressed = S /\ operational) => <>[](wire = S)

=============================================================================
