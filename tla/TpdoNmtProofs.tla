--------------------------- MODULE TpdoNmtProofs ---------------------------
(***************************************************************************)
(* The safety properties of two components in which the mainline or the    *)
(* periodic task tests a slot, works with it and clears it, while others   *)
(* fill it: the TPDO of the keys, for every number of keys that fits the   *)
(* queue and the period of the keyboard task and every event time; and the *)
(* command of the NMT slave, for all heartbeat times and any time between  *)
(* two calls of CO_NMT_process.                                            *)
(***************************************************************************)
EXTENDS KeyTpdo, NmtSlave, TLAPS

---------------------------------------------------------------------------
(* Keys and their TPDO                                                     *)

(* Between passes the queue and the time since the last pass share the     *)
(* number of keys; in a pass there is room for the keys still to come.     *)
QueueBound ==
  /\ scan # 0 => Len(pKeyboard) <= scan - 1
  /\ scan = 0 => Len(pKeyboard) = 0 \/ Len(pKeyboard) + ticks <= KeyCount

(* What the periodic task knows of 0x2000 at each of its steps.            *)
TpdoKnows ==
  /\ pc = "idle" /\ wire # odKeys => requested \/ sendRequest \/ raced
  /\ pc = "mark" /\ txData # odKeys => raced
  /\ pc = "send" /\ txData # odKeys => requested \/ raced

IInv == TypeOK /\ QueueBound /\ OdFollowsKeys /\ TpdoKnows

---------------------------------------------------------------------------
(* The queue                                                               *)

(* Taking the head of a queue shifts the other events.                     *)
LEMMA TailShifts ==
  ASSUME NEW S, NEW q \in Seq(S), q # << >>
  PROVE  /\ Head(q) = q[1] /\ 1 \in DOMAIN q /\ Head(q) \in S
         /\ Tail(q) \in Seq(S) /\ Len(Tail(q)) = Len(q) - 1 /\ Len(q) \in Nat \ {0}
         /\ \A i \in DOMAIN Tail(q) : i + 1 \in DOMAIN q /\ Tail(q)[i] = q[i + 1]
         /\ \A i \in DOMAIN q : i # 1 => i - 1 \in DOMAIN Tail(q) /\ Tail(q)[i - 1] = q[i]
  OBVIOUS

(* Appending an event keeps the others where they are.                     *)
LEMMA AppendKeeps ==
  ASSUME NEW S, NEW q \in Seq(S), NEW e \in S
  PROVE  /\ Append(q, e) \in Seq(S)
         /\ Len(q) \in Nat /\ Len(Append(q, e)) = Len(q) + 1
         /\ DOMAIN q = 1..Len(q) /\ DOMAIN Append(q, e) = 1..(Len(q) + 1)
         /\ \A i \in DOMAIN q : Append(q, e)[i] = q[i]
         /\ Append(q, e)[Len(q) + 1] = e
  OBVIOUS

---------------------------------------------------------------------------
LEMMA InitIInv == Init => IInv
<1> SUFFICES ASSUME Init PROVE IInv
  OBVIOUS
<1>1. TypeOK
  <2>1. 0 \in 0..KeyCount /\ 0 \in 0..KeyboardPeriod /\ 0 \in 0..MaxNmtChanges
        /\ 0 \in 0..EventTime
    BY KeyTpdoAssumption
  <2>2. << >> \in Seq(KeyEvents)
    OBVIOUS
  <2>. QED
    BY <2>1, <2>2 DEF Init, TypeOK
<1>2. QueueBound /\ OdFollowsKeys /\ TpdoKnows
  BY DEF Init, QueueBound, OdFollowsKeys, TpdoKnows
<1>. QED
  BY <1>1, <1>2 DEF IInv

(* The next key of a pass keeps the types of scan and ticks.               *)
LEMMA NextKeyType ==
  ASSUME TypeOK, scan # 0, NextKey
  PROVE  scan' \in 0..KeyCount /\ ticks' \in 0..KeyboardPeriod
  BY KeyTpdoAssumption DEF TypeOK, NextKey

LEMMA NextTickType ==
  ASSUME TypeOK, NextTick
  PROVE  ticks' \in 0..KeyboardPeriod
  BY KeyTpdoAssumption DEF TypeOK, NextTick

LEMMA StartPassStep ==
  ASSUME IInv, StartPass
  PROVE  IInv'
<1> USE DEF StartPass, IInv
<1>1. TypeOK'
  <2>1. 1 \in 0..KeyCount
    BY KeyTpdoAssumption
  <2>. QED
    BY <2>1 DEF TypeOK, nmt, tpdo
<1>2. QueueBound'
  BY KeyTpdoAssumption DEF QueueBound, TypeOK
<1>3. OdFollowsKeys' /\ TpdoKnows'
  BY DEF OdFollowsKeys, TpdoKnows, tpdo
<1>. QED
  BY <1>1, <1>2, <1>3

LEMMA KeyUnchangedStep ==
  ASSUME IInv, KeyUnchanged
  PROVE  IInv'
<1> USE DEF KeyUnchanged, IInv
<1>1. TypeOK'
  BY NextKeyType DEF TypeOK, nmt, tpdo
<1>2. QueueBound'
  BY KeyTpdoAssumption DEF QueueBound, TypeOK, NextKey
<1>3. OdFollowsKeys' /\ TpdoKnows'
  BY DEF OdFollowsKeys, TpdoKnows, tpdo
<1>. QED
  BY <1>1, <1>2, <1>3

(* A make and a break do the same to the queue.                            *)
LEMMA PostStep ==
  ASSUME IInv, scan # 0, NEW s \in {"MAKECODE", "BREAKECODE"},
         pKeyboard' = Append(pKeyboard, [KeyCode |-> scan, Status |-> s]),
         pressed' = IF s = "MAKECODE" THEN pressed \cup {scan} ELSE pressed \ {scan},
         NextKey,
         UNCHANGED <<odKeys, requested, nmt, tpdo, raced>>
  PROVE  IInv'
<1> DEFINE e == [KeyCode |-> scan, Status |-> s]
<1>1. scan \in Keys /\ e \in KeyEvents
  BY DEF IInv, TypeOK, Keys, KeyEvents
<1>2. /\ pKeyboard' \in Seq(KeyEvents)
      /\ Len(pKeyboard) \in Nat /\ Len(pKeyboard') = Len(pKeyboard) + 1
      /\ DOMAIN pKeyboard = 1..Len(pKeyboard)
      /\ DOMAIN pKeyboard' = 1..(Len(pKeyboard) + 1)
      /\ \A i \in DOMAIN pKeyboard : pKeyboard'[i] = pKeyboard[i]
      /\ pKeyboard'[Len(pKeyboard) + 1] = e
  BY <1>1, AppendKeeps DEF IInv, TypeOK
<1>3. TypeOK'
  BY <1>1, <1>2, NextKeyType DEF IInv, TypeOK, nmt, tpdo
<1>4. QueueBound'
  BY <1>2, KeyTpdoAssumption DEF IInv, QueueBound, TypeOK, NextKey
<1>5. ASSUME NEW k \in Keys, k # scan
      PROVE  OdFollowsKeys!(k)'
  <2>1. k \in pressed' <=> k \in pressed
    BY <1>5
  <2>2. e.KeyCode # k
    BY <1>5
  <2>. QED
    BY <1>2, <1>5, <2>1, <2>2 DEF IInv, OdFollowsKeys
<1>6. ASSUME NEW k \in Keys, k = scan
      PROVE  OdFollowsKeys!(k)'
  <2>1. e.KeyCode = k /\ (e.Status = "MAKECODE" <=> k \in pressed')
    BY <1>6
  <2>2. Len(pKeyboard) + 1 \in DOMAIN pKeyboard'
    BY <1>2
  <2>3. \A j \in DOMAIN pKeyboard' : ~(j > Len(pKeyboard) + 1)
    BY <1>2
  <2>. QED
    BY <1>2, <2>1, <2>2, <2>3
<1>7. OdFollowsKeys'
  BY <1>5, <1>6 DEF OdFollowsKeys
<1>8. TpdoKnows'
  BY DEF IInv, TpdoKnows, tpdo
<1>. QED
  BY <1>3, <1>4, <1>7, <1>8 DEF IInv

LEMMA KeyEventStep ==
  ASSUME IInv, KeyEvent
  PROVE  IInv'
<1> DEFINE e == Head(pKeyboard)
<1>1. /\ e = pKeyboard[1] /\ 1 \in DOMAIN pKeyboard /\ e \in KeyEvents
      /\ pKeyboard' \in Seq(KeyEvents)
      /\ Len(pKeyboard') = Len(pKeyboard) - 1 /\ Len(pKeyboard) \in Nat \ {0}
      /\ \A i \in DOMAIN pKeyboard' :
           i + 1 \in DOMAIN pKeyboard /\ pKeyboard'[i] = pKeyboard[i + 1]
      /\ \A i \in DOMAIN pKeyboard : i # 1 =>
           i - 1 \in DOMAIN pKeyboard' /\ pKeyboard'[i - 1] = pKeyboard[i]
      /\ DOMAIN pKeyboard \subseteq Nat /\ DOMAIN pKeyboard' \subseteq Nat
  BY TailShifts DEF KeyEvent, IInv, TypeOK
<1>2. e.KeyCode \in Keys /\ odKeys' \subseteq Keys
  BY <1>1 DEF KeyEvent, IInv, TypeOK, KeyEvents
<1>3. TypeOK'
  BY <1>1, <1>2, NextTickType DEF KeyEvent, IInv, TypeOK, nmt, tpdo
<1>4. QueueBound'
  BY <1>1, KeyTpdoAssumption DEF KeyEvent, IInv, QueueBound, TypeOK, NextTick
<1>5. ASSUME NEW k \in Keys
      PROVE  OdFollowsKeys!(k)'
  <2>1. CASE \A i \in DOMAIN pKeyboard : pKeyboard[i].KeyCode # k
    <3>1. k \in odKeys' <=> k \in pressed'
      BY <1>1, <2>1 DEF KeyEvent, IInv, OdFollowsKeys
    <3>. QED
      BY <1>1, <2>1, <3>1
  <2>2. ASSUME NEW i \in DOMAIN pKeyboard,
               pKeyboard[i].KeyCode = k,
               \A j \in DOMAIN pKeyboard : j > i => pKeyboard[j].KeyCode # k,
               pKeyboard[i].Status = "MAKECODE" <=> k \in pressed
        PROVE  OdFollowsKeys!(k)'
    <3>1. CASE i = 1
      <4>1. k \in odKeys' <=> k \in pressed'
        BY <1>1, <2>2, <3>1 DEF KeyEvent
      <4>2. \A j \in DOMAIN pKeyboard' : pKeyboard'[j].KeyCode # k
        BY <1>1, <2>2, <3>1
      <4>. QED
        BY <4>1, <4>2
    <3>2. CASE i # 1
      <4>1. i - 1 \in DOMAIN pKeyboard' /\ pKeyboard'[i - 1] = pKeyboard[i]
        BY <1>1, <3>2
      <4>2. \A j \in DOMAIN pKeyboard' : j > i - 1 => pKeyboard'[j].KeyCode # k
        BY <1>1, <2>2
      <4>3. pressed' = pressed
        BY DEF KeyEvent
      <4>. QED
        BY <2>2, <4>1, <4>2, <4>3
    <3>. QED
      BY <3>1, <3>2
  <2>. QED
    BY <2>1, <2>2 DEF IInv, OdFollowsKeys
<1>6. OdFollowsKeys'
  BY <1>5 DEF OdFollowsKeys
<1>7. TpdoKnows'
  BY DEF KeyEvent, IInv, TpdoKnows, TypeOK, tpdo
<1>. QED
  BY <1>3, <1>4, <1>6, <1>7 DEF IInv

LEMMA NoEventStep ==
  ASSUME IInv, NoEvent
  PROVE  IInv'
<1> USE DEF NoEvent, IInv
<1>1. TypeOK'
  BY NextTickType DEF TypeOK, nmt, tpdo
<1>2. QueueBound'
  BY DEF QueueBound, TypeOK
<1>3. OdFollowsKeys' /\ TpdoKnows'
  BY DEF OdFollowsKeys, TpdoKnows, tpdo
<1>. QED
  BY <1>1, <1>2, <1>3

---------------------------------------------------------------------------
(* The periodic and the mainline task                                      *)

LEMMA TpdoStep ==
  ASSUME IInv,
         TpdoReset \/ TpdoTrigger \/ TpdoRead \/ TpdoMark \/ TpdoSend \/ NmtChange
  PROVE  IInv'
<1>1. UNCHANGED <<keyboard, pKeyboard, odKeys>>
  BY DEF TpdoReset, TpdoTrigger, TpdoRead, TpdoMark, TpdoSend, NmtChange
<1>2. QueueBound' /\ OdFollowsKeys'
  BY <1>1 DEF IInv, QueueBound, OdFollowsKeys, keyboard
<1>3. CASE TpdoReset
  <2>1. 0 \in 0..EventTime
    BY KeyTpdoAssumption
  <2>. QED
    BY <1>2, <1>3, <2>1 DEF TpdoReset, IInv, TypeOK, TpdoKnows, keyboard, nmt
<1>4. CASE TpdoTrigger
  <2>1. eventTimer' \in 0..EventTime
    BY <1>4, KeyTpdoAssumption DEF TpdoTrigger, IInv, TypeOK
  <2>2. sendRequest' \in BOOLEAN /\ pc' \in {"idle", "read"}
    BY <1>4 DEF TpdoTrigger, IInv, TypeOK
  <2>3. pc' = "idle" => pc = "idle" /\ ~sendRequest /\ ~requested
    BY <1>4 DEF TpdoTrigger, IInv, TypeOK
  <2>4. TypeOK'
    BY <1>4, <2>1, <2>2 DEF TpdoTrigger, IInv, TypeOK, keyboard, nmt
  <2>5. TpdoKnows'
    BY <1>4, <2>2, <2>3 DEF TpdoTrigger, IInv, TpdoKnows
  <2>. QED
    BY <1>2, <2>4, <2>5 DEF IInv
<1>5. CASE TpdoRead
  BY <1>2, <1>5 DEF TpdoRead, IInv, TypeOK, TpdoKnows, keyboard, nmt
<1>6. CASE TpdoMark
  <2>1. EventTime \in 0..EventTime
    BY KeyTpdoAssumption
  <2>. QED
    BY <1>2, <1>6, <2>1 DEF TpdoMark, IInv, TypeOK, TpdoKnows, keyboard, nmt
<1>7. CASE TpdoSend
  BY <1>2, <1>7 DEF TpdoSend, IInv, TypeOK, TpdoKnows, keyboard, nmt
<1>8. CASE NmtChange
  <2>1. nmtChanges' \in 0..MaxNmtChanges
    BY <1>8, KeyTpdoAssumption DEF NmtChange, IInv, TypeOK
  <2>. QED
    BY <1>2, <1>8, <2>1 DEF NmtChange, IInv, TypeOK, TpdoKnows, keyboard, tpdo
<1>. QED
  BY <1>3, <1>4, <1>5, <1>6, <1>7, <1>8

LEMMA StutterStep ==
  ASSUME IInv, UNCHANGED vars
  PROVE  IInv'
  BY DEF IInv, vars, keyboard, nmt, tpdo, TypeOK, QueueBound, OdFollowsKeys, TpdoKnows

LEMMA NextIInv == IInv /\ [Next]_vars => IInv'
<1> SUFFICES ASSUME IInv, [Next]_vars PROVE IInv'
  OBVIOUS
<1>1. CASE KeyMake
  BY <1>1, PostStep DEF KeyMake
<1>2. CASE KeyBreak
  <2>1. scan # 0
    BY <1>2 DEF KeyBreak, IInv, TypeOK, Keys
  <2>. QED
    BY <1>2, <2>1, PostStep DEF KeyBreak
<1>. QED
  BY <1>1, <1>2, StartPassStep, KeyUnchangedStep, NoEventStep, KeyEventStep,
     TpdoStep, StutterStep DEF Next

THEOREM Invariance == Spec => []IInv
  BY InitIInv, NextIInv, PTL DEF Spec

---------------------------------------------------------------------------
(* Every variable keeps its type: the event timer does not wrap below zero *)
(* and no step of the tasks leaves the range of its state.                 *)
THEOREM TypeCorrect == Spec => []TypeOK
  BY Invariance, PTL DEF IInv

(* The queue of key events never overflows.                                *)
THEOREM QueueNeverOverflows == Spec => []QueueFits
<1>1. IInv => QueueFits
  BY KeyTpdoAssumption DEF IInv, TypeOK, QueueBound, QueueFits
<1>. QED
  BY <1>1, Invariance, PTL

(* No sequence of key events leaves a key stuck in object 0x2000.          *)
THEOREM ObjectFollowsKeys == Spec => []OdFollowsKeys
  BY Invariance, PTL DEF IInv

(* A change of 0x2000 goes unreported only through the race between the    *)
(* read and the mark of CO_TPDOsend.                                       *)
THEOREM RaceIsTheOnlyLoss == Spec => []OnlyRaceLoses
<1>1. IInv => OnlyRaceLoses
  BY DEF IInv, TpdoKnows, OnlyRaceLoses
<1>. QED
  BY <1>1, Invariance, PTL

---------------------------------------------------------------------------
(* The NMT slave                                                           *)

(* What a command in the slot is, and what is known of the one received    *)
(* last at each step of CO_NMT_process.                                    *)
CommandKnown ==
  /\ internalCommand # "NO_COMMAND" => internalCommand = received
  /\ nmtPc = "switch" => commandRaced \/ (tested = received /\ internalCommand = received)
  /\ nmtPc = "clear" => commandRaced \/ taken = received
  /\ nmtPc \in {"idle", "test", "verify", "reset"} /\ internalCommand = "NO_COMMAND"
       => taken = received \/ received = "NO_COMMAND" \/ commandRaced

(* What the copy of the state is at each step, the boot-up call aside.     *)
CopyKnown ==
  /\ nmtPc = "test" => tested = "NO_COMMAND"
  /\ nmtPc \in {"switch", "clear"} => tested # "NO_COMMAND"
  /\ ~Boot /\ nmtPc \in {"test", "switch"} => NMTstateCpy = operatingState
  /\ ~Boot /\ nmtPc \in {"clear", "verify"} =>
       NMTstateCpy = IF tested = "NO_COMMAND" THEN operatingState
                     ELSE Target(taken, operatingState)

NmtIInv == NmtTypeOK /\ HeartbeatTrue /\ CommandKnown /\ CopyKnown

---------------------------------------------------------------------------
(* The states a command leads to are states.                               *)
LEMMA TargetType ==
  ASSUME NEW command \in Commands, NEW current \in States
  PROVE  Target(command, current) \in States
  BY DEF Target, States, Commands

(* The timer stays a natural number.                                       *)
LEMMA TimerType ==
  ASSUME HBproducerTimer \in Nat, HBproducerTime \in Nat, NEW elapsed \in Nat
  PROVE  Remaining(elapsed) \in Nat /\ NextTimer(elapsed) \in Nat
  BY DEF Remaining, NextTimer

LEMMA NmtInitIInv == NmtInit => NmtIInv
<1> SUFFICES ASSUME NmtInit PROVE NmtIInv
  OBVIOUS
<1>1. HBproducerTime \in HbTimes /\ HBproducerTimer \in Nat
  BY NmtSlaveAssumption DEF NmtInit, Smaller
<1>2. NmtTypeOK
  BY <1>1 DEF NmtInit, NmtTypeOK, Commands, States
<1>3. HeartbeatTrue /\ CommandKnown /\ CopyKnown
  BY DEF NmtInit, HeartbeatTrue, CommandKnown, CopyKnown, Boot
<1>. QED
  BY <1>2, <1>3 DEF NmtIInv

LEMMA NmtNextIInv == NmtIInv /\ [NmtNext]_nmtVars => NmtIInv'
<1> SUFFICES ASSUME NmtIInv, [NmtNext]_nmtVars PROVE NmtIInv'
  OBVIOUS
<1> USE DEF NmtIInv
<1>1. ASSUME NEW command \in Commands, Receive(command) PROVE NmtIInv'
  <2>1. NmtTypeOK'
    BY <1>1 DEF Receive, NmtTypeOK, state, local, hb, setting
  <2>2. HeartbeatTrue'
    BY <1>1 DEF Receive, HeartbeatTrue, state, hb
  <2>3. CommandKnown'
    BY <1>1 DEF Receive, CommandKnown, NmtTypeOK, local
  <2>4. CopyKnown'
    BY <1>1 DEF Receive, CopyKnown, Boot, Target, state, local
  <2>. QED
    BY <2>1, <2>2, <2>3, <2>4
<1>2. ASSUME NEW time \in HbTimes, OD_write_1017(time) PROVE NmtIInv'
  <2>1. NmtTypeOK'
    BY <1>2 DEF OD_write_1017, NmtTypeOK, state, local, setting, ghosts
  <2>2. HeartbeatTrue'
    BY <1>2 DEF OD_write_1017, HeartbeatTrue
  <2>3. CommandKnown'
    BY <1>2 DEF OD_write_1017, CommandKnown, local, ghosts
  <2>4. CopyKnown'
    BY <1>2 DEF OD_write_1017, CopyKnown, Boot, Target, state, local, ghosts
  <2>. QED
    BY <2>1, <2>2, <2>3, <2>4
<1>3. ASSUME NEW elapsed \in 0..MaxElapsed, ProcessHeartbeat(elapsed) PROVE NmtIInv'
  <2>0. elapsed \in Nat /\ HBproducerTime \in Nat /\ HBproducerTimer \in Nat
    BY NmtSlaveAssumption DEF NmtTypeOK
  <2>1. NextTimer(elapsed) \in Nat
    BY <2>0, TimerType
  <2>2. NmtTypeOK'
    <3>1. NMTstateCpy' \in States /\ operatingStatePrev' \in States
      BY <1>3 DEF ProcessHeartbeat, NmtTypeOK, States
    <3>2. heartbeat' \in States \cup {"NONE"} /\ tested' \in Commands
      BY <1>3 DEF ProcessHeartbeat, NmtTypeOK, Commands
    <3>. QED
      BY <1>3, <2>1, <3>1, <3>2 DEF ProcessHeartbeat, NmtTypeOK, ghosts
  <2>3. HeartbeatTrue'
    <3>1. CASE Due(elapsed)
      BY <1>3, <3>1 DEF ProcessHeartbeat, HeartbeatTrue, Boot
    <3>2. CASE ~Due(elapsed)
      <4>1. HBproducerTime # 0 /\ NextTimer(elapsed) # 0
              => HBproducerTimer # 0 /\ operatingState = operatingStatePrev /\ ~Boot
        BY <3>2, <2>0 DEF Due, NextTimer, Remaining
      <4>. QED
        BY <1>3, <3>2, <4>1 DEF ProcessHeartbeat, HeartbeatTrue
    <3>. QED
      BY <3>1, <3>2
  <2>4. CommandKnown'
    BY <1>3 DEF ProcessHeartbeat, CommandKnown, ghosts
  <2>5. CopyKnown'
    BY <1>3 DEF ProcessHeartbeat, CopyKnown, Boot
  <2>. QED
    BY <2>2, <2>3, <2>4, <2>5
<1>4. CASE TestNone
  <2>1. NmtTypeOK'
    BY <1>4 DEF TestNone, NmtTypeOK, state, local, hb, setting, ghosts
  <2>2. HeartbeatTrue'
    BY <1>4 DEF TestNone, HeartbeatTrue, state, hb
  <2>3. CommandKnown'
    BY <1>4 DEF TestNone, CommandKnown, local, ghosts
  <2>4. CopyKnown'
    BY <1>4 DEF TestNone, CopyKnown, Boot, state, local, ghosts
  <2>. QED
    BY <2>1, <2>2, <2>3, <2>4
<1>5. CASE TestCommand
  <2>1. NmtTypeOK'
    BY <1>5 DEF TestCommand, NmtTypeOK, state, hb, setting
  <2>2. HeartbeatTrue'
    BY <1>5 DEF TestCommand, HeartbeatTrue, state, hb
  <2>3. CommandKnown'
    BY <1>5 DEF TestCommand, CommandKnown
  <2>4. CopyKnown'
    BY <1>5 DEF TestCommand, CopyKnown, Boot, state
  <2>. QED
    BY <2>1, <2>2, <2>3, <2>4
<1>6. CASE TakeCommand
  <2>1. PICK command \in {tested, internalCommand} :
          /\ taken' = command
          /\ NMTstateCpy' = Target(command, NMTstateCpy)
          /\ resetCommand' = (command \in {"RESET_NODE", "RESET_COMMUNICATION"})
    BY <1>6 DEF TakeCommand
  <2>2. command \in Commands /\ Target(command, NMTstateCpy) \in States
    BY TargetType DEF NmtTypeOK
  <2>3. NmtTypeOK'
    BY <1>6, <2>1, <2>2 DEF TakeCommand, NmtTypeOK, state, hb, setting
  <2>4. HeartbeatTrue'
    BY <1>6 DEF TakeCommand, HeartbeatTrue, state, hb
  <2>5. CommandKnown'
    BY <1>6, <2>1 DEF TakeCommand, CommandKnown
  <2>6. CopyKnown'
    BY <1>6, <2>1 DEF TakeCommand, CopyKnown, Boot, state
  <2>. QED
    BY <2>3, <2>4, <2>5, <2>6
<1>7. CASE ClearCommand
  <2>1. NmtTypeOK'
    BY <1>7 DEF ClearCommand, NmtTypeOK, Commands, state, local, hb, setting, ghosts
  <2>2. HeartbeatTrue'
    BY <1>7 DEF ClearCommand, HeartbeatTrue, state, hb
  <2>3. CommandKnown'
    BY <1>7 DEF ClearCommand, CommandKnown, ghosts
  <2>4. CopyKnown'
    BY <1>7 DEF ClearCommand, CopyKnown, Boot, Target, state, local, ghosts
  <2>. QED
    BY <2>1, <2>2, <2>3, <2>4
<1>8. CASE Verify
  <2>1. NmtTypeOK'
    BY <1>8 DEF Verify, Verified, NmtTypeOK, States, local, hb, setting, ghosts
  <2>2. HeartbeatTrue'
    BY <1>8 DEF Verify, HeartbeatTrue, hb
  <2>3. CommandKnown'
    BY <1>8 DEF Verify, CommandKnown, ghosts
  <2>4. CopyKnown'
    BY <1>8 DEF Verify, CopyKnown
  <2>. QED
    BY <2>1, <2>2, <2>3, <2>4
<1>9. CASE SystemReset
  <2>1. HBproducerTime' \in HbTimes /\ HBproducerTimer' \in Nat
    BY <1>9, NmtSlaveAssumption DEF SystemReset, Smaller
  <2>2. NmtTypeOK'
    BY <1>9, <2>1 DEF SystemReset, NmtTypeOK, Commands, States
  <2>3. HeartbeatTrue' /\ CommandKnown' /\ CopyKnown'
    BY <1>9 DEF SystemReset, HeartbeatTrue, CommandKnown, CopyKnown, Boot
  <2>. QED
    BY <2>2, <2>3
<1>10. CASE UNCHANGED nmtVars
  BY <1>10 DEF nmtVars, NmtTypeOK, HeartbeatTrue, CommandKnown, CopyKnown, Boot, Target,
               state, local, hb, setting, ghosts
<1>. QED
  BY <1>1, <1>2, <1>3, <1>4, <1>5, <1>6, <1>7, <1>8, <1>9, <1>10 DEF NmtNext

(* The inductive invariant of the NMT slave.                               *)
THEOREM NmtInvariance == NmtSpec => []NmtIInv
  BY NmtInitIInv, NmtNextIInv, PTL DEF NmtSpec

---------------------------------------------------------------------------
(* Every variable of CO_NMT_t keeps its range; the heartbeat timer never   *)
(* wraps below zero.                                                       *)
THEOREM NmtTypeCorrect == NmtSpec => []NmtTypeOK
  BY NmtInvariance, PTL DEF NmtIInv

(* While the producer is on the bus knows the state of the node at the     *)
(* last call of CO_NMT_process.                                            *)
THEOREM HeartbeatIsTrue == NmtSpec => []HeartbeatTrue
  BY NmtInvariance, PTL DEF NmtIInv

(* No command CO_NMT_receive stored is lost but in the window between the  *)
(* test and the clearing of the slot.                                      *)
THEOREM OnlyTheRaceLoses == NmtSpec => []OnlyRaceLosesCommand
<1>1. NmtIInv => OnlyRaceLosesCommand
  BY DEF NmtIInv, CommandKnown, OnlyRaceLosesCommand
<1>. QED
  BY <1>1, NmtInvariance, PTL

(* CO_NMT_process never changes the operating state without a command, an  *)
(* error, the start-up or a reset.                                         *)
THEOREM ChangesHaveCause == NmtSpec => StateChangesHaveCause
<1> DEFINE Cause == operatingState' # operatingState =>
       \/ nmtPc = "reset"
       \/ operatingState = "INITIALIZING"
       \/ tested # "NO_COMMAND" /\ operatingState' = Target(taken, operatingState)
       \/ operatingState' = "PRE_OPERATIONAL" /\ errorRegister
<1>1. NmtIInv /\ [NmtNext]_nmtVars => [Cause]_nmtVars
  <2> SUFFICES ASSUME NmtIInv, NmtNext, operatingState' # operatingState
               PROVE  Cause
    OBVIOUS
  <2>1. Verify \/ SystemReset
    BY DEF NmtNext, Receive, OD_write_1017, ProcessHeartbeat, TestNone, TestCommand,
           TakeCommand, ClearCommand, state
  <2>2. CASE Verify
    BY <2>2 DEF Verify, Verified, NmtIInv, CopyKnown, Boot
  <2>3. CASE SystemReset
    BY <2>3 DEF SystemReset
  <2>. QED
    BY <2>1, <2>2, <2>3
<1>. QED
  BY <1>1, NmtInvariance, PTL DEF NmtSpec, StateChangesHaveCause
=============================================================================
