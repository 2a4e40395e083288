---------------------------- MODULE CanTxProofs ----------------------------
(***************************************************************************)
(* The safety invariants of the CAN transmit driver, for every number of   *)
(* transmit objects and mailboxes.                                         *)
(*                                                                         *)
(* None of the three invariants is inductive by itself.  AcceptedNotLost   *)
(* needs to know that an object never holds contents older than what was   *)
(* accepted or copied; NoLostWakeup that the count is zero in the window   *)
(* between the scan and the second clearing of RQCP, where an interrupt    *)
(* request can be wiped out; LowestFullIsSent that a mailbox whose RQCP    *)
(* flag is set is empty.  FirstIsSent follows from the last of them.       *)
(***************************************************************************)
EXTENDS CanTx, TLAPS

(* No object holds contents older than the last accepted or copied ones.   *)
DataIsNewest ==
  \A b \in Objects : accepted[b] <= data[b] /\ copied[b] <= data[b]

(* When the handler is about to clear RQCP again, nothing is counted.      *)
CountClearedAtEnd == isr = "end" => CANtxCount = 0

(* A completed mailbox is an empty one.                                    *)
CompletedIsEmpty == rqcp \cap loaded = {}

IInv ==
  /\ TypeOK
  /\ DataIsNewest
  /\ AcceptedNotLost
  /\ CountClearedAtEnd
  /\ NoLostWakeup
  /\ CompletedIsEmpty
  /\ LowestFullIsSent

(* What loading a mailbox does, in the form the steps below use.           *)
LEMMA LoadEffect ==
  ASSUME TypeOK, NEW b \in Objects, Load(b)
  PROVE  /\ loaded' \subseteq Mbx /\ rqcp' \subseteq Mbx
         /\ loaded' # {}
         /\ copied' = [copied EXCEPT ![b] = data[b]]
         /\ copied' \in [Objects -> Version]
         /\ CompletedIsEmpty => CompletedIsEmpty'
  BY DEF Load, TypeOK, CompletedIsEmpty

LEMMA InitIInv == Init => IInv
<1> SUFFICES ASSUME Init PROVE IInv
  OBVIOUS
<1>1. TypeOK
  <2>1. 0 \in Version /\ 0 \in 0..(CountMod - 1) /\ 1 \in Objects /\ 1 \in 1..(TxSize + 1)
    BY CanTxAssumption DEF Version, Objects
  <2>. QED
    BY <2>1 DEF Init, TypeOK
<1>2. DataIsNewest /\ AcceptedNotLost
  BY DEF Init, DataIsNewest, AcceptedNotLost, Objects
<1>3. CountClearedAtEnd /\ NoLostWakeup /\ CompletedIsEmpty /\ LowestFullIsSent
  BY DEF Init, CountClearedAtEnd, NoLostWakeup, CompletedIsEmpty, LowestFullIsSent
<1>. QED
  BY <1>1, <1>2, <1>3 DEF IInv

---------------------------------------------------------------------------
(* One lemma per action.                                                   *)

LEMMA FillStep ==
  ASSUME IInv, NEW b \in Objects, Fill(b)
  PROVE  IInv'
<1> USE DEF Fill, IInv, driver, can, history
<1>1. data[b] + 1 \in Version /\ \A c \in Objects : data[c] \in Int
  BY CanTxAssumption DEF TypeOK, Version
<1>2. TypeOK'
  BY <1>1 DEF TypeOK
<1>3. DataIsNewest'
  BY <1>1 DEF DataIsNewest, TypeOK, Version
<1>4. AcceptedNotLost' /\ CountClearedAtEnd' /\ NoLostWakeup'
      /\ CompletedIsEmpty' /\ LowestFullIsSent'
  BY DEF AcceptedNotLost, CountClearedAtEnd, NoLostWakeup, CompletedIsEmpty,
         LowestFullIsSent, NoMailBox
<1>. QED
  BY <1>2, <1>3, <1>4

LEMMA VerifyOverflowStep ==
  ASSUME IInv, VerifyOverflow
  PROVE  IInv'
<1> USE DEF VerifyOverflow, IInv, can, history
<1>1. TypeOK'
  BY DEF TypeOK
<1>2. DataIsNewest' /\ AcceptedNotLost' /\ CountClearedAtEnd' /\ NoLostWakeup'
      /\ CompletedIsEmpty' /\ LowestFullIsSent'
  BY DEF DataIsNewest, AcceptedNotLost, CountClearedAtEnd, NoLostWakeup,
         CompletedIsEmpty, LowestFullIsSent, NoMailBox
<1>. QED
  BY <1>1, <1>2

LEMMA SendLockedStep ==
  ASSUME IInv, SendLocked
  PROVE  IInv'
<1> USE DEF IInv
<1>1. /\ isr = "off" /\ isr' = "off" /\ cur \in Objects /\ task' = "idle"
      /\ accepted' = [accepted EXCEPT ![cur] = data[cur]]
      /\ UNCHANGED <<firstCANtxMessage, txOverflow, data, cur, idx, scanSent>>
  BY DEF SendLocked, TypeOK
<1>2. CASE Load(cur) /\ UNCHANGED <<bufferFull, CANtxCount>>
  <2>1. /\ loaded' \subseteq Mbx /\ rqcp' \subseteq Mbx /\ loaded' # {}
        /\ copied' = [copied EXCEPT ![cur] = data[cur]]
        /\ copied' \in [Objects -> Version]
        /\ CompletedIsEmpty'
    BY <1>1, <1>2, LoadEffect
  <2>2. TypeOK'
    BY <1>1, <1>2, <2>1 DEF TypeOK
  <2>3. DataIsNewest' /\ AcceptedNotLost'
    BY <1>1, <1>2, <2>1 DEF DataIsNewest, AcceptedNotLost, TypeOK, Version
  <2>4. CountClearedAtEnd' /\ NoLostWakeup' /\ LowestFullIsSent'
    BY <1>1, <2>1 DEF CountClearedAtEnd, NoLostWakeup, LowestFullIsSent
  <2>. QED
    BY <2>1, <2>2, <2>3, <2>4
<1>3. CASE /\ NoMailBox
           /\ bufferFull' = [bufferFull EXCEPT ![cur] = TRUE]
           /\ CANtxCount' = (CANtxCount + 1) % CountMod
           /\ UNCHANGED <<can, copied>>
  <2>1. (CANtxCount + 1) % CountMod \in 0..(CountMod - 1)
    BY CanTxAssumption DEF TypeOK
  <2>2. TypeOK'
    BY <1>1, <1>3, <2>1 DEF TypeOK, can
  <2>3. DataIsNewest' /\ AcceptedNotLost'
    BY <1>1, <1>3 DEF DataIsNewest, AcceptedNotLost, TypeOK, Version
  <2>4. loaded' # {}
    BY <1>3, CanTxAssumption DEF NoMailBox, Mbx, can
  <2>5. CountClearedAtEnd' /\ NoLostWakeup' /\ CompletedIsEmpty' /\ LowestFullIsSent'
    BY <1>1, <1>3, <2>4 DEF CountClearedAtEnd, NoLostWakeup, CompletedIsEmpty,
                            LowestFullIsSent, can
  <2>. QED
    BY <2>2, <2>3, <2>5
<1>. QED
  BY <1>2, <1>3 DEF SendLocked

LEMMA CompleteStep ==
  ASSUME IInv, NEW m \in Mbx, Complete(m)
  PROVE  IInv'
<1> USE DEF Complete, IInv, driver, history
<1>1. TypeOK'
  BY DEF TypeOK
<1>2. DataIsNewest' /\ AcceptedNotLost' /\ CountClearedAtEnd'
  BY DEF DataIsNewest, AcceptedNotLost, CountClearedAtEnd
<1>3. NoLostWakeup' /\ CompletedIsEmpty' /\ LowestFullIsSent'
  BY DEF NoLostWakeup, CompletedIsEmpty, LowestFullIsSent, NoMailBox
<1>. QED
  BY <1>1, <1>2, <1>3

LEMMA IsrBeginStep ==
  ASSUME IInv, IsrBegin
  PROVE  IInv'
<1> USE DEF IsrBegin, IInv
<1>1. TypeOK'
  <2>1. 1 \in 1..(TxSize + 1)
    BY CanTxAssumption
  <2>2. isr' \in {"off", "scan", "end"}
    OBVIOUS
  <2>. QED
    BY <2>1, <2>2 DEF TypeOK
<1>2. DataIsNewest' /\ AcceptedNotLost'
  BY DEF DataIsNewest, AcceptedNotLost
<1>3. CountClearedAtEnd' /\ NoLostWakeup' /\ CompletedIsEmpty'
  BY DEF CountClearedAtEnd, NoLostWakeup, CompletedIsEmpty, TypeOK
<1>4. ~NoMailBox
  BY DEF NoMailBox, CompletedIsEmpty, TypeOK
<1>5. LowestFullIsSent'
  BY <1>4 DEF LowestFullIsSent, NoMailBox
<1>. QED
  BY <1>1, <1>2, <1>3, <1>5

LEMMA IsrSendStep ==
  ASSUME IInv, IsrSend
  PROVE  IInv'
<1> USE DEF IsrSend, IInv
<1>1. /\ loaded' \subseteq Mbx /\ rqcp' \subseteq Mbx
      /\ copied' = [copied EXCEPT ![idx] = data[idx]]
      /\ copied' \in [Objects -> Version]
      /\ CompletedIsEmpty'
  BY LoadEffect
<1>2. (CANtxCount - 1) % CountMod \in 0..(CountMod - 1)
  BY CanTxAssumption DEF TypeOK
<1>3. TypeOK'
  BY <1>1, <1>2, CanTxAssumption DEF TypeOK, Objects
<1>4. DataIsNewest' /\ AcceptedNotLost'
  BY <1>1 DEF DataIsNewest, AcceptedNotLost, TypeOK, Version
<1>5. CountClearedAtEnd' /\ NoLostWakeup' /\ LowestFullIsSent'
  BY DEF CountClearedAtEnd, NoLostWakeup, LowestFullIsSent
<1>. QED
  BY <1>1, <1>3, <1>4, <1>5

LEMMA IsrSkipStep ==
  ASSUME IInv, IsrSkip
  PROVE  IInv'
<1> USE DEF IsrSkip, IInv, driver, can, history
<1>1. TypeOK'
  BY CanTxAssumption DEF TypeOK, Objects
<1>2. DataIsNewest' /\ AcceptedNotLost' /\ CountClearedAtEnd' /\ NoLostWakeup'
      /\ CompletedIsEmpty' /\ LowestFullIsSent'
  BY DEF DataIsNewest, AcceptedNotLost, CountClearedAtEnd, NoLostWakeup,
         CompletedIsEmpty, LowestFullIsSent, NoMailBox
<1>. QED
  BY <1>1, <1>2

LEMMA IsrClearCountStep ==
  ASSUME IInv, IsrClearCount
  PROVE  IInv'
<1> USE DEF IsrClearCount, IInv, can, history
<1>1. TypeOK'
  BY CanTxAssumption DEF TypeOK
<1>2. DataIsNewest' /\ AcceptedNotLost' /\ CountClearedAtEnd' /\ NoLostWakeup'
      /\ CompletedIsEmpty' /\ LowestFullIsSent'
  BY DEF DataIsNewest, AcceptedNotLost, CountClearedAtEnd, NoLostWakeup,
         CompletedIsEmpty, LowestFullIsSent, NoMailBox
<1>. QED
  BY <1>1, <1>2

LEMMA IsrEndStep ==
  ASSUME IInv, IsrEnd
  PROVE  IInv'
<1> USE DEF IsrEnd, IInv, driver, history
<1>1. TypeOK'
  BY DEF TypeOK
<1>2. DataIsNewest' /\ AcceptedNotLost' /\ CountClearedAtEnd' /\ NoLostWakeup'
      /\ CompletedIsEmpty' /\ LowestFullIsSent'
  BY DEF DataIsNewest, AcceptedNotLost, CountClearedAtEnd, NoLostWakeup,
         CompletedIsEmpty, LowestFullIsSent, NoMailBox, TypeOK
<1>. QED
  BY <1>1, <1>2

LEMMA StutterStep ==
  ASSUME IInv, UNCHANGED vars
  PROVE  IInv'
  BY DEF IInv, vars, driver, can, history, TypeOK, DataIsNewest, AcceptedNotLost,
         CountClearedAtEnd, NoLostWakeup, CompletedIsEmpty, LowestFullIsSent,
         NoMailBox

LEMMA NextIInv == IInv /\ [Next]_vars => IInv'
<1> SUFFICES ASSUME IInv, [Next]_vars PROVE IInv'
  OBVIOUS
<1>1. ASSUME NEW b \in Objects, Fill(b) PROVE IInv'
  BY <1>1, FillStep
<1>2. ASSUME NEW m \in Mbx, Complete(m) PROVE IInv'
  BY <1>2, CompleteStep
<1>. QED
  BY <1>1, <1>2, VerifyOverflowStep, SendLockedStep, IsrBeginStep, IsrSendStep,
     IsrSkipStep, IsrClearCountStep, IsrEndStep, StutterStep DEF Next

THEOREM Invariance == Spec => []IInv
  BY InitIInv, NextIInv, PTL DEF Spec

---------------------------------------------------------------------------
(* Type correctness; in particular CANtxCount keeps its 16 bits although   *)
(* the scan of CAN_SendMessage may decrement it below zero.                *)
THEOREM TypeCorrect == Spec => []TypeOK
  BY Invariance, PTL DEF IInv

(* A message CO_CANsend accepted is in the controller or still marked.     *)
THEOREM MessagesNotLost == Spec => []AcceptedNotLost
  BY Invariance, PTL DEF IInv

(* A counted message never waits for an interrupt that cannot come.        *)
THEOREM WakeupNotLost == Spec => []NoLostWakeup
  BY Invariance, PTL DEF IInv

(* No interrupt with a count is spent in vain.                             *)
THEOREM ScanSends == Spec => []LowestFullIsSent
  BY Invariance, PTL DEF IInv

(* A scan begins with the first object, before it has sent anything.       *)
FirstFresh == isr = "scan" /\ idx = 1 => ~scanSent

LEMMA NextFirst ==
  ASSUME IInv, FirstFresh, FirstIsSent, [Next]_vars
  PROVE  FirstFresh' /\ FirstIsSent'
<1> USE DEF FirstFresh, FirstIsSent
<1>1. 1 \in Objects
  BY CanTxAssumption DEF Objects
<1>2. ASSUME NEW b \in Objects, Fill(b) PROVE FirstFresh' /\ FirstIsSent'
  BY <1>2 DEF Fill
<1>3. CASE VerifyOverflow \/ SendLocked
  BY <1>3 DEF VerifyOverflow, SendLocked
<1>4. ASSUME NEW m \in Mbx, Complete(m) PROVE FirstFresh' /\ FirstIsSent'
  BY <1>4 DEF Complete, driver, history
<1>5. CASE IsrBegin
  BY <1>5 DEF IsrBegin
<1>6. CASE IsrSend
  <2>1. /\ idx \in Objects /\ idx' = idx + 1 /\ isr = "scan" /\ isr' = "scan"
        /\ bufferFull' = [bufferFull EXCEPT ![idx] = FALSE]
    BY <1>6 DEF IsrSend
  <2>2. idx \in Nat \ {0}
    BY <2>1 DEF Objects
  <2>3. bufferFull \in [Objects -> BOOLEAN]
    BY DEF IInv, TypeOK
  <2>4. CASE idx = 1
    <3>1. ~bufferFull'[1]
      BY <1>1, <2>1, <2>3, <2>4
    <3>. QED
      BY <2>1, <2>2, <2>4, <3>1
  <2>5. CASE idx # 1
    <3>1. idx > 1 /\ ~bufferFull[1]
      BY <2>1, <2>2, <2>5
    <3>2. ~bufferFull'[1]
      BY <1>1, <2>1, <2>3, <2>5, <3>1
    <3>. QED
      BY <2>1, <2>2, <3>2
  <2>. QED
    BY <2>4, <2>5
<1>7. CASE IsrSkip
  <2>1. /\ idx \in Objects /\ idx' = idx + 1 /\ isr = "scan" /\ isr' = "scan"
        /\ bufferFull' = bufferFull
        /\ ~bufferFull[idx] \/ NoMailBox
    BY <1>7 DEF IsrSkip, driver
  <2>2. idx \in Nat \ {0}
    BY <2>1 DEF Objects
  <2>3. idx = 1 => ~bufferFull[1]
    BY <2>1 DEF IInv, LowestFullIsSent
  <2>. QED
    BY <2>1, <2>2, <2>3
<1>8. CASE IsrClearCount \/ IsrEnd
  BY <1>8 DEF IsrClearCount, IsrEnd
<1>9. CASE UNCHANGED vars
  BY <1>9 DEF vars, driver, history
<1>. QED
  BY <1>2, <1>3, <1>4, <1>5, <1>6, <1>7, <1>8, <1>9 DEF Next

(* The count is never cleared while the emergency producer's object is     *)
(* full, whichever other objects a scan leaves behind.                     *)
THEOREM FirstServed == Spec => []FirstIsSent
<1>1. Init => FirstFresh /\ FirstIsSent
  BY DEF Init, FirstFresh, FirstIsSent
<1>2. IInv /\ FirstFresh /\ FirstIsSent /\ [Next]_vars => FirstFresh' /\ FirstIsSent'
  BY NextFirst
<1>. QED
  BY <1>1, <1>2, Invariance, PTL DEF Spec

---------------------------------------------------------------------------
(* The driver implements TransmitPromise.  A call of CO_CANsend hands over *)
(* contents that are newer than those handed over before, for its object   *)
(* was filled on the way.                                                  *)

FilledIsNew == task # "idle" => accepted[cur] < data[cur]

LEMMA NextFilledIsNew == IInv /\ FilledIsNew /\ [Next]_vars => FilledIsNew'
<1> SUFFICES ASSUME IInv, FilledIsNew, [Next]_vars PROVE FilledIsNew'
  OBVIOUS
<1> USE DEF FilledIsNew
<1>1. ASSUME NEW b \in Objects, Fill(b) PROVE FilledIsNew'
  BY <1>1 DEF Fill, history, IInv, TypeOK, DataIsNewest, Version
<1>2. CASE VerifyOverflow
  BY <1>2 DEF VerifyOverflow, history
<1>3. CASE SendLocked
  BY <1>3 DEF SendLocked
<1>4. ASSUME NEW m \in Mbx, Complete(m) PROVE FilledIsNew'
  BY <1>4 DEF Complete, history
<1>5. CASE IsrBegin \/ IsrSend \/ IsrSkip \/ IsrClearCount \/ IsrEnd
  BY <1>5 DEF IsrBegin, IsrSend, IsrSkip, IsrClearCount, IsrEnd, history
<1>6. CASE UNCHANGED vars
  BY <1>6 DEF vars, history
<1>. QED
  BY <1>1, <1>2, <1>3, <1>4, <1>5, <1>6 DEF Next

LEMMA InitPromise == Init => Promise!Init /\ FilledIsNew
  BY DEF Init, Promise!Init, FilledIsNew

LEMMA NextPromise ==
  IInv /\ FilledIsNew /\ [Next]_vars => [Promise!Next]_(Promise!vars)
<1> SUFFICES ASSUME IInv, FilledIsNew, [Next]_vars
             PROVE  Promise!Next \/ UNCHANGED Promise!vars
  OBVIOUS
<1> DEFINE due == {b \in Objects : bufferFull[b]}
<1> USE DEF Promise!vars, history, driver, IInv
<1>1. ASSUME NEW b \in Objects, Fill(b) PROVE Promise!Write(b)
  BY <1>1 DEF Fill, Promise!Write
<1>2. CASE SendLocked
  <2>1. cur \in Objects /\ accepted[cur] < data[cur]
        /\ accepted' = [accepted EXCEPT ![cur] = data[cur]] /\ data' = data
    BY <1>2 DEF SendLocked, FilledIsNew, TypeOK
  <2>2. CASE Load(cur) /\ UNCHANGED <<bufferFull, CANtxCount>>
    <3>1. due' = due /\ copied' = [copied EXCEPT ![cur] = data[cur]]
      BY <2>2 DEF Load
    <3>. QED
      BY <2>1, <3>1 DEF Promise!Accept, Promise!Next
  <2>3. CASE /\ bufferFull' = [bufferFull EXCEPT ![cur] = TRUE]
             /\ UNCHANGED copied
    <3>1. due' = due \cup {cur}
      BY <2>1, <2>3 DEF TypeOK
    <3>. QED
      BY <2>1, <2>3, <3>1 DEF Promise!Accept, Promise!Next
  <2>. QED
    BY <1>2, <2>2, <2>3 DEF SendLocked
<1>3. CASE IsrSend
  <2>1. /\ idx \in Objects /\ idx \in due
        /\ bufferFull' = [bufferFull EXCEPT ![idx] = FALSE]
        /\ copied' = [copied EXCEPT ![idx] = data[idx]]
        /\ data' = data /\ accepted' = accepted
    BY <1>3 DEF IsrSend, Load
  <2>2. due' = due \ {idx}
    BY <2>1 DEF TypeOK
  <2>. QED
    BY <2>1, <2>2 DEF Promise!SendLater, Promise!Next
<1>4. ASSUME NEW m \in Mbx, Complete(m) PROVE UNCHANGED Promise!vars
  BY <1>4 DEF Complete
<1>5. CASE VerifyOverflow \/ IsrBegin \/ IsrSkip \/ IsrClearCount \/ IsrEnd
  BY <1>5 DEF VerifyOverflow, IsrBegin, IsrSkip, IsrClearCount, IsrEnd
<1>6. CASE UNCHANGED vars
  BY <1>6 DEF vars
<1>. QED
  BY <1>1, <1>2, <1>3, <1>4, <1>5, <1>6 DEF Next, Promise!Next

(* Every message CO_CANsend accepts is sent once, at once or later.        *)
THEOREM Refinement == Spec => PromiseKept
<1>1. Spec => [](IInv /\ FilledIsNew)
  BY InitIInv, NextIInv, InitPromise, NextFilledIsNew, PTL DEF Spec
<1>2. IInv /\ FilledIsNew /\ [Next]_vars => [Promise!Next]_(Promise!vars)
  BY NextPromise
<1>. QED
  BY <1>1, <1>2, InitPromise, PTL DEF Spec, PromiseKept, Promise!Spec
=============================================================================
