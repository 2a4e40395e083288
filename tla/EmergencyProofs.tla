-------------------------- MODULE EmergencyProofs --------------------------
(***************************************************************************)
(* For every number of RPDOs and every fifo of at least two messages: the  *)
(* types, that an overflow of the fifo is reported and ends, that the      *)
(* error register keeps the node from the operational state, that the last *)
(* message about an error is true, and that object 0x1003 implements the   *)
(* abstract history.                                                       *)
(***************************************************************************)
EXTENDS Emergency, SequenceTheorems, TLAPS

(* The mainline task runs outside the loop over the RPDOs.                 *)
Mutex == pc # "idle" => rpdo = 0

(* The flag of an overflow is raised on a full fifo, which stays full      *)
(* until the next message is sent; the two calls of CO_error for the fifo  *)
(* itself find room.                                                       *)
OverflowPhases ==
  /\ fifoOverflow = 1 => Following(fifoWrPtr) = fifoPpPtr /\ pc \notin {"report", "reset"}
  /\ fifoOverflow = 2 => fifoPpPtr # fifoWrPtr
  /\ pc = "report" => fifoOverflow = 2 /\ Following(fifoWrPtr) # fifoPpPtr
  /\ pc = "reset" => fifoOverflow = 0 /\ fifoPpPtr = fifoWrPtr
                     /\ "EMERGENCY_BUFFER_FULL" \in status
  /\ fifoOverflow = 2 /\ pc # "report" => "EMERGENCY_BUFFER_FULL" \in status
  /\ "EMERGENCY_BUFFER_FULL" \in status /\ pc # "reset" => fifoOverflow # 0
  /\ "EMERGENCY_BUFFER_FULL" \notin lost

(* The error register is the status of the overflow of the driver.         *)
RegisterKnown ==
  /\ errorRegister <=> "CAN_TX_OVERFLOW" \in status
  /\ pc = "idle" /\ errorRegister => state # "OPERATIONAL"

IInv == TypeOK /\ Mutex /\ OverflowPhases

---------------------------------------------------------------------------
(* CO_error                                                                *)

(* The slot behind one of the fifo.                                        *)
LEMMA FollowingSlot ==
  ASSUME NEW i \in Slots
  PROVE  Following(i) \in Slots /\ Following(i) # i
  BY EmergencyAssumption DEF Slots, Following

(* CO_error keeps the types and changes no other error.                    *)
LEMMA CO_errorType ==
  ASSUME TypeOK, NEW set \in BOOLEAN, NEW bit \in ErrorBits, CO_error(set, bit)
  PROVE  /\ status' \subseteq ErrorBits
         /\ fifo' \in [Slots -> Messages] /\ fifoWrPtr' \in Slots
         /\ fifoOverflow' \in 0..2 /\ fifoCount' \in 0..(FifoSize - 1)
         /\ lost' \subseteq ErrorBits
         /\ \A b \in ErrorBits \ {bit} : /\ b \in status' <=> b \in status
                                         /\ b \in lost' <=> b \in lost
<1>1. [bit |-> bit, set |-> set, register |-> FALSE] \in Messages
  BY DEF Messages
<1>2. Following(fifoWrPtr) \in Slots
  BY FollowingSlot DEF TypeOK
<1>3. CASE UNCHANGED errors
  BY <1>3 DEF errors, TypeOK
<1>4. CASE ToggleBit(set, bit) /\ Drop(bit)
  BY <1>4 DEF ToggleBit, Drop, TypeOK
<1>5. CASE ToggleBit(set, bit) /\ Store(set, bit)
  <2>1. fifoCount' \in 0..(FifoSize - 1)
    BY <1>5, EmergencyAssumption DEF Store, TypeOK
  <2>2. fifo' \in [Slots -> Messages]
    BY <1>1, <1>5 DEF Store, TypeOK
  <2>. QED
    BY <1>2, <1>5, <2>1, <2>2 DEF ToggleBit, Store, TypeOK
<1>. QED
  BY <1>3, <1>4, <1>5 DEF CO_error

(* An error of the RPDOs or of the driver leaves the overflow in phase.    *)
LEMMA CO_errorPhases ==
  ASSUME IInv, NEW set \in BOOLEAN,
         NEW bit \in ErrorBits \ {"EMERGENCY_BUFFER_FULL"}, CO_error(set, bit),
         pc \notin {"report", "reset"}, pc' \notin {"report", "reset"},
         fifoPpPtr' = fifoPpPtr
  PROVE  OverflowPhases'
<1>1. "EMERGENCY_BUFFER_FULL" \in ErrorBits \ {bit}
  BY DEF ErrorBits
<1>2. /\ "EMERGENCY_BUFFER_FULL" \in status' <=> "EMERGENCY_BUFFER_FULL" \in status
      /\ "EMERGENCY_BUFFER_FULL" \in lost' <=> "EMERGENCY_BUFFER_FULL" \in lost
  BY <1>1, CO_errorType DEF IInv
<1>3. CASE UNCHANGED errors
  BY <1>2, <1>3 DEF IInv, OverflowPhases, errors, Following
<1>4. CASE Drop(bit)
  BY <1>2, <1>4, FollowingSlot DEF IInv, OverflowPhases, Drop, Following, TypeOK
<1>5. CASE Store(set, bit)
  BY <1>2, <1>5, FollowingSlot DEF IInv, OverflowPhases, Store, Following, TypeOK
<1>. QED
  BY <1>3, <1>4, <1>5 DEF CO_error

---------------------------------------------------------------------------
LEMMA InitIInv == Init => IInv
<1> SUFFICES ASSUME Init PROVE IInv
  OBVIOUS
<1>1. Blank \in Messages
  BY DEF Blank, Messages
<1>2. fifo \in [Slots -> Messages] /\ 0 \in Slots /\ 0 \in 0..(FifoSize - 1)
  BY <1>1, EmergencyAssumption DEF Init, Slots
<1>3. receiveError \in [Rpdos -> {"ACK_NO_ERROR", "ACK_ERROR", "OK", "WRONG"}]
  BY DEF Init
<1>4. rpdo \in 0..RpdoCount
  BY EmergencyAssumption DEF Init
<1>5. TypeOK
  <2>1. rpdo = 0 /\ pc = "idle" /\ state = "INITIALIZING" /\ fifoOverflow \in 0..2
    BY DEF Init
  <2>2. /\ txOverflow \in BOOLEAN /\ txOverflowOld \in BOOLEAN
        /\ bufferFull \in BOOLEAN /\ errorRegister \in BOOLEAN
    BY Zenon DEF Init
  <2>3. fifoWrPtr \in Slots /\ fifoPpPtr \in Slots /\ fifoCount \in 0..(FifoSize - 1)
    BY <1>2, Zenon DEF Init
  <2>4. status = {} /\ told = {} /\ lost = {}
    BY Zenon DEF Init
  <2>. QED
    BY <1>2, <1>3, <1>4, <2>1, <2>2, <2>3, <2>4, Zenon DEF TypeOK
<1>. QED
  BY <1>5 DEF Init, IInv, Mutex, OverflowPhases

LEMMA InterruptStep ==
  ASSUME IInv, (\E r \in Rpdos, right \in BOOLEAN : Receive(r, right)) \/ BufferSent
  PROVE  IInv'
<1>1. CASE \E r \in Rpdos, right \in BOOLEAN : Receive(r, right)
  <2> PICK r \in Rpdos, right \in BOOLEAN : Receive(r, right)
    BY <1>1
  <2>1. receiveError' \in [Rpdos -> {"ACK_NO_ERROR", "ACK_ERROR", "OK", "WRONG"}]
    BY DEF Receive, IInv, TypeOK
  <2>. QED
    BY <2>1 DEF Receive, IInv, TypeOK, Mutex, OverflowPhases, Following,
                driver, nmt, errors
<1>2. CASE BufferSent
  BY <1>2 DEF BufferSent, IInv, TypeOK, Mutex, OverflowPhases, Following, nmt, errors
<1>. QED
  BY <1>1, <1>2

LEMMA RpdoStep ==
  ASSUME IInv, RpdoProcess
  PROVE  IInv'
<1> DEFINE e == receiveError[rpdo]
<1>1. rpdo \in Rpdos /\ rpdo' \in 0..RpdoCount /\ pc = "idle"
  BY EmergencyAssumption DEF RpdoProcess, IInv, TypeOK, Mutex, Rpdos
<1>2. CASE UNCHANGED <<receiveError, errors>>
  BY <1>1, <1>2 DEF RpdoProcess, IInv, TypeOK, Mutex, OverflowPhases, Following,
                    driver, nmt, errors
<1>3. CASE /\ CO_error(e # "OK", "RPDO_WRONG_LENGTH")
           /\ receiveError' = [receiveError EXCEPT ![rpdo] =
                IF e # "OK" THEN "ACK_ERROR" ELSE "ACK_NO_ERROR"]
  <2> DEFINE set == e # "OK"
  <2>1. set \in BOOLEAN /\ "RPDO_WRONG_LENGTH" \in ErrorBits \ {"EMERGENCY_BUFFER_FULL"}
    BY DEF ErrorBits
  <2>2. CO_error(set, "RPDO_WRONG_LENGTH")
    BY <1>3
  <2> HIDE DEF set
  <2>3. fifoPpPtr' = fifoPpPtr /\ pc' = pc
    BY DEF RpdoProcess
  <2>4. OverflowPhases'
    BY <1>1, <2>1, <2>2, <2>3, CO_errorPhases
  <2>5. receiveError' \in [Rpdos -> {"ACK_NO_ERROR", "ACK_ERROR", "OK", "WRONG"}]
    BY <1>1, <1>3 DEF IInv, TypeOK
  <2>. QED
    BY <1>1, <2>1, <2>2, <2>3, <2>4, <2>5, CO_errorType
    DEF RpdoProcess, IInv, TypeOK, Mutex, driver, nmt
<1>. QED
  BY <1>2, <1>3 DEF RpdoProcess

LEMMA EmDriverStep ==
  ASSUME IInv, EmDriver
  PROVE  IInv'
<1>1. txOverflow' \in BOOLEAN /\ txOverflowOld' = txOverflow' /\ errorRegister' \in BOOLEAN
  BY DEF EmDriver, CANmodule_process, errCounters, IInv, TypeOK
<1>2. pc = "idle" /\ pc' \in {"post", "nmt"} /\ rpdo = 0 /\ rpdo' = 0 /\ fifoPpPtr' = fifoPpPtr
  BY DEF EmDriver
<1>3. CASE UNCHANGED errors
  BY <1>1, <1>2, <1>3 DEF EmDriver, IInv, TypeOK, Mutex, OverflowPhases, Following, errors
<1>4. CASE CO_error(txOverflow', "CAN_TX_OVERFLOW")
  <2>1. "CAN_TX_OVERFLOW" \in ErrorBits \ {"EMERGENCY_BUFFER_FULL"}
    BY DEF ErrorBits
  <2>2. OverflowPhases'
    BY <1>1, <1>2, <1>4, <2>1, CO_errorPhases
  <2>. QED
    BY <1>1, <1>2, <1>4, <2>1, <2>2, CO_errorType
    DEF EmDriver, IInv, TypeOK, Mutex
<1>. QED
  BY <1>3, <1>4 DEF EmDriver

LEMMA EmSendStep ==
  ASSUME IInv, EmSend
  PROVE  IInv'
<1>1. fifoPpPtr' \in Slots
  BY FollowingSlot DEF EmSend, IInv, TypeOK
<1>2. fifo' \in [Slots -> Messages]
  <2>1. fifo[fifoPpPtr] \in Messages
    BY DEF IInv, TypeOK
  <2>2. [fifo[fifoPpPtr] EXCEPT !.register = fifo[fifoPpPtr].register \/ errorRegister]
          \in Messages
    BY <2>1 DEF Messages, IInv, TypeOK
  <2>3. fifo' = [fifo EXCEPT ![fifoPpPtr] =
          [fifo[fifoPpPtr] EXCEPT !.register = fifo[fifoPpPtr].register \/ errorRegister]]
    BY DEF EmSend, IInv, TypeOK
  <2>. QED
    BY <2>2, <2>3 DEF IInv, TypeOK
<1>3. told' \subseteq ErrorBits \cup {"NO_ERROR"}
  <2>1. fifo[fifoPpPtr].bit \in ErrorBits \cup {"NO_ERROR"}
    BY DEF IInv, TypeOK, Messages
  <2>. QED
    BY <2>1 DEF EmSend, IInv, TypeOK
<1>4. fifoOverflow' \in 0..2 /\ pc' \in {"report", "reset", "nmt"} /\ bufferFull' \in BOOLEAN
  BY DEF EmSend, IInv, TypeOK
<1>5. OverflowPhases'
  <2>1. fifoWrPtr' = fifoWrPtr /\ status' = status /\ lost' = lost
    BY DEF EmSend
  <2>2. fifoPpPtr' = Following(fifoPpPtr) /\ fifoPpPtr # fifoWrPtr
    BY DEF EmSend
  <2>3. CASE fifoOverflow = 1
    <3>1. fifoOverflow' = 2 /\ pc' = "report"
      BY <2>3 DEF EmSend
    <3>2. fifoPpPtr' # fifoWrPtr /\ Following(fifoWrPtr) # fifoPpPtr'
      BY <2>2, <2>3, EmergencyAssumption
      DEF IInv, TypeOK, OverflowPhases, Following, Slots
    <3>. QED
      BY <2>1, <3>1, <3>2 DEF IInv, OverflowPhases, Following
  <2>4. CASE fifoOverflow = 2 /\ fifoPpPtr' = fifoWrPtr
    <3>1. fifoOverflow' = 0 /\ pc' = "reset"
      BY <2>4 DEF EmSend
    <3>. QED
      BY <2>1, <2>4, <3>1 DEF IInv, OverflowPhases, EmSend
  <2>5. CASE fifoOverflow # 1 /\ ~(fifoOverflow = 2 /\ fifoPpPtr' = fifoWrPtr)
    <3>1. fifoOverflow' = fifoOverflow /\ pc' = "nmt"
      BY <2>5 DEF EmSend
    <3>. QED
      BY <2>1, <2>5, <3>1 DEF IInv, OverflowPhases, EmSend
  <2>. QED
    BY <2>3, <2>4, <2>5
<1>. QED
  BY <1>1, <1>2, <1>3, <1>4, <1>5 DEF EmSend, IInv, TypeOK, Mutex, nmt

LEMMA EmReportStep ==
  ASSUME IInv, EmReport
  PROVE  IInv'
<1> DEFINE set == pc = "report"
<1>1. set \in BOOLEAN /\ "EMERGENCY_BUFFER_FULL" \in ErrorBits
  BY DEF ErrorBits
<1>2. CO_error(set, "EMERGENCY_BUFFER_FULL") /\ pc' = "nmt" /\ fifoPpPtr' = fifoPpPtr
  BY DEF EmReport
<1>3. Following(fifoWrPtr) # fifoPpPtr
  BY FollowingSlot DEF EmReport, IInv, TypeOK, OverflowPhases
<1>4. CASE UNCHANGED errors
  <2>1. set <=> "EMERGENCY_BUFFER_FULL" \in status
    BY <1>2, <1>3, <1>4 DEF CO_error, errors, ToggleBit, Store, Drop, IInv, TypeOK
  <2>. QED
    BY <1>2, <1>4, <2>1 DEF EmReport, IInv, TypeOK, Mutex, OverflowPhases, Following,
                            errors, driver, nmt
<1>5. CASE ToggleBit(set, "EMERGENCY_BUFFER_FULL") /\ Store(set, "EMERGENCY_BUFFER_FULL")
  <2>1. OverflowPhases'
    <3>1. /\ "EMERGENCY_BUFFER_FULL" \in status' <=> set
          /\ "EMERGENCY_BUFFER_FULL" \notin lost'
          /\ fifoOverflow' = fifoOverflow /\ fifoWrPtr' = Following(fifoWrPtr)
      BY <1>5 DEF ToggleBit, Store
    <3>. QED
      BY <1>2, <1>3, <3>1 DEF EmReport, IInv, OverflowPhases
  <2> HIDE DEF set
  <2>. QED
    BY <1>1, <1>2, <2>1, CO_errorType DEF EmReport, IInv, TypeOK, Mutex, driver, nmt
<1>. QED
  BY <1>2, <1>3, <1>4, <1>5 DEF CO_error, Drop

(* The steps that leave the errors alone.                                  *)
LEMMA OtherStep ==
  ASSUME IInv,
         \/ RpdoBegin \/ TxOverflow \/ EmNoSend \/ ClearHistory
         \/ \E next \in NmtStates : NmtProcess(next)
         \/ UNCHANGED vars
  PROVE  IInv'
<1>1. CASE RpdoBegin
  BY <1>1, EmergencyAssumption
  DEF RpdoBegin, IInv, TypeOK, Mutex, OverflowPhases, Following, driver, nmt, errors
<1>2. CASE TxOverflow
  BY <1>2 DEF TxOverflow, IInv, TypeOK, Mutex, OverflowPhases, Following, nmt, errors
<1>3. CASE EmNoSend
  BY <1>3 DEF EmNoSend, IInv, TypeOK, Mutex, OverflowPhases, Following, driver, nmt, errors
<1>4. CASE ClearHistory
  BY <1>4, EmergencyAssumption
  DEF ClearHistory, IInv, TypeOK, Mutex, OverflowPhases, Following, driver, nmt
<1>5. CASE \E next \in NmtStates : NmtProcess(next)
  BY <1>5 DEF NmtProcess, NmtStates, IInv, TypeOK, Mutex, OverflowPhases, Following,
              driver, errors
<1>6. CASE UNCHANGED vars
  BY <1>6 DEF vars, IInv, TypeOK, Mutex, OverflowPhases, Following, driver, nmt, errors
<1>. QED
  BY <1>1, <1>2, <1>3, <1>4, <1>5, <1>6

THEOREM Invariance == Spec => []IInv
<1>1. IInv /\ [Next]_vars => IInv'
  BY InterruptStep, RpdoStep, EmDriverStep, EmSendStep, EmReportStep, OtherStep DEF Next
<1>. QED
  BY <1>1, InitIInv, PTL DEF Spec

---------------------------------------------------------------------------
(* Every variable keeps its type: the pointers stay in the fifo, and the   *)
(* count of 0x1003 within its subindices.                                  *)
THEOREM TypeCorrect == Spec => []TypeOK
  BY Invariance, PTL DEF IInv

(* For every fifo of at least two messages an overflow is always reported  *)
(* and always ends (CO_error and CO_EM_process).                           *)
THEOREM OverflowIsReported == Spec => []OverflowReported
<1>1. IInv => OverflowReported
  <2> SUFFICES ASSUME IInv PROVE OverflowReported
    OBVIOUS
  <2>1. fifoOverflow # 0 => fifoOverflow = 1 \/ fifoOverflow = 2
    BY DEF IInv, TypeOK
  <2>2. Following(fifoWrPtr) # fifoWrPtr
    BY FollowingSlot DEF IInv, TypeOK
  <2>. QED
    BY <2>1, <2>2 DEF IInv, OverflowPhases, OverflowReported
<1>. QED
  BY <1>1, Invariance, PTL

(* An error of the error register keeps the node from the operational      *)
(* state between two runs of CO_process.                                   *)
THEOREM CriticalErrorStops == Spec => []CriticalStops
<1>1. Init => RegisterKnown
  BY DEF Init, RegisterKnown
<1>2. IInv /\ RegisterKnown /\ [Next]_vars => RegisterKnown'
  <2> SUFFICES ASSUME IInv, RegisterKnown, [Next]_vars PROVE RegisterKnown'
    OBVIOUS
  <2>1. CASE RpdoProcess
    <3>1. UNCHANGED status
          \/ \E set \in BOOLEAN : CO_error(set, "RPDO_WRONG_LENGTH")
      BY <2>1 DEF RpdoProcess, errors
    <3>2. "CAN_TX_OVERFLOW" \in status' <=> "CAN_TX_OVERFLOW" \in status
      <4>1. "CAN_TX_OVERFLOW" \in ErrorBits \ {"RPDO_WRONG_LENGTH"}
            /\ "RPDO_WRONG_LENGTH" \in ErrorBits
        BY DEF ErrorBits
      <4>. QED
        BY <3>1, <4>1, CO_errorType DEF IInv
    <3>. QED
      BY <2>1, <3>2 DEF RpdoProcess, RegisterKnown, nmt
  <2>2. CASE EmDriver
    BY <2>2 DEF EmDriver, RegisterKnown
  <2>3. CASE EmReport
    <3>1. "CAN_TX_OVERFLOW" \in ErrorBits \ {"EMERGENCY_BUFFER_FULL"}
          /\ "EMERGENCY_BUFFER_FULL" \in ErrorBits /\ (pc = "report") \in BOOLEAN
      BY DEF ErrorBits
    <3>2. "CAN_TX_OVERFLOW" \in status' <=> "CAN_TX_OVERFLOW" \in status
      BY <2>3, <3>1, CO_errorType DEF EmReport, IInv
    <3>. QED
      BY <2>3, <3>2 DEF EmReport, RegisterKnown, nmt
  <2>4. CASE EmSend
    BY <2>4 DEF EmSend, RegisterKnown, nmt
  <2>5. CASE \E next \in NmtStates : NmtProcess(next)
    BY <2>5 DEF NmtProcess, RegisterKnown, errors
  <2>6. CASE \/ \E r \in Rpdos, right \in BOOLEAN : Receive(r, right)
             \/ BufferSent \/ RpdoBegin \/ TxOverflow \/ EmNoSend \/ ClearHistory
             \/ UNCHANGED vars
    BY <2>6 DEF Receive, BufferSent, RpdoBegin, TxOverflow, EmNoSend, ClearHistory,
                RegisterKnown, nmt, errors, vars
  <2>. QED
    BY <2>1, <2>2, <2>3, <2>4, <2>5, <2>6 DEF Next
<1>3. RegisterKnown => CriticalStops
  BY DEF RegisterKnown, CriticalStops
<1>. QED
  BY <1>1, <1>2, <1>3, Invariance, PTL DEF Spec

---------------------------------------------------------------------------
(* The messages of the fifo in their order                                 *)

(* The remainder of a difference of two slots, without a division.         *)
LEMMA Remainder ==
  ASSUME NEW n \in Nat \ {0}, NEW i \in 0..(n - 1), NEW j \in 0..(n - 1)
  PROVE  (i - j) % n = IF i >= j THEN i - j ELSE i - j + n
<1>1. CASE i >= j
  <2>1. i - j \in 0..(n - 1)
    BY <1>1
  <2>. QED
    BY <1>1, <2>1
<1>2. CASE ~(i >= j)
  <2>1. i - j + n \in 0..(n - 1)
    BY <1>2
  <2>. QED
    BY <1>2, <2>1
<1>. QED
  BY <1>1, <1>2

LEMMA PlaceIs ==
  ASSUME NEW i \in Slots, fifoPpPtr \in Slots
  PROVE  Place(i) = IF i >= fifoPpPtr THEN i - fifoPpPtr ELSE i - fifoPpPtr + FifoSize
  BY Remainder, EmergencyAssumption DEF Place, Slots

(* Place numbers the slots from 0.                                         *)
LEMMA PlaceRange ==
  ASSUME TypeOK, NEW i \in Slots, NEW j \in Slots
  PROVE  /\ Place(i) \in 0..(FifoSize - 1)
         /\ Place(i) = Place(j) => i = j
         /\ Place(fifoPpPtr) = 0
         /\ i # fifoPpPtr => Place(i) > 0
  BY PlaceIs, EmergencyAssumption DEF TypeOK, Slots

(* The messages about an error, and what LastMessageTrue says of it.       *)
Mine(b) == {i \in Pending : fifo[i].bit = b}

LastTrue(b) ==
  \/ Mine(b) = {} /\ (b \in told <=> b \in status)
  \/ \E i \in Mine(b) : /\ \A j \in Mine(b) : Place(j) <= Place(i)
                        /\ fifo[i].set <=> b \in status

LEMMA LastTrueIs == LastMessageTrue <=> \A b \in ErrorBits \ lost : LastTrue(b)
  BY DEF LastMessageTrue, LastTrue, Mine

(* A new message is the last of all.                                       *)
LEMMA StorePending ==
  ASSUME TypeOK, Following(fifoWrPtr) # fifoPpPtr,
         fifoWrPtr' = Following(fifoWrPtr), fifoPpPtr' = fifoPpPtr
  PROVE  /\ \A i \in Slots : Place(i)' = Place(i)
         /\ Pending' = Pending \cup {fifoWrPtr}
         /\ fifoWrPtr \notin Pending
         /\ \A i \in Pending : Place(i) < Place(fifoWrPtr)
<1>1. \A i \in Slots : Place(i)' = Place(i)
  BY DEF Place
<1>2. fifoWrPtr \in Slots /\ fifoPpPtr \in Slots /\ fifoWrPtr' \in Slots
  BY FollowingSlot DEF TypeOK
<1>3. Place(fifoWrPtr') = Place(fifoWrPtr) + 1
  BY <1>2, PlaceIs, EmergencyAssumption DEF Following, Slots
<1>4. \A i \in Slots : Place(i) < Place(fifoWrPtr') <=> (Place(i) < Place(fifoWrPtr) \/ i = fifoWrPtr)
  BY <1>2, <1>3, PlaceRange
<1>5. Pending' = {i \in Slots : Place(i) < Place(fifoWrPtr')}
  BY <1>1, <1>2 DEF Pending, Place
<1>6. Place(fifoWrPtr) \in Int
  BY <1>2, PlaceRange
<1>. QED
  BY <1>1, <1>2, <1>4, <1>5, <1>6 DEF Pending

(* The message that is sent was the first.                                 *)
LEMMA SendPending ==
  ASSUME TypeOK, fifoPpPtr # fifoWrPtr,
         fifoPpPtr' = Following(fifoPpPtr), fifoWrPtr' = fifoWrPtr
  PROVE  /\ \A i \in Slots \ {fifoPpPtr} : Place(i)' = Place(i) - 1
         /\ Pending' = Pending \ {fifoPpPtr}
         /\ fifoPpPtr \in Pending
         /\ \A i \in Slots : Place(i) \in Nat
<1>1. fifoWrPtr \in Slots /\ fifoPpPtr \in Slots /\ fifoPpPtr' \in Slots
  BY FollowingSlot DEF TypeOK
<1>2. ASSUME NEW i \in Slots
      PROVE  Place(i)' = IF i >= fifoPpPtr' THEN i - fifoPpPtr' ELSE i - fifoPpPtr' + FifoSize
  <2>1. FifoSize \in Nat \ {0} /\ i \in 0..(FifoSize - 1) /\ fifoPpPtr' \in 0..(FifoSize - 1)
    BY <1>1, EmergencyAssumption DEF Slots
  <2>2. (i - fifoPpPtr') % FifoSize
          = IF i >= fifoPpPtr' THEN i - fifoPpPtr' ELSE i - fifoPpPtr' + FifoSize
    BY <2>1, Remainder
  <2>. QED
    BY <2>2 DEF Place
<1>3. \A i \in Slots \ {fifoPpPtr} : Place(i)' = Place(i) - 1
  BY <1>1, <1>2, PlaceIs, EmergencyAssumption DEF Following, Slots
<1>4. \A i \in Slots : Place(i) \in 0..(FifoSize - 1)
  BY PlaceRange
<1>5. (fifoPpPtr - fifoPpPtr') % FifoSize = FifoSize - 1
  <2>1. CASE fifoPpPtr + 1 >= FifoSize
    <3>1. fifoPpPtr' = 0 /\ fifoPpPtr = FifoSize - 1
      BY <1>1, <2>1, EmergencyAssumption DEF Following, Slots
    <3>. QED
      BY <3>1, EmergencyAssumption
  <2>2. CASE ~(fifoPpPtr + 1 >= FifoSize)
    <3>1. fifoPpPtr - fifoPpPtr' = -1
      BY <1>1, <2>2, EmergencyAssumption DEF Following, Slots
    <3>. QED
      BY <3>1, EmergencyAssumption
  <2>. QED
    BY <2>1, <2>2
<1>6. Pending' = {i \in Slots : (i - fifoPpPtr') % FifoSize < Place(fifoWrPtr) - 1}
  BY <1>1, <1>3 DEF Pending, Place
<1>7. \A i \in Slots \ {fifoPpPtr} : (i - fifoPpPtr') % FifoSize = Place(i) - 1
  BY <1>3 DEF Place
<1>8. Place(fifoPpPtr) = 0 /\ Place(fifoWrPtr) > 0
  BY <1>1, PlaceRange
<1>9. \A i \in Slots : i \in Pending' <=> i \in Pending /\ i # fifoPpPtr
  <2> SUFFICES ASSUME NEW i \in Slots PROVE i \in Pending' <=> i \in Pending /\ i # fifoPpPtr
    OBVIOUS
  <2>1. CASE i = fifoPpPtr
    BY <1>1, <1>4, <1>5, <1>6, <2>1, EmergencyAssumption
  <2>2. CASE i # fifoPpPtr
    BY <1>1, <1>4, <1>6, <1>7, <2>2 DEF Pending
  <2>. QED
    BY <2>1, <2>2
<1>10. Pending' = Pending \ {fifoPpPtr}
  BY <1>6, <1>9 DEF Pending
<1>. QED
  BY <1>1, <1>3, <1>4, <1>8, <1>10 DEF Pending

(* A step that leaves the messages alone leaves LastTrue alone.            *)
LEMMA LastKept ==
  ASSUME NEW b, LastTrue(b), UNCHANGED <<fifo, fifoWrPtr, fifoPpPtr, told>>,
         b \in status' <=> b \in status
  PROVE  LastTrue(b)'
  BY DEF LastTrue, Mine, Pending, Place

LEMMA CO_errorLast ==
  ASSUME TypeOK, LastMessageTrue, NEW set \in BOOLEAN, NEW bit \in ErrorBits,
         CO_error(set, bit), UNCHANGED <<fifoPpPtr, told>>
  PROVE  LastMessageTrue'
<1> SUFFICES ASSUME NEW b \in ErrorBits \ lost' PROVE LastTrue(b)'
  BY DEF LastMessageTrue, LastTrue, Mine
<1>1. b \notin lost => LastTrue(b)
  BY LastTrueIs
<1>2. b # bit => /\ b \in status' <=> b \in status
                 /\ b \in lost' <=> b \in lost
  BY CO_errorType
<1>3. CASE UNCHANGED errors
  BY <1>1, <1>3, LastKept DEF errors
<1>4. CASE ToggleBit(set, bit) /\ Drop(bit)
  <2>1. b # bit
    BY <1>4 DEF Drop
  <2>. QED
    BY <1>1, <1>2, <1>4, <2>1, LastKept DEF Drop
<1>5. CASE ToggleBit(set, bit) /\ Store(set, bit)
  <2> DEFINE w == fifoWrPtr
  <2>1. Following(w) # fifoPpPtr /\ fifoWrPtr' = Following(w)
    BY <1>5 DEF Store
  <2>2. /\ \A i \in Slots : Place(i)' = Place(i)
        /\ Pending' = Pending \cup {w} /\ w \notin Pending
        /\ \A i \in Pending : Place(i) < Place(w)
        /\ Pending \subseteq Slots /\ w \in Slots
    BY <2>1, StorePending DEF Pending, TypeOK
  <2>3. \A i \in Slots \ {w} : fifo'[i] = fifo[i]
    BY <1>5 DEF Store, TypeOK
  <2>4. fifo'[w].bit = bit /\ fifo'[w].set = set
    BY <1>5, <2>2 DEF Store, TypeOK
  <2>5. \A i \in Pending : Place(i) \in Int /\ Place(w) \in Int
    BY <2>2, PlaceRange
  <2>6. CASE b = bit
    <3>1. b \in status' <=> set
      BY <1>5, <2>6 DEF ToggleBit
    <3>2. w \in Mine(b)'
      BY <2>2, <2>4, <2>6 DEF Mine
    <3>3. ASSUME NEW j \in Mine(b)' PROVE (j - fifoPpPtr') % FifoSize <= (w - fifoPpPtr') % FifoSize
      <4>1. j \in Pending \cup {w}
        BY <2>2 DEF Mine
      <4>2. Place(j) <= Place(w)
        <5>1. Place(w) \in Int
          BY <2>2, PlaceRange
        <5>. QED
          BY <2>2, <2>5, <4>1, <5>1
      <4>. QED
        BY <4>2 DEF Place
    <3>. QED
      BY <2>4, <3>1, <3>2, <3>3 DEF LastTrue, Place
  <2>7. CASE b # bit
    <3>1. Mine(b)' = Mine(b)
      BY <2>2, <2>3, <2>4, <2>7 DEF Mine
    <3>2. LastTrue(b) /\ (b \in status' <=> b \in status)
      BY <1>1, <1>2, <2>7
    <3>3. \A i \in Mine(b) : Place(i)' = Place(i) /\ fifo'[i] = fifo[i]
      BY <2>2, <2>3 DEF Mine
    <3>. QED
      BY <3>1, <3>2, <3>3 DEF LastTrue
  <2>. QED
    BY <2>6, <2>7
<1>. QED
  BY <1>3, <1>4, <1>5 DEF CO_error

LEMMA EmSendLast ==
  ASSUME TypeOK, LastMessageTrue, EmSend
  PROVE  LastMessageTrue'
<1> SUFFICES ASSUME NEW b \in ErrorBits \ lost' PROVE LastTrue(b)'
  BY DEF LastMessageTrue, LastTrue, Mine
<1> DEFINE p == fifoPpPtr
           m == fifo[p]
<1>1. LastTrue(b) /\ status' = status
  BY LastTrueIs DEF EmSend
<1>2. /\ fifoPpPtr' = Following(p) /\ fifoWrPtr' = fifoWrPtr /\ p # fifoWrPtr
      /\ told' = IF m.set THEN told \cup {m.bit} ELSE told \ {m.bit}
  BY DEF EmSend
<1>3. /\ \A i \in Slots \ {p} : Place(i)' = Place(i) - 1
      /\ Pending' = Pending \ {p} /\ p \in Pending
      /\ \A i \in Slots : Place(i) \in Nat
      /\ Pending \subseteq Slots /\ p \in Slots
  BY <1>2, SendPending DEF Pending, TypeOK
<1>4. \A i \in Slots : fifo'[i].bit = fifo[i].bit /\ fifo'[i].set = fifo[i].set
  BY DEF EmSend, TypeOK, Messages
<1>5. Mine(b)' = Mine(b) \ {p}
  BY <1>3, <1>4 DEF Mine
<1>6. CASE Mine(b) = {}
  <2>1. m.bit # b
    BY <1>3, <1>6 DEF Mine
  <2>. QED
    BY <1>1, <1>2, <1>5, <1>6, <2>1 DEF LastTrue
<1>7. CASE \E i \in Mine(b) : /\ \A j \in Mine(b) : Place(j) <= Place(i)
                              /\ fifo[i].set <=> b \in status
  <2>1. PICK i \in Mine(b) : /\ \A j \in Mine(b) : Place(j) <= Place(i)
                             /\ fifo[i].set <=> b \in status
    BY <1>7
  <2>2. Mine(b) \subseteq Slots
    BY <1>3 DEF Mine
  <2>3. CASE i = p
    <3>1. \A j \in Mine(b) : j = p
      BY <1>3, <2>1, <2>2, <2>3, PlaceRange
    <3>2. Mine(b)' = {} /\ m.bit = b
      BY <1>5, <2>1, <2>3, <3>1 DEF Mine
    <3>3. b \in told' <=> b \in status'
      BY <1>1, <1>2, <2>1, <2>3, <3>2
    <3>. QED
      BY <3>2, <3>3 DEF LastTrue
  <2>4. CASE i # p
    <3>1. i \in Mine(b)'
      BY <1>5, <2>1, <2>4
    <3>2. \A j \in Mine(b)' : Place(j)' <= Place(i)'
      BY <1>3, <1>5, <2>1, <2>2, <2>4
    <3>3. fifo'[i].set <=> b \in status'
      BY <1>1, <1>4, <2>1, <2>2
    <3>. QED
      BY <3>1, <3>2, <3>3 DEF LastTrue
  <2>. QED
    BY <2>3, <2>4
<1>. QED
  BY <1>1, <1>6, <1>7 DEF LastTrue

(* For every length of the fifo and every loss: the last message about an  *)
(* error tells its status (CO_error and CO_EM_process).                    *)
THEOREM LastMessageIsTrue == Spec => []LastMessageTrue
<1>1. Init => LastMessageTrue
  <2> SUFFICES ASSUME Init PROVE LastMessageTrue
    OBVIOUS
  <2>1. Pending = {}
    BY PlaceRange, InitIInv DEF Pending, Init, IInv
  <2>. QED
    BY <2>1 DEF Init, LastMessageTrue
<1>2. IInv /\ LastMessageTrue /\ [Next]_vars => LastMessageTrue'
  <2> SUFFICES ASSUME IInv, LastMessageTrue, [Next]_vars PROVE LastMessageTrue'
    OBVIOUS
  <2>1. CASE EmSend
    BY <2>1, EmSendLast DEF IInv
  <2>2. CASE \E set \in BOOLEAN, bit \in ErrorBits :
               CO_error(set, bit) /\ UNCHANGED <<fifoPpPtr, told>>
    BY <2>2, CO_errorLast DEF IInv
  <2>3. CASE UNCHANGED <<status, fifo, fifoWrPtr, lost, fifoPpPtr, told>>
    <3>1. ASSUME NEW b \in ErrorBits \ lost' PROVE LastTrue(b)'
      BY <2>3, LastTrueIs, LastKept
    <3>. QED
      BY <3>1 DEF LastMessageTrue, LastTrue, Mine
  <2>4. "RPDO_WRONG_LENGTH" \in ErrorBits /\ "CAN_TX_OVERFLOW" \in ErrorBits
        /\ "EMERGENCY_BUFFER_FULL" \in ErrorBits
    BY DEF ErrorBits
  <2>5. CASE RpdoProcess
    BY <2>2, <2>3, <2>4, <2>5 DEF RpdoProcess, errors
  <2>6. CASE EmDriver
    <3>1. txOverflow' \in BOOLEAN
      BY <2>6 DEF EmDriver, CANmodule_process, IInv, TypeOK
    <3>. QED
      BY <2>2, <2>3, <2>4, <2>6, <3>1 DEF EmDriver, errors
  <2>7. CASE EmReport
    BY <2>2, <2>4, <2>7 DEF EmReport
  <2>8. CASE \E next \in NmtStates : NmtProcess(next)
    BY <2>3, <2>8 DEF NmtProcess, errors
  <2>9. CASE \/ \E r \in Rpdos, right \in BOOLEAN : Receive(r, right)
             \/ BufferSent \/ RpdoBegin \/ TxOverflow \/ EmNoSend \/ ClearHistory
             \/ UNCHANGED vars
    BY <2>3, <2>9 DEF Receive, BufferSent, RpdoBegin, TxOverflow, EmNoSend, ClearHistory,
                      errors, vars
  <2>. QED
    BY <2>1, <2>5, <2>6, <2>7, <2>8, <2>9 DEF Next
<1>. QED
  BY <1>1, <1>2, Invariance, PTL DEF Spec

---------------------------------------------------------------------------
(* Object 0x1003 implements the abstract history                           *)

(* What OD_read_1003 finds in a fifo f with the write pointer w and the    *)
(* count n.                                                                *)
Back(w, i)    == (w - i) % FifoSize
Hist(f, w, n) == [i \in 1..n |-> f[Back(w, i)]]

LEMMA BackIs ==
  ASSUME NEW w \in Slots, NEW i \in 1..(FifoSize - 1)
  PROVE  /\ Back(w, i) = IF w >= i THEN w - i ELSE w - i + FifoSize
         /\ Back(w, i) \in Slots /\ Back(w, i) # w
  BY Remainder, EmergencyAssumption DEF Back, Slots

LEMMA BackFollowing ==
  ASSUME NEW w \in Slots, NEW i \in 1..(FifoSize - 1)
  PROVE  Back(Following(w), i) = IF i = 1 THEN w ELSE Back(w, i - 1)
<1>1. PICK v \in Slots : v = Following(w) /\ (v = w + 1 \/ (v = 0 /\ w = FifoSize - 1))
  BY FollowingSlot, EmergencyAssumption DEF Following, Slots
<1>2. FifoSize \in Nat /\ w \in 0..(FifoSize - 1) /\ v \in 0..(FifoSize - 1) /\ i \in Nat
  BY <1>1, EmergencyAssumption DEF Slots
<1>3. Back(v, i) = IF v >= i THEN v - i ELSE v - i + FifoSize
  BY BackIs
<1>4. CASE i = 1
  BY <1>1, <1>2, <1>3, <1>4
<1>5. CASE i # 1
  <2>1. i - 1 \in 1..(FifoSize - 1)
    BY <1>2, <1>5
  <2>2. Back(w, i - 1) = IF w >= i - 1 THEN w - (i - 1) ELSE w - (i - 1) + FifoSize
    BY <2>1, BackIs
  <2>. QED
    BY <1>1, <1>2, <1>3, <1>5, <2>2
<1>. QED
  BY <1>4, <1>5

LEMMA HistIs ==
  ASSUME NEW f \in [Slots -> Messages], NEW w \in Slots, NEW n \in 0..(FifoSize - 1)
  PROVE  /\ Hist(f, w, n) \in Seq(Messages) /\ Len(Hist(f, w, n)) = n
         /\ DOMAIN Hist(f, w, n) = 1..n
         /\ \A i \in 1..n : Hist(f, w, n)[i] = f[Back(w, i)]
<1>1. n \in Nat /\ \A i \in 1..n : i \in 1..(FifoSize - 1)
  BY EmergencyAssumption
<1>2. Hist(f, w, n) \in [1..n -> Messages]
  BY <1>1, BackIs DEF Hist
<1>3. Hist(f, w, n) \in Seq(Messages)
  BY <1>1, <1>2, SeqDef
<1>. QED
  BY <1>1, <1>2, <1>3 DEF Hist

(* A new message shifts the history by one.                                *)
LEMMA HistStore ==
  ASSUME NEW f \in [Slots -> Messages], NEW w \in Slots, NEW n \in 0..(FifoSize - 1),
         NEW e \in Messages
  PROVE  LET g == [f EXCEPT ![w] = e]  h == Hist(f, w, n) IN
         Hist(g, Following(w), IF n < FifoSize - 1 THEN n + 1 ELSE n)
           = IF n < FifoSize - 1 THEN <<e>> \o h
                                 ELSE <<e>> \o SubSeq(h, 1, FifoSize - 1 - 1)
<1> DEFINE g == [f EXCEPT ![w] = e]
           v == Following(w)
           h == Hist(f, w, n)
           k == IF n < FifoSize - 1 THEN n + 1 ELSE n
           t == IF n < FifoSize - 1 THEN h ELSE SubSeq(h, 1, FifoSize - 1 - 1)
<1>1. FifoSize \in Nat /\ FifoSize >= 3 /\ n \in Nat /\ k \in 0..(FifoSize - 1) /\ k >= 1
  BY EmergencyAssumption
<1>2. g \in [Slots -> Messages] /\ v \in Slots
  BY FollowingSlot
<1>3. /\ h \in Seq(Messages) /\ Len(h) = n
      /\ \A i \in 1..n : h[i] = f[Back(w, i)]
  BY HistIs
<1>4. t \in Seq(Messages) /\ Len(t) = k - 1 /\ \A i \in 1..(k - 1) : t[i] = h[i]
  <2>1. CASE n < FifoSize - 1
    BY <1>1, <1>3, <2>1
  <2>2. CASE ~(n < FifoSize - 1)
    <3>1. n = FifoSize - 1 /\ FifoSize - 1 - 1 \in Int /\ 1 \in Int
      BY <1>1, <2>2
    <3>2. \A i \in 1..(FifoSize - 1 - 1) : h[i] \in Messages
      BY <1>1, <1>3, <3>1
    <3>3. /\ SubSeq(h, 1, FifoSize - 1 - 1) \in Seq(Messages)
          /\ Len(SubSeq(h, 1, FifoSize - 1 - 1)) = FifoSize - 1 - 1
          /\ \A i \in 1..(FifoSize - 1 - 1) : SubSeq(h, 1, FifoSize - 1 - 1)[i] = h[i]
      BY <1>1, <3>1, <3>2, SubSeqProperties
    <3>. QED
      BY <1>1, <2>2, <3>1, <3>3
  <2>. QED
    BY <2>1, <2>2
<1> HIDE DEF t
<1>5. <<e>> \in Seq(Messages) /\ Len(<<e>>) = 1 /\ <<e>>[1] = e
  OBVIOUS
<1>6. /\ <<e>> \o t \in Seq(Messages) /\ Len(<<e>> \o t) = k
      /\ \A i \in 1..k : (<<e>> \o t)[i] = IF i <= 1 THEN e ELSE t[i - 1]
  <2>1. 1 + (k - 1) = k
    BY <1>1
  <2>2. \A i \in 1..k : (<<e>> \o t)[i] = IF i <= 1 THEN <<e>>[i] ELSE t[i - 1]
    BY <1>4, <1>5, <2>1, ConcatProperties
  <2>3. \A i \in 1..k : i <= 1 => i = 1
    BY <1>1
  <2>. QED
    BY <1>4, <1>5, <2>1, <2>2, <2>3, ConcatProperties
<1>7. /\ Hist(g, v, k) \in Seq(Messages) /\ Len(Hist(g, v, k)) = k
      /\ \A i \in 1..k : Hist(g, v, k)[i] = g[Back(v, i)]
  BY <1>1, <1>2, HistIs
<1>a. k \in Nat /\ k <= n + 1 /\ k <= FifoSize - 1
  BY <1>1
<1> HIDE DEF k, v
<1>8. ASSUME NEW i \in 1..k PROVE Hist(g, v, k)[i] = (<<e>> \o t)[i]
  <2>1. CASE i = 1
    <3>1. Back(v, i) = w
      BY <1>1, <1>a, <2>1, BackFollowing DEF v
    <3>2. Hist(g, v, k)[i] = g[Back(v, i)]
      BY <1>7
    <3>3. (<<e>> \o t)[i] = e
      BY <1>6, <2>1
    <3>. QED
      BY <3>1, <3>2, <3>3
  <2>2. CASE i # 1
    <3>1. i - 1 \in 1..(k - 1) /\ i - 1 \in 1..n /\ i - 1 \in 1..(FifoSize - 1)
          /\ i \in 1..(FifoSize - 1) /\ ~(i <= 1)
      BY <1>1, <1>a, <2>2
    <3>2. Back(v, i) = Back(w, i - 1)
      BY <2>2, <3>1, BackFollowing DEF v
    <3>3. g[Back(w, i - 1)] = f[Back(w, i - 1)]
      BY <3>1, BackIs
    <3>4. t[i - 1] = f[Back(w, i - 1)]
      BY <1>3, <1>4, <3>1
    <3>5. Hist(g, v, k)[i] = g[Back(v, i)]
      BY <1>7
    <3>6. (<<e>> \o t)[i] = t[i - 1]
      BY <1>1, <1>6, <2>2, <3>1
    <3>. QED
      BY <3>2, <3>3, <3>4, <3>5, <3>6
  <2>. QED
    BY <2>1, <2>2
<1>9. Hist(g, v, k) = <<e>> \o t
  BY <1>6, <1>7, <1>8, SeqEqual
<1>. QED
  BY <1>9 DEF t, k, v

(* The register of one message of the fifo is added.                       *)
Stamped(f, p) == [f EXCEPT ![p].register = TRUE]

LEMMA HistStamp ==
  ASSUME NEW f \in [Slots -> Messages], NEW w \in Slots, NEW n \in 0..(FifoSize - 1),
         NEW p \in Slots
  PROVE  \/ Hist(Stamped(f, p), w, n) = Hist(f, w, n)
         \/ \E i \in DOMAIN Hist(f, w, n) : Hist(Stamped(f, p), w, n) = Stamped(Hist(f, w, n), i)
<1> DEFINE m == [f[p] EXCEPT !.register = TRUE]
           g == [f EXCEPT ![p] = m]
           h == Hist(f, w, n)
<1>0. Stamped(f, p) = g
  BY DEF Stamped
<1>1. m \in Messages /\ g \in [Slots -> Messages]
  BY DEF Messages
<1>2. /\ h \in Seq(Messages) /\ Len(h) = n /\ DOMAIN h = 1..n
      /\ \A i \in 1..n : h[i] = f[Back(w, i)]
  BY HistIs
<1>3. /\ Hist(g, w, n) \in Seq(Messages) /\ Len(Hist(g, w, n)) = n
      /\ \A i \in 1..n : Hist(g, w, n)[i] = g[Back(w, i)]
  BY <1>1, HistIs
<1>4. \A i \in 1..n : i \in 1..(FifoSize - 1) /\ Back(w, i) \in Slots
  BY EmergencyAssumption, BackIs
<1>5. CASE \E i \in 1..n : Back(w, i) = p
  <2>1. PICK i \in 1..n : Back(w, i) = p
    BY <1>5
  <2>2. ASSUME NEW j \in 1..n, Back(w, j) = p PROVE j = i
    <3>1. /\ Back(w, i) = IF w >= i THEN w - i ELSE w - i + FifoSize
          /\ Back(w, j) = IF w >= j THEN w - j ELSE w - j + FifoSize
      BY <1>4, BackIs
    <3>2. /\ w \in Nat /\ FifoSize \in Nat /\ w < FifoSize
          /\ i \in 1..(FifoSize - 1) /\ j \in 1..(FifoSize - 1)
      BY <1>4, EmergencyAssumption DEF Slots
    <3>. QED
      BY <2>1, <2>2, <3>1, <3>2
  <2> DEFINE x == [h EXCEPT ![i] = m]
  <2>3. /\ x \in Seq(Messages) /\ Len(x) = n
        /\ \A j \in 1..n : x[j] = IF j = i THEN m ELSE h[j]
    BY <1>1, <1>2, ExceptSeq
  <2>4. ASSUME NEW j \in 1..n PROVE Hist(g, w, n)[j] = x[j]
    BY <1>2, <1>3, <1>4, <2>1, <2>2, <2>3
  <2>5. Hist(g, w, n) = x
    BY <1>3, <2>3, <2>4, SeqEqual
  <2>6. h[i] = f[p]
    BY <1>2, <2>1
  <2>7. x = Stamped(h, i)
    BY <2>6 DEF Stamped
  <2>. QED
    BY <1>0, <1>2, <2>5, <2>7
<1>6. CASE \A i \in 1..n : Back(w, i) # p
  <2>1. ASSUME NEW i \in 1..n PROVE Hist(g, w, n)[i] = h[i]
    BY <1>2, <1>3, <1>4, <1>6
  <2>2. Hist(g, w, n) = h
    BY <1>2, <1>3, <2>1, SeqEqual
  <2>. QED
    BY <1>0, <2>2
<1>. QED
  BY <1>5, <1>6

HistoryNow == Hist(fifo, fifoWrPtr, fifoCount)

LEMMA HistoryIs == HistoryNow = [i \in 1..fifoCount |-> fifo[(fifoWrPtr - i) % FifoSize]]
  BY DEF HistoryNow, Hist, Back

LEMMA InitHistory == Init => History!Init
<1> SUFFICES ASSUME Init PROVE History!Init
  OBVIOUS
<1>1. fifo \in [Slots -> Messages] /\ fifoWrPtr \in Slots /\ fifoCount \in 0..(FifoSize - 1)
  BY InitIInv DEF IInv, TypeOK
<1>2. Hist(fifo, fifoWrPtr, fifoCount) \in Seq(Messages)
      /\ Len(Hist(fifo, fifoWrPtr, fifoCount)) = 0
  BY <1>1, HistIs DEF Init
<1>3. Hist(fifo, fifoWrPtr, fifoCount) = << >>
  BY <1>2
<1>. QED
  BY <1>3, HistoryIs DEF Init, History!Init, HistoryNow

(* A call of CO_error is a change, a missed change or nothing.             *)
LEMMA CO_errorHistory ==
  ASSUME TypeOK, NEW set \in BOOLEAN, NEW bit \in ErrorBits, CO_error(set, bit)
  PROVE  \/ UNCHANGED <<status, HistoryNow>>
         \/ History!Change(bit) \/ History!Miss(bit)
<1>1. CASE UNCHANGED errors
  BY <1>1 DEF errors, HistoryNow
<1>2. CASE /\ ~(set <=> bit \in status)
           /\ ToggleBit(set, bit) /\ Drop(bit)
  <2>1. HistoryNow' = HistoryNow
    BY <1>2 DEF Drop, HistoryNow
  <2>2. History!Toggle(bit)
    BY <1>2 DEF ToggleBit, History!Toggle
  <2>. QED
    BY <2>1, <2>2, HistoryIs DEF History!Miss, HistoryNow, Hist, Back
<1>3. CASE /\ ~(set <=> bit \in status)
           /\ ToggleBit(set, bit) /\ Store(set, bit)
  <2> DEFINE e == [bit |-> bit, set |-> set, register |-> FALSE]
  <2>1. e \in Messages
    BY DEF Messages
  <2>2. /\ fifo' = [fifo EXCEPT ![fifoWrPtr] = e]
        /\ fifoWrPtr' = Following(fifoWrPtr)
        /\ fifoCount' = IF fifoCount < FifoSize - 1 THEN fifoCount + 1 ELSE fifoCount
    BY <1>3 DEF Store
  <2>3. e = [bit |-> bit, set |-> bit \in status', register |-> FALSE]
    <3>1. CASE set = TRUE
      <4>1. (bit \in status') = TRUE
        BY <1>3, <3>1 DEF ToggleBit
      <4>. QED
        BY <3>1, <4>1
    <3>2. CASE set = FALSE
      <4>1. (bit \in status') = FALSE
        BY <1>3, <3>2 DEF ToggleBit
      <4>. QED
        BY <3>2, <4>1
    <3>. QED
      BY <3>1, <3>2
  <2>4. fifo \in [Slots -> Messages] /\ fifoWrPtr \in Slots /\ fifoCount \in 0..(FifoSize - 1)
    BY DEF TypeOK
  <2> HIDE DEF e
  <2>5. HistoryNow' = IF fifoCount < FifoSize - 1
                      THEN <<e>> \o HistoryNow
                      ELSE <<e>> \o SubSeq(HistoryNow, 1, FifoSize - 1 - 1)
    BY <2>1, <2>2, <2>4, HistStore DEF HistoryNow
  <2>6. Len(HistoryNow) = fifoCount
    BY <2>4, HistIs DEF HistoryNow
  <2>7. History!Toggle(bit)
    BY <1>3 DEF ToggleBit, History!Toggle
  <2>8. /\ HistoryNow = [i \in 1..fifoCount |-> fifo[(fifoWrPtr - i) % FifoSize]]
        /\ HistoryNow' = [i \in 1..fifoCount' |-> fifo'[(fifoWrPtr' - i) % FifoSize]]
    BY HistoryIs DEF HistoryNow, Hist, Back
  <2>9. History!Change(bit)
    BY <2>3, <2>5, <2>6, <2>7, <2>8 DEF History!Change
  <2>. QED
    BY <2>9
<1>. QED
  BY <1>1, <1>2, <1>3 DEF CO_error

LEMMA EmSendHistory ==
  ASSUME TypeOK, EmSend
  PROVE  \/ UNCHANGED <<status, HistoryNow>>
         \/ \E i \in DOMAIN HistoryNow : History!Stamp(i)
<1> DEFINE p == fifoPpPtr
           m == fifo[p]
<1>1. /\ UNCHANGED <<status, fifoWrPtr, fifoCount>>
      /\ fifo' = [fifo EXCEPT ![p] = [m EXCEPT !.register = m.register \/ errorRegister]]
  BY DEF EmSend, TypeOK
<1>2. /\ fifo \in [Slots -> Messages] /\ fifoWrPtr \in Slots /\ p \in Slots
      /\ fifoCount \in 0..(FifoSize - 1) /\ m \in Messages
  BY DEF TypeOK
<1>3. m.register \in BOOLEAN /\ errorRegister \in BOOLEAN
  BY <1>2 DEF Messages, TypeOK
<1>4. CASE m.register \/ errorRegister
  <2>1. fifo' = Stamped(fifo, p)
    <3>1. (m.register \/ errorRegister) = TRUE
      BY <1>3, <1>4
    <3>. QED
      BY <1>1, <3>1 DEF Stamped
  <2>2. \/ HistoryNow' = HistoryNow
        \/ \E i \in DOMAIN HistoryNow : HistoryNow' = Stamped(HistoryNow, i)
    <3>1. \/ Hist(Stamped(fifo, p), fifoWrPtr, fifoCount) = HistoryNow
          \/ \E i \in DOMAIN HistoryNow :
               Hist(Stamped(fifo, p), fifoWrPtr, fifoCount) = Stamped(HistoryNow, i)
      BY <1>2, HistStamp DEF HistoryNow
    <3>2. HistoryNow' = Hist(Stamped(fifo, p), fifoWrPtr, fifoCount)
      <4>1. HistoryNow' = Hist(fifo', fifoWrPtr', fifoCount')
        BY DEF HistoryNow
      <4>2. fifoWrPtr' = fifoWrPtr /\ fifoCount' = fifoCount
        BY DEF EmSend
      <4>. QED
        BY <2>1, <4>1, <4>2
    <3>. QED
      BY <3>1, <3>2, Zenon
  <2>3. /\ HistoryNow = [i \in 1..fifoCount |-> fifo[(fifoWrPtr - i) % FifoSize]]
        /\ HistoryNow' = [i \in 1..fifoCount' |-> fifo'[(fifoWrPtr' - i) % FifoSize]]
    BY HistoryIs DEF HistoryNow, Hist, Back
  <2>. QED
    BY <1>1, <2>2, <2>3 DEF History!Stamp, Stamped
<1>5. CASE ~(m.register \/ errorRegister)
  <2>1. m.register = FALSE /\ (m.register \/ errorRegister) = FALSE
    BY <1>3, <1>5
  <2>2. [m EXCEPT !.register = m.register \/ errorRegister] = m
    BY <1>2, <2>1 DEF Messages
  <2>3. fifo' = fifo
    BY <1>1, <1>2, <2>2
  <2>. QED
    BY <1>1, <2>3 DEF HistoryNow
<1>. QED
  BY <1>4, <1>5

(* What no step but CO_error, EmSend and ClearHistory does.                *)
LEMMA NextHistory ==
  IInv /\ [Next]_vars => [History!Next]_<<status, HistoryNow>>
<1> SUFFICES ASSUME IInv, [Next]_vars
             PROVE  History!Next \/ UNCHANGED <<status, HistoryNow>>
  OBVIOUS
<1>1. HistoryNow = [i \in 1..fifoCount |-> fifo[(fifoWrPtr - i) % FifoSize]]
  BY HistoryIs
<1>2. ASSUME NEW set \in BOOLEAN, NEW bit \in ErrorBits, CO_error(set, bit)
      PROVE  History!Next \/ UNCHANGED <<status, HistoryNow>>
  BY <1>2, CO_errorHistory DEF IInv, History!Next
<1>3. CASE UNCHANGED <<status, fifo, fifoWrPtr, fifoCount>>
  BY <1>3 DEF HistoryNow
<1>4. "RPDO_WRONG_LENGTH" \in ErrorBits /\ "CAN_TX_OVERFLOW" \in ErrorBits
      /\ "EMERGENCY_BUFFER_FULL" \in ErrorBits
  BY DEF ErrorBits
<1>5. CASE RpdoProcess
  <2>1. UNCHANGED errors \/ \E set \in BOOLEAN : CO_error(set, "RPDO_WRONG_LENGTH")
    BY <1>5 DEF RpdoProcess
  <2>2. CASE UNCHANGED errors
    BY <1>3, <2>2 DEF errors
  <2>3. CASE \E set \in BOOLEAN : CO_error(set, "RPDO_WRONG_LENGTH")
    BY <1>2, <1>4, <2>3
  <2>. QED
    BY <2>1, <2>2, <2>3
<1>6. CASE EmDriver
  <2>1. txOverflow' \in BOOLEAN
    BY <1>6 DEF EmDriver, CANmodule_process, IInv, TypeOK
  <2>2. UNCHANGED errors \/ CO_error(txOverflow', "CAN_TX_OVERFLOW")
    BY <1>6 DEF EmDriver
  <2>. QED
    BY <1>2, <1>3, <1>4, <2>1, <2>2 DEF errors
<1>7. CASE EmReport
  <2>1. CO_error(pc = "report", "EMERGENCY_BUFFER_FULL") /\ (pc = "report") \in BOOLEAN
    BY <1>7 DEF EmReport
  <2>. QED
    BY <1>2, <1>4, <2>1
<1>8. CASE EmSend
  BY <1>1, <1>8, EmSendHistory DEF IInv, History!Next
<1>9. CASE ClearHistory
  <2>1. fifoCount' = 0 /\ UNCHANGED <<status, fifo, fifoWrPtr>>
    BY <1>9 DEF ClearHistory
  <2>2. fifo \in [Slots -> Messages] /\ fifoWrPtr \in Slots /\ 0 \in 0..(FifoSize - 1)
    BY EmergencyAssumption DEF IInv, TypeOK
  <2>3. Hist(fifo, fifoWrPtr, 0) = << >>
    BY <2>2, HistIs
  <2>4. HistoryNow' = << >>
    BY <2>1, <2>3 DEF HistoryNow
  <2>5. HistoryNow' = [i \in 1..fifoCount' |-> fifo'[(fifoWrPtr' - i) % FifoSize]]
    BY DEF HistoryNow, Hist, Back
  <2>. QED
    BY <2>1, <2>4, <2>5 DEF History!Clear, History!Next
<1>10. CASE \E next \in NmtStates : NmtProcess(next)
  BY <1>3, <1>10 DEF NmtProcess, errors
<1>11. CASE \/ \E r \in Rpdos, right \in BOOLEAN : Receive(r, right)
            \/ BufferSent \/ RpdoBegin \/ TxOverflow \/ EmNoSend \/ UNCHANGED vars
  BY <1>3, <1>11 DEF Receive, BufferSent, RpdoBegin, TxOverflow, EmNoSend, errors, vars
<1>. QED
  BY <1>5, <1>6, <1>7, <1>8, <1>9, <1>10, <1>11 DEF Next

(* Object 0x1003, the ring of fifoSize slots behind fifoWrPtr, is the      *)
(* abstract history for every length (CO_error, CO_EM_process,             *)
(* OD_read_1003 and OD_write_1003).                                        *)
THEOREM HistoryRefinement == Spec => HistoryRefined
<1>1. IInv /\ [Next]_vars
        => [History!Next]_<<status, [i \in 1..fifoCount |-> fifo[(fifoWrPtr - i) % FifoSize]]>>
  BY NextHistory DEF HistoryNow, Hist, Back
<1>. QED
  BY <1>1, InitHistory, Invariance, PTL DEF Spec, HistoryRefined, History!Spec

=============================================================================
