---------------------------- MODULE LightsProofs ----------------------------
(***************************************************************************)
(* Proofs about module Lights: for all messages, colours and keys the      *)
(* types are kept, an RPDO is applied whole, and what object 0x2001 says   *)
(* of a lamp that does not blink is what the LED driver lights.            *)
(***************************************************************************)
EXTENDS Lights, TLAPS

(* The arrays of the RPDOs are functions over them, and an RPDO is copied  *)
(* only while it is the current one.                                       *)
Shapes ==
  /\ CANrxData = [r \in 1..4 |-> CANrxData[r]]
  /\ od = [r \in 1..4 |-> od[r]]
  /\ owed = [r \in 1..4 |-> owed[r]]
  /\ pc = "copy" => cur \in 1..4 /\ k >= 1

(* What is owed to the objects of an RPDO while its message waits, and     *)
(* while it is copied: the objects before the k-th have it already.        *)
OwesTo(r) ==
  /\ CANrxNew[r] \/ Rpdo!Copying(r) => owed[r] = Rpdo!Outcome(r, CANrxData[r])
  /\ Rpdo!Copying(r) /\ ~CANrxNew[r] =>
       \A n \in 1..Mapped[r] : n < k => od[r][n] = owed[r][n]

Owes == \A r \in 1..4 : OwesTo(r)

(* The part about the RPDOs, and the part about the LED driver.            *)
RpdoInv == Rpdo!TypeOK /\ Shapes /\ Owes /\ RpdoWhole
LedInv  == LedTypeOK /\ LedMeansObject

IInv == RpdoInv /\ LedInv

USE RpdoAssumption, LightsAssumption, LedDriverAssumption

---------------------------------------------------------------------------
(* The constants                                                           *)

LEMMA Constants ==
  /\ Mapped \in [1..4 -> Nat]
  /\ \A r \in 1..4 : /\ Accepted[r] \subseteq Byte[r] /\ Start[r] \in Byte[r]
                     /\ Sent[r] \subseteq [1..Mapped[r] -> Byte[r]]
                     /\ Written[r] \subseteq Byte[r]
  /\ MaxBurst \in Nat
  BY DEF Rpdo!RpdoDataAssumption, Rpdo!Rpdos, Rpdo!Message

---------------------------------------------------------------------------
(* The steps of the RPDOs keep RpdoInv                                     *)

LEMMA MessageShape ==
  \A r \in 1..4 : Rpdo!Message(r) = [1..Mapped[r] -> Byte[r]]
  BY DEF Rpdo!Message

LEMMA OutcomeType ==
  ASSUME NEW r \in 1..4, NEW m \in [1..Mapped[r] -> Byte[r]], Rpdo!TypeOK
  PROVE  Rpdo!Outcome(r, m) \in [1..Mapped[r] -> Byte[r]]
  BY Constants, MessageShape DEF Rpdo!TypeOK, Rpdo!Rpdos, Rpdo!Outcome

(* What OwesTo and RpdoWhole say of an RPDO a step leaves alone.           *)
LEMMA Untouched ==
  ASSUME NEW q \in 1..4, OwesTo(q),
         ~Rpdo!Copying(q) /\ ~CANrxNew[q] => od[q] = owed[q],
         od'[q] = od[q], owed'[q] = owed[q], CANrxData'[q] = CANrxData[q],
         CANrxNew'[q] <=> CANrxNew[q],
         Rpdo!Copying(q)' <=> Rpdo!Copying(q),
         Rpdo!Copying(q) => k' = k
  PROVE  /\ OwesTo(q)'
         /\ (~Rpdo!Copying(q) /\ ~CANrxNew[q] => od[q] = owed[q])'
<1>1. Rpdo!Outcome(q, CANrxData[q])' = Rpdo!Outcome(q, CANrxData[q])
  BY DEF Rpdo!Outcome
<1>. QED
  BY <1>1 DEF OwesTo

LEMMA ReceiveKeeps ==
  ASSUME RpdoInv, NEW r \in 1..4, NEW m \in Sent[r], Rpdo!Receive(r, m)
  PROVE  RpdoInv'
<1> USE DEF Rpdo!Rpdos
<1>1. m \in [1..Mapped[r] -> Byte[r]]
  BY Constants
<1>2. Rpdo!Outcome(r, m) \in [1..Mapped[r] -> Byte[r]]
  BY <1>1, OutcomeType DEF RpdoInv
<1>3. /\ od' = od /\ pc' = pc /\ cur' = cur /\ k' = k
      /\ CANrxData' = [CANrxData EXCEPT ![r] = m]
      /\ CANrxNew' = [CANrxNew EXCEPT ![r] = TRUE]
      /\ owed' = [owed EXCEPT ![r] = Rpdo!Outcome(r, m)]
      /\ burst' \in 0..MaxBurst
  BY Constants DEF Rpdo!Receive, Rpdo!task, RpdoInv, Rpdo!TypeOK
<1>4. \A q \in 1..4 : /\ CANrxData'[q] = (IF q = r THEN m ELSE CANrxData[q])
                       /\ CANrxNew'[q] = (IF q = r THEN TRUE ELSE CANrxNew[q])
                       /\ owed'[q] = (IF q = r THEN Rpdo!Outcome(r, m) ELSE owed[q])
  BY <1>3 DEF RpdoInv, Shapes, Rpdo!TypeOK
<1>5. Rpdo!TypeOK'
  <2>1. CANrxNew' \in [1..4 -> BOOLEAN]
    BY <1>3 DEF RpdoInv, Rpdo!TypeOK
  <2>2. \A q \in 1..4 : /\ CANrxData'[q] \in Rpdo!Message(q)
                         /\ od'[q] \in Rpdo!Message(q) /\ owed'[q] \in Rpdo!Message(q)
    BY <1>1, <1>2, <1>3, <1>4, MessageShape DEF RpdoInv, Rpdo!TypeOK
  <2>. QED
    BY <2>1, <2>2, <1>3 DEF RpdoInv, Rpdo!TypeOK, Rpdo!Receive, Rpdo!task
<1>6. Shapes'
  BY <1>3 DEF RpdoInv, Shapes
<1>7. Owes'
  <2> SUFFICES ASSUME NEW q \in 1..4 PROVE OwesTo(q)'
    BY DEF Owes
  <2>1. Rpdo!Outcome(q, CANrxData[q])' = Rpdo!Outcome(q, CANrxData'[q])
    BY <1>3 DEF Rpdo!Outcome
  <2>2. CASE q = r
    <3>1. CANrxData'[r] = m /\ owed'[r] = Rpdo!Outcome(r, m)
      BY <1>4
    <3>2. CANrxNew'[r]
      BY <1>3, Zenon DEF RpdoInv, Rpdo!TypeOK
    <3>. QED
      BY <2>1, <2>2, <3>1, <3>2 DEF OwesTo
  <2>3. CASE q # r
    <3>1. CANrxData'[q] = CANrxData[q] /\ owed'[q] = owed[q] /\ (CANrxNew'[q] <=> CANrxNew[q])
      BY <1>4, <2>3
    <3>. QED
      BY <1>3, <2>1, <3>1 DEF OwesTo, RpdoInv, Owes, Rpdo!Copying
  <2>. QED
    BY <2>2, <2>3
<1>8. RpdoWhole'
  BY <1>3, <1>4 DEF RpdoInv, RpdoWhole, Rpdo!RpdoWhole, Rpdo!Copying
<1>. QED
  BY <1>5, <1>6, <1>7, <1>8 DEF RpdoInv

(* The steps of the task that write no object and owe nothing else.        *)
LEMMA MoveKeeps ==
  ASSUME RpdoInv,
         \/ Rpdo!StartPass \/ Rpdo!TestOld \/ Rpdo!EndPass \/ Rpdo!NmtChange
  PROVE  RpdoInv'
<1> USE DEF Rpdo!Rpdos
<1>1. /\ UNCHANGED <<CANrxNew, CANrxData, od, owed, k>>
      /\ pc # "copy" /\ pc' # "copy"
      /\ pc' \in {"idle", "test", "copy"} /\ cur' \in 1..(4 + 1)
      /\ burst' \in 0..MaxBurst
  BY Constants DEF RpdoInv, Rpdo!TypeOK, Rpdo!StartPass, Rpdo!TestOld, Rpdo!EndPass,
     Rpdo!NmtChange
<1>0. operational' \in BOOLEAN
  BY Zenon DEF RpdoInv, Rpdo!TypeOK, Rpdo!StartPass, Rpdo!TestOld, Rpdo!EndPass,
     Rpdo!NmtChange
<1>2. Rpdo!TypeOK'
  BY <1>0, <1>1 DEF RpdoInv, Rpdo!TypeOK
<1>3. Shapes'
  BY <1>1 DEF RpdoInv, Shapes
<1>4. ASSUME NEW q \in 1..4
      PROVE  OwesTo(q)' /\ (~Rpdo!Copying(q) /\ ~CANrxNew[q] => od[q] = owed[q])'
  BY <1>1, <1>4, Untouched DEF RpdoInv, Owes, RpdoWhole, Rpdo!RpdoWhole, Rpdo!Copying
<1>. QED
  BY <1>2, <1>3, <1>4 DEF RpdoInv, Owes, RpdoWhole, Rpdo!RpdoWhole

LEMMA DiscardKeeps == ASSUME RpdoInv, Rpdo!Discard PROVE RpdoInv'
<1> USE DEF Rpdo!Rpdos
<1>1. /\ pc = "test" /\ cur \in 1..4 /\ cur' = cur + 1
      /\ UNCHANGED <<CANrxData, operational, od, pc, k, burst>>
      /\ CANrxNew' = [CANrxNew EXCEPT ![cur] = FALSE]
      /\ owed' = [owed EXCEPT ![cur] = od[cur]]
  BY DEF Rpdo!Discard
<1>2. \A q \in 1..4 : owed'[q] = (IF q = cur THEN od[q] ELSE owed[q])
  BY <1>1 DEF RpdoInv, Shapes
<1>3. CANrxNew' \in [1..4 -> BOOLEAN] /\ ~CANrxNew'[cur]
  BY <1>1 DEF RpdoInv, Rpdo!TypeOK
<1>4. Rpdo!TypeOK'
  BY <1>1, <1>2, <1>3 DEF RpdoInv, Rpdo!TypeOK
<1>5. Shapes'
  BY <1>1 DEF RpdoInv, Shapes
<1>6. ASSUME NEW q \in 1..4
      PROVE  OwesTo(q)' /\ (~Rpdo!Copying(q) /\ ~CANrxNew[q] => od[q] = owed[q])'
  <2>1. CASE q = cur
    BY <1>1, <1>2, <1>3, <2>1 DEF OwesTo, Rpdo!Copying
  <2>2. CASE q # cur
    <3>1. CANrxNew'[q] <=> CANrxNew[q]
      BY <1>1, <2>2 DEF RpdoInv, Rpdo!TypeOK
    <3>. QED
      BY <1>1, <1>2, <2>2, <3>1, Untouched
         DEF RpdoInv, Owes, RpdoWhole, Rpdo!RpdoWhole, Rpdo!Copying
  <2>. QED
    BY <2>1, <2>2
<1>. QED
  BY <1>4, <1>5, <1>6 DEF RpdoInv, Owes, RpdoWhole, Rpdo!RpdoWhole

LEMMA TestNewKeeps == ASSUME RpdoInv, Rpdo!TestNew PROVE RpdoInv'
<1> USE DEF Rpdo!Rpdos
<1>1. /\ pc = "test" /\ pc' = "copy" /\ cur \in 1..4 /\ k' = 1
      /\ UNCHANGED <<CANrxData, operational, od, cur, burst, owed>>
      /\ CANrxNew[cur]
      /\ CANrxNew' = [CANrxNew EXCEPT ![cur] = FALSE]
  BY DEF Rpdo!TestNew
<1>3. CANrxNew' \in [1..4 -> BOOLEAN] /\ ~CANrxNew'[cur]
  BY <1>1 DEF RpdoInv, Rpdo!TypeOK
<1>4. Rpdo!TypeOK'
  BY <1>1, <1>3 DEF RpdoInv, Rpdo!TypeOK
<1>5. Shapes'
  BY <1>1 DEF RpdoInv, Shapes
<1>6. ASSUME NEW q \in 1..4
      PROVE  OwesTo(q)' /\ (~Rpdo!Copying(q) /\ ~CANrxNew[q] => od[q] = owed[q])'
  <2>1. CASE q = cur
    <3>1. Rpdo!Outcome(q, CANrxData[q])' = Rpdo!Outcome(q, CANrxData[q])
      BY <1>1 DEF Rpdo!Outcome
    <3>2. owed[q] = Rpdo!Outcome(q, CANrxData[q])
      BY <1>1, <2>1 DEF RpdoInv, Owes, OwesTo
    <3>. QED
      BY <1>1, <2>1, <3>1, <3>2 DEF OwesTo, Rpdo!Copying
  <2>2. CASE q # cur
    <3>1. CANrxNew'[q] <=> CANrxNew[q]
      BY <1>1, <2>2 DEF RpdoInv, Rpdo!TypeOK
    <3>. QED
      BY <1>1, <2>2, <3>1, Untouched
         DEF RpdoInv, Owes, RpdoWhole, Rpdo!RpdoWhole, Rpdo!Copying
  <2>. QED
    BY <2>1, <2>2
<1>. QED
  BY <1>4, <1>5, <1>6 DEF RpdoInv, Owes, RpdoWhole, Rpdo!RpdoWhole

(* One object is written from the buffer.                                  *)
LEMMA CopyKeeps == ASSUME RpdoInv, Rpdo!Copy PROVE RpdoInv'
<1> USE DEF Rpdo!Rpdos
<1> DEFINE b == CANrxData[cur][k]
<1>1. /\ pc = "copy" /\ cur \in 1..4 /\ k \in 1..Mapped[cur] /\ k' = k + 1
      /\ UNCHANGED <<CANrxNew, CANrxData, operational, pc, cur, burst, owed>>
      /\ od' = IF b \in Accepted[cur] THEN [od EXCEPT ![cur][k] = b] ELSE od
  BY DEF Rpdo!Copy, RpdoInv, Shapes
<1>2. od[cur] \in [1..Mapped[cur] -> Byte[cur]] /\ b \in Byte[cur]
  BY <1>1, MessageShape DEF RpdoInv, Rpdo!TypeOK
<1>3. /\ \A q \in 1..4 : q # cur => od'[q] = od[q]
      /\ \A n \in 1..Mapped[cur] :
           od'[cur][n] = IF n = k /\ b \in Accepted[cur] THEN b ELSE od[cur][n]
      /\ od'[cur] \in [1..Mapped[cur] -> Byte[cur]]
      /\ od' = [q \in 1..4 |-> od'[q]]
  BY <1>1, <1>2 DEF RpdoInv, Shapes
<1>4. Rpdo!TypeOK'
  <2>1. \A q \in 1..4 : od'[q] \in Rpdo!Message(q)
    BY <1>3, MessageShape DEF RpdoInv, Rpdo!TypeOK
  <2>2. k' \in Nat
    BY <1>1 DEF RpdoInv, Rpdo!TypeOK
  <2>. QED
    BY <1>1, <2>1, <2>2 DEF RpdoInv, Rpdo!TypeOK
<1>5. Shapes'
  BY <1>1, <1>3 DEF RpdoInv, Shapes, Rpdo!TypeOK
<1>6. ASSUME NEW q \in 1..4
      PROVE  OwesTo(q)' /\ (~Rpdo!Copying(q) /\ ~CANrxNew[q] => od[q] = owed[q])'
  <2>1. CASE q = cur
    <3>1. Rpdo!Outcome(q, CANrxData[q])' = Rpdo!Outcome(q, CANrxData[q])
      BY <1>1, <1>3, <2>1 DEF Rpdo!Outcome
    <3>2. owed[q] = Rpdo!Outcome(q, CANrxData[q])
      BY <1>1, <2>1 DEF RpdoInv, Owes, OwesTo, Rpdo!Copying
    <3>3. od'[q][k] = owed[q][k]
      BY <1>1, <1>3, <2>1, <3>2 DEF Rpdo!Outcome
    <3>4. ~CANrxNew[q] => \A n \in 1..Mapped[q] : n < k => od'[q][n] = owed[q][n]
      BY <1>1, <1>3, <2>1 DEF RpdoInv, Owes, OwesTo, Rpdo!Copying
    <3>5. \A n \in 1..Mapped[q] : n < k + 1 => n < k \/ n = k
      BY <1>1 DEF RpdoInv, Rpdo!TypeOK
    <3>. QED
      BY <1>1, <2>1, <3>1, <3>2, <3>3, <3>4, <3>5 DEF OwesTo, Rpdo!Copying
  <2>2. CASE q # cur
    BY <1>1, <1>3, <2>2, Untouched
       DEF RpdoInv, Owes, RpdoWhole, Rpdo!RpdoWhole, Rpdo!Copying
  <2>. QED
    BY <2>1, <2>2
<1>. QED
  BY <1>4, <1>5, <1>6 DEF RpdoInv, Owes, RpdoWhole, Rpdo!RpdoWhole

(* The copy is complete: if no message came meanwhile, the objects have    *)
(* what is owed to them.                                                   *)
LEMMA CopyEndKeeps == ASSUME RpdoInv, Rpdo!CopyEnd PROVE RpdoInv'
<1> USE DEF Rpdo!Rpdos
<1>1. /\ pc = "copy" /\ pc' = "test" /\ cur \in 1..4 /\ k \notin 1..Mapped[cur]
      /\ UNCHANGED <<CANrxNew, CANrxData, operational, od, cur, k, burst, owed>>
  BY DEF Rpdo!CopyEnd, RpdoInv, Shapes
<1>2. Rpdo!TypeOK' /\ Shapes'
  BY <1>1 DEF RpdoInv, Rpdo!TypeOK, Shapes
<1>3. ASSUME NEW q \in 1..4
      PROVE  OwesTo(q)' /\ (~Rpdo!Copying(q) /\ ~CANrxNew[q] => od[q] = owed[q])'
  <2>1. CASE q = cur
    <3>1. Rpdo!Outcome(q, CANrxData[q])' = Rpdo!Outcome(q, CANrxData[q])
      BY <1>1 DEF Rpdo!Outcome
    <3>2. od[q] \in [1..Mapped[q] -> Byte[q]] /\ owed[q] \in [1..Mapped[q] -> Byte[q]]
      BY MessageShape DEF RpdoInv, Rpdo!TypeOK
    <3>3. \A n \in 1..Mapped[q] : n < k
      BY <1>1, <2>1, Constants DEF RpdoInv, Shapes, Rpdo!TypeOK
    <3>4. ~CANrxNew[q] => od[q] = owed[q]
      <4> SUFFICES ASSUME ~CANrxNew[q] PROVE od[q] = owed[q]
        OBVIOUS
      <4>1. \A n \in 1..Mapped[q] : od[q][n] = owed[q][n]
        BY <1>1, <2>1, <3>3 DEF RpdoInv, Owes, OwesTo, Rpdo!Copying
      <4>2. /\ od[q] = [n \in 1..Mapped[q] |-> od[q][n]]
            /\ owed[q] = [n \in 1..Mapped[q] |-> owed[q][n]]
        BY <3>2
      <4>. QED
        BY <4>1, <4>2
    <3>. QED
      BY <1>1, <2>1, <3>1, <3>4 DEF RpdoInv, Owes, OwesTo, Rpdo!Copying
  <2>2. CASE q # cur
    BY <1>1, <2>2, Untouched
       DEF RpdoInv, Owes, RpdoWhole, Rpdo!RpdoWhole, Rpdo!Copying
  <2>. QED
    BY <2>1, <2>2
<1>. QED
  BY <1>2, <1>3 DEF RpdoInv, Owes, RpdoWhole, Rpdo!RpdoWhole

(* The SDO server writes an object between two passes.                     *)
LEMMA WriteKeeps ==
  ASSUME RpdoInv, NEW r \in 1..4, NEW n \in 1..Mapped[r], NEW b \in Written[r],
         Rpdo!Write(r, n, b)
  PROVE  RpdoInv'
<1> USE DEF Rpdo!Rpdos
<1>1. /\ pc = "idle" /\ b \in Accepted[r] /\ b \in Byte[r]
      /\ UNCHANGED <<CANrxNew, CANrxData, operational, pc, cur, k, burst>>
      /\ od' = [od EXCEPT ![r][n] = b]
      /\ owed' = IF CANrxNew[r] /\ CANrxData[r][n] \in Accepted[r] THEN owed
                 ELSE [owed EXCEPT ![r][n] = b]
  BY Constants DEF Rpdo!Write
<1>2. /\ od[r] \in [1..Mapped[r] -> Byte[r]] /\ owed[r] \in [1..Mapped[r] -> Byte[r]]
      /\ CANrxData[r] \in [1..Mapped[r] -> Byte[r]]
  BY MessageShape DEF RpdoInv, Rpdo!TypeOK
<1>3. /\ \A q \in 1..4 : q # r => od'[q] = od[q] /\ owed'[q] = owed[q]
      /\ od'[r] = [od[r] EXCEPT ![n] = b]
      /\ owed'[r] = IF CANrxNew[r] /\ CANrxData[r][n] \in Accepted[r] THEN owed[r]
                    ELSE [owed[r] EXCEPT ![n] = b]
      /\ od' = [q \in 1..4 |-> od'[q]] /\ owed' = [q \in 1..4 |-> owed'[q]]
  BY <1>1, <1>2 DEF RpdoInv, Shapes
<1>4. Rpdo!TypeOK'
  <2>1. od'[r] \in [1..Mapped[r] -> Byte[r]] /\ owed'[r] \in [1..Mapped[r] -> Byte[r]]
    BY <1>1, <1>2, <1>3
  <2>. QED
    <3>1. \A q \in 1..4 : od'[q] \in Rpdo!Message(q) /\ owed'[q] \in Rpdo!Message(q)
      BY <1>3, <2>1, MessageShape DEF RpdoInv, Rpdo!TypeOK
    <3>. QED
      BY <1>1, <3>1 DEF RpdoInv, Rpdo!TypeOK
<1>5. Shapes'
  BY <1>1, <1>3 DEF RpdoInv, Shapes
<1>6. ASSUME NEW q \in 1..4
      PROVE  OwesTo(q)' /\ (~Rpdo!Copying(q) /\ ~CANrxNew[q] => od[q] = owed[q])'
  <2>1. CASE q = r /\ CANrxNew[q]
    <3>1. owed[r] = Rpdo!Outcome(r, CANrxData[r])
      BY <2>1 DEF RpdoInv, Owes, OwesTo
    <3>2. owed'[r] = Rpdo!Outcome(r, CANrxData[r])'
      <4>1. Rpdo!Outcome(r, CANrxData[r])' =
              [i \in 1..Mapped[r] |-> IF CANrxData[r][i] \in Accepted[r]
                                      THEN CANrxData[r][i] ELSE od'[r][i]]
        BY <1>1 DEF Rpdo!Outcome
      <4>2. owed'[r] \in [1..Mapped[r] -> Byte[r]]
        BY <1>1, <1>2, <1>3
      <4>3. \A i \in 1..Mapped[r] :
              owed'[r][i] = IF CANrxData[r][i] \in Accepted[r]
                            THEN CANrxData[r][i] ELSE od'[r][i]
        <5> TAKE i \in 1..Mapped[r]
        <5>1. owed[r][i] = IF CANrxData[r][i] \in Accepted[r]
                           THEN CANrxData[r][i] ELSE od[r][i]
          BY <3>1 DEF Rpdo!Outcome
        <5>2. CASE i = n
          BY <1>1, <1>2, <1>3, <2>1, <5>1, <5>2
        <5>3. CASE i # n
          BY <1>2, <1>3, <5>1, <5>3
        <5>. QED
          BY <5>2, <5>3
      <4>. QED
        BY <4>1, <4>2, <4>3
    <3>. QED
      BY <1>1, <2>1, <3>2 DEF OwesTo, Rpdo!Copying
  <2>2. CASE q = r /\ ~CANrxNew[q]
    <3>1. od[q] = owed[q]
      BY <1>1, <2>2 DEF RpdoInv, RpdoWhole, Rpdo!RpdoWhole, Rpdo!Copying
    <3>. QED
      BY <1>1, <1>3, <2>2, <3>1 DEF OwesTo, Rpdo!Copying
  <2>3. CASE q # r
    BY <1>1, <1>3, <2>3, Untouched
       DEF RpdoInv, Owes, RpdoWhole, Rpdo!RpdoWhole, Rpdo!Copying
  <2>. QED
    BY <2>1, <2>2, <2>3
<1>. QED
  BY <1>4, <1>5, <1>6 DEF RpdoInv, Owes, RpdoWhole, Rpdo!RpdoWhole

---------------------------------------------------------------------------
(* The steps of the LED driver keep LedInv                                 *)

LEMMA BytesOfLeds ==
  /\ Colours = 1..Mapped[1]
  /\ \A r \in 1..2 : Byte[r] = SUBSET Keys /\ Accepted[r] = SUBSET Keys
  /\ \A r \in 3..4 : Accepted[r] = 0..MAX_BRIGTH
  BY DEF Byte, Accepted

(* A write handler that takes its value over sets what the object says.    *)
LEMMA HandleKeeps ==
  ASSUME RpdoInv, LedInv, NEW r \in 1..4, NEW n \in 1..Mapped[r], NEW b \in Byte[r],
         Handle(r, n, b),
         od'[1] = IF r = 1 /\ b \in Accepted[1] THEN [od[1] EXCEPT ![n] = b] ELSE od[1]
  PROVE  LedInv'
<1> USE DEF Frames, LedInv, LedTypeOK, LedMeansObject
<1>1. od[1] \in [1..Mapped[1] -> SUBSET Keys]
  BY MessageShape, BytesOfLeds DEF RpdoInv, Rpdo!TypeOK, Rpdo!Rpdos
<1>2. CASE b \notin Accepted[r] /\ UNCHANGED ledVars
  BY <1>2 DEF ledVars, backLight, blinker, output
<1>3. CASE b \in Accepted[r] /\ r = 1 /\ vSetLedOn(n, b)
  <2>1. /\ n \in Colours /\ b \in SUBSET Keys
        /\ LED_ON' = [LED_ON EXCEPT ![n] = b] /\ blinked' = [blinked EXCEPT ![n] = {}]
        /\ UNCHANGED <<LED_BLINK, led_brigth, backLight, blinker, output>>
        /\ od'[1] = [od[1] EXCEPT ![n] = b]
    BY <1>3, BytesOfLeds DEF vSetLedOn
  <2>2. LedTypeOK'
    BY <2>1 DEF backLight, blinker, output
  <2>3. ASSUME NEW c \in Colours PROVE LED_ON'[c] \ blinked'[c] = od'[1][c] \ blinked'[c]
    BY <1>1, <2>1, BytesOfLeds
  <2>. QED
    BY <2>2, <2>3
<1>4. CASE b \in Accepted[r] /\ r = 2 /\ vSetLedBlink(n, b)
  <2>1. /\ b \in SUBSET Keys /\ LED_BLINK' = [LED_BLINK EXCEPT ![n] = b]
        /\ UNCHANGED <<LED_ON, led_brigth, backLight, blinker, output, blinked>>
        /\ od'[1] = od[1]
    BY <1>4, BytesOfLeds DEF vSetLedBlink
  <2>. QED
    BY <2>1 DEF backLight, blinker, output
<1>5. CASE b \in Accepted[r] /\ r = 3 /\ vSetLedBrigth(b)
  <2>1. b \in 0..MAX_BRIGTH /\ od'[1] = od[1]
    BY <1>5, BytesOfLeds
  <2>. QED
    BY <1>5, <2>1 DEF vSetLedBrigth, backLight, blinker, output, LedDriverAssumption
<1>6. CASE b \in Accepted[r] /\ r = 4 /\ vSetBackLigth(b)
  <2>1. b \in 0..MAX_BRIGTH /\ od'[1] = od[1]
    BY <1>6, BytesOfLeds
  <2>. QED
    BY <1>6, <2>1 DEF vSetBackLigth, blinker, output
<1>. QED
  BY <1>2, <1>3, <1>4, <1>5, <1>6 DEF Handle

LEMMA ColorKeeps == ASSUME RpdoInv, LedInv, WriteColor PROVE LedInv'
<1> USE DEF LedInv, LedTypeOK, LedMeansObject, rpdoVars, blinker, output
<1>1. ASSUME NEW color \in BackColours, SetBackLigthColor(color) PROVE LedInv'
  BY <1>1 DEF SetBackLigthColor, WriteColor
<1>2. ASSUME TakeColoursAway PROVE LedInv'
  BY <1>2 DEF TakeColoursAway, WriteColor
<1>. QED
  BY <1>1, <1>2 DEF WriteColor

(* The interrupts change a lamp of a colour only when it is to blink.      *)
LEMMA InterruptsKeep == ASSUME RpdoInv, LedInv, Interrupts PROVE LedInv'
<1>1. UNCHANGED od
  BY DEF Interrupts, rpdoVars
<1>2. ASSUME Counters, Blend,
             blinked' = [c \in Colours |-> blinked[c] \cup LED_BLINK[c]],
             frame' \in Frames, dma' \in BOOLEAN,
             UNCHANGED <<LED_BLINK, led_brigth, backLight>>
      PROVE  LedInv'
  <2>1. /\ led_brigth_counter' \in 0..MAX_BRIGTH_COUNTER
        /\ led_blink_counter' \in 0..BlinkPeriod
    BY <1>2 DEF Counters, LedInv, LedTypeOK, LedDriverAssumption
  <2>2. BlinkON' \in BOOLEAN
    BY <1>2, Zenon DEF Counters, LedInv, LedTypeOK
  <2>3. LED_ON' \in Frames /\ blinked' \in Frames
    BY <1>2 DEF Blend, LedInv, LedTypeOK, Frames
  <2>4. \A c \in Colours : LED_ON'[c] \ blinked'[c] = LED_ON[c] \ blinked'[c]
    BY <1>2 DEF Blend, LedInv, LedTypeOK, Frames
  <2>5. \A c \in Colours : LED_ON[c] \ blinked'[c] = od[1][c] \ blinked'[c]
    BY <1>2 DEF LedInv, LedMeansObject
  <2>6. LedTypeOK'
    BY <1>2, <2>1, <2>2, <2>3 DEF LedInv, LedTypeOK, backLight
  <2>7. LedMeansObject'
    BY <1>1, <2>4, <2>5 DEF LedMeansObject
  <2>. QED
    BY <2>6, <2>7 DEF LedInv
<1>3. CASE Tick
  <2>1. Data \in Frames
    BY <1>3 DEF Data, Frames, Tick, Blend, LedInv, LedTypeOK
  <2>. QED
    BY <1>2, <1>3, <2>1 DEF Tick
<1>4. CASE LC
  BY <1>1, <1>4 DEF LC, LedInv, LedTypeOK, LedMeansObject, backLight, blinker
<1>5. CASE Stall
  BY <1>2, <1>5 DEF Stall, LedInv, LedTypeOK
<1>. QED
  BY <1>3, <1>4, <1>5 DEF Interrupts

---------------------------------------------------------------------------
LEMMA InitIInv == Init => IInv
<1> SUFFICES ASSUME Init PROVE IInv
  OBVIOUS
<1> USE DEF Rpdo!Rpdos
<1>1. /\ CANrxNew = [r \in 1..4 |-> FALSE]
      /\ od = [r \in 1..4 |-> [n \in 1..Mapped[r] |-> Start[r]]]
      /\ CANrxData = od /\ owed = od
      /\ operational = FALSE /\ pc = "idle" /\ cur = 1 /\ k = 1 /\ burst = 0
  BY DEF Init, Rpdo!Init
<1>2. \A r \in 1..4 : od[r] \in [1..Mapped[r] -> Byte[r]]
  BY <1>1, Constants
<1>3. Rpdo!TypeOK
  <2>1. \A r \in 1..4 : /\ od[r] \in Rpdo!Message(r) /\ owed[r] \in Rpdo!Message(r)
                         /\ CANrxData[r] \in Rpdo!Message(r)
    <3>1. \A r \in 1..4 : od[r] \in Rpdo!Message(r)
      BY <1>2, MessageShape
    <3>. QED
      BY <1>1, <3>1, Zenon
  <2>2. CANrxNew \in [1..4 -> BOOLEAN] /\ burst \in 0..MaxBurst
    BY <1>1, Constants
  <2>. QED
    <3>1. cur \in 1..(4 + 1) /\ k \in Nat /\ pc \in {"idle", "test", "copy"}
      BY DEF Init, Rpdo!Init
    <3>2. operational \in BOOLEAN
      BY <1>1, Zenon
    <3>. QED
      BY <2>1, <2>2, <3>1, <3>2, Zenon DEF Rpdo!TypeOK
<1>4. Shapes /\ Owes /\ RpdoWhole
  BY <1>1 DEF Shapes, Owes, OwesTo, RpdoWhole, Rpdo!RpdoWhole, Rpdo!Copying
<1>5. LedTypeOK
  <2>1. Dark \in Frames
    BY DEF Dark, Frames
  <2>2. /\ led_brigth \in 0..MAX_BRIGTH_COUNTER /\ backligch_brigth \in 0..MAX_BRIGTH_COUNTER
        /\ 0 \in 0..MAX_BRIGTH_COUNTER /\ 0 \in 0..BlinkPeriod /\ brigth_color \subseteq Colours
    BY DEF Init, LedInit
  <2>. QED
    BY <2>1, <2>2 DEF Init, LedInit, LedTypeOK
<1>6. LedMeansObject
  <2>1. Start[1] = {} /\ Colours = 1..Mapped[1]
    BY DEF Start
  <2>. QED
    BY <1>1, <2>1 DEF Init, LedInit, LedMeansObject, Dark
<1>. QED
  BY <1>3, <1>4, <1>5, <1>6 DEF IInv, RpdoInv, LedInv

LEMMA StutterKeeps ==
  /\ RpdoInv /\ UNCHANGED rpdoVars => RpdoInv'
  /\ LedInv /\ UNCHANGED <<ledVars, od>> => LedInv'
<1>1. RpdoInv /\ UNCHANGED rpdoVars => RpdoInv'
  <2> SUFFICES ASSUME RpdoInv, UNCHANGED rpdoVars PROVE RpdoInv'
    OBVIOUS
  <2>1. Rpdo!TypeOK' /\ Shapes'
    BY DEF RpdoInv, rpdoVars, Rpdo!TypeOK, Shapes
  <2>2. ASSUME NEW q \in 1..4
        PROVE  OwesTo(q)' /\ (~Rpdo!Copying(q) /\ ~CANrxNew[q] => od[q] = owed[q])'
    BY <2>2, Untouched
       DEF RpdoInv, Owes, RpdoWhole, Rpdo!RpdoWhole, Rpdo!Copying, rpdoVars, Rpdo!Rpdos
  <2>. QED
    BY <2>1, <2>2 DEF RpdoInv, Owes, RpdoWhole, Rpdo!RpdoWhole, Rpdo!Rpdos
<1>2. LedInv /\ UNCHANGED <<ledVars, od>> => LedInv'
  BY DEF LedInv, ledVars, backLight, blinker, output, LedTypeOK, LedMeansObject
<1>. QED
  BY <1>1, <1>2

LEMMA NextIInv == IInv /\ [Next]_vars => IInv'
<1> SUFFICES ASSUME IInv, [Next]_vars PROVE IInv'
  OBVIOUS
<1>0. RpdoInv /\ LedInv
  BY DEF IInv
<1>1. CASE Receive
  BY <1>0, <1>1, ReceiveKeeps, StutterKeeps DEF Receive, IInv, Rpdo!Receive, Rpdo!task
<1>2. CASE Process
  <2>1. RpdoInv'
    BY <1>0, <1>2, MoveKeeps, DiscardKeeps, TestNewKeeps, CopyEndKeeps DEF Process
  <2>2. UNCHANGED <<ledVars, od>>
    BY <1>2 DEF Process, Rpdo!StartPass, Rpdo!NmtChange, Rpdo!Discard, Rpdo!TestNew,
       Rpdo!TestOld, Rpdo!CopyEnd, Rpdo!EndPass
  <2>. QED
    BY <1>0, <2>1, <2>2, StutterKeeps DEF IInv
<1>3. CASE Copy
  <2>1. RpdoInv'
    BY <1>0, <1>3, CopyKeeps DEF Copy
  <2>2. cur \in 1..4 /\ k \in 1..Mapped[cur]
    BY <1>0, <1>3 DEF Copy, Rpdo!Copy, RpdoInv, Shapes
  <2>3. CANrxData[cur][k] \in Byte[cur]
    BY <1>0, <2>2, MessageShape DEF RpdoInv, Rpdo!TypeOK, Rpdo!Rpdos
  <2>4. od'[1] = IF cur = 1 /\ CANrxData[cur][k] \in Accepted[1]
                 THEN [od[1] EXCEPT ![k] = CANrxData[cur][k]] ELSE od[1]
    BY <1>0, <1>3, <2>2 DEF Copy, Rpdo!Copy, RpdoInv, Shapes
  <2>5. LedInv'
    BY <1>0, <1>3, <2>2, <2>3, <2>4, HandleKeeps DEF Copy
  <2>. QED
    BY <2>1, <2>5 DEF IInv
<1>4. CASE Write
  <2>1. PICK r \in 1..4 : \E n \in 1..Mapped[r], b \in Written[r] :
          Rpdo!Write(r, n, b) /\ Handle(r, n, b)
    BY <1>4 DEF Write
  <2>2. PICK n \in 1..Mapped[r], b \in Written[r] : Rpdo!Write(r, n, b) /\ Handle(r, n, b)
    BY <2>1
  <2>3. RpdoInv'
    BY <1>0, <2>2, WriteKeeps
  <2>4. b \in Byte[r]
    BY Constants
  <2>5. od'[1] = IF r = 1 /\ b \in Accepted[1] THEN [od[1] EXCEPT ![n] = b] ELSE od[1]
    <3>1. b \in Accepted[r] /\ od' = [od EXCEPT ![r] = [od[r] EXCEPT ![n] = b]]
      BY <2>2 DEF Rpdo!Write
    <3>2. od = [q \in 1..4 |-> od[q]]
      BY <1>0 DEF RpdoInv, Shapes
    <3>. QED
      BY <3>1, <3>2
  <2>6. LedInv'
    BY <1>0, <2>2, <2>4, <2>5, HandleKeeps
  <2>. QED
    BY <2>3, <2>6 DEF IInv
<1>5. CASE WriteColor
  BY <1>0, <1>5, ColorKeeps, StutterKeeps DEF WriteColor, IInv
<1>6. CASE Interrupts
  BY <1>0, <1>6, InterruptsKeep, StutterKeeps DEF Interrupts, IInv
<1>7. CASE UNCHANGED vars
  BY <1>0, <1>7, StutterKeeps DEF vars, rpdoVars, IInv
<1>. QED
  BY <1>1, <1>2, <1>3, <1>4, <1>5, <1>6, <1>7 DEF Next

THEOREM Invariance == Spec => []IInv
  BY InitIInv, NextIInv, PTL DEF Spec

(* Every variable keeps its type, the counters of vLedProcess their        *)
(* periods.                                                                *)
THEOREM TypeCorrect == Spec => []TypeOK
<1>1. IInv => TypeOK
  BY DEF IInv, RpdoInv, LedInv, TypeOK
<1>. QED
  BY <1>1, Invariance, PTL

(* A message is applied whole or not at all, however many messages         *)
(* overtake each other in CANrxData while CO_RPDO_process copies.          *)
THEOREM MessagesApplyWhole == Spec => []RpdoWhole
<1>1. IInv => RpdoWhole
  BY DEF IInv, RpdoInv
<1>. QED
  BY <1>1, Invariance, PTL

(* vLedProcess, which reads, changes and writes LED_ON, disturbs no lamp   *)
(* that was not to blink.                                                  *)
THEOREM LampsFollowObject == Spec => []LedMeansObject
<1>1. IInv => LedMeansObject
  BY DEF IInv, LedInv
<1>. QED
  BY <1>1, Invariance, PTL

=============================================================================
