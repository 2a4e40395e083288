------------------------------- MODULE Lights -------------------------------
(***************************************************************************)
(* From a message on the bus to the lamps: the RPDOs (RpdoData), the write *)
(* handlers of objects 0x2001 to 0x2003 in process.c, and the LED driver   *)
(* (LedDriver).                                                            *)
(*                                                                         *)
(* RPDO 1 is mapped to 0x2001, LED on, and RPDO 2 to 0x2002, LED blinking, *)
(* one object for each colour; RPDO 3 is mapped to the brightness of the   *)
(* LEDs, 0x2003.1, and RPDO 4 to that of the backlight, 0x2003.2.  The     *)
(* bytes of the first two are sets of keys.  0x2003.3, the colour of the   *)
(* backlight, is written by the SDO server only.                           *)
(***************************************************************************)
EXTENDS LedDriver

CONSTANTS
  Mapped,      (* the mapped objects of every RPDO: colours, colours, 1, 1 *)
  StartBrigth, (* the brightness of the LEDs in the settings               *)
  StartBack,   (* the brightness of the backlight in the settings          *)
  StartColor,  (* its colour                                               *)
  Sent, Written, MaxBurst  (* see RpdoData                                 *)

VARIABLES CANrxNew, CANrxData, operational, od, pc, cur, k, burst, owed

(* A byte is a set of keys or a brightness, which may be too high.  The    *)
(* handlers accept any byte for the LEDs, and no brightness above          *)
(* MAX_BRIGTH.                                                             *)
Byte == [r \in 1..4 |-> IF r <= 2 THEN SUBSET Keys ELSE 0..(MAX_BRIGTH + 1)]

Accepted == [r \in 1..4 |-> IF r <= 2 THEN SUBSET Keys ELSE 0..MAX_BRIGTH]

Start == [r \in 1..4 |-> CASE r <= 2 -> {} [] r = 3 -> StartBrigth [] r = 4 -> StartBack]

Rpdo == INSTANCE RpdoData WITH RpdoCount <- 4

ASSUME RpdoAssumption == Rpdo!RpdoDataAssumption

ASSUME LightsAssumption ==
  /\ Colours = 1..Mapped[1] /\ Mapped[2] <= Mapped[1]
  /\ Mapped[3] = 1 /\ Mapped[4] = 1
  /\ StartBrigth \in 0..MAX_BRIGTH /\ StartBack \in 0..MAX_BRIGTH
  /\ StartColor \in BackColours

rpdoVars == <<CANrxNew, CANrxData, operational, od, pc, cur, k, burst, owed>>
vars     == <<rpdoVars, ledVars>>

TypeOK == LedTypeOK /\ Rpdo!TypeOK

Init == LedInit(StartBrigth, StartBack, StartColor) /\ Rpdo!Init

---------------------------------------------------------------------------
(* The write handlers.  OD_writeLed and OD_writeBlink call a setter and    *)
(* then store the object; the interrupts read no object, so the two are    *)
(* one step.  OD_writeBRIGTH stores no object: od[3] and od[4] are what it *)
(* set last.                                                               *)

(* OD_writeLed, OD_writeBlink and OD_writeBRIGTH, with the n-th object of  *)
(* RPDO r and value b.                                                     *)
Handle(r, n, b) ==
  \/ b \notin Accepted[r] /\ UNCHANGED ledVars
  \/ b \in Accepted[r] /\ r = 1 /\ vSetLedOn(n, b)
  \/ b \in Accepted[r] /\ r = 2 /\ vSetLedBlink(n, b)
  \/ b \in Accepted[r] /\ r = 3 /\ vSetLedBrigth(b)
  \/ b \in Accepted[r] /\ r = 4 /\ vSetBackLigth(b)

---------------------------------------------------------------------------
Receive == \E r \in 1..4 : \E m \in Sent[r] : Rpdo!Receive(r, m) /\ UNCHANGED ledVars

Copy == Rpdo!Copy /\ Handle(cur, k, CANrxData[cur][k])

Write ==
  /\ newColor = {}
  /\ \E r \in 1..4 : \E n \in 1..Mapped[r], b \in Written[r] :
       Rpdo!Write(r, n, b) /\ Handle(r, n, b)

(* OD_writeBRIGTH, 0x2003.3, in the mainline task.                         *)
WriteColor ==
  /\ pc = "idle"
  /\ \/ \E color \in BackColours : SetBackLigthColor(color)
     \/ TakeColoursAway
  /\ UNCHANGED rpdoVars

(* The steps of the two tasks that leave the LED driver alone.  The        *)
(* mainline task holds the mutex while it is in SetBackLigthColor.         *)
Process ==
  /\ \/ newColor = {} /\ (Rpdo!StartPass \/ Rpdo!NmtChange)
     \/ Rpdo!Discard \/ Rpdo!TestNew \/ Rpdo!TestOld \/ Rpdo!CopyEnd \/ Rpdo!EndPass
  /\ UNCHANGED ledVars

(* The flash is erased by a handler the SDO server calls (FlashSettings).  *)
Interrupts ==
  /\ Tick \/ LC \/ (pc = "idle" /\ Stall)
  /\ UNCHANGED rpdoVars

Next ==
  \/ Receive
  \/ Process
  \/ Copy
  \/ Write
  \/ WriteColor
  \/ Interrupts

Spec == Init /\ [][Next]_vars

(* The interrupts are taken when they are requested; the timer requests    *)
(* its own for ever.  The periodic task, which the mainline task wakes in  *)
(* every loop, gets the mutex and finishes its pass.  The mainline task    *)
(* leaves its handler.  NMT commands, messages and SDO writes may come or  *)
(* stop.                                                                   *)
FairSpec ==
  /\ Spec
  /\ WF_vars(Tick /\ UNCHANGED rpdoVars)
  /\ WF_vars(LC /\ UNCHANGED rpdoVars)
  /\ WF_vars((Process /\ pc # "idle") \/ Copy)
  /\ SF_vars(newColor = {} /\ Rpdo!StartPass /\ UNCHANGED ledVars)
  /\ WF_vars(TakeColoursAway /\ UNCHANGED rpdoVars)

---------------------------------------------------------------------------
(* Properties                                                              *)

(* RpdoData's promise, in this composition.                                *)
RpdoWhole == Rpdo!RpdoWhole

(* Object 0x2001 and the lamps: a key that was not to blink in a colour    *)
(* since the colour was last set is on exactly when the object says so.    *)
(* The timer interrupt, which changes LED_ON for blinking, disturbs no     *)
(* other key and no other colour.  (vLedProcess against vSetLedOn.)        *)
LedMeansObject ==
  \A c \in Colours : LED_ON[c] \ blinked[c] = od[1][c] \ blinked[c]

(* What another node or an SDO client asked for reaches the objects, or    *)
(* is discarded by a pass of a node that is not operational: the flags are *)
(* served whatever the interrupt does meanwhile.  (CO_RPDO_process.)       *)
OwedDelivered == \A r \in 1..4 : (od[r] # owed[r]) ~> (od[r] = owed[r])

(* A key that is on and does not blink is shown again and again, if the    *)
(* brightness is not zero and the flash is not erased for ever; after a    *)
(* stall, which loses a frame, the transfers go on.  (vLedProcess, LC and  *)
(* the DMA.)                                                               *)
LampShown ==
  <>[][~Stall]_ledVars =>
    \A c \in Colours, key \in Keys :
      <>[](key \in LED_ON[c] /\ led_brigth > 0) => []<>Shown(c, key)

(* A key that is to blink goes on and off for ever.                        *)
BlinksForEver ==
  \A c \in Colours, key \in Keys :
    <>[](key \in LED_BLINK[c]) => []<>(key \in LED_ON[c]) /\ []<>(key \notin LED_ON[c])
=============================================================================
