----------------------------- MODULE LedDriver -----------------------------
(***************************************************************************)
(* The LED driver, led.c.  Tasks set which LEDs are on and which blink,    *)
(* and the brightness and colour of the backlight.  The interrupt of timer *)
(* 3 (TimersCallback, vLedProcess) blends them into a frame of one byte    *)
(* per colour, every 100 us, which the DMA sends over SPI to the shift     *)
(* registers of the LEDs; at the end of the transfer the DMA's interrupt   *)
(* (LC) raises CS, and the shift registers show the frame.                 *)
(*                                                                         *)
(* The byte of a colour is the set of keys whose bit is set.  The setters  *)
(* store single bytes or half-words, so that the interrupt falls before or *)
(* after a store, never inside one; the two interrupts have one preemption *)
(* level and do not nest.                                                  *)
(***************************************************************************)
EXTENDS Integers

CONSTANTS
  Colours,             (* the bytes of a packet, SPI_PACKET_SIZE           *)
  Keys,                (* the bits of a byte                               *)
  MAX_BRIGTH,          (* the highest brightness that can be set           *)
  MAX_BRIGTH_COUNTER,  (* period of the brightness counter                 *)
  calcBrigt,           (* from brightness to counter: MAX_BRIGTH_COUNTER   *)
                       (* times the sine of its share of a right angle     *)
  BlinkPeriod,         (* half a blinking period, 22500                    *)
  BackColours          (* what vSetBackLigthColor can make of brigth_color *)

ASSUME LedDriverAssumption ==
  /\ MAX_BRIGTH \in Nat
  /\ MAX_BRIGTH_COUNTER \in Nat
  /\ calcBrigt \in [0..MAX_BRIGTH -> 0..MAX_BRIGTH_COUNTER]
  /\ BlinkPeriod \in Nat
  /\ BackColours \subseteq SUBSET Colours

Frames == [Colours -> SUBSET Keys]

VARIABLES
  LED_ON, LED_BLINK,   (* the arrays                                       *)
  led_brigth, backligch_brigth,
  brigth_color,        (* the colours of the backlight, 0xFF in the array  *)
  newColor,            (* {}, or what vSetBackLigthColor is about to leave *)
                       (* of brigth_color                                  *)
  led_brigth_counter, led_blink_counter, BlinkON,
  frame,               (* what the shift registers hold                    *)
  dma,                 (* the channel is enabled, its transfer over, and   *)
                       (* the interrupt LC requested                       *)
  blinked              (* history: the keys of a colour that were to blink *)
                       (* at some tick since vSetLedOn last set the colour *)

blinker == <<led_brigth_counter, led_blink_counter, BlinkON>>
backLight == <<backligch_brigth, brigth_color, newColor>>
output  == <<frame, dma>>
ledVars == <<LED_ON, LED_BLINK, led_brigth, backLight, blinker, output, blinked>>

LedTypeOK ==
  /\ LED_ON \in Frames /\ LED_BLINK \in Frames
  /\ led_brigth \in 0..MAX_BRIGTH_COUNTER
  /\ backligch_brigth \in 0..MAX_BRIGTH_COUNTER
  /\ brigth_color \subseteq Colours
  /\ newColor \in {{}} \cup BackColours
  /\ led_brigth_counter \in 0..MAX_BRIGTH_COUNTER
  /\ led_blink_counter \in 0..BlinkPeriod
  /\ BlinkON \in BOOLEAN
  /\ frame \in Frames
  /\ dma \in BOOLEAN
  /\ blinked \in Frames

Dark == [c \in Colours |-> {}]

(* vLedInit, with the brightness and the colour of the settings, but for   *)
(* the PWM of the output stage, and vLedDriverStart.                       *)
LedInit(ledBrigth, backBrigth, color) ==
  /\ LED_ON = Dark /\ LED_BLINK = Dark
  /\ led_brigth = calcBrigt[ledBrigth]
  /\ backligch_brigth = calcBrigt[backBrigth]
  /\ brigth_color = color /\ newColor = {}
  /\ led_brigth_counter = 0 /\ led_blink_counter = 0 /\ BlinkON = TRUE
  /\ frame = Dark /\ dma = FALSE
  /\ blinked = Dark

---------------------------------------------------------------------------
(* The setters, called by tasks                                            *)

vSetLedOn(c, state) ==
  /\ LED_ON' = [LED_ON EXCEPT ![c] = state]
  /\ blinked' = [blinked EXCEPT ![c] = {}]
  /\ UNCHANGED <<LED_BLINK, led_brigth, backLight, blinker, output>>

vSetLedBlink(c, state) ==
  /\ LED_BLINK' = [LED_BLINK EXCEPT ![c] = state]
  /\ UNCHANGED <<LED_ON, led_brigth, backLight, blinker, output, blinked>>

vSetLedBrigth(b) ==
  /\ led_brigth' = calcBrigt[b]
  /\ UNCHANGED <<LED_ON, LED_BLINK, backLight, blinker, output, blinked>>

vSetBackLigth(b) ==
  /\ backligch_brigth' = calcBrigt[b]
  /\ UNCHANGED <<LED_ON, LED_BLINK, led_brigth, brigth_color, newColor, blinker,
                 output, blinked>>

(* vSetBackLigthColor makes all colours bright, then takes some away, byte *)
(* by byte; the timer interrupt may come in between, which the model lets  *)
(* it do once, with all of them bright.                                    *)
SetBackLigthColor(color) ==
  /\ newColor = {}
  /\ brigth_color' = Colours
  /\ newColor' = color
  /\ UNCHANGED <<LED_ON, LED_BLINK, led_brigth, backligch_brigth, blinker, output,
                 blinked>>

TakeColoursAway ==
  /\ newColor # {}
  /\ brigth_color' = newColor
  /\ newColor' = {}
  /\ UNCHANGED <<LED_ON, LED_BLINK, led_brigth, backligch_brigth, blinker, output,
                 blinked>>

---------------------------------------------------------------------------
(* The interrupts                                                          *)

Blinking == \E c \in Colours : LED_BLINK[c] # {}

(* Mutant of Counters: BlinkON is not toggled.                             *)
Counters_Stuck ==
  /\ led_brigth_counter' =
       IF led_brigth_counter + 1 > MAX_BRIGTH_COUNTER THEN 0 ELSE led_brigth_counter + 1
  /\ led_blink_counter' =
       IF ~Blinking THEN led_blink_counter
       ELSE IF led_blink_counter + 1 > BlinkPeriod THEN 0 ELSE led_blink_counter + 1
  /\ BlinkON' = TRUE

(* The counters at the head of vLedProcess.                                *)
Counters ==
  /\ led_brigth_counter' =
       IF led_brigth_counter + 1 > MAX_BRIGTH_COUNTER THEN 0 ELSE led_brigth_counter + 1
  /\ led_blink_counter' =
       IF ~Blinking THEN led_blink_counter
       ELSE IF led_blink_counter + 1 > BlinkPeriod THEN 0 ELSE led_blink_counter + 1
  /\ BlinkON' = IF ~Blinking THEN TRUE
                ELSE IF led_blink_counter + 1 > BlinkPeriod THEN ~BlinkON ELSE BlinkON

(* Mutant of Blend: the other colours of a blinking key go dark with it.   *)
Blend_AllColours ==
  LED_ON' = IF ~Blinking THEN LED_ON
            ELSE [c \in Colours |->
                    IF BlinkON' THEN LED_ON[c] \cup LED_BLINK[c]
                    ELSE LED_ON[c] \ UNION {LED_BLINK[d] : d \in Colours}]

(* Blinking keys are put into LED_ON and taken out of it.                  *)
Blend ==
  LED_ON' = IF ~Blinking THEN LED_ON
            ELSE [c \in Colours |-> IF BlinkON' THEN LED_ON[c] \cup LED_BLINK[c]
                                    ELSE LED_ON[c] \ LED_BLINK[c]]

(* The bytes of data: the backlight where no LED is on, and the LEDs, each *)
(* in its share of the brightness period.                                  *)
Data ==
  LET dark == Keys \ UNION {LED_ON'[d] : d \in Colours}
  IN  [c \in Colours |->
        (IF led_brigth_counter' < backligch_brigth /\ c \in brigth_color
         THEN dark ELSE {})
        \cup
        (IF led_brigth_counter' < led_brigth THEN LED_ON'[c] ELSE {})]

(* TimersCallback and vLedProcess.  A transfer of three bytes at 18 MHz is *)
(* over 1.3 us after its start and nothing looks at it before.             *)
Tick ==
  /\ ~dma
  /\ Counters
  /\ Blend
  /\ blinked' = [c \in Colours |-> blinked[c] \cup LED_BLINK[c]]
  /\ frame' = Data
  /\ dma' = TRUE
  /\ UNCHANGED <<LED_BLINK, led_brigth, backLight>>

(* Mutant of LC: the channel is not disabled.                              *)
LC_KeepsChannel ==
  /\ dma
  /\ UNCHANGED ledVars

(* LC: the channel is disabled, CS goes up and the frame is shown.         *)
LC ==
  /\ dma
  /\ dma' = FALSE
  /\ UNCHANGED <<LED_ON, LED_BLINK, led_brigth, backLight, blinker, frame, blinked>>

(* The processor stands still, fetching from the flash page it erases,     *)
(* with LC still to be done, until the timer has come again.  The timer's  *)
(* interrupt goes first: the counter of an enabled channel cannot be       *)
(* written, so that its frame is not sent; LC then shows the one before.   *)
Stall ==
  /\ dma
  /\ Counters
  /\ Blend
  /\ blinked' = [c \in Colours |-> blinked[c] \cup LED_BLINK[c]]
  /\ dma' = FALSE
  /\ UNCHANGED <<LED_BLINK, led_brigth, backLight, frame>>

(* The key's lamp of colour c is on in the frame that is shown.            *)
Shown(c, key) == ~dma /\ key \in frame[c]

=============================================================================
