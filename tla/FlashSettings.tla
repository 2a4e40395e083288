---------------------------- MODULE FlashSettings --------------------------
(***************************************************************************)
(* The settings of the keypad (flash_data.c, hal_flash.c and the write     *)
(* handlers of process.c): sixteen byte registers kept in RAM and in one   *)
(* flash page.  Every write of a register erases the page and programs all *)
(* registers again, two at a time; power may fail between any two steps.   *)
(*                                                                         *)
(* What an erased byte reads depends on the part; ERASED stands for it.    *)
(* The erasure of the page and the programming of a half-word are single   *)
(* steps: what a power failure inside one of them leaves is not modelled.  *)
(***************************************************************************)
EXTENDS Integers

CONSTANT Offered    (* the writes SDO clients try: the register, its byte,   *)
                    (* and for a 16-bit value the high byte                  *)

(* The addresses of the registers.                                         *)
CODE_ADR        == 0
BITRATE_ADR     == 1
NODE_ID_ADR     == 2
NMT_STATE_ADR   == 3
DEF_LED_BRIGTH_ADR == 4
DEF_BL_BRIGTH_ADR  == 5
DEF_BL_COLOR_ADR   == 6
REG_SIZE        == 16
VALID_CODE      == 103

Regs         == 0..REG_SIZE - 1
Byte         == 0..255
ERASED       == -1
KeyboardRegs == 8..11              (* object 0x2004, a byte each            *)
PwmRegs      == {12, 14}           (* object 0x2005, two bytes each         *)

ASSUME FlashSettingsAssumption == Offered \subseteq [reg : Regs, value : Byte, high : Byte]

(* SettingsREG as the program image has it.                                *)
Defaults ==
  [r \in Regs |-> <<VALID_CODE, 2, 21, 1, 63, 0, 7, 1, 2, 2, 4, 3, 0, 44, 0, 55>>[r + 1]]

VARIABLES
  SettingsREG,   (* the registers in RAM                                   *)
  flash,         (* the registers in the page                              *)
  pc,            (* what the CANopen task or main is doing                 *)
  i,             (* the half-words programmed                              *)
  FisrtStart,    (* vFDInit has not ended                                  *)
  adr,           (* the register a handler writes                          *)
  object2004,    (* the keyboard parameters in the object dictionary       *)
  response,      (* the answer to the last write                           *)
  before, after, (* history: the settings without and with the last write  *)
  answered,      (* history: the last write was answered                   *)
  torn,          (* history: power failed while the page was incomplete    *)
  fault,         (* history: the flash refused a half-word                 *)
  unsaved        (* history: it did in the last write since the start      *)

sdo    == <<adr, object2004, response>>
wish   == <<before, after, answered>>
harm   == <<torn, fault, unsaved>>
vars   == <<SettingsREG, flash, pc, i, FisrtStart, sdo, wish, harm>>

Responses == {"NONE", "OK", "INVALID_VALUE", "SUB_NOT_EXIST"}
Settings  == [Regs -> Byte \cup {ERASED}]

TypeOK ==
  /\ SettingsREG \in Settings /\ flash \in Settings
  /\ pc \in {"init", "erase", "program", "load", "respond", "idle", "halted"}
  /\ i \in 0..REG_SIZE \div 2
  /\ FisrtStart \in BOOLEAN
  /\ adr \in Regs
  /\ object2004 \in [KeyboardRegs -> Byte \cup {ERASED}]
  /\ response \in Responses
  /\ before \in Settings /\ after \in Settings
  /\ answered \in BOOLEAN /\ torn \in BOOLEAN /\ fault \in BOOLEAN /\ unsaved \in BOOLEAN

Blank == [r \in Regs |-> ERASED]

(* A new part, or one that has been started before.                        *)
Init ==
  /\ SettingsREG = Defaults
  /\ flash \in {Blank, Defaults}
  /\ pc = "init" /\ i = 0 /\ FisrtStart = TRUE
  /\ adr = 0 /\ object2004 = [r \in KeyboardRegs |-> 0] /\ response = "NONE"
  /\ before = Defaults /\ after = Defaults /\ answered = TRUE
  /\ torn = FALSE /\ fault = FALSE /\ unsaved = FALSE

---------------------------------------------------------------------------
(* vFDInit and the start                                                   *)

(* Mutant: the code is not looked at.                                      *)
Valid_Any == TRUE

Valid == flash[CODE_ADR] = VALID_CODE

(* A page without the code is written with the registers of the image.     *)
ReadCode ==
  /\ pc = "init"
  /\ pc' = IF Valid THEN "load" ELSE "erase"
  /\ UNCHANGED <<SettingsREG, flash, i, FisrtStart, sdo, wish, harm>>

(* A node id CO_LSSinit and CO_CANopenInit accept; an erased one may be.   *)
NodeIds == 1..127

(* Mutant: a page with the code is not read.                               *)
ReadBack_Image == SettingsREG

ReadBack == flash

(* The registers are read back, 0x2004 is filled, and the CANopen task     *)
(* starts with the node id or ends in Error_Handler.                       *)
Load ==
  /\ pc = "load"
  /\ SettingsREG' = ReadBack
  /\ object2004' = [r \in KeyboardRegs |-> ReadBack[r]]
  /\ FisrtStart' = FALSE
  /\ \/ ReadBack[NODE_ID_ADR] \in NodeIds \cup {ERASED} /\ pc' = "idle"
     \/ ReadBack[NODE_ID_ADR] \notin NodeIds /\ pc' = "halted"
  /\ UNCHANGED <<flash, i, adr, response, wish, harm>>

---------------------------------------------------------------------------
(* vFDWtiteReg                                                             *)

Erase ==
  /\ pc = "erase"
  /\ flash' = Blank
  /\ i' = 0
  /\ unsaved' = FALSE
  /\ pc' = "program"
  /\ UNCHANGED <<SettingsREG, FisrtStart, sdo, wish, torn, fault>>

(* vFDInit goes on reading, a handler goes on answering.                   *)
Caller == IF FisrtStart THEN "load" ELSE "respond"

(* Mutant: the last word is left out.                                      *)
HalfWords_LastWord == REG_SIZE \div 2 - 2

HalfWords == REG_SIZE \div 2

(* FLASH_ProgramWord writes the low half of a word, then the high one.     *)
ProgramHalf ==
  /\ pc = "program"
  /\ flash' = [r \in Regs |-> IF r \in {2 * i, 2 * i + 1} THEN SettingsREG[r] ELSE flash[r]]
  /\ i' = i + 1
  /\ pc' = IF i' = HalfWords THEN Caller ELSE "program"
  /\ UNCHANGED <<SettingsREG, FisrtStart, sdo, wish, harm>>

(* A half-word is refused: HAL_FLASH_WriteByWord stops at this word, and   *)
(* nobody is told.                                                         *)
ProgramFault ==
  /\ pc = "program"
  /\ fault' = TRUE /\ unsaved' = TRUE
  /\ pc' = Caller
  /\ UNCHANGED <<SettingsREG, flash, i, FisrtStart, sdo, wish, torn>>

---------------------------------------------------------------------------
(* The write handlers of 0x2003 to 0x2013                                  *)

(* Mutant: node 0 is accepted.                                             *)
MIN_NODE_ID_Zero == 0

MIN_NODE_ID == 1
MAX_NODE_ID == 127
MAX_BITRATE == 7
MAX_BRIGTH  == 63
MAX_COLOR   == 9

(* The limits of OD_writeBRIGTH.                                           *)
AcceptsBrigth(reg, value) ==
  IF reg = DEF_BL_COLOR_ADR THEN value \in 1..MAX_COLOR ELSE value <= MAX_BRIGTH

Accepts(reg, value) ==
  CASE reg = BITRATE_ADR   -> value <= MAX_BITRATE
    [] reg = NODE_ID_ADR   -> value \in MIN_NODE_ID..MAX_NODE_ID
    [] reg = NMT_STATE_ADR -> value \in {0, 1}
    [] reg \in {DEF_LED_BRIGTH_ADR, DEF_BL_BRIGTH_ADR, DEF_BL_COLOR_ADR} -> AcceptsBrigth(reg, value)
    [] reg \in KeyboardRegs   -> value \in Byte
    [] OTHER               -> reg \in PwmRegs

Refuse(reg, value) ==
  /\ pc = "idle" /\ ~Accepts(reg, value)
  /\ response' = "INVALID_VALUE"
  /\ UNCHANGED <<SettingsREG, flash, pc, i, FisrtStart, adr, object2004, wish, harm>>

(* vFDSetRegState and vFDSetRegState16, up to vFDWtiteReg.                 *)
SetRegState(reg, value, high) ==
  /\ pc = "idle" /\ Accepts(reg, value)
  /\ SettingsREG' = IF reg \in PwmRegs
                    THEN [SettingsREG EXCEPT ![reg] = value, ![reg + 1] = high]
                    ELSE [SettingsREG EXCEPT ![reg] = value]
  /\ adr' = reg
  /\ pc' = "erase"
  /\ before' = SettingsREG /\ after' = SettingsREG' /\ answered' = FALSE
  /\ UNCHANGED <<flash, i, FisrtStart, object2004, response, harm>>

(* What OD_writeBRIGTH returns falls through to its last test.             *)
Answer == IF adr \in {DEF_LED_BRIGTH_ADR, DEF_BL_BRIGTH_ADR} THEN "SUB_NOT_EXIST" ELSE "OK"

(* The rest of the handler; that of 0x2004 also writes the object.         *)
Respond ==
  /\ pc = "respond"
  /\ object2004' = [r \in KeyboardRegs |-> IF r = adr THEN SettingsREG[r] ELSE object2004[r]]
  /\ response' = Answer
  /\ answered' = TRUE
  /\ pc' = "idle"
  /\ UNCHANGED <<SettingsREG, flash, i, FisrtStart, adr, before, after, harm>>

---------------------------------------------------------------------------
(* Power fails, or any reset; the program starts with the RAM of its image.*)
Restart ==
  /\ SettingsREG' = Defaults
  /\ pc' = "init" /\ i' = 0 /\ FisrtStart' = TRUE
  /\ adr' = 0 /\ object2004' = [r \in KeyboardRegs |-> 0] /\ response' = "NONE"
  /\ torn' = (torn \/ pc = "program")
  /\ unsaved' = FALSE
  /\ UNCHANGED <<flash, wish, fault>>

Next ==
  \/ ReadCode \/ Load \/ Erase \/ ProgramHalf \/ ProgramFault
  \/ \E w \in Offered : Refuse(w.reg, w.value) \/ SetRegState(w.reg, w.value, w.high)
  \/ Respond \/ Restart

Spec == Init /\ [][Next]_vars

---------------------------------------------------------------------------
(* Properties                                                              *)

(* A write of a setting is all or nothing: unless power failed while the   *)
(* page was incomplete, or the flash refused a half-word, every register   *)
(* is what it was before the last write, or with it, and with it for sure  *)
(* once the write was answered.  (vFDWtiteReg, vFDInit.)                   *)
SettingsAtomic ==
  pc = "idle" /\ ~torn /\ ~fault
  => SettingsREG = after \/ (~answered /\ SettingsREG = before)

(* Wherever power fails, the node comes back on a bit rate that was set:   *)
(* the code and the bit rate are programmed by one half-word.              *)
BitrateNeverErased ==
  pc \in {"idle", "halted"} /\ ~fault => SettingsREG[BITRATE_ADR] \in 0..7

(* The node ends in Error_Handler only after a torn or failed write: no    *)
(* sequence of accepted writes and restarts leads there.                   *)
HaltNeedsHarm == pc = "halted" => torn \/ fault

(* The three places of a setting agree: a node in operation has in its     *)
(* flash what it works with, unless the flash refused to take it, and      *)
(* object 0x2004 shows the keyboard parameters in use, after a write as    *)
(* after a start.  (vFDWtiteReg, vFDInit, OD_writeKeyboardParametr.)       *)
CopiesAgree ==
  pc = "idle" =>
    /\ flash = SettingsREG \/ unsaved
    /\ \A r \in KeyboardRegs : object2004[r] = SettingsREG[r]

(* CO_ODinterface.h on the write function of an object: it returns "ODR_OK *)
(* in case of success": a write answered otherwise has stored nothing.     *)
SuccessIsOk ==
  pc = "idle" /\ ~fault /\ response = "SUB_NOT_EXIST" => SettingsREG = before

=============================================================================
