------------------------ MODULE FlashSettingsProofs ------------------------
(***************************************************************************)
(* The safety properties of FlashSettings, for all writes SDO clients try. *)
(***************************************************************************)
EXTENDS FlashSettings, TLAPS

(* What the page holds at each step.                                       *)
PageKnown ==
  /\ pc = "program" => /\ i \in 0..7
                       /\ flash = [r \in Regs |-> IF r < 2 * i THEN SettingsREG[r] ELSE ERASED]
  /\ pc \in {"respond", "idle"} => flash = SettingsREG \/ unsaved
  /\ unsaved => fault

(* What distinguishes the write of a start from that of a handler.         *)
PhaseKnown ==
  /\ pc \in {"init", "load"} => FisrtStart
  /\ pc \in {"respond", "idle", "halted"} => ~FisrtStart
  /\ FisrtStart => SettingsREG = Defaults

(* A handler has still to write the object of its own register.            *)
ObjectKnown ==
  ~FisrtStart /\ pc # "halted" =>
    \A r \in KeyboardRegs : pc = "idle" \/ r # adr => object2004[r] = SettingsREG[r]

(* Without a fault the code in the page vouches for the bit rate.          *)
BitrateSet(x) == x[BITRATE_ADR] \in 0..7

BitrateKnown ==
  ~fault => /\ BitrateSet(SettingsREG)
            /\ flash[CODE_ADR] = VALID_CODE => BitrateSet(flash)
            /\ pc = "load" => flash[CODE_ADR] = VALID_CODE

(* While no write was torn or failed: x is one of the two states a write   *)
(* may leave, and both have the code and a node id.                        *)
Whole(x)  == x = after \/ (~answered /\ x = before)
Usable(x) == x[CODE_ADR] = VALID_CODE /\ x[NODE_ID_ADR] \in NodeIds

Unharmed ==
  /\ Usable(before) /\ Usable(after)
  /\ pc \in {"init", "erase"} /\ FisrtStart
       => Whole(flash) \/ (flash = Blank /\ after = Defaults)
  /\ pc = "program" /\ FisrtStart => after = Defaults
  /\ pc = "erase" /\ FisrtStart => after = Defaults
  /\ pc = "load" => Whole(flash)
  /\ ~FisrtStart /\ pc \in {"erase", "program"} => SettingsREG = after /\ ~answered
  /\ ~FisrtStart /\ pc = "erase" => flash = before
  /\ pc = "respond" => SettingsREG = after /\ flash = after
  /\ pc = "idle" => Whole(SettingsREG) /\ flash = SettingsREG
  /\ pc # "halted"

IInv ==
  /\ TypeOK
  /\ PageKnown
  /\ PhaseKnown
  /\ ObjectKnown
  /\ BitrateKnown
  /\ ~torn /\ ~fault => Unharmed

---------------------------------------------------------------------------
(* The registers of the image: they have the code, a bit rate and a node.  *)
LEMMA DefaultsFacts ==
  /\ Defaults \in Settings
  /\ Usable(Defaults) /\ BitrateSet(Defaults)
<1>1. ASSUME NEW r \in Regs
      PROVE  <<VALID_CODE, 2, 21, 1, 63, 0, 7, 1, 2, 2, 4, 3, 0, 44, 0, 55>>[r + 1] \in Byte
  BY DEF Regs, REG_SIZE, VALID_CODE, Byte
<1>2. Defaults \in Settings
  BY <1>1 DEF Defaults, Settings
<1>3. Defaults[CODE_ADR] = VALID_CODE /\ Defaults[BITRATE_ADR] = 2 /\ Defaults[NODE_ID_ADR] = 21
  BY DEF Defaults, Regs, REG_SIZE, VALID_CODE, CODE_ADR, BITRATE_ADR, NODE_ID_ADR
<1>. QED
  BY <1>2, <1>3 DEF Usable, BitrateSet, NodeIds

(* An erased page has no code.                                             *)
LEMMA BlankFacts == Blank \in Settings /\ Blank[CODE_ADR] # VALID_CODE
  BY DEF Blank, Settings, Regs, REG_SIZE, CODE_ADR, VALID_CODE, ERASED

(* Programming goes on from the start of the page; with the last half-word *)
(* the page is the registers.                                              *)
LEMMA PageGrows ==
  ASSUME TypeOK, PageKnown, ProgramHalf
  PROVE  /\ i' \in 1..8 /\ flash' \in Settings
         /\ flash' = [r \in Regs |-> IF r < 2 * i' THEN SettingsREG[r] ELSE ERASED]
         /\ i' = 8 => flash' = SettingsREG
         /\ flash'[CODE_ADR] = SettingsREG[CODE_ADR]
         /\ flash'[BITRATE_ADR] = SettingsREG[BITRATE_ADR]
<1>1. i \in 0..7 /\ i' = i + 1
  BY DEF PageKnown, ProgramHalf
<1>2. flash' = [r \in Regs |-> IF r < 2 * i' THEN SettingsREG[r] ELSE ERASED]
  <2>1. \A r \in Regs :
          (IF r \in {2 * i, 2 * i + 1} THEN SettingsREG[r] ELSE flash[r])
          = IF r < 2 * i' THEN SettingsREG[r] ELSE ERASED
    BY <1>1 DEF PageKnown, ProgramHalf, Regs, REG_SIZE
  <2>. QED
    BY <2>1 DEF ProgramHalf
<1>3. flash' \in Settings
  BY <1>2 DEF TypeOK, Settings
<1>4. ASSUME i' = 8 PROVE flash' = SettingsREG
  <2>1. \A r \in Regs : r < 2 * i'
    BY <1>4 DEF Regs, REG_SIZE
  <2>2. flash' = [r \in Regs |-> SettingsREG[r]]
    BY <1>2, <2>1
  <2>. QED
    BY <2>2 DEF TypeOK, Settings
<1>5. /\ CODE_ADR \in Regs /\ BITRATE_ADR \in Regs
      /\ CODE_ADR < 2 * i' /\ BITRATE_ADR < 2 * i'
  BY <1>1 DEF CODE_ADR, BITRATE_ADR, Regs, REG_SIZE
<1>. QED
  BY <1>1, <1>2, <1>3, <1>4, <1>5

(* A write a handler accepts keeps the code, a node id and a bit rate.     *)
LEMMA WriteFacts ==
  ASSUME TypeOK,
         NEW w \in Offered, SetRegState(w.reg, w.value, w.high)
  PROVE  /\ SettingsREG' \in Settings /\ w.reg \in Regs
         /\ \A r \in KeyboardRegs : r # w.reg => SettingsREG'[r] = SettingsREG[r]
         /\ Usable(SettingsREG) => Usable(SettingsREG)'
         /\ BitrateSet(SettingsREG) => BitrateSet(SettingsREG)'
<1>1. w.reg \in Regs /\ w.value \in Byte /\ w.high \in Byte
  BY FlashSettingsAssumption
<1>2. Accepts(w.reg, w.value)
  BY DEF SetRegState
<1>3. CASE w.reg \in PwmRegs
  <2>1. /\ w.reg + 1 \in Regs
        /\ {w.reg, w.reg + 1} \cap (KeyboardRegs \cup {CODE_ADR, BITRATE_ADR, NODE_ID_ADR}) = {}
    BY <1>3 DEF PwmRegs, Regs, REG_SIZE, KeyboardRegs, CODE_ADR, BITRATE_ADR, NODE_ID_ADR
  <2>2. SettingsREG' = [SettingsREG EXCEPT ![w.reg] = w.value, ![w.reg + 1] = w.high]
    BY <1>3 DEF SetRegState
  <2>3. SettingsREG' \in Settings
    BY <1>1, <2>1, <2>2 DEF TypeOK, Settings
  <2>4. \A r \in Regs : r \notin {w.reg, w.reg + 1} => SettingsREG'[r] = SettingsREG[r]
    BY <1>1, <2>1, <2>2 DEF TypeOK, Settings
  <2>5. KeyboardRegs \cup {CODE_ADR, BITRATE_ADR, NODE_ID_ADR} \subseteq Regs
    BY DEF KeyboardRegs, CODE_ADR, BITRATE_ADR, NODE_ID_ADR, Regs, REG_SIZE
  <2>. QED
    BY <1>1, <2>1, <2>3, <2>4, <2>5 DEF Usable, BitrateSet
<1>4. CASE w.reg \notin PwmRegs
  <2>1. SettingsREG' = [SettingsREG EXCEPT ![w.reg] = w.value]
    BY <1>4 DEF SetRegState
  <2>2. SettingsREG' \in Settings
    BY <1>1, <2>1 DEF TypeOK, Settings
  <2>3. \A r \in Regs : SettingsREG'[r] = IF r = w.reg THEN w.value ELSE SettingsREG[r]
    BY <1>1, <2>1 DEF TypeOK, Settings
  <2>4. KeyboardRegs \cup {CODE_ADR, BITRATE_ADR, NODE_ID_ADR} \subseteq Regs
    BY DEF KeyboardRegs, CODE_ADR, BITRATE_ADR, NODE_ID_ADR, Regs, REG_SIZE
  <2>5. /\ w.reg # CODE_ADR
        /\ w.reg = BITRATE_ADR => w.value \in 0..7
        /\ w.reg = NODE_ID_ADR => w.value \in NodeIds
    BY <1>1, <1>2, <1>4
       DEF Accepts, AcceptsBrigth, CODE_ADR, BITRATE_ADR, NODE_ID_ADR, NMT_STATE_ADR,
           DEF_LED_BRIGTH_ADR, DEF_BL_BRIGTH_ADR, DEF_BL_COLOR_ADR, KeyboardRegs, MAX_BITRATE,
           MIN_NODE_ID, MAX_NODE_ID, MAX_COLOR, MAX_BRIGTH, NodeIds, Byte
  <2>. QED
    BY <1>1, <2>2, <2>3, <2>4, <2>5 DEF Usable, BitrateSet
<1>. QED
  BY <1>3, <1>4

---------------------------------------------------------------------------
(* The page has eight half-words.                                          *)
LEMMA EightHalfWords == REG_SIZE \div 2 = 8 /\ HalfWords = 8
  BY DEF REG_SIZE, HalfWords

LEMMA InitIInv == Init => IInv
<1> SUFFICES ASSUME Init PROVE IInv
  OBVIOUS
<1>1. Defaults \in Settings /\ Blank \in Settings /\ Usable(Defaults) /\ BitrateSet(Defaults)
      /\ Blank[CODE_ADR] # VALID_CODE
  BY DefaultsFacts, BlankFacts
<1>2. TypeOK
  <2>1. 0 \in 0..REG_SIZE \div 2 /\ 0 \in Regs /\ 0 \in Byte
    BY EightHalfWords DEF Regs, REG_SIZE, Byte
  <2>2. [r \in KeyboardRegs |-> 0] \in [KeyboardRegs -> Byte \cup {ERASED}]
    BY <2>1
  <2>. QED
    BY <1>1, <2>1, <2>2 DEF Init, TypeOK, Responses
<1>3. PageKnown /\ PhaseKnown /\ ObjectKnown
  BY DEF Init, PageKnown, PhaseKnown, ObjectKnown
<1>4. BitrateKnown
  BY <1>1 DEF Init, BitrateKnown
<1>5. Unharmed
  BY <1>1 DEF Init, Unharmed, Whole
<1>. QED
  BY <1>2, <1>3, <1>4, <1>5 DEF IInv

LEMMA NextIInv == IInv /\ [Next]_vars => IInv'
<1> SUFFICES ASSUME IInv, [Next]_vars PROVE IInv'
  OBVIOUS
<1> USE DEF IInv
<1>0. KeyboardRegs \subseteq Regs
  BY DEF KeyboardRegs, Regs, REG_SIZE
<1>1. CASE ReadCode
  <2>1. TypeOK'
    BY <1>1 DEF ReadCode, TypeOK, sdo, wish, harm
  <2>2. PageKnown'
    BY <1>1 DEF ReadCode, PageKnown, harm
  <2>3. PhaseKnown'
    BY <1>1 DEF ReadCode, PhaseKnown
  <2>4. ObjectKnown'
    BY <1>1 DEF ReadCode, ObjectKnown, PhaseKnown, sdo
  <2>5. BitrateKnown'
    BY <1>1 DEF ReadCode, Valid, BitrateKnown, BitrateSet, harm
  <2>6. (~torn /\ ~fault => Unharmed)'
    <3>1. CASE Valid
      BY <1>1, <3>1, BlankFacts DEF ReadCode, Valid, Unharmed, Whole, Usable, PhaseKnown, wish, harm
    <3>2. CASE ~Valid
      <4>1. ~torn /\ ~fault => ~Whole(flash)
        BY <1>1, <3>2 DEF Valid, Unharmed, Whole, Usable
      <4>. QED
        BY <1>1, <3>2, <4>1 DEF ReadCode, Unharmed, Whole, Usable, PhaseKnown, wish, harm
    <3>. QED
      BY <3>1, <3>2
  <2>. QED
    BY <2>1, <2>2, <2>3, <2>4, <2>5, <2>6
<1>2. CASE Load
  <2>1. TypeOK'
    <3>1. [r \in KeyboardRegs |-> flash[r]] \in [KeyboardRegs -> Byte \cup {ERASED}]
      BY <1>0 DEF TypeOK, Settings
    <3>. QED
      BY <1>2, <3>1 DEF Load, ReadBack, TypeOK, wish, harm
  <2>2. PageKnown'
    BY <1>2 DEF Load, ReadBack, PageKnown, harm
  <2>3. PhaseKnown'
    BY <1>2 DEF Load, PhaseKnown
  <2>4. ObjectKnown'
    BY <1>2 DEF Load, ReadBack, ObjectKnown
  <2>5. BitrateKnown'
    BY <1>2 DEF Load, ReadBack, BitrateKnown, BitrateSet, harm
  <2>6. (~torn /\ ~fault => Unharmed)'
    <3>1. ~torn /\ ~fault => Whole(flash) /\ flash[NODE_ID_ADR] \in NodeIds
      BY <1>2 DEF Load, Unharmed, Whole, Usable
    <3>2. ~torn /\ ~fault => pc' = "idle"
      BY <1>2, <3>1 DEF Load, ReadBack
    <3>. QED
      BY <1>2, <3>1, <3>2 DEF Load, ReadBack, Unharmed, Whole, Usable, wish, harm
  <2>. QED
    BY <2>1, <2>2, <2>3, <2>4, <2>5, <2>6
<1>3. CASE Erase
  <2>1. TypeOK'
    <3>1. i' \in 0..REG_SIZE \div 2 /\ flash' \in Settings
      BY <1>3, BlankFacts, EightHalfWords DEF Erase
    <3>. QED
      BY <1>3, <3>1 DEF Erase, TypeOK, sdo, wish
  <2>2. PageKnown'
    <3>1. Blank = [r \in Regs |-> IF r < 2 * 0 THEN SettingsREG'[r] ELSE ERASED]
      BY DEF Blank, Regs, REG_SIZE
    <3>. QED
      BY <1>3, <3>1 DEF Erase, PageKnown
  <2>3. PhaseKnown'
    BY <1>3 DEF Erase, PhaseKnown
  <2>4. ObjectKnown'
    BY <1>3 DEF Erase, ObjectKnown, PhaseKnown, sdo
  <2>5. BitrateKnown'
    BY <1>3, BlankFacts DEF Erase, BitrateKnown, BitrateSet
  <2>6. (~torn /\ ~fault => Unharmed)'
    BY <1>3 DEF Erase, Unharmed, Whole, Usable, wish
  <2>. QED
    BY <2>1, <2>2, <2>3, <2>4, <2>5, <2>6
<1>4. CASE ProgramHalf
  <2>1. TypeOK'
    <3>1. i' \in 0..REG_SIZE \div 2 /\ flash' \in Settings
      BY <1>4, PageGrows, EightHalfWords
    <3>. QED
      BY <1>4, <3>1 DEF ProgramHalf, Caller, TypeOK, sdo, wish, harm
  <2>2. PageKnown'
    <3>1. i' \in 1..8 /\ (i' = 8 => flash' = SettingsREG')
      BY <1>4, PageGrows DEF ProgramHalf
    <3>2. flash' = [r \in Regs |-> IF r < 2 * i' THEN SettingsREG'[r] ELSE ERASED]
      BY <1>4, PageGrows DEF ProgramHalf
    <3>3. i' # 8 => i' \in 0..7
      BY <3>1
    <3>4. i' # 8 => pc' = "program"
      BY <1>4, EightHalfWords DEF ProgramHalf
    <3>5. i' = 8 => pc' \in {"load", "respond"}
      BY <1>4, EightHalfWords DEF ProgramHalf, Caller
    <3>6. unsaved' => fault'
      BY <1>4 DEF ProgramHalf, PageKnown, harm
    <3>. QED
      BY <3>1, <3>2, <3>3, <3>4, <3>5, <3>6 DEF PageKnown
  <2>3. PhaseKnown'
    BY <1>4, EightHalfWords DEF ProgramHalf, Caller, PhaseKnown
  <2>4. ObjectKnown'
    BY <1>4, EightHalfWords DEF ProgramHalf, Caller, ObjectKnown, sdo
  <2>5. BitrateKnown'
    <3>1. flash'[CODE_ADR] = SettingsREG[CODE_ADR] /\ flash'[BITRATE_ADR] = SettingsREG[BITRATE_ADR]
      BY <1>4, PageGrows
    <3>2. pc' = "load" => SettingsREG = Defaults
      BY <1>4 DEF ProgramHalf, Caller, PhaseKnown
    <3>. QED
      BY <1>4, <3>1, <3>2, DefaultsFacts DEF ProgramHalf, BitrateKnown, BitrateSet, Usable, harm
  <2>6. (~torn /\ ~fault => Unharmed)'
    <3>1. CASE i' = 8
      <4>1. flash' = SettingsREG /\ pc' = Caller
        BY <1>4, <3>1, PageGrows, EightHalfWords DEF ProgramHalf
      <4>. QED
        BY <1>4, <4>1 DEF ProgramHalf, Caller, Unharmed, Whole, Usable, PhaseKnown, wish, harm
    <3>2. CASE i' # 8
      <4>1. pc' = "program"
        BY <1>4, <3>2, EightHalfWords DEF ProgramHalf
      <4>. QED
        BY <1>4, <4>1 DEF ProgramHalf, Unharmed, Whole, Usable, wish, harm
    <3>. QED
      BY <3>1, <3>2
  <2>. QED
    BY <2>1, <2>2, <2>3, <2>4, <2>5, <2>6
<1>5. CASE ProgramFault
  <2>1. TypeOK'
    BY <1>5 DEF ProgramFault, Caller, TypeOK, sdo, wish
  <2>2. PageKnown'
    BY <1>5 DEF ProgramFault, Caller, PageKnown
  <2>3. PhaseKnown'
    BY <1>5 DEF ProgramFault, Caller, PhaseKnown
  <2>4. ObjectKnown'
    BY <1>5 DEF ProgramFault, Caller, ObjectKnown, sdo
  <2>5. BitrateKnown'
    BY <1>5 DEF ProgramFault, BitrateKnown
  <2>6. (~torn /\ ~fault => Unharmed)'
    BY <1>5 DEF ProgramFault
  <2>. QED
    BY <2>1, <2>2, <2>3, <2>4, <2>5, <2>6
<1>6. ASSUME NEW w \in Offered, Refuse(w.reg, w.value) PROVE IInv'
  <2>1. TypeOK'
    BY <1>6 DEF Refuse, TypeOK, Responses, wish, harm
  <2>2. PageKnown'
    BY <1>6 DEF Refuse, PageKnown, harm
  <2>3. PhaseKnown'
    BY <1>6 DEF Refuse, PhaseKnown
  <2>4. ObjectKnown'
    BY <1>6 DEF Refuse, ObjectKnown
  <2>5. BitrateKnown'
    BY <1>6 DEF Refuse, BitrateKnown, BitrateSet, harm
  <2>6. (~torn /\ ~fault => Unharmed)'
    BY <1>6 DEF Refuse, Unharmed, Whole, Usable, wish, harm
  <2>. QED
    BY <2>1, <2>2, <2>3, <2>4, <2>5, <2>6
<1>7. ASSUME NEW w \in Offered, SetRegState(w.reg, w.value, w.high) PROVE IInv'
  <2>1. TypeOK'
    BY <1>7, WriteFacts DEF SetRegState, TypeOK, harm
  <2>2. PageKnown'
    BY <1>7 DEF SetRegState, PageKnown, harm
  <2>3. PhaseKnown'
    BY <1>7 DEF SetRegState, PhaseKnown
  <2>4. ObjectKnown'
    BY <1>7, WriteFacts DEF SetRegState, ObjectKnown, PhaseKnown
  <2>5. BitrateKnown'
    BY <1>7, WriteFacts DEF SetRegState, BitrateKnown, BitrateSet, harm
  <2>6. (~torn /\ ~fault => Unharmed)'
    <3>1. ~torn /\ ~fault => Usable(SettingsREG) /\ flash = SettingsREG
      BY <1>7 DEF SetRegState, Unharmed, Whole, Usable
    <3>2. ~torn /\ ~fault => Usable(SettingsREG)'
      BY <1>7, <3>1, WriteFacts
    <3>. QED
      BY <1>7, <3>1, <3>2 DEF SetRegState, Unharmed, Usable, PhaseKnown, harm
  <2>. QED
    BY <2>1, <2>2, <2>3, <2>4, <2>5, <2>6
<1>8. CASE Respond
  <2>1. TypeOK'
    <3>1. object2004' \in [KeyboardRegs -> Byte \cup {ERASED}]
      BY <1>8, <1>0 DEF Respond, TypeOK, Settings
    <3>2. response' \in Responses
      BY <1>8 DEF Respond, Answer, Responses
    <3>. QED
      BY <1>8, <3>1, <3>2 DEF Respond, TypeOK, harm
  <2>2. PageKnown'
    BY <1>8 DEF Respond, PageKnown, harm
  <2>3. PhaseKnown'
    BY <1>8 DEF Respond, PhaseKnown
  <2>4. ObjectKnown'
    BY <1>8 DEF Respond, ObjectKnown, PhaseKnown
  <2>5. BitrateKnown'
    BY <1>8 DEF Respond, BitrateKnown, BitrateSet, harm
  <2>6. (~torn /\ ~fault => Unharmed)'
    BY <1>8 DEF Respond, Unharmed, Whole, Usable, PhaseKnown, harm
  <2>. QED
    BY <2>1, <2>2, <2>3, <2>4, <2>5, <2>6
<1>9. CASE Restart
  <2>1. TypeOK'
    <3>1. 0 \in 0..REG_SIZE \div 2 /\ 0 \in Regs /\ 0 \in Byte
      BY EightHalfWords DEF Regs, REG_SIZE, Byte
    <3>2. [r \in KeyboardRegs |-> 0] \in [KeyboardRegs -> Byte \cup {ERASED}]
      BY <3>1
    <3>. QED
      BY <1>9, <3>1, <3>2, DefaultsFacts DEF Restart, TypeOK, Responses, wish
  <2>2. PageKnown'
    BY <1>9 DEF Restart, PageKnown
  <2>3. PhaseKnown'
    BY <1>9 DEF Restart, PhaseKnown
  <2>4. ObjectKnown'
    BY <1>9 DEF Restart, ObjectKnown
  <2>5. BitrateKnown'
    BY <1>9, DefaultsFacts DEF Restart, BitrateKnown, BitrateSet
  <2>6. (~torn /\ ~fault => Unharmed)'
    <3>1. ~torn' /\ ~fault' => ~torn /\ ~fault /\ pc # "program"
      BY <1>9 DEF Restart, TypeOK
    <3>2. ~torn' /\ ~fault' => Whole(flash) \/ (flash = Blank /\ after = Defaults)
      BY <3>1 DEF Unharmed, Whole, PhaseKnown, TypeOK
    <3>. QED
      BY <1>9, <3>1, <3>2 DEF Restart, Unharmed, Whole, Usable, wish
  <2>. QED
    BY <2>1, <2>2, <2>3, <2>4, <2>5, <2>6
<1>10. CASE UNCHANGED vars
  BY <1>10 DEF vars, sdo, wish, harm, TypeOK, PageKnown, PhaseKnown, ObjectKnown, BitrateKnown,
               BitrateSet, Unharmed, Whole, Usable
<1>. QED
  BY <1>1, <1>2, <1>3, <1>4, <1>5, <1>6, <1>7, <1>8, <1>9, <1>10 DEF Next

(* The inductive invariant of the settings.                                *)
THEOREM Invariance == Spec => []IInv
  BY InitIInv, NextIInv, PTL DEF Spec

---------------------------------------------------------------------------
(* Every register is a byte or erased, and the programming never leaves    *)
(* the sixteen bytes.                                                      *)
THEOREM TypeCorrect == Spec => []TypeOK
  BY Invariance, PTL DEF IInv

(* vFDSetRegState and vFDInit keep the settings all or nothing over every  *)
(* restart that does not meet the page incomplete.                         *)
THEOREM WritesAreAtomic == Spec => []SettingsAtomic
<1>1. IInv => SettingsAtomic
  BY DEF IInv, Unharmed, Whole, SettingsAtomic
<1>. QED
  BY <1>1, Invariance, PTL

(* The node comes back on a bit rate that was set, wherever power fails.   *)
THEOREM BitrateSurvives == Spec => []BitrateNeverErased
<1>1. IInv => BitrateNeverErased
  BY DEF IInv, BitrateKnown, BitrateSet, BitrateNeverErased
<1>. QED
  BY <1>1, Invariance, PTL

(* Accepted writes and restarts never lead to Error_Handler.               *)
THEOREM HaltOnlyFromHarm == Spec => []HaltNeedsHarm
<1>1. IInv => HaltNeedsHarm
  BY DEF IInv, Unharmed, HaltNeedsHarm
<1>. QED
  BY <1>1, Invariance, PTL

(* A working node's flash and object 0x2004 follow its registers.          *)
THEOREM CopiesFollow == Spec => []CopiesAgree
<1>1. IInv => CopiesAgree
  BY DEF IInv, PageKnown, PhaseKnown, ObjectKnown, CopiesAgree
<1>. QED
  BY <1>1, Invariance, PTL
=============================================================================
