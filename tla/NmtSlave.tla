------------------------------ MODULE NmtSlave -----------------------------
(***************************************************************************)
(* The NMT slave and heartbeat producer (CO_NMT_Heartbeat.c): commands     *)
(* come from the receive interrupt at any time into a slot of one command, *)
(* CO_NMT_process takes them in the mainline task, changes the operating   *)
(* state, and sends the heartbeat when it is due or the state changed.     *)
(*                                                                         *)
(* Time counts in the 10 ms the mainline task sleeps between two calls.    *)
(* NMTcontrol is what NMT_CONTROL in CanOpenNode.c makes it: an error of   *)
(* the error register ends the operational state, and neither              *)
(* ERR_TO_STOPPED nor ERR_FREE_TO_OPERATIONAL is set.                      *)
(*                                                                         *)
(* The names that every component has begin with Nmt here: TpdoNmtProofs   *)
(* extends this module beside another one.                                 *)
(***************************************************************************)
EXTENDS Integers

CONSTANTS
  HbTimes,        (* the values of object 0x1017                           *)
  DefaultHbTime,  (* its value after a reset, 0                            *)
  FirstHbTime,    (* FIRST_HB_TIME                                         *)
  MaxElapsed      (* bounds the time between two calls                     *)

ASSUME NmtSlaveAssumption ==
  /\ HbTimes \subseteq Nat /\ DefaultHbTime \in HbTimes
  /\ FirstHbTime \in Nat
  /\ MaxElapsed \in Nat \ {0}

Commands == {"NO_COMMAND", "ENTER_OPERATIONAL", "ENTER_STOPPED",
             "ENTER_PRE_OPERATIONAL", "RESET_NODE", "RESET_COMMUNICATION", "UNKNOWN"}
States   == {"INITIALIZING", "PRE_OPERATIONAL", "OPERATIONAL", "STOPPED"}

VARIABLES
  internalCommand,  (* the slot for commands                               *)
  nmtPc,            (* where CO_NMT_process is                             *)
  operatingState, operatingStatePrev,
  NMTstateCpy,      (* its local copy of the state                         *)
  tested,           (* the command it found, NO_COMMAND for none           *)
  resetCommand,     (* it will ask for a reset                             *)
  HBproducerTime, HBproducerTimer,
  heartbeat,        (* the data of the last heartbeat, NONE for none yet   *)
  errorRegister,    (* a masked bit of the error register is set           *)
  startup,          (* CO_NMT_STARTUP_TO_OPERATIONAL in NMTcontrol         *)
  received,         (* history: the command received last                  *)
  taken,            (* history: the command the switch worked with last    *)
  commandRaced      (* history: a command came between the test of the     *)
                    (* last one and its end                                *)

hb      == <<HBproducerTime, HBproducerTimer, heartbeat>>
setting == <<errorRegister, startup>>
local   == <<NMTstateCpy, tested, resetCommand>>
state   == <<operatingState, operatingStatePrev>>
ghosts  == <<received, taken, commandRaced>>
nmtVars == <<internalCommand, nmtPc, state, local, hb, setting, ghosts>>

Smaller(a, b) == IF a < b THEN a ELSE b

NmtTypeOK ==
  /\ internalCommand \in Commands
  /\ nmtPc \in {"idle", "test", "switch", "clear", "verify", "reset"}
  /\ operatingState \in States /\ operatingStatePrev \in States
  /\ NMTstateCpy \in States
  /\ tested \in Commands
  /\ resetCommand \in BOOLEAN
  /\ HBproducerTime \in HbTimes /\ HBproducerTimer \in Nat
  /\ heartbeat \in States \cup {"NONE"}
  /\ errorRegister \in BOOLEAN /\ startup \in BOOLEAN
  /\ received \in Commands /\ taken \in Commands
  /\ commandRaced \in BOOLEAN

(* CO_NMT_init.                                                            *)
NmtInit ==
  /\ internalCommand = "NO_COMMAND"
  /\ nmtPc = "idle"
  /\ operatingState = "INITIALIZING" /\ operatingStatePrev = "INITIALIZING"
  /\ NMTstateCpy = "INITIALIZING" /\ tested = "NO_COMMAND" /\ resetCommand = FALSE
  /\ HBproducerTime = DefaultHbTime
  /\ HBproducerTimer = Smaller(FirstHbTime, DefaultHbTime)
  /\ heartbeat = "NONE"
  /\ errorRegister = FALSE /\ startup \in BOOLEAN
  /\ received = "NO_COMMAND" /\ taken = "NO_COMMAND" /\ commandRaced = FALSE

---------------------------------------------------------------------------
(* CO_NMT_receive, in the receive interrupt.                               *)
Receive(command) ==
  /\ internalCommand' = command
  /\ received' = command
  /\ commandRaced' = (commandRaced \/ nmtPc \in {"switch", "clear"})
  /\ UNCHANGED <<nmtPc, state, local, hb, setting, taken>>

(* OD_write_1017, in the SDO server of the mainline task.                  *)
OD_write_1017(time) ==
  /\ nmtPc = "idle" /\ operatingState \in {"PRE_OPERATIONAL", "OPERATIONAL"}
  /\ HBproducerTime' = time
  /\ HBproducerTimer' = 0
  /\ UNCHANGED <<internalCommand, nmtPc, state, local, heartbeat, setting, ghosts>>

---------------------------------------------------------------------------
(* CO_NMT_process                                                          *)

(* Only the first call may come without a time difference.                 *)
Elapsed == IF operatingState = "INITIALIZING" THEN 0..MaxElapsed ELSE 1..MaxElapsed

Boot == operatingState = "INITIALIZING"

(* What is left of the period.                                             *)
Remaining(elapsed) ==
  IF HBproducerTimer > elapsed THEN HBproducerTimer - elapsed ELSE 0

(* The reasons to send.  Mutants: a change of the state is none; the end of *)
(* the period is none.                                                     *)
Due_TimerOnly(elapsed) == Boot \/ (HBproducerTime # 0 /\ Remaining(elapsed) = 0)

Due_ChangeOnly(elapsed) ==
  Boot \/ (HBproducerTime # 0 /\ operatingState # operatingStatePrev)

Due(elapsed) ==
  \/ Boot
  \/ /\ HBproducerTime # 0
     /\ Remaining(elapsed) = 0 \/ operatingState # operatingStatePrev

(* The boot-up message leaves the timer to the first period.               *)
NextTimer(elapsed) ==
  IF Due(elapsed) /\ ~Boot THEN HBproducerTime ELSE Remaining(elapsed)

(* CO_EM_process has just computed the error register.  The heartbeat, or  *)
(* the boot-up message, which starts the node.                             *)
ProcessHeartbeat(elapsed) ==
  /\ nmtPc = "idle" /\ elapsed \in Elapsed
  /\ errorRegister' \in BOOLEAN
  /\ heartbeat' = IF Due(elapsed) THEN operatingState ELSE heartbeat
  /\ HBproducerTimer' = NextTimer(elapsed)
  /\ NMTstateCpy' = IF ~Boot THEN operatingState
                    ELSE IF startup THEN "OPERATIONAL" ELSE "PRE_OPERATIONAL"
  /\ operatingStatePrev' = NMTstateCpy'
  /\ tested' = "NO_COMMAND" /\ resetCommand' = FALSE
  /\ nmtPc' = "test"
  /\ UNCHANGED <<internalCommand, operatingState, HBproducerTime, startup, ghosts>>

TestNone ==
  /\ nmtPc = "test" /\ internalCommand = "NO_COMMAND"
  /\ nmtPc' = "verify"
  /\ UNCHANGED <<internalCommand, state, local, hb, setting, ghosts>>

TestCommand ==
  /\ nmtPc = "test" /\ internalCommand # "NO_COMMAND"
  /\ tested' = internalCommand
  /\ commandRaced' = FALSE
  /\ nmtPc' = "switch"
  /\ UNCHANGED <<internalCommand, state, NMTstateCpy, resetCommand, hb, setting,
                 received, taken>>

(* The state a command asks for; the others leave it alone.                *)
Target(command, current) ==
  CASE command = "ENTER_OPERATIONAL"     -> "OPERATIONAL"
    [] command = "ENTER_STOPPED"         -> "STOPPED"
    [] command = "ENTER_PRE_OPERATIONAL" -> "PRE_OPERATIONAL"
    [] OTHER                             -> current

(* The switch: the slot is not volatile, so the compiler may read it again *)
(* or keep what the test read.                                             *)
TakeCommand ==
  /\ nmtPc = "switch"
  /\ \E command \in {tested, internalCommand} :
       /\ taken' = command
       /\ NMTstateCpy' = Target(command, NMTstateCpy)
       /\ resetCommand' = (command \in {"RESET_NODE", "RESET_COMMUNICATION"})
  /\ nmtPc' = "clear"
  /\ UNCHANGED <<internalCommand, state, tested, hb, setting, received, commandRaced>>

ClearCommand ==
  /\ nmtPc = "clear"
  /\ internalCommand' = "NO_COMMAND"
  /\ nmtPc' = "verify"
  /\ UNCHANGED <<state, local, hb, setting, ghosts>>

(* Transitions by the error register.                                      *)
Verified ==
  IF NMTstateCpy = "OPERATIONAL" /\ errorRegister THEN "PRE_OPERATIONAL" ELSE NMTstateCpy

(* Mutant of Verify: the slot is emptied at the end of the call.           *)
Verify_ClearsSlot ==
  /\ nmtPc = "verify"
  /\ operatingState' = Verified
  /\ internalCommand' = "NO_COMMAND"
  /\ nmtPc' = IF resetCommand THEN "reset" ELSE "idle"
  /\ UNCHANGED <<operatingStatePrev, local, hb, setting, ghosts>>

(* The new state becomes visible.                                          *)
Verify ==
  /\ nmtPc = "verify"
  /\ operatingState' = Verified
  /\ nmtPc' = IF resetCommand THEN "reset" ELSE "idle"
  /\ UNCHANGED <<internalCommand, operatingStatePrev, local, hb, setting, ghosts>>

(* vCanOpenProcess leaves its loop for NVIC_SystemReset, for either reset  *)
(* command, and the node starts again, with the flag now in the flash.     *)
SystemReset ==
  /\ nmtPc = "reset"
  /\ internalCommand' = "NO_COMMAND"
  /\ nmtPc' = "idle"
  /\ operatingState' = "INITIALIZING" /\ operatingStatePrev' = "INITIALIZING"
  /\ NMTstateCpy' = "INITIALIZING" /\ tested' = "NO_COMMAND" /\ resetCommand' = FALSE
  /\ HBproducerTime' = DefaultHbTime
  /\ HBproducerTimer' = Smaller(FirstHbTime, DefaultHbTime)
  /\ heartbeat' = "NONE"
  /\ errorRegister' = FALSE /\ startup' \in BOOLEAN
  /\ received' = "NO_COMMAND" /\ taken' = "NO_COMMAND" /\ commandRaced' = FALSE

---------------------------------------------------------------------------
Mainline ==
  \/ \E elapsed \in 0..MaxElapsed : ProcessHeartbeat(elapsed)
  \/ TestNone \/ TestCommand \/ TakeCommand \/ ClearCommand
  \/ Verify \/ SystemReset

NmtNext ==
  \/ \E command \in Commands : Receive(command)
  \/ \E time \in HbTimes : OD_write_1017(time)
  \/ \E elapsed \in 0..MaxElapsed : ProcessHeartbeat(elapsed)
  \/ TestNone \/ TestCommand \/ TakeCommand \/ ClearCommand
  \/ Verify \/ SystemReset

NmtSpec == NmtInit /\ [][NmtNext]_nmtVars

(* The mainline task wakes at least every 10 ms.                           *)
NmtFairSpec == NmtSpec /\ WF_nmtVars(Mainline)

---------------------------------------------------------------------------
(* Properties                                                              *)

(* While the producer is on and its timer runs, the heartbeat sent last is *)
(* the state the node had when CO_NMT_process was called last; only a      *)
(* change made in that call is not on the bus yet.  (The reasons to send,  *)
(* OD_write_1017 and the boot-up exception of CO_NMT_process.)             *)
HeartbeatTrue ==
  HBproducerTime # 0 /\ HBproducerTimer # 0 /\ heartbeat \notin {"NONE", "INITIALIZING"}
  => heartbeat = operatingStatePrev

(* The one way a command is lost: when the slot is empty between two calls *)
(* the last command received was the last one taken, unless it came after  *)
(* the test of the one before.  (A received 0 empties the slot itself.)    *)
OnlyRaceLosesCommand ==
  nmtPc = "idle" /\ internalCommand = "NO_COMMAND"
  => taken = received \/ received = "NO_COMMAND" \/ commandRaced

(* The operating state never changes without a cause: the start-up, a      *)
(* command taken in the same call, an error that ends the operational      *)
(* state, or a reset; in particular an error that goes away, or a stopped  *)
(* node left alone, changes nothing.  (CO_NMT_process.)                    *)
StateChangesHaveCause ==
  [][operatingState' # operatingState =>
       \/ nmtPc = "reset"
       \/ operatingState = "INITIALIZING"
       \/ tested # "NO_COMMAND" /\ operatingState' = Target(taken, operatingState)
       \/ operatingState' = "PRE_OPERATIONAL" /\ errorRegister]_nmtVars

(* While the producer is on, every state the node stays in gets to the     *)
(* bus, the self-started one included.                                     *)
ReportsState ==
  \A s \in States :
    operatingState = s /\ HBproducerTime # 0
      ~> heartbeat = s \/ operatingState # s \/ HBproducerTime = 0

=============================================================================
