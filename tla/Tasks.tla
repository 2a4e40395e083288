------------------------------- MODULE Tasks -------------------------------
(***************************************************************************)
(* The tasks of the program, the locks between them, their start, and the  *)
(* restart of the node: vCanOpenProcess (here "mainline") and              *)
(* vCanOpenPeriodicProcess ("periodic") in CanOpenNode.c, StartDefaultTask *)
(* and vRestartNode in system_init.c, over the parts of the FreeRTOS       *)
(* kernel they stand on: the preemptive scheduler, the recursive mutex     *)
(* co_mutex with its priority inheritance, the semaphore of the periodic   *)
(* task, the event group RESTART_DISABLE and the queue of the timer task.  *)
(*                                                                         *)
(* A step is one call of the kernel, or the code between two of them.      *)
(* Timeouts expire at any moment.  What the tasks do between the calls is  *)
(* in the other modules.                                                   *)
(***************************************************************************)
EXTENDS Integers

CONSTANTS
  Priority,    (* the priorities the tasks are created with                *)
  QueueLength  (* configTIMER_QUEUE_LENGTH                                 *)

(* "process" and "keyboard" are vProcessTask and vKeyboardTask, which take *)
(* no lock; "timer" and "idle" are tasks of the kernel.                    *)
Tasks == {"timer", "process", "mainline", "periodic", "keyboard", "default", "idle"}

NoTask == "none"

ASSUME TasksAssumption ==
  /\ Priority \in [Tasks -> Nat]
  /\ Priority["periodic"] < Priority["mainline"]
  /\ \A t \in Tasks \ {"idle"} : Priority["idle"] < Priority[t]
  /\ QueueLength \in Nat \ {0}

VARIABLES
  current,     (* pxCurrentTCB                                             *)
  status,      (* what every task waits for                                *)
  uxPriority,  (* its priority, inherited or its own                       *)
  pc,          (* where the tasks of the CANopen stack and the default     *)
               (* task are                                                 *)
  sleep,       (* for mainline and periodic: max_sleep_time_us >= 1000     *)
  created,     (* co_drv_create_os_objects is done                         *)
  holder,      (* xMutexHolder of co_mutex                                 *)
  count,       (* uxRecursiveCallCount of co_mutex                         *)
  given,       (* the semaphore of the periodic task has been given        *)
  canOn,       (* the interrupts of the CAN controller are enabled         *)
  CANnormal,   (* CANmodule->CANnormal                                     *)
  reset,       (* a command to reset was processed                         *)
  disable,     (* the bit RESTART_DISABLE                                  *)
  pended,      (* the calls in the queue of the timer task                 *)
  halted,      (* a configASSERT failed                                    *)
  off          (* history: a bus-off since the default task set the bit    *)

kernel == <<current, status, uxPriority>>
mutex  == <<created, holder, count>>
node   == <<sleep, canOn, CANnormal, reset>>
wdt    == <<disable, pended, off>>
vars   == <<kernel, pc, mutex, given, node, wdt, halted>>

Waits  == {"ready", "delay", "mutex", "semaphore", "event", "queue"}
Labels == {"create", "lockStart", "init", "normal", "unlock", "wait", "woken", "lock",
           "process", "wake", "reset", "start", "feed"}
Users  == {"mainline", "periodic"}

TypeOK ==
  /\ current \in Tasks
  /\ status \in [Tasks -> Waits]
  /\ uxPriority \in [Tasks -> Nat]
  /\ pc \in [Users \cup {"default"} -> Labels]
  /\ sleep \in [Users -> BOOLEAN]
  /\ created \in BOOLEAN
  /\ holder \in Users \cup {NoTask}
  /\ count \in Nat
  /\ {given, canOn, CANnormal, reset, disable, halted, off} \subseteq BOOLEAN
  /\ pended \in 0..QueueLength

---------------------------------------------------------------------------
(* The start, and the restart                                              *)

(* main, as far as vTaskStartScheduler: every task is ready.               *)
Init ==
  /\ status = [t \in Tasks |-> "ready"]
  /\ uxPriority = Priority
  /\ current \in {t \in Tasks : \A u \in Tasks : Priority[u] <= Priority[t]}
  /\ pc = [mainline |-> "create", periodic |-> "lockStart", default |-> "start"]
  /\ sleep = [t \in Users |-> FALSE]
  /\ created = FALSE /\ holder = NoTask /\ count = 0 /\ given = FALSE
  /\ canOn = FALSE /\ CANnormal = FALSE /\ reset = FALSE
  /\ disable = FALSE /\ pended = 0
  /\ halted = FALSE /\ off = FALSE

Restart ==
  /\ status' = [t \in Tasks |-> "ready"]
  /\ uxPriority' = Priority
  /\ current' \in {t \in Tasks : \A u \in Tasks : Priority[u] <= Priority[t]}
  /\ pc' = [mainline |-> "create", periodic |-> "lockStart", default |-> "start"]
  /\ sleep' = [t \in Users |-> FALSE]
  /\ created' = FALSE /\ holder' = NoTask /\ count' = 0 /\ given' = FALSE
  /\ canOn' = FALSE /\ CANnormal' = FALSE /\ reset' = FALSE
  /\ disable' = FALSE /\ pended' = 0
  /\ halted' = FALSE /\ off' = FALSE

(* The watchdog, started in vInit_DeviceConfig, resets the processor when  *)
(* the default task feeds it no longer, or after a configASSERT.           *)
Watchdog == (halted \/ status["default"] = "event") /\ Restart

---------------------------------------------------------------------------
(* The scheduler                                                           *)

Runs(t) == current = t /\ ~halted

(* vTaskSwitchContext: a ready task of the highest priority is next.       *)
Schedule ==
  current' \in {t \in Tasks : /\ status'[t] = "ready"
                              /\ \A u \in Tasks : status'[u] = "ready"
                                                  => uxPriority'[u] <= uxPriority'[t]}

Continue == current' = current

(* The running task waits.                                                 *)
Block(t, why) ==
  /\ status' = [status EXCEPT ![t] = why]
  /\ UNCHANGED uxPriority
  /\ Schedule

Goto(t, label) == pc' = [pc EXCEPT ![t] = label]

(* xTaskIncrementTick: a timeout expires, or tasks of equal priority take  *)
(* turns; the highest ready task is switched to.                           *)
Tick ==
  /\ ~halted
  /\ \/ UNCHANGED status
     \/ \E t \in Tasks : /\ status[t] \in {"delay", "semaphore"}
                         /\ status' = [status EXCEPT ![t] = "ready"]
  /\ UNCHANGED uxPriority
  /\ Schedule
  /\ UNCHANGED <<pc, mutex, given, node, wdt, halted>>

---------------------------------------------------------------------------
(* The mutex                                                               *)

(* Mutant of Inherited: nothing is inherited.                              *)
Inherited_None(t) == uxPriority

(* xTaskPriorityInherit: the holder takes over the priority of a task that *)
(* begins to wait.                                                         *)
Inherited(t) ==
  [uxPriority EXCEPT ![holder] = IF @ < uxPriority[t] THEN uxPriority[t] ELSE @]

(* co_drv_mutex_lock with an endless wait: xQueueTakeMutexRecursive and    *)
(* xQueueSemaphoreTake.  A task that waited takes the mutex in a second    *)
(* attempt of the same call, and may find it taken again.                  *)
Lock(t, next) ==
  \/ /\ ~created
     /\ halted' = TRUE
     /\ UNCHANGED <<kernel, pc, mutex>>
  \/ /\ created /\ holder \in {NoTask, t}
     /\ holder' = t /\ count' = count + 1
     /\ Goto(t, next)
     /\ UNCHANGED <<kernel, created, halted>>
  \/ /\ created /\ holder \notin {NoTask, t}
     /\ status' = [status EXCEPT ![t] = "mutex"]
     /\ uxPriority' = Inherited(t)
     /\ Schedule
     /\ UNCHANGED <<pc, mutex, halted>>

(* Mutant of Woken: the waiting task is not woken.                         *)
Woken_None == status

(* xTaskRemoveFromEventList: the task that waits for the mutex, of the two *)
(* there can only be one, is ready to try again.                           *)
Woken == [u \in Tasks |-> IF status[u] = "mutex" THEN "ready" ELSE status[u]]

(* co_drv_mutex_unlock: xQueueGiveMutexRecursive, xQueueGenericSend and    *)
(* xTaskPriorityDisinherit.  The processor goes to another task at once    *)
(* when the priority was inherited or a task with a higher one is woken.   *)
Unlock(t) ==
  \/ /\ holder = t /\ count = 1
     /\ holder' = NoTask /\ count' = 0
     /\ status' = Woken
     /\ uxPriority' = [uxPriority EXCEPT ![t] = Priority[t]]
     /\ IF \/ uxPriority[t] # Priority[t]
           \/ \E u \in Tasks : status[u] = "mutex" /\ uxPriority[u] > Priority[t]
        THEN Schedule ELSE Continue
  \/ /\ holder = t /\ count > 1
     /\ count' = count - 1
     /\ UNCHANGED <<kernel, holder>>
  \/ /\ holder # t
     /\ UNCHANGED <<kernel, holder, count>>

---------------------------------------------------------------------------
(* The mainline task, vCanOpenProcess                                      *)

Create ==
  /\ Runs("mainline") /\ pc["mainline"] = "create"
  /\ created' = TRUE
  /\ Goto("mainline", "lockStart")
  /\ UNCHANGED <<kernel, holder, count, given, node, wdt, halted>>

LockStart ==
  /\ Runs("mainline") /\ pc["mainline"] = "lockStart"
  /\ Lock("mainline", "init")
  /\ UNCHANGED <<given, node, wdt>>

(* CO_CANinit, CO_CANopenInit and CO_CANopenInitPDO; the interrupts of the *)
(* controller are enabled in the first of them.                            *)
InitNode ==
  /\ Runs("mainline") /\ pc["mainline"] = "init"
  /\ canOn' = TRUE
  /\ Goto("mainline", "normal")
  /\ UNCHANGED <<kernel, mutex, given, sleep, CANnormal, reset, wdt, halted>>

(* CO_CANsetNormalMode, which leaves CANnormal as it is when the           *)
(* controller does not answer.                                             *)
SetNormal ==
  /\ Runs("mainline") /\ pc["mainline"] = "normal"
  /\ CANnormal' \in {TRUE, CANnormal}
  /\ Goto("mainline", "unlock")
  /\ UNCHANGED <<kernel, mutex, given, sleep, canOn, reset, wdt, halted>>

MainUnlock ==
  /\ Runs("mainline") /\ pc["mainline"] = "unlock"
  /\ Unlock("mainline")
  /\ Goto("mainline", IF reset THEN "reset" ELSE "wait")
  /\ UNCHANGED <<created, given, node, wdt, halted>>

(* CO_WAIT_SYNC_APP_THREAD: nothing gives this semaphore.                  *)
MainWait ==
  /\ Runs("mainline") /\ pc["mainline"] = "wait"
  /\ Goto("mainline", "lock")
  /\ IF sleep["mainline"] THEN Block("mainline", "delay") ELSE UNCHANGED kernel
  /\ UNCHANGED <<mutex, given, node, wdt, halted>>

MainLock ==
  /\ Runs("mainline") /\ pc["mainline"] = "lock"
  /\ Lock("mainline", "process")
  /\ UNCHANGED <<given, node, wdt>>

(* CO_process sets the time to sleep and may answer a command to reset.    *)
MainProcess ==
  /\ Runs("mainline") /\ pc["mainline"] = "process"
  /\ \E s \in BOOLEAN : sleep' = [sleep EXCEPT !["mainline"] = s]
  /\ reset' \in BOOLEAN
  /\ Goto("mainline", "wake")
  /\ UNCHANGED <<kernel, mutex, given, canOn, CANnormal, wdt, halted>>

(* CO_WAKEUP_PERIODIC_THREAD                                               *)
MainWake ==
  /\ Runs("mainline") /\ pc["mainline"] = "wake"
  /\ given' = TRUE
  /\ status' = IF status["periodic"] = "semaphore"
               THEN [status EXCEPT !["periodic"] = "ready"] ELSE status
  /\ IF status["periodic"] = "semaphore" /\ uxPriority["periodic"] > uxPriority["mainline"]
     THEN Schedule ELSE Continue
  /\ Goto("mainline", "unlock")
  /\ UNCHANGED <<uxPriority, mutex, node, wdt, halted>>

MainReset == Runs("mainline") /\ pc["mainline"] = "reset" /\ Restart

---------------------------------------------------------------------------
(* The periodic task, vCanOpenPeriodicProcess                              *)

PeriodicLock ==
  /\ Runs("periodic") /\ pc["periodic"] \in {"lockStart", "lock"}
  /\ Lock("periodic", IF pc["periodic"] = "lockStart" THEN "unlock" ELSE "process")
  /\ UNCHANGED <<given, node, wdt>>

PeriodicUnlock ==
  /\ Runs("periodic") /\ pc["periodic"] = "unlock"
  /\ Unlock("periodic")
  /\ Goto("periodic", "wait")
  /\ UNCHANGED <<created, given, node, wdt, halted>>

(* CO_WAIT_SYNC_PERIODIC_THREAD; the first wait is no wait.                *)
PeriodicWait ==
  /\ Runs("periodic") /\ pc["periodic"] = "wait"
  /\ Goto("periodic", "woken")
  /\ IF sleep["periodic"] /\ ~given THEN Block("periodic", "semaphore")
     ELSE UNCHANGED kernel
  /\ UNCHANGED <<mutex, given, node, wdt, halted>>

PeriodicWoken ==
  /\ Runs("periodic") /\ pc["periodic"] = "woken"
  /\ given' = FALSE
  /\ Goto("periodic", "lock")
  /\ UNCHANGED <<kernel, mutex, node, wdt, halted>>

(* The RPDOs and TPDOs, or the "continue" of a node not in normal mode.    *)
PeriodicProcess ==
  /\ Runs("periodic") /\ pc["periodic"] = "process"
  /\ sleep' = [sleep EXCEPT !["periodic"] = TRUE]
  /\ Goto("periodic", "unlock")
  /\ UNCHANGED <<kernel, mutex, given, canOn, CANnormal, reset, wdt, halted>>

---------------------------------------------------------------------------
(* The other tasks                                                         *)

(* vTaskDelay of vProcessTask and vKeyboardTask                            *)
OtherDelay ==
  \E t \in {"process", "keyboard"} :
    /\ Runs(t)
    /\ Block(t, "delay")
    /\ UNCHANGED <<pc, mutex, given, node, wdt, halted>>

(* StartDefaultTask, xEventGroupSetBits                                    *)
SetBits ==
  /\ Runs("default") /\ pc["default"] = "start"
  /\ disable' = TRUE
  /\ Goto("default", "wait")
  /\ UNCHANGED <<kernel, mutex, given, node, pended, off, halted>>

(* Mutant of WaitBits: the task does not wait.                             *)
WaitBits_Always ==
  /\ Runs("default") /\ pc["default"] = "wait"
  /\ Block("default", "delay") /\ Goto("default", "feed")
  /\ UNCHANGED <<mutex, given, node, wdt, halted>>

(* xEventGroupWaitBits, and vTaskDelay when the bit is set.                *)
WaitBits ==
  /\ Runs("default") /\ pc["default"] = "wait"
  /\ IF disable THEN Block("default", "delay") /\ Goto("default", "feed")
     ELSE Block("default", "event") /\ UNCHANGED pc
  /\ UNCHANGED <<mutex, given, node, wdt, halted>>

(* HAL_WDTInit feeds the watchdog.                                         *)
Feed ==
  /\ Runs("default") /\ pc["default"] = "feed"
  /\ Goto("default", "wait")
  /\ UNCHANGED <<kernel, mutex, given, node, wdt, halted>>

(* The timer task: prvProcessReceivedCommands calls                        *)
(* vEventGroupClearBitsCallback, or the task waits for its queue.          *)
TimerTask ==
  /\ Runs("timer")
  /\ \/ /\ pended > 0
        /\ pended' = pended - 1 /\ disable' = FALSE
        /\ UNCHANGED <<kernel, off>>
     \/ /\ pended = 0
        /\ Block("timer", "queue")
        /\ UNCHANGED wdt
  /\ UNCHANGED <<pc, mutex, given, node, halted>>

---------------------------------------------------------------------------
(* The interrupt of the CAN controller at bus-off                          *)

(* CAN1_SCE_IRQHandler, vRestartNode, xEventGroupClearBitsFromISR: a full  *)
(* queue refuses the call.  The running task goes on until the next tick.  *)
BusOff ==
  /\ canOn /\ ~halted
  /\ \/ /\ pended < QueueLength
        /\ pended' = pended + 1
        /\ status' = [status EXCEPT !["timer"] = "ready"]
     \/ /\ pended = QueueLength
        /\ UNCHANGED <<pended, status>>
  /\ off' = (off \/ pc["default"] # "start")
  /\ UNCHANGED <<current, uxPriority, pc, mutex, given, node, disable, halted>>

---------------------------------------------------------------------------
Mainline == Create \/ LockStart \/ InitNode \/ SetNormal \/ MainUnlock \/ MainWait
            \/ MainLock \/ MainProcess \/ MainWake \/ MainReset

Periodic == PeriodicLock \/ PeriodicUnlock \/ PeriodicWait \/ PeriodicWoken
            \/ PeriodicProcess

Next == Watchdog \/ Tick \/ Mainline \/ Periodic \/ OtherDelay \/ SetBits \/ WaitBits
        \/ Feed \/ TimerTask \/ BusOff

Spec == Init /\ [][Next]_vars

(* Every timeout expires.  The watchdog resets the processor.              *)
FairSpec ==
  /\ Spec
  /\ \A t \in Tasks : WF_vars(Tick /\ status[t] # "ready" /\ status'[t] = "ready")
  /\ WF_vars(Tick)
  /\ WF_vars(Watchdog)

(* The processor is not overloaded: again and again all work is done.      *)
NotOverloaded == []<>(current = "idle")

---------------------------------------------------------------------------
(* Properties                                                              *)

(* The lock exists before any task asks for it, though nothing but the     *)
(* priorities sees to it; its holder never sleeps or waits with it; who    *)
(* waits for it has lent his priority to the holder, and nobody else keeps *)
(* a priority that is not his own.                                         *)
MutexKept ==
  /\ ~halted
  /\ holder # NoTask => status[holder] = "ready" /\ count = 1
  /\ \A t \in Tasks :
       /\ status[t] = "mutex" => holder # NoTask /\ uxPriority[holder] >= Priority[t]
       /\ uxPriority[t] # Priority[t] => t = holder

(* While a task waits for the lock, no task of a lower priority runs but   *)
(* with the priority that the waiting task has lent to it.                 *)
NoInversion == \A t \in Tasks : status[t] = "mutex" => uxPriority[current] >= Priority[t]

(* The lock between the tasks is sound, and no task waits for it longer    *)
(* than its holder and tasks of its own or a higher priority run.          *)
(* (vCanOpenProcess and vCanOpenPeriodicProcess over xQueueSemaphoreTake,  *)
(* xTaskPriorityInherit and xTaskPriorityDisinherit.)                      *)
MutexSound == MutexKept /\ NoInversion

(* Neither task of the CANopen stack starves: each gets the mutex again    *)
(* and again or the node restarts, although the mainline task may take it  *)
(* again before the periodic task, which it has woken, can run.            *)
TasksServed ==
  NotOverloaded =>
    \A t \in Users : created ~> (pc[t] = "process" \/ ~created)

(* After a bus-off the node restarts, the calls that a full queue refused  *)
(* included, unless the bus-off came before the default task set           *)
(* RESTART_DISABLE for the first time.  (vRestartNode, StartDefaultTask.)  *)
BusOffRestarts == NotOverloaded => (off ~> ~off)

=============================================================================
