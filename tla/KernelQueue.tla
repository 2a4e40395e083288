---------------------------- MODULE KernelQueue ----------------------------
(***************************************************************************)
(* The queue of the kernel that tasks and interrupts share, and the clock  *)
(* that ends its waits: xQueueReceive, xQueueGenericSend and               *)
(* xQueueGenericSendFromISR with the lock of the queue, the timer task's   *)
(* vQueueWaitForMessageRestricted, vTaskDelay, the tick interrupt with the *)
(* lists of delayed tasks, and the suspension of the scheduler.  The       *)
(* semaphore of the periodic task is a queue of one message without data:  *)
(* xQueueSemaphoreTake is xQueueReceive but for mutexes, which are in      *)
(* Tasks.                                                                  *)
(*                                                                         *)
(* A step is one critical section, or the code up to the next one: between *)
(* two of them an interrupt may come, and while the scheduler is not       *)
(* suspended another task.                                                 *)
(***************************************************************************)
EXTENDS Integers, FiniteSets, FiniteSetsExt

CONSTANTS
  Tasks, Idle,     (* the tasks, of which one is always ready              *)
  Timer,           (* those that wait as the timer task does               *)
  Priority,
  Delays,          (* the delays each task asks for                        *)
  ReceiveWaits,    (* the times it is ready to wait for a message          *)
  SendWaits,       (* and for room for one                                 *)
  TaskMessages,    (* what tasks send                                      *)
  InterruptMessages, (* and what interrupts do                             *)
  None,
  QueueLength,
  TickMod,         (* 2^32: the width of TickType_t                        *)
  MaxPended        (* bound: ticks while the scheduler is suspended        *)

Messages == TaskMessages \cup InterruptMessages

portMAX_DELAY == TickMod - 1
Ticks == 0..portMAX_DELAY

queueUNLOCKED == -1
queueLOCKED_UNMODIFIED == 0

ASSUME KernelAssumption ==
  /\ TickMod \in Nat /\ TickMod > 1
  /\ QueueLength \in Nat \ {0}
  /\ MaxPended \in Nat
  /\ IsFiniteSet(Tasks)
  /\ Idle \in Tasks /\ Timer \subseteq Tasks \ {Idle}
  /\ Priority \in [Tasks -> Nat]
  /\ \A t \in Tasks \ {Idle} : Priority[Idle] < Priority[t]
  /\ Delays \in [Tasks -> SUBSET (Ticks \ {0})]
  /\ ReceiveWaits \in [Tasks -> SUBSET Ticks]
  /\ SendWaits \in [Tasks -> SUBSET Ticks]
  /\ Delays[Idle] = {} /\ ReceiveWaits[Idle] = {} /\ SendWaits[Idle] = {}
  /\ None \notin Messages

VARIABLES
  current,              (* pxCurrentTCB                                    *)
  sched,                (* the lists and the time, what a tick works on    *)
  xYieldPending,
  uxSchedulerSuspended,
  xPendedTicks,
  uxMessagesWaiting,    (* of the queue, and its lock, its ring of         *)
  cTxLock,              (* messages and the positions in it                *)
  ring,
  pcWriteTo,
  pcReadFrom,
  pc,                   (* where in a call of the kernel each task is      *)
  call,                 (* the arguments and variables of that call        *)
  got,                  (* history: the message received last              *)
  elapsed               (* history: ticks since the call began to wait     *)

scheduler == <<current, sched, xYieldPending, uxSchedulerSuspended, xPendedTicks>>
store     == <<uxMessagesWaiting, ring, pcWriteTo, pcReadFrom, got>>
calls     == <<pc, call, elapsed>>
vars      == <<scheduler, store, cTxLock, calls>>

Lists  == {"ready", "delayed", "overflow", "suspended"}
Events == {"none", "receive", "send", "pendingReady"}
Labels == {"run", "try", "suspend", "lock", "test", "place", "unlock", "resume", "empty", "full", "woken"}
Calls  == [op : {"none", "delay", "receive", "send", "restricted"},
           asked : Ticks, xTicksToWait : Ticks, xEntryTimeSet : BOOLEAN,
           xTimeOnEntering : Ticks, wrapped : BOOLEAN,
           next : {"block", "again", "expired"}]
Scheds == [xTickCount : Ticks, xNextTaskUnblockTime : Ticks, list : [Tasks -> Lists],
           xItemValue : [Tasks -> Ticks], event : [Tasks -> Events]]

TypeOK ==
  /\ current \in Tasks
  /\ sched \in Scheds
  /\ {xYieldPending, uxSchedulerSuspended} \subseteq BOOLEAN
  /\ xPendedTicks \in 0..MaxPended
  /\ uxMessagesWaiting \in 0..QueueLength
  /\ cTxLock \in queueUNLOCKED..uxMessagesWaiting
  /\ ring \in [0..QueueLength - 1 -> Messages \cup {None}]
  /\ {pcWriteTo, pcReadFrom} \subseteq 0..QueueLength - 1
  /\ pc \in [Tasks -> Labels]
  /\ call \in [Tasks -> Calls]
  /\ got \in Messages \cup {None}
  /\ elapsed \in [Tasks -> 0..TickMod]

Call(op, wait) ==
  [op |-> op, asked |-> wait, xTicksToWait |-> wait, xEntryTimeSet |-> FALSE,
   xTimeOnEntering |-> 0, wrapped |-> FALSE, next |-> "again"]

(* vTaskStartScheduler, and the creation of the queue.                     *)
Init ==
  /\ sched = [xTickCount |-> 0, xNextTaskUnblockTime |-> portMAX_DELAY,
              list |-> [t \in Tasks |-> "ready"], xItemValue |-> [t \in Tasks |-> 0],
              event |-> [t \in Tasks |-> "none"]]
  /\ current \in {t \in Tasks : \A u \in Tasks : Priority[u] <= Priority[t]}
  /\ xYieldPending = FALSE /\ uxSchedulerSuspended = FALSE /\ xPendedTicks = 0
  /\ uxMessagesWaiting = 0 /\ cTxLock = queueUNLOCKED
  /\ ring = [i \in 0..QueueLength - 1 |-> None]
  /\ pcWriteTo = 0 /\ pcReadFrom = QueueLength - 1
  /\ pc = [t \in Tasks |-> "run"]
  /\ call = [t \in Tasks |-> Call("none", 0)]
  /\ got = None
  /\ elapsed = [t \in Tasks |-> 0]

---------------------------------------------------------------------------
(* The lists of the scheduler                                              *)

In(s, list) == {t \in Tasks : s.list[t] = list}

(* prvResetNextTaskUnblockTime, with the tasks of pxDelayedTaskList        *)
FirstWake(s, delayed) == Min({portMAX_DELAY} \cup {s.xItemValue[t] : t \in delayed})

(* prvAddCurrentTaskToDelayedList                                          *)
Delayed(s, t, wait, forEver) ==
  LET wake == (s.xTickCount + wait) % TickMod IN
  IF wait = portMAX_DELAY /\ forEver
  THEN [s EXCEPT !.list[t] = "suspended"]
  ELSE IF wake < s.xTickCount
  THEN [s EXCEPT !.list[t] = "overflow", !.xItemValue[t] = wake]
  ELSE [s EXCEPT !.list[t] = "delayed", !.xItemValue[t] = wake,
                 !.xNextTaskUnblockTime = IF wake < @ THEN wake ELSE @]

(* xTaskRemoveFromEventList: a task is ready, or waits for the scheduler   *)
(* to be resumed to get ready.                                             *)
Freed(s, t) ==
  IF uxSchedulerSuspended THEN [s EXCEPT !.event[t] = "pendingReady"]
  ELSE [s EXCEPT !.event[t] = "none", !.list[t] = "ready"]

(* The heads that the list of waiting tasks, sorted by priority, may have. *)
Heads(s, event) ==
  {t \in Tasks : s.event[t] = event /\ \A u \in Tasks : s.event[u] = event
                                                    => Priority[u] <= Priority[t]}

(* Mutant of Switched: the lists stay where they are.                      *)
Switched_Not(s) == s

(* taskSWITCH_DELAYED_LISTS: the counter of ticks has come to 0.           *)
Switched(s) ==
  [s EXCEPT !.list = [t \in Tasks |-> CASE @[t] = "delayed"  -> "overflow"
                                       [] @[t] = "overflow" -> "delayed"
                                       [] OTHER             -> @[t]],
            !.xNextTaskUnblockTime = FirstWake(s, In(s, "overflow"))]

(* xTaskIncrementTick while the scheduler is not suspended                 *)
Ticked(s) ==
  LET now  == (s.xTickCount + 1) % TickMod
      u    == IF now = 0 THEN Switched(s) ELSE s
      due  == {t \in In(u, "delayed") : u.xItemValue[t] <= now}
  IN IF now < u.xNextTaskUnblockTime THEN [u EXCEPT !.xTickCount = now]
     ELSE [u EXCEPT !.xTickCount = now,
                    !.list  = [t \in Tasks |-> IF t \in due THEN "ready" ELSE @[t]],
                    !.event = [t \in Tasks |-> IF t \in due THEN "none" ELSE @[t]],
                    !.xNextTaskUnblockTime = FirstWake(u, In(u, "delayed") \ due)]

(* n ticks, one after the other                                            *)
TicksFrom(s, n) ==
  LET after[i \in 0..n] == IF i = 0 THEN s ELSE Ticked(after[i - 1]) IN after[n]

(* Mutant of Preempts: a task that got ready does not preempt.             *)
Preempts_Slices(before, after) ==
  \E t \in In(before, "ready") \ {current} : Priority[t] = Priority[current]

(* A tick asks for another task to run: one that it has made ready, or one *)
(* of the same priority.                                                   *)
Preempts(before, after) ==
  \E t \in In(after, "ready") \ {current} :
    IF before.list[t] = "ready" THEN Priority[t] = Priority[current]
    ELSE Priority[t] >= Priority[current]

(* vTaskSwitchContext: a ready task of the highest priority is next.       *)
Switch ==
  /\ current' \in {t \in In(sched', "ready") :
                     \A u \in In(sched', "ready") : Priority[u] <= Priority[t]}
  /\ xYieldPending' = FALSE

GoOn == UNCHANGED current

(* A task that was freed runs at once when its priority is higher.         *)
YieldTo(t) ==
  IF Priority[t] > Priority[current] THEN Switch ELSE GoOn /\ UNCHANGED xYieldPending

---------------------------------------------------------------------------
(* The clock                                                               *)

(* A wait without end                                                      *)
Endless(t) ==
  \/ call[t].op = "restricted"
  \/ call[t].op \in {"receive", "send"} /\ call[t].asked = portMAX_DELAY

(* The ticks of a call that waits, or of a delay, are counted.             *)
Counts(t) == call[t].op = "delay" \/ (call[t].xEntryTimeSet /\ ~Endless(t))

(* The calls that see the counter of ticks wrap n ticks from now.          *)
Wrapping(n) ==
  call' = [t \in Tasks |->
             IF call[t].xEntryTimeSet /\ sched.xTickCount + n >= TickMod
             THEN [call[t] EXCEPT !.wrapped = TRUE] ELSE call[t]]

(* SysTick_Handler.  Bound: nobody is kept from the processor so long that *)
(* the counter comes round during one call.                                *)
Tick ==
  /\ \A t \in Tasks : elapsed[t] < TickMod
  /\ elapsed' = [t \in Tasks |-> IF Counts(t) THEN elapsed[t] + 1 ELSE 0]
  /\ \/ /\ uxSchedulerSuspended
        /\ xPendedTicks < MaxPended
        /\ xPendedTicks' = xPendedTicks + 1
        /\ UNCHANGED <<current, sched, xYieldPending, call>>
     \/ /\ ~uxSchedulerSuspended
        /\ sched' = Ticked(sched)
        /\ Wrapping(1)
        /\ IF Preempts(sched, sched') \/ xYieldPending THEN Switch
           ELSE GoOn /\ UNCHANGED xYieldPending
        /\ UNCHANGED xPendedTicks
  /\ UNCHANGED <<uxSchedulerSuspended, store, cTxLock, pc>>

Runs(t, label) == current = t /\ pc[t] = label

Goto(t, label) == pc' = [pc EXCEPT ![t] = label]

(* vTaskSuspendAll                                                         *)
SuspendAll == uxSchedulerSuspended' = TRUE

(* vTaskDelay                                                              *)
Delay(t) ==
  \E n \in Delays[t] :
    /\ Runs(t, "run")
    /\ SuspendAll
    /\ sched' = Delayed(sched, t, n, FALSE)
    /\ call' = [call EXCEPT ![t] = [Call("delay", n) EXCEPT !.next = "block"]]
    /\ Goto(t, "resume")
    /\ elapsed' = [elapsed EXCEPT ![t] = 0]
    /\ UNCHANGED <<current, xYieldPending, xPendedTicks, store, cTxLock>>

Return(t) ==
  /\ Goto(t, "run")
  /\ call' = [call EXCEPT ![t] = Call("none", 0)]
  /\ elapsed' = [elapsed EXCEPT ![t] = 0]

(* xTaskResumeAll, and the yield that follows it in any case when the task *)
(* has put itself on a list.                                               *)
ResumeAll(t) ==
  LET pending == {u \in Tasks : sched.event[u] = "pendingReady"}
      moved   == [sched EXCEPT
                    !.list  = [u \in Tasks |-> IF u \in pending THEN "ready" ELSE @[u]],
                    !.event = [u \in Tasks |-> IF u \in pending THEN "none" ELSE @[u]]]
      s       == IF pending = {} THEN sched
                 ELSE [moved EXCEPT !.xNextTaskUnblockTime = FirstWake(moved, In(moved, "delayed"))]
  IN
  /\ Runs(t, "resume")
  /\ uxSchedulerSuspended' = FALSE
  /\ sched' = TicksFrom(s, xPendedTicks)
  /\ Wrapping(xPendedTicks)
  /\ xPendedTicks' = 0
  /\ IF \/ xYieldPending
        \/ \E u \in pending : Priority[u] >= Priority[current]
        \/ xPendedTicks > 0 /\ Preempts(s, sched')
        \/ call[t].next = "block" \/ call[t].op = "restricted"
     THEN Switch ELSE GoOn /\ UNCHANGED xYieldPending
  /\ Goto(t, CASE call[t].op = "delay" -> "woken"
               [] call[t].op # "delay" /\ call[t].next # "expired" -> "try"
               [] call[t].op = "receive" /\ call[t].next = "expired" -> "empty"
               [] OTHER -> "full")
  /\ UNCHANGED <<store, cTxLock, elapsed>>

---------------------------------------------------------------------------
(* The queue                                                               *)

(* Mutant of Put: the end of the ring is not seen.                         *)
Put_NoWrap(m) ==
  /\ ring' = [ring EXCEPT ![pcWriteTo] = m]
  /\ pcWriteTo' = pcWriteTo + 1
  /\ uxMessagesWaiting' = uxMessagesWaiting + 1
  /\ UNCHANGED <<pcReadFrom, got>>

(* prvCopyDataToQueue                                                      *)
Put(m) ==
  /\ ring' = [ring EXCEPT ![pcWriteTo] = m]
  /\ pcWriteTo' = (pcWriteTo + 1) % QueueLength
  /\ uxMessagesWaiting' = uxMessagesWaiting + 1
  /\ UNCHANGED <<pcReadFrom, got>>

(* Mutant of Get: the message is read before the position moves.           *)
Get_Behind ==
  /\ pcReadFrom' = (pcReadFrom + 1) % QueueLength
  /\ got' = ring[pcReadFrom]
  /\ uxMessagesWaiting' = uxMessagesWaiting - 1
  /\ UNCHANGED <<ring, pcWriteTo>>

(* prvCopyDataFromQueue                                                    *)
Get ==
  /\ pcReadFrom' = (pcReadFrom + 1) % QueueLength
  /\ got' = ring[pcReadFrom']
  /\ uxMessagesWaiting' = uxMessagesWaiting - 1
  /\ UNCHANGED <<ring, pcWriteTo>>

(* A task that waits on the other side is freed.                           *)
WakeOne(event) ==
  IF Heads(sched, event) = {} THEN UNCHANGED <<current, sched, xYieldPending>>
  ELSE \E u \in Heads(sched, event) : sched' = Freed(sched, u) /\ YieldTo(u)

Receives == {"receive", "restricted"}

Begin(t, op, wait) ==
  /\ Runs(t, "run")
  /\ call' = [call EXCEPT ![t] = Call(op, wait)]
  /\ UNCHANGED <<scheduler, store, cTxLock, elapsed>>

(* xQueueReceive, xQueueGenericSend, and prvProcessTimerOrBlockTask        *)
BeginReceive(t) == \E n \in ReceiveWaits[t] : Begin(t, "receive", n) /\ Goto(t, "try")
BeginSend(t)    == \E n \in SendWaits[t] : Begin(t, "send", n) /\ Goto(t, "try")
BeginWait(t)    == t \in Timer /\ Begin(t, "restricted", 0) /\ Goto(t, "suspend")

(* The first critical section, with success.  The timer task goes on until *)
(* the queue is empty.                                                     *)
TryReceive(t) ==
  /\ Runs(t, "try") /\ call[t].op \in Receives
  /\ uxMessagesWaiting > 0
  /\ Get
  /\ WakeOne("send")
  /\ IF call[t].op = "receive" THEN Return(t) ELSE UNCHANGED calls
  /\ UNCHANGED <<uxSchedulerSuspended, xPendedTicks, cTxLock>>

TrySend(t) ==
  /\ Runs(t, "try") /\ call[t].op = "send"
  /\ uxMessagesWaiting < QueueLength
  /\ \E m \in TaskMessages : Put(m)
  /\ WakeOne("receive")
  /\ Return(t)
  /\ UNCHANGED <<uxSchedulerSuspended, xPendedTicks, cTxLock>>

Impossible(t) ==
  IF call[t].op = "send" THEN uxMessagesWaiting = QueueLength ELSE uxMessagesWaiting = 0

(* ... and without it: the call fails, or begins to wait.                  *)
TryFails(t) ==
  /\ Runs(t, "try") /\ Impossible(t)
  /\ IF call[t].xTicksToWait = 0 THEN Return(t)
     ELSE /\ call' = IF call[t].xEntryTimeSet THEN call
                     ELSE [call EXCEPT ![t].xEntryTimeSet = TRUE,
                                       ![t].xTimeOnEntering = sched.xTickCount]
          /\ Goto(t, "suspend")
          /\ UNCHANGED elapsed
  /\ UNCHANGED <<scheduler, store, cTxLock>>

(* The timer task does not wait when the counter of ticks has wrapped      *)
(* since it looked last.                                                   *)
Suspend(t) ==
  /\ Runs(t, "suspend")
  /\ SuspendAll
  /\ Goto(t, "lock") \/ (call[t].op = "restricted" /\ Goto(t, "resume"))
  /\ UNCHANGED <<current, sched, xYieldPending, xPendedTicks, store, cTxLock, call, elapsed>>

(* Mutant of Renewed: the entry time stays.                                *)
Renewed_OldEntry(c, passed) ==
  [c EXCEPT !.xTicksToWait = @ - passed, !.wrapped = FALSE, !.next = "again"]

(* xTaskCheckForTimeOut: the variables of the call after it.  A wait that  *)
(* is not over is begun anew with the rest of its time.                    *)
Renewed(c, passed) ==
  [c EXCEPT !.xTicksToWait = @ - passed, !.xTimeOnEntering = sched.xTickCount,
            !.wrapped = FALSE, !.next = "again"]

Checked(c) ==
  LET passed  == (sched.xTickCount - c.xTimeOnEntering) % TickMod
      endless == c.op = "restricted" \/ c.xTicksToWait = portMAX_DELAY
      around  == c.wrapped /\ sched.xTickCount >= c.xTimeOnEntering
  IN CASE endless -> [c EXCEPT !.next = "again"]
       [] ~endless /\ ~around /\ passed < c.xTicksToWait -> Renewed(c, passed)
       [] OTHER -> [c EXCEPT !.xTicksToWait = 0, !.next = "expired"]

(* prvLockQueue, and the check whether the time is up                      *)
Lock(t) ==
  /\ Runs(t, "lock")
  /\ cTxLock' = IF cTxLock = queueUNLOCKED THEN queueLOCKED_UNMODIFIED ELSE cTxLock
  /\ call' = [call EXCEPT ![t] = Checked(@)]
  /\ Goto(t, IF call'[t].next = "expired" THEN "unlock" ELSE "test")
  /\ UNCHANGED <<scheduler, store, elapsed>>

(* prvIsQueueEmpty, prvIsQueueFull                                         *)
Test(t) ==
  /\ Runs(t, "test")
  /\ Goto(t, IF Impossible(t) THEN "place" ELSE "unlock")
  /\ UNCHANGED <<scheduler, store, cTxLock, call, elapsed>>

(* vTaskPlaceOnEventList, vTaskPlaceOnEventListRestricted                  *)
Place(t) ==
  /\ Runs(t, "place")
  /\ sched' = [(IF call[t].op = "restricted" THEN Delayed(sched, t, portMAX_DELAY, TRUE)
                ELSE Delayed(sched, t, call[t].xTicksToWait, TRUE))
               EXCEPT !.event[t] = IF call[t].op = "send" THEN "send" ELSE "receive"]
  /\ call' = [call EXCEPT ![t].next = "block"]
  /\ Goto(t, "unlock")
  /\ UNCHANGED <<current, xYieldPending, uxSchedulerSuspended, xPendedTicks, store, cTxLock,
                 elapsed>>

(* Mutant of Woken: what the lock has counted is forgotten.                *)
Woken_None(waiting) == 0

(* prvUnlockQueue: for each message that an interrupt sent meanwhile one   *)
(* of the waiting tasks, the highest first, is freed.  No interrupt takes  *)
(* messages, so that cRxLock has nothing to count.                         *)
Woken(waiting) == Min({cTxLock, Cardinality(waiting)})

Unlock(t) ==
  LET waiting == {u \in Tasks : sched.event[u] = "receive"} IN
  /\ Runs(t, "unlock")
  /\ \E freed \in SUBSET waiting :
       /\ Cardinality(freed) = Woken(waiting)
       /\ \A u \in freed, v \in waiting \ freed : Priority[v] <= Priority[u]
       /\ sched' = [sched EXCEPT !.event = [u \in Tasks |-> IF u \in freed THEN "pendingReady"
                                                            ELSE @[u]]]
       /\ xYieldPending' = (xYieldPending \/ \E u \in freed : Priority[u] > Priority[t])
  /\ cTxLock' = queueUNLOCKED
  /\ Goto(t, "resume")
  /\ UNCHANGED <<current, uxSchedulerSuspended, xPendedTicks, store, call, elapsed>>

(* The call gives up; a receiver looks once more.                          *)
GiveUp(t) ==
  /\ \/ Runs(t, "full")
     \/ Runs(t, "empty") /\ uxMessagesWaiting = 0
     \/ Runs(t, "woken")
  /\ Return(t)
  /\ UNCHANGED <<scheduler, store, cTxLock>>

OnceMore(t) ==
  /\ Runs(t, "empty") /\ uxMessagesWaiting > 0
  /\ Goto(t, "try")
  /\ UNCHANGED <<scheduler, store, cTxLock, call, elapsed>>

(* xQueueGenericSendFromISR: with the queue locked, the tasks that wait    *)
(* are left to the one that unlocks it.  The caller does not ask whether a *)
(* task of higher priority was freed: it runs after the next tick.         *)
InterruptSend ==
  /\ uxMessagesWaiting < QueueLength
  /\ \E m \in InterruptMessages : Put(m)
  /\ \/ /\ cTxLock = queueUNLOCKED
        /\ UNCHANGED cTxLock
        /\ IF Heads(sched, "receive") = {} THEN UNCHANGED <<sched, xYieldPending>>
           ELSE \E u \in Heads(sched, "receive") :
                  /\ sched' = Freed(sched, u)
                  /\ xYieldPending' = (xYieldPending \/ Priority[u] > Priority[current])
     \/ /\ cTxLock # queueUNLOCKED
        /\ cTxLock' = cTxLock + 1
        /\ UNCHANGED <<sched, xYieldPending>>
  /\ UNCHANGED <<current, uxSchedulerSuspended, xPendedTicks, calls>>

---------------------------------------------------------------------------
Begins(t) == Delay(t) \/ BeginReceive(t) \/ BeginSend(t) \/ BeginWait(t)

Continues(t) == TryReceive(t) \/ TrySend(t) \/ TryFails(t) \/ Suspend(t) \/ Lock(t) \/ Test(t)
                \/ Place(t) \/ Unlock(t) \/ ResumeAll(t) \/ GiveUp(t) \/ OnceMore(t)

Next == Tick \/ InterruptSend \/ \E t \in Tasks : Begins(t) \/ Continues(t)

Spec == Init /\ [][Next]_vars

---------------------------------------------------------------------------
(* Properties                                                              *)

Waits(t) == sched.list[t] \in {"delayed", "overflow"}

(* Nobody sleeps or waits longer than he asked for, across every wrap of   *)
(* the counter, every wait that was begun anew with the rest of its time,  *)
(* and every tick that came while the scheduler was suspended.             *)
(* (prvAddCurrentTaskToDelayedList, xTaskIncrementTick.)                   *)
NobodyLate == \A t \in Tasks : Waits(t) => elapsed[t] - xPendedTicks < call[t].asked

(* No call gives up, and no delay ends, before the time asked for is over. *)
(* (xTaskCheckForTimeOut, vTaskDelay.)                                     *)
NobodyEarly ==
  [][\A t \in Tasks : GiveUp(t) => elapsed[t] >= call[t].asked /\ ~Endless(t)]_vars

(* The tasks that are about to look whether there is a message, or room.   *)
Eager(ops) ==
  {u \in Tasks : /\ call[u].op \in ops
                 /\ \/ pc[u] = "try" /\ sched.list[u] = "ready"
                    \/ sched.event[u] = "pendingReady"}

Counted == IF cTxLock = queueUNLOCKED THEN 0 ELSE cTxLock

(* Nobody waits for what is there: while a task waits for a message, each  *)
(* message there is has a receiver that is about to look, or has been      *)
(* counted by the lock of the queue, for the task that unlocks it.  The    *)
(* same for room, which is given only when the queue is not locked.        *)
(* (prvLockQueue, prvUnlockQueue, xQueueGenericSendFromISR.)               *)
NoLostWakeup ==
  \A t \in Tasks :
    /\ sched.event[t] = "receive" => uxMessagesWaiting <= Cardinality(Eager(Receives)) + Counted
    /\ sched.event[t] = "send"
         => QueueLength - uxMessagesWaiting <= Cardinality(Eager({"send"}))

(* The lists agree: who is ready waits for nothing, who waits for an event *)
(* is on a list of those who sleep, tasks are pending and the queue is     *)
(* locked only while the scheduler is suspended, a ready task of a higher  *)
(* priority than the running one runs after the next tick, and no task is  *)
(* left on the list of delayed tasks that is about to be switched, which   *)
(* taskSWITCH_DELAYED_LISTS asserts.  (xTaskRemoveFromEventList,           *)
(* xTaskResumeAll, vTaskSwitchContext, xTaskIncrementTick.)                *)
ListsSound ==
  /\ \A t \in Tasks :
       /\ sched.event[t] # "none" => sched.list[t] # "ready"
       /\ sched.event[t] = "pendingReady" => uxSchedulerSuspended
       /\ sched.list[t] = "ready" /\ Priority[t] > Priority[current] => xYieldPending
  /\ cTxLock # queueUNLOCKED => uxSchedulerSuspended
  /\ sched.xTickCount = portMAX_DELAY => In(sched, "delayed") = {}
  /\ uxSchedulerSuspended \/ sched.list[current] = "ready"

(* The queue hands out every message once and in order, round the end of   *)
(* its ring.  (prvCopyDataToQueue, prvCopyDataFromQueue.)                  *)
Contents == [i \in 1..uxMessagesWaiting |-> ring[(pcReadFrom + i) % QueueLength]]

Promise == INSTANCE MessageQueue WITH queue <- Contents

QueueKept == Promise!Spec

=============================================================================
