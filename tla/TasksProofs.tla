----------------------------- MODULE TasksProofs -----------------------------
(***************************************************************************)
(* Proofs about module Tasks: for all priorities with the periodic task    *)
(* below the mainline task, and every length of the timer task's queue,    *)
(* the lock exists when it is asked for, is never held by a task that      *)
(* sleeps, whoever waits for it has lent his priority, and no task below   *)
(* that priority runs meanwhile.                                           *)
(***************************************************************************)
EXTENDS Tasks, TLAPS

(* The running task is ready.  Until the mainline task has created the     *)
(* lock it stays ready, which keeps the periodic task from running.        *)
Running ==
  /\ ~halted
  /\ status[current] = "ready"
  /\ ~created => status["mainline"] = "ready" /\ current # "periodic" /\ holder = NoTask

(* Where the tasks are when they hold the lock.                            *)
MainHolds     == {"init", "normal", "unlock", "process", "wake"}
PeriodicHolds == {"unlock", "process"}

Places ==
  /\ holder = "mainline" <=> pc["mainline"] \in MainHolds
  /\ holder = "periodic" <=> pc["periodic"] \in PeriodicHolds
  /\ created <=> pc["mainline"] # "create"
  /\ count = IF holder = NoTask THEN 0 ELSE 1

IInv == TypeOK /\ Running /\ Places /\ MutexKept

USE TasksAssumption

---------------------------------------------------------------------------
(* The scheduler                                                           *)

(* A step that changes no priority and not the lock, and lets no task wait *)
(* that holds it, keeps the lock sound, whichever task is switched to.     *)
LEMMA KernelKeeps ==
  ASSUME IInv,
         UNCHANGED <<uxPriority, mutex, halted>>,
         status' \in [Tasks -> Waits],
         Schedule \/ (Continue /\ status'[current] = "ready"),
         \A t \in Tasks : status'[t] = "mutex" => status[t] = "mutex",
         holder # NoTask => status'[holder] = "ready",
         ~created => status'["mainline"] = "ready"
  PROVE  current' \in Tasks /\ Running' /\ MutexKept'
<1>1. current' \in Tasks /\ status'[current'] = "ready"
  BY DEF Schedule, Continue, IInv, TypeOK
<1>2. ~created => current' # "periodic"
  <2> SUFFICES ASSUME ~created PROVE current' # "periodic"
    OBVIOUS
  <2>1. uxPriority["mainline"] = Priority["mainline"]
        /\ uxPriority["periodic"] = Priority["periodic"]
    BY DEF IInv, Running, MutexKept, Tasks, NoTask
  <2>2. CASE Schedule
    <3>1. \A u \in Tasks : status'[u] = "ready" => uxPriority[u] <= uxPriority[current']
      BY <2>2 DEF Schedule
    <3>2. Priority["mainline"] <= uxPriority[current']
      BY <2>1, <3>1 DEF Tasks
    <3>. QED
      BY <2>1, <3>2 DEF Tasks
  <2>3. CASE Continue
    BY <2>3 DEF Continue, IInv, Running
  <2>. QED
    BY <2>2, <2>3
<1>3. Running'
  BY <1>1, <1>2 DEF IInv, Running, mutex
<1>4. MutexKept'
  BY DEF IInv, MutexKept, mutex
<1>. QED
  BY <1>1, <1>3, <1>4

LEMMA SameKernel ==
  ASSUME IInv, UNCHANGED <<kernel, mutex, halted>>
  PROVE  /\ current' \in Tasks /\ status' \in [Tasks -> Waits]
         /\ uxPriority' \in [Tasks -> Nat]
         /\ Running' /\ MutexKept'
  BY DEF IInv, TypeOK, Running, MutexKept, kernel, mutex

(* A task that does not hold the lock waits.                               *)
LEMMA BlockKeeps ==
  ASSUME IInv, NEW t \in Tasks, t # holder, created \/ t # "mainline",
         NEW why \in Waits \ {"mutex"},
         Block(t, why), UNCHANGED <<mutex, halted>>
  PROVE  /\ current' \in Tasks /\ status' \in [Tasks -> Waits]
         /\ uxPriority' \in [Tasks -> Nat]
         /\ Running' /\ MutexKept'
<1>1. /\ status' = [status EXCEPT ![t] = why]
      /\ uxPriority' = uxPriority /\ Schedule
  BY DEF Block
<1>2. status' \in [Tasks -> Waits]
  BY <1>1 DEF IInv, TypeOK
<1>3. /\ \A u \in Tasks : status'[u] = "mutex" => status[u] = "mutex"
      /\ holder # NoTask => status'[holder] = "ready"
      /\ ~created => status'["mainline"] = "ready"
  BY <1>1 DEF IInv, TypeOK, Running, MutexKept, Tasks, Users
<1>4. current' \in Tasks /\ Running' /\ MutexKept'
  BY <1>1, <1>2, <1>3, KernelKeeps
<1>. QED
  BY <1>1, <1>2, <1>4 DEF IInv, TypeOK

---------------------------------------------------------------------------
(* The lock                                                                *)

LEMMA LockKeeps ==
  ASSUME IInv, NEW t \in Users, NEW next, Runs(t), holder # t, created, Lock(t, next)
  PROVE  /\ current' \in Tasks /\ status' \in [Tasks -> Waits]
         /\ uxPriority' \in [Tasks -> Nat]
         /\ Running' /\ MutexKept' /\ created' /\ ~halted'
         /\ \/ holder' = t /\ count' = 1 /\ holder = NoTask /\ pc' = [pc EXCEPT ![t] = next]
            \/ UNCHANGED <<pc, holder, count>>
<1>1. t \in Tasks /\ t # NoTask /\ current = t /\ status[t] = "ready"
  BY DEF IInv, Running, Runs, Users, Tasks, NoTask
<1>2. CASE holder = NoTask
  <2>1. /\ holder' = t /\ count' = count + 1 /\ pc' = [pc EXCEPT ![t] = next]
        /\ UNCHANGED <<kernel, created, halted>>
    BY <1>2 DEF Lock, Goto
  <2>2. count' = 1
    BY <1>2, <2>1 DEF IInv, Places
  <2>3. \A u \in Tasks : status[u] # "mutex" /\ uxPriority[u] = Priority[u]
    BY <1>1, <1>2 DEF IInv, MutexKept, Tasks, NoTask
  <2>4. Running' /\ MutexKept'
    BY <1>1, <2>1, <2>2, <2>3 DEF IInv, Running, MutexKept, kernel
  <2>. QED
    BY <1>2, <2>1, <2>2, <2>4 DEF IInv, TypeOK, kernel, Running
<1>3. CASE holder # NoTask
  <2>1. /\ status' = [status EXCEPT ![t] = "mutex"]
        /\ uxPriority' = [uxPriority EXCEPT ![holder] =
                            IF @ < uxPriority[t] THEN uxPriority[t] ELSE @]
        /\ Schedule /\ UNCHANGED <<pc, created, holder, count, halted>>
    BY <1>3 DEF Lock, Inherited, mutex
  <2>2. holder \in Tasks /\ holder # t /\ created /\ ~halted
    BY <1>3 DEF IInv, TypeOK, Running, Users, Tasks
  <2>3. uxPriority' \in [Tasks -> Nat] /\ status' \in [Tasks -> Waits]
    BY <1>1, <2>1, <2>2 DEF IInv, TypeOK, Waits
  <2>4. current' \in Tasks /\ status'[current'] = "ready"
    BY <2>1 DEF Schedule
  <2>5. uxPriority[t] = Priority[t]
    BY <1>1, <2>2 DEF IInv, MutexKept
  <2>6. /\ uxPriority'[holder] >= uxPriority[holder] /\ uxPriority'[holder] >= Priority[t]
        /\ \A u \in Tasks : u # holder => uxPriority'[u] = uxPriority[u]
    BY <1>1, <2>1, <2>2, <2>5 DEF IInv, TypeOK
  <2>7. MutexKept'
    <3>1. status'[holder] = "ready" /\ count' = 1
      BY <1>3, <2>1, <2>2 DEF IInv, MutexKept, TypeOK
    <3>2. \A u \in Tasks : status'[u] = "mutex" => uxPriority'[holder] >= Priority[u]
      <4> TAKE u \in Tasks
      <4>1. CASE u = t
        BY <2>6, <4>1
      <4>2. CASE u # t
        <5>1. status'[u] = status[u]
          BY <2>1, <4>2 DEF IInv, TypeOK
        <5>2. status[u] = "mutex" => uxPriority[holder] >= Priority[u]
          BY DEF IInv, MutexKept
        <5>. QED
          BY <2>2, <2>3, <2>6, <5>1, <5>2 DEF IInv, TypeOK
      <4>. QED
        BY <4>1, <4>2
    <3>3. \A u \in Tasks : uxPriority'[u] # Priority[u] => u = holder
      BY <2>6 DEF IInv, MutexKept
    <3>. QED
      BY <1>3, <2>1, <2>2, <3>1, <3>2, <3>3 DEF MutexKept
  <2>8. Running'
    BY <2>1, <2>2, <2>4 DEF Running
  <2>. QED
    BY <2>1, <2>2, <2>3, <2>4, <2>7, <2>8
<1>. QED
  BY <1>2, <1>3

LEMMA UnlockKeeps ==
  ASSUME IInv, NEW t \in Users, Runs(t), holder = t, Unlock(t), UNCHANGED <<created, halted>>
  PROVE  /\ current' \in Tasks /\ status' \in [Tasks -> Waits]
         /\ uxPriority' \in [Tasks -> Nat]
         /\ Running' /\ MutexKept' /\ holder' = NoTask /\ count' = 0
<1>1. /\ t \in Tasks /\ t # NoTask /\ current = t /\ status[t] = "ready"
      /\ count = 1 /\ created /\ ~halted
  BY DEF IInv, Running, Runs, Users, Tasks, NoTask, MutexKept
<1>2. /\ holder' = NoTask /\ count' = 0 /\ status' = Woken
      /\ uxPriority' = [uxPriority EXCEPT ![t] = Priority[t]]
      /\ Schedule \/ Continue
  BY <1>1 DEF Unlock
<1>3. status' \in [Tasks -> Waits] /\ \A u \in Tasks : status'[u] # "mutex"
  BY <1>2 DEF Woken, IInv, TypeOK, Waits
<1>4. uxPriority' \in [Tasks -> Nat] /\ \A u \in Tasks : uxPriority'[u] = Priority[u]
  BY <1>1, <1>2 DEF IInv, TypeOK, MutexKept
<1>5. current' \in Tasks /\ status'[current'] = "ready"
  BY <1>1, <1>2 DEF Schedule, Continue, Woken
<1>6. Running'
  BY <1>1, <1>5 DEF Running
<1>7. MutexKept'
  BY <1>1, <1>2, <1>3, <1>4 DEF MutexKept
<1>. QED
  BY <1>2, <1>3, <1>4, <1>5, <1>6, <1>7

---------------------------------------------------------------------------
(* The steps of the tasks                                                  *)

(* The types of what the scheduler leaves alone.                           *)
RestTyped ==
  /\ pc \in [Users \cup {"default"} -> Labels]
  /\ sleep \in [Users -> BOOLEAN]
  /\ created \in BOOLEAN
  /\ holder \in Users \cup {NoTask}
  /\ count \in Nat
  /\ pended \in 0..QueueLength

Flags == {given, canOn, CANnormal, reset, disable, halted, off} \subseteq BOOLEAN

LEMMA Typed ==
  ASSUME current' \in Tasks, status' \in [Tasks -> Waits], uxPriority' \in [Tasks -> Nat],
         RestTyped', Flags'
  PROVE  TypeOK'
  BY DEF TypeOK, RestTyped, Flags

(* Places when one of the tasks moves.                                     *)
LEMMA Moves ==
  ASSUME IInv, NEW t \in Users \cup {"default"}, NEW l \in Labels, pc' = [pc EXCEPT ![t] = l]
  PROVE  /\ pc' \in [Users \cup {"default"} -> Labels]
         /\ pc'["mainline"] = IF t = "mainline" THEN l ELSE pc["mainline"]
         /\ pc'["periodic"] = IF t = "periodic" THEN l ELSE pc["periodic"]
  BY DEF IInv, TypeOK, Users

LEMMA StartKeeps ==
  ASSUME IInv, Create \/ InitNode \/ SetNormal
  PROVE  IInv'
<1>1. CASE Create
  <2>1. /\ current = "mainline" /\ pc["mainline"] = "create" /\ created' = TRUE
        /\ pc' = [pc EXCEPT !["mainline"] = "lockStart"]
        /\ UNCHANGED <<kernel, holder, count, given, node, wdt, halted>>
    BY <1>1 DEF Create, Runs, Goto
  <2>2. ~created /\ holder = NoTask
    BY <2>1 DEF IInv, Places, Running
  <2>3. Running' /\ MutexKept'
    BY <2>1 DEF IInv, Running, MutexKept, kernel
  <2>4. Places' /\ pc' \in [Users \cup {"default"} -> Labels]
    BY <2>1, <2>2, Moves DEF IInv, Places, MainHolds, Labels, Users, NoTask
  <2>5. RestTyped'
    BY <2>1, <2>4 DEF IInv, TypeOK, RestTyped, node, wdt
  <2>6. Flags'
    BY <2>1, Zenon DEF IInv, TypeOK, Flags, node, wdt
  <2>. QED
    BY <2>1, <2>3, <2>4, <2>5, <2>6, Typed DEF IInv, TypeOK, kernel
<1>2. CASE InitNode
  <2>1. /\ pc["mainline"] = "init" /\ pc' = [pc EXCEPT !["mainline"] = "normal"]
        /\ canOn' = TRUE
        /\ UNCHANGED <<kernel, mutex, given, sleep, CANnormal, reset, wdt, halted>>
    BY <1>2 DEF InitNode, Runs, Goto
  <2>2. Places' /\ pc' \in [Users \cup {"default"} -> Labels]
    BY <2>1, Moves DEF IInv, Places, MainHolds, Labels, Users, mutex
  <2>3. RestTyped'
    BY <2>1, <2>2 DEF IInv, TypeOK, RestTyped, wdt, mutex
  <2>4. Flags'
    BY <2>1, Zenon DEF IInv, TypeOK, Flags, wdt
  <2>. QED
    BY <2>1, <2>2, <2>3, <2>4, SameKernel, Typed DEF IInv
<1>3. CASE SetNormal
  <2>1. /\ pc["mainline"] = "normal" /\ pc' = [pc EXCEPT !["mainline"] = "unlock"]
        /\ CANnormal' \in {TRUE, CANnormal}
        /\ UNCHANGED <<kernel, mutex, given, sleep, canOn, reset, wdt, halted>>
    BY <1>3 DEF SetNormal, Runs, Goto
  <2>2. Places' /\ pc' \in [Users \cup {"default"} -> Labels]
    BY <2>1, Moves DEF IInv, Places, MainHolds, Labels, Users, mutex
  <2>3. RestTyped'
    BY <2>1, <2>2 DEF IInv, TypeOK, RestTyped, wdt, mutex
  <2>4. Flags'
    BY <2>1, Zenon DEF IInv, TypeOK, Flags, wdt
  <2>. QED
    BY <2>1, <2>2, <2>3, <2>4, SameKernel, Typed DEF IInv
<1>. QED
  BY <1>1, <1>2, <1>3

(* A task asks for the lock: neither holds it then, and it exists.         *)
LEMMA LocksKeep ==
  ASSUME IInv, LockStart \/ MainLock \/ PeriodicLock
  PROVE  IInv'
<1>1. ASSUME NEW t \in Users, NEW next \in Labels, Runs(t), holder # t, created,
             Lock(t, next), UNCHANGED <<given, node, wdt>>,
             t = "mainline" => pc["mainline"] \notin {"create"} /\ next \in MainHolds,
             t = "periodic" => next \in PeriodicHolds
      PROVE  IInv'
  <2>1. /\ current' \in Tasks /\ status' \in [Tasks -> Waits]
        /\ uxPriority' \in [Tasks -> Nat]
        /\ Running' /\ MutexKept' /\ created' /\ ~halted'
        /\ \/ holder' = t /\ count' = 1 /\ holder = NoTask /\ pc' = [pc EXCEPT ![t] = next]
           \/ UNCHANGED <<pc, holder, count>>
    BY <1>1, LockKeeps
  <2>2. created' = created /\ halted' = halted
    BY <1>1 DEF Lock, mutex
  <2>3. CASE holder' = t /\ count' = 1 /\ holder = NoTask /\ pc' = [pc EXCEPT ![t] = next]
    <3>1. Places' /\ RestTyped'
      <4>1. /\ pc' \in [Users \cup {"default"} -> Labels]
            /\ pc'["mainline"] = IF t = "mainline" THEN next ELSE pc["mainline"]
            /\ pc'["periodic"] = IF t = "periodic" THEN next ELSE pc["periodic"]
        BY <1>1, <2>3, Moves
      <4>2. Places'
        BY <1>1, <2>2, <2>3, <4>1 DEF IInv, Places, Users, NoTask, MainHolds
      <4>. QED
        BY <1>1, <2>2, <2>3, <4>1, <4>2 DEF IInv, TypeOK, RestTyped, node, wdt
    <3>2. Flags'
      BY <1>1, <2>2, Zenon DEF IInv, TypeOK, Flags, node, wdt
    <3>. QED
      BY <2>1, <3>1, <3>2, Typed DEF IInv
  <2>4. CASE UNCHANGED <<pc, holder, count>>
    <3>1. Places' /\ RestTyped'
      BY <1>1, <2>2, <2>4 DEF IInv, Places, TypeOK, RestTyped, node, wdt
    <3>2. Flags'
      BY <1>1, <2>2, Zenon DEF IInv, TypeOK, Flags, node, wdt
    <3>. QED
      BY <2>1, <3>1, <3>2, Typed DEF IInv
  <2>. QED
    BY <2>1, <2>3, <2>4
<1>2. CASE LockStart
  <2>1. Runs("mainline") /\ pc["mainline"] = "lockStart" /\ Lock("mainline", "init")
        /\ UNCHANGED <<given, node, wdt>>
    BY <1>2 DEF LockStart
  <2>2. created /\ holder # "mainline"
    BY <2>1 DEF IInv, Places, MainHolds
  <2>. QED
    BY <1>1, <2>1, <2>2 DEF Users, Labels, MainHolds
<1>3. CASE MainLock
  <2>1. Runs("mainline") /\ pc["mainline"] = "lock" /\ Lock("mainline", "process")
        /\ UNCHANGED <<given, node, wdt>>
    BY <1>3 DEF MainLock
  <2>2. created /\ holder # "mainline"
    BY <2>1 DEF IInv, Places, MainHolds
  <2>. QED
    BY <1>1, <2>1, <2>2 DEF Users, Labels, MainHolds
<1>4. CASE PeriodicLock
  <2> DEFINE next == IF pc["periodic"] = "lockStart" THEN "unlock" ELSE "process"
  <2>1. Runs("periodic") /\ pc["periodic"] \in {"lockStart", "lock"}
        /\ Lock("periodic", next) /\ UNCHANGED <<given, node, wdt>>
    BY <1>4 DEF PeriodicLock
  <2>2. created /\ holder # "periodic"
    BY <2>1 DEF IInv, Places, PeriodicHolds, Running, Runs
  <2>3. next \in Labels /\ next \in PeriodicHolds
    BY DEF Labels, PeriodicHolds
  <2>. QED
    BY <1>1, <2>1, <2>2, <2>3 DEF Users
<1>. QED
  BY <1>2, <1>3, <1>4

LEMMA UnlocksKeep ==
  ASSUME IInv, MainUnlock \/ PeriodicUnlock
  PROVE  IInv'
<1>1. ASSUME NEW t \in Users, NEW l \in Labels, Runs(t), holder = t, Unlock(t),
             pc' = [pc EXCEPT ![t] = l], UNCHANGED <<created, given, node, wdt, halted>>,
             l \notin MainHolds \cup PeriodicHolds \cup {"create"}
      PROVE  IInv'
  <2>1. /\ current' \in Tasks /\ status' \in [Tasks -> Waits]
        /\ uxPriority' \in [Tasks -> Nat]
        /\ Running' /\ MutexKept' /\ holder' = NoTask /\ count' = 0
    BY <1>1, UnlockKeeps
  <2>2. /\ pc' \in [Users \cup {"default"} -> Labels]
        /\ pc'["mainline"] = IF t = "mainline" THEN l ELSE pc["mainline"]
        /\ pc'["periodic"] = IF t = "periodic" THEN l ELSE pc["periodic"]
    BY <1>1, Moves
  <2>3. Places'
    BY <1>1, <2>1, <2>2 DEF IInv, Places, Users, NoTask, MainHolds, PeriodicHolds
  <2>4. RestTyped'
    BY <1>1, <2>1, <2>2 DEF IInv, TypeOK, RestTyped, node, wdt
  <2>5. Flags'
    BY <1>1, Zenon DEF IInv, TypeOK, Flags, node, wdt
  <2>. QED
    BY <2>1, <2>3, <2>4, <2>5, Typed DEF IInv
<1>2. CASE MainUnlock
  <2> DEFINE l == IF reset THEN "reset" ELSE "wait"
  <2>1. /\ Runs("mainline") /\ pc["mainline"] = "unlock" /\ Unlock("mainline")
        /\ pc' = [pc EXCEPT !["mainline"] = l]
        /\ UNCHANGED <<created, given, node, wdt, halted>>
    BY <1>2 DEF MainUnlock, Goto
  <2>2. holder = "mainline"
    BY <2>1 DEF IInv, Places, MainHolds
  <2>3. l \in Labels /\ l \notin MainHolds \cup PeriodicHolds \cup {"create"}
    BY DEF Labels, MainHolds, PeriodicHolds
  <2>. QED
    BY <1>1, <2>1, <2>2, <2>3 DEF Users
<1>3. CASE PeriodicUnlock
  <2>1. /\ Runs("periodic") /\ pc["periodic"] = "unlock" /\ Unlock("periodic")
        /\ pc' = [pc EXCEPT !["periodic"] = "wait"]
        /\ UNCHANGED <<created, given, node, wdt, halted>>
    BY <1>3 DEF PeriodicUnlock, Goto
  <2>2. holder = "periodic"
    BY <2>1 DEF IInv, Places, PeriodicHolds
  <2>. QED
    BY <1>1, <2>1, <2>2 DEF Users, Labels, MainHolds, PeriodicHolds
<1>. QED
  BY <1>2, <1>3

(* The steps that may wait, wake or do neither, outside the lock or in it. *)
LEMMA WaitsKeep ==
  ASSUME IInv, MainWait \/ PeriodicWait
  PROVE  IInv'
<1>1. ASSUME NEW t \in Users, NEW l \in Labels, NEW why \in Waits \ {"mutex"},
             created \/ t # "mainline", holder # t,
             l \notin MainHolds \cup PeriodicHolds \cup {"create"},
             pc[t] \notin MainHolds \cup PeriodicHolds \cup {"create"},
             pc' = [pc EXCEPT ![t] = l],
             Block(t, why) \/ UNCHANGED kernel,
             UNCHANGED <<mutex, given, node, wdt, halted>>
      PROVE  IInv'
  <2>1. /\ current' \in Tasks /\ status' \in [Tasks -> Waits]
        /\ uxPriority' \in [Tasks -> Nat] /\ Running' /\ MutexKept'
    BY <1>1, BlockKeeps, SameKernel DEF Users, Tasks
  <2>2. /\ pc' \in [Users \cup {"default"} -> Labels]
        /\ pc'["mainline"] = IF t = "mainline" THEN l ELSE pc["mainline"]
        /\ pc'["periodic"] = IF t = "periodic" THEN l ELSE pc["periodic"]
    BY <1>1, Moves
  <2>3. Places'
    BY <1>1, <2>2 DEF IInv, Places, Users, mutex
  <2>4. RestTyped'
    BY <1>1, <2>2 DEF IInv, TypeOK, RestTyped, node, wdt, mutex
  <2>5. Flags'
    BY <1>1, Zenon DEF IInv, TypeOK, Flags, node, wdt
  <2>. QED
    BY <2>1, <2>3, <2>4, <2>5, Typed DEF IInv
<1>2. CASE MainWait
  <2>1. /\ pc["mainline"] = "wait" /\ pc' = [pc EXCEPT !["mainline"] = "lock"]
        /\ Block("mainline", "delay") \/ UNCHANGED kernel
        /\ UNCHANGED <<mutex, given, node, wdt, halted>>
    BY <1>2 DEF MainWait, Goto
  <2>2. created /\ holder # "mainline"
    BY <2>1 DEF IInv, Places, MainHolds
  <2>. QED
    <3>1. /\ "mainline" \in Users /\ "lock" \in Labels /\ "delay" \in Waits \ {"mutex"}
          /\ "lock" \notin MainHolds \cup PeriodicHolds \cup {"create"}
          /\ "wait" \notin MainHolds \cup PeriodicHolds \cup {"create"}
      BY DEF Users, Labels, Waits, MainHolds, PeriodicHolds
    <3>. QED
      BY <1>1, <2>1, <2>2, <3>1
<1>3. CASE PeriodicWait
  <2>1. /\ pc["periodic"] = "wait" /\ pc' = [pc EXCEPT !["periodic"] = "woken"]
        /\ Block("periodic", "semaphore") \/ UNCHANGED kernel
        /\ UNCHANGED <<mutex, given, node, wdt, halted>>
    BY <1>3 DEF PeriodicWait, Goto
  <2>2. holder # "periodic"
    BY <2>1 DEF IInv, Places, PeriodicHolds
  <2>. QED
    <3>1. /\ "periodic" \in Users /\ "woken" \in Labels /\ "semaphore" \in Waits \ {"mutex"}
          /\ "woken" \notin MainHolds \cup PeriodicHolds \cup {"create"}
          /\ "wait" \notin MainHolds \cup PeriodicHolds \cup {"create"}
          /\ "periodic" # "mainline"
      BY DEF Users, Labels, Waits, MainHolds, PeriodicHolds
    <3>. QED
      BY <1>1, <2>1, <2>2, <3>1
<1>. QED
  BY <1>2, <1>3

(* The steps between the calls of the kernel.                              *)
LEMMA ProcessKeeps ==
  ASSUME IInv, MainProcess \/ PeriodicWoken \/ PeriodicProcess \/ SetBits \/ Feed
  PROVE  IInv'
<1>1. ASSUME NEW t \in Users \cup {"default"}, NEW l \in Labels,
             pc' = [pc EXCEPT ![t] = l], UNCHANGED <<kernel, mutex, halted>>,
             t = "mainline" => (pc["mainline"] \in MainHolds /\ l \in MainHolds),
             t = "periodic" => (pc["periodic"] \in PeriodicHolds <=> l \in PeriodicHolds),
             sleep' \in [Users -> BOOLEAN], pended' = pended, Flags'
      PROVE  IInv'
  <2>1. /\ pc' \in [Users \cup {"default"} -> Labels]
        /\ pc'["mainline"] = IF t = "mainline" THEN l ELSE pc["mainline"]
        /\ pc'["periodic"] = IF t = "periodic" THEN l ELSE pc["periodic"]
    BY <1>1, Moves
  <2>2. Places'
    BY <1>1, <2>1 DEF IInv, Places, MainHolds, mutex
  <2>3. RestTyped'
    BY <1>1, <2>1 DEF IInv, TypeOK, RestTyped, mutex
  <2>. QED
    BY <1>1, <2>2, <2>3, SameKernel, Typed DEF IInv
<1>2. CASE MainProcess
  <2>1. /\ pc["mainline"] = "process" /\ pc' = [pc EXCEPT !["mainline"] = "wake"]
        /\ UNCHANGED <<kernel, mutex, given, canOn, CANnormal, wdt, halted>>
        /\ reset' \in BOOLEAN
    BY <1>2 DEF MainProcess, Goto
  <2>2. sleep' \in [Users -> BOOLEAN] /\ pended' = pended
    BY <1>2 DEF MainProcess, IInv, TypeOK, Users, wdt
  <2>3. Flags'
    BY <2>1, Zenon DEF IInv, TypeOK, Flags, wdt
  <2>. QED
    BY <1>1, <2>1, <2>2, <2>3 DEF Users, Labels, MainHolds
<1>3. CASE PeriodicWoken
  <2>1. /\ pc["periodic"] = "woken" /\ pc' = [pc EXCEPT !["periodic"] = "lock"]
        /\ UNCHANGED <<kernel, mutex, node, wdt, halted>>
    BY <1>3 DEF PeriodicWoken, Goto
  <2>2. sleep' \in [Users -> BOOLEAN] /\ pended' = pended
    BY <2>1 DEF IInv, TypeOK, node, wdt
  <2>3. given' = FALSE
    BY <1>3 DEF PeriodicWoken
  <2>4. Flags'
    BY <2>1, <2>3, Zenon DEF IInv, TypeOK, Flags, node, wdt
  <2>. QED
    BY <1>1, <2>1, <2>2, <2>4 DEF Users, Labels, PeriodicHolds
<1>4. CASE PeriodicProcess
  <2>1. /\ pc["periodic"] = "process" /\ pc' = [pc EXCEPT !["periodic"] = "unlock"]
        /\ UNCHANGED <<kernel, mutex, given, canOn, CANnormal, reset, wdt, halted>>
    BY <1>4 DEF PeriodicProcess, Goto
  <2>2. sleep' \in [Users -> BOOLEAN] /\ pended' = pended
    BY <1>4 DEF PeriodicProcess, IInv, TypeOK, Users, wdt
  <2>3. Flags'
    BY <2>1, Zenon DEF IInv, TypeOK, Flags, wdt
  <2>. QED
    BY <1>1, <2>1, <2>2, <2>3 DEF Users, Labels, PeriodicHolds
<1>5. CASE SetBits
  <2>1. /\ pc' = [pc EXCEPT !["default"] = "wait"]
        /\ UNCHANGED <<kernel, mutex, given, node, pended, off, halted>>
    BY <1>5 DEF SetBits, Goto
  <2>2. sleep' \in [Users -> BOOLEAN] /\ pended' = pended
    BY <2>1 DEF IInv, TypeOK, node
  <2>3. disable' = TRUE
    BY <1>5 DEF SetBits
  <2>4. Flags'
    BY <2>1, <2>3, Zenon DEF IInv, TypeOK, Flags, node
  <2>. QED
    BY <1>1, <2>1, <2>2, <2>4 DEF Labels
<1>6. CASE Feed
  <2>1. /\ pc' = [pc EXCEPT !["default"] = "wait"]
        /\ UNCHANGED <<kernel, mutex, given, node, wdt, halted>>
    BY <1>6 DEF Feed, Goto
  <2>2. sleep' \in [Users -> BOOLEAN] /\ pended' = pended
    BY <2>1 DEF IInv, TypeOK, node, wdt
  <2>3. Flags'
    BY <2>1, Zenon DEF IInv, TypeOK, Flags, node, wdt
  <2>. QED
    BY <1>1, <2>1, <2>2, <2>3 DEF Labels
<1>. QED
  BY <1>2, <1>3, <1>4, <1>5, <1>6

(* The waking of the periodic task; the mainline task holds the lock.      *)
LEMMA WakeKeeps == ASSUME IInv, MainWake PROVE IInv'
<1>1. /\ current = "mainline" /\ pc["mainline"] = "wake" /\ given' = TRUE
      /\ status' = IF status["periodic"] = "semaphore"
                   THEN [status EXCEPT !["periodic"] = "ready"] ELSE status
      /\ Schedule \/ Continue
      /\ pc' = [pc EXCEPT !["mainline"] = "unlock"]
      /\ UNCHANGED <<uxPriority, mutex, node, wdt, halted>>
  BY DEF MainWake, Goto, Runs
<1>2. /\ status' \in [Tasks -> Waits]
      /\ \A t \in Tasks : status'[t] = status[t] \/ status'[t] = "ready"
  BY <1>1 DEF IInv, TypeOK, Waits
<1>3. current' \in Tasks /\ Running' /\ MutexKept'
  <2>1. /\ \A t \in Tasks : status'[t] = "mutex" => status[t] = "mutex"
        /\ holder # NoTask => status'[holder] = "ready"
        /\ ~created => status'["mainline"] = "ready"
        /\ status'[current] = "ready"
    BY <1>2 DEF IInv, TypeOK, Running, MutexKept, Users, Tasks
  <2>. QED
    BY <1>1, <1>2, <2>1, KernelKeeps
<1>4. Places' /\ pc' \in [Users \cup {"default"} -> Labels]
  BY <1>1, Moves DEF IInv, Places, MainHolds, Labels, Users, mutex
<1>5. RestTyped'
  BY <1>1, <1>4 DEF IInv, TypeOK, RestTyped, mutex, node, wdt
<1>6. Flags'
  BY <1>1, Zenon DEF IInv, TypeOK, Flags, node, wdt
<1>7. uxPriority' \in [Tasks -> Nat]
  BY <1>1 DEF IInv, TypeOK
<1>. QED
  BY <1>2, <1>3, <1>4, <1>5, <1>6, <1>7, Typed DEF IInv

(* The tick and the tasks that take no lock.                               *)
LEMMA OthersKeep ==
  ASSUME IInv, Tick \/ OtherDelay \/ WaitBits \/ TimerTask \/ BusOff
  PROVE  IInv'
<1>1. ASSUME /\ current' \in Tasks /\ status' \in [Tasks -> Waits]
             /\ uxPriority' \in [Tasks -> Nat] /\ Running' /\ MutexKept',
             UNCHANGED <<mutex, sleep, halted>>,
             pc' = pc \/ \E l \in Labels : pc' = [pc EXCEPT !["default"] = l],
             pended' \in 0..QueueLength, Flags'
      PROVE  IInv'
  <2>1. /\ pc' \in [Users \cup {"default"} -> Labels]
        /\ pc'["mainline"] = pc["mainline"] /\ pc'["periodic"] = pc["periodic"]
    BY <1>1, Moves DEF IInv, TypeOK, Users
  <2>2. Places'
    BY <1>1, <2>1 DEF IInv, Places, mutex
  <2>3. RestTyped'
    BY <1>1, <2>1 DEF IInv, TypeOK, RestTyped, mutex
  <2>. QED
    BY <1>1, <2>2, <2>3, Typed DEF IInv
<1>2. ASSUME UNCHANGED <<given, node, wdt, halted>> PROVE Flags' /\ pended' \in 0..QueueLength
  <2>1. Flags'
    BY <1>2, Zenon DEF IInv, TypeOK, Flags, node, wdt
  <2>. QED
    BY <1>2, <2>1 DEF IInv, TypeOK, wdt
<1>3. CASE Tick
  <2>1. /\ status' \in [Tasks -> Waits] /\ uxPriority' \in [Tasks -> Nat]
        /\ \A t \in Tasks : status'[t] = status[t] \/ status'[t] = "ready"
        /\ Schedule /\ UNCHANGED <<uxPriority, pc, mutex, given, node, wdt, halted>>
    BY <1>3 DEF Tick, IInv, TypeOK, Waits
  <2>2. /\ \A t \in Tasks : status'[t] = "mutex" => status[t] = "mutex"
        /\ holder # NoTask => status'[holder] = "ready"
        /\ ~created => status'["mainline"] = "ready"
    BY <2>1 DEF IInv, TypeOK, Running, MutexKept, Users, Tasks
  <2>3. current' \in Tasks /\ Running' /\ MutexKept'
    BY <2>1, <2>2, KernelKeeps
  <2>. QED
    BY <1>1, <1>2, <2>1, <2>3 DEF node
<1>4. CASE OtherDelay
  <2>1. PICK t \in {"process", "keyboard"} :
          Block(t, "delay") /\ UNCHANGED <<pc, mutex, given, node, wdt, halted>>
    BY <1>4 DEF OtherDelay
  <2>2. t \in Tasks /\ t # holder /\ t # "mainline"
    BY DEF Tasks, IInv, TypeOK, Users, NoTask
  <2>. QED
    BY <1>1, <1>2, <2>1, <2>2, BlockKeeps DEF Waits, node
<1>5. CASE WaitBits
  <2>1. /\ Block("default", "delay") \/ Block("default", "event")
        /\ pc' = pc \/ pc' = [pc EXCEPT !["default"] = "feed"]
        /\ UNCHANGED <<mutex, given, node, wdt, halted>>
    BY <1>5 DEF WaitBits, Goto
  <2>2. "default" \in Tasks /\ "default" # holder
    BY DEF Tasks, IInv, TypeOK, Users, NoTask
  <2>3. /\ current' \in Tasks /\ status' \in [Tasks -> Waits]
        /\ uxPriority' \in [Tasks -> Nat] /\ Running' /\ MutexKept'
    BY <2>1, <2>2, BlockKeeps DEF Waits
  <2>. QED
    BY <1>1, <1>2, <2>1, <2>3 DEF Labels, node
<1>6. CASE TimerTask
  <2>1. CASE UNCHANGED <<kernel, off>> /\ pended > 0 /\ pended' = pended - 1 /\ disable' = FALSE
             /\ UNCHANGED <<pc, mutex, given, node, halted>>
    <3>1. Flags'
      BY <2>1, Zenon DEF IInv, TypeOK, Flags, node
    <3>2. pended' \in 0..QueueLength
      BY <2>1 DEF IInv, TypeOK
    <3>. QED
      BY <1>1, <2>1, <3>1, <3>2, SameKernel DEF node
  <2>2. CASE Block("timer", "queue") /\ UNCHANGED <<wdt, pc, mutex, given, node, halted>>
    <3>1. "timer" \in Tasks /\ "timer" # holder
      BY DEF Tasks, IInv, TypeOK, Users, NoTask
    <3>. QED
      BY <1>1, <1>2, <2>2, <3>1, BlockKeeps DEF Waits, node
  <2>. QED
    BY <1>6, <2>1, <2>2 DEF TimerTask
<1>7. CASE BusOff
  <2>1. /\ \/ pended < QueueLength /\ pended' = pended + 1
               /\ status' = [status EXCEPT !["timer"] = "ready"]
           \/ UNCHANGED <<pended, status>>
        /\ UNCHANGED <<current, uxPriority, pc, mutex, given, node, disable, halted>>
    BY <1>7 DEF BusOff
  <2>2. /\ status' \in [Tasks -> Waits] /\ uxPriority' \in [Tasks -> Nat]
        /\ \A t \in Tasks : status'[t] = status[t] \/ status'[t] = "ready"
    BY <2>1 DEF IInv, TypeOK, Waits
  <2>3. /\ \A t \in Tasks : status'[t] = "mutex" => status[t] = "mutex"
        /\ holder # NoTask => status'[holder] = "ready"
        /\ ~created => status'["mainline"] = "ready"
        /\ status'[current] = "ready"
    BY <2>2 DEF IInv, TypeOK, Running, MutexKept, Users, Tasks
  <2>4. current' \in Tasks /\ Running' /\ MutexKept'
    BY <2>1, <2>2, <2>3, KernelKeeps DEF Continue
  <2>5. off' \in BOOLEAN
    BY <1>7, Zenon DEF BusOff, IInv, TypeOK
  <2>6. Flags'
    BY <2>1, <2>5, Zenon DEF IInv, TypeOK, Flags, node
  <2>7. pended' \in 0..QueueLength
    BY <2>1 DEF IInv, TypeOK
  <2>. QED
    BY <1>1, <2>1, <2>2, <2>4, <2>6, <2>7 DEF node
<1>. QED
  BY <1>3, <1>4, <1>5, <1>6, <1>7

---------------------------------------------------------------------------
(* The start and the restart                                               *)

LEMMA InitIInv == Init => IInv
<1> SUFFICES ASSUME Init PROVE IInv
  OBVIOUS
<1>1. /\ current \in Tasks /\ status \in [Tasks -> Waits] /\ uxPriority \in [Tasks -> Nat]
      /\ pc \in [Users \cup {"default"} -> Labels] /\ sleep \in [Users -> BOOLEAN]
      /\ holder \in Users \cup {NoTask} /\ count \in Nat /\ pended \in 0..QueueLength
  BY DEF Init, Waits, Labels, Users
<1>2. created \in BOOLEAN /\ Flags
  BY Zenon DEF Init, Flags
<1>3. Priority["mainline"] <= Priority[current]
  BY DEF Init, Tasks
<1>4. Running
  BY <1>1, <1>3 DEF Init, Running, Tasks
<1>5. Places
  BY DEF Init, Places, MainHolds, PeriodicHolds, Users, NoTask
<1>6. MutexKept
  BY DEF Init, MutexKept, Tasks, NoTask
<1>. QED
  BY <1>1, <1>2, <1>4, <1>5, <1>6 DEF IInv, TypeOK, Flags

LEMMA RestartKeeps == Restart => IInv'
<1> SUFFICES ASSUME Restart PROVE IInv'
  OBVIOUS
<1>1. /\ current' \in Tasks /\ status' \in [Tasks -> Waits] /\ uxPriority' \in [Tasks -> Nat]
      /\ pc' \in [Users \cup {"default"} -> Labels] /\ sleep' \in [Users -> BOOLEAN]
      /\ holder' \in Users \cup {NoTask} /\ count' \in Nat /\ pended' \in 0..QueueLength
  BY DEF Restart, Waits, Labels, Users
<1>2. created' \in BOOLEAN /\ Flags'
  BY Zenon DEF Restart, Flags
<1>3. Priority["mainline"] <= Priority[current']
  BY DEF Restart, Tasks
<1>4. Running'
  BY <1>1, <1>3 DEF Restart, Running, Tasks
<1>5. Places'
  BY DEF Restart, Places, MainHolds, PeriodicHolds, Users, NoTask
<1>6. MutexKept'
  BY DEF Restart, MutexKept, Tasks, NoTask
<1>. QED
  BY <1>1, <1>2, <1>4, <1>5, <1>6 DEF IInv, TypeOK, Flags

LEMMA NextIInv == IInv /\ [Next]_vars => IInv'
<1> SUFFICES ASSUME IInv, [Next]_vars PROVE IInv'
  OBVIOUS
<1>1. CASE Watchdog
  BY <1>1, RestartKeeps DEF Watchdog
<1>2. CASE Mainline
  BY <1>2, StartKeeps, LocksKeep, UnlocksKeep, WaitsKeep, ProcessKeeps, WakeKeeps,
     RestartKeeps DEF Mainline, MainReset
<1>3. CASE Periodic
  BY <1>3, LocksKeep, UnlocksKeep, WaitsKeep, ProcessKeeps DEF Periodic
<1>4. CASE Tick \/ OtherDelay \/ WaitBits \/ TimerTask \/ BusOff
  BY <1>4, OthersKeep
<1>5. CASE SetBits \/ Feed
  BY <1>5, ProcessKeeps
<1>6. CASE UNCHANGED vars
  <2>1. Flags'
    BY <1>6, Zenon DEF vars, IInv, TypeOK, Flags, node, wdt
  <2>2. RestTyped' /\ Places'
    BY <1>6 DEF vars, IInv, TypeOK, RestTyped, Places, node, wdt, mutex
  <2>. QED
    BY <1>6, <2>1, <2>2, SameKernel, Typed DEF vars, IInv
<1>. QED
  BY <1>1, <1>2, <1>3, <1>4, <1>5, <1>6 DEF Next

THEOREM Invariance == Spec => []IInv
  BY InitIInv, NextIInv, PTL DEF Spec

(* Every variable keeps its type, and the queue of the timer task its      *)
(* length, however many calls the bus-off interrupt makes.                 *)
THEOREM TypeCorrect == Spec => []TypeOK
<1>1. IInv => TypeOK
  BY DEF IInv
<1>. QED
  BY <1>1, Invariance, PTL

---------------------------------------------------------------------------
(* No priority inversion                                                   *)

(* No ready task but the timer task, which the interrupt of the controller *)
(* makes ready without a switch, is above the one that runs.               *)
TopRuns ==
  \A u \in Tasks \ {"timer"} : status[u] = "ready" => uxPriority[u] <= uxPriority[current]

(* The ways in which a step keeps it: a switch, or no switch and no task   *)
(* above the running one made ready.                                       *)
NoneAbove ==
  /\ UNCHANGED <<current, uxPriority>>
  /\ \A u \in Tasks \ {"timer"} :
       status'[u] = "ready" => status[u] = "ready" \/ uxPriority[u] <= uxPriority[current]

LEMMA TopKept ==
  ASSUME TopRuns, Schedule \/ NoneAbove
  PROVE  TopRuns'
<1>1. CASE Schedule
  BY <1>1 DEF Schedule, TopRuns
<1>2. CASE NoneAbove
  BY <1>2 DEF NoneAbove, TopRuns
<1>. QED
  BY <1>1, <1>2

(* The lock is given back: a task that waited for it is made ready, and a  *)
(* switch is left out only when it is not above the task that gives.       *)
LEMMA UnlockTop ==
  ASSUME IInv, NEW t \in Users, Runs(t), Unlock(t)
  PROVE  Schedule \/ NoneAbove
<1>1. t \in Tasks /\ current = t
  BY DEF Runs, Users, Tasks
<1>2. CASE holder # t \/ count > 1
  <2>1. UNCHANGED kernel
    BY <1>2 DEF Unlock, IInv, Places
  <2>. QED
    BY <2>1 DEF NoneAbove, kernel
<1>3. CASE holder = t /\ ~(count > 1)
  <2>1. /\ status' = Woken /\ uxPriority' = [uxPriority EXCEPT ![t] = Priority[t]]
        /\ IF \/ uxPriority[t] # Priority[t]
              \/ \E u \in Tasks : status[u] = "mutex" /\ uxPriority[u] > Priority[t]
           THEN Schedule ELSE Continue
    BY <1>3 DEF Unlock
  <2>2. SUFFICES ASSUME ~Schedule PROVE NoneAbove
    OBVIOUS
  <2>3. /\ uxPriority[t] = Priority[t] /\ current' = current
        /\ \A u \in Tasks : status[u] = "mutex" => ~(uxPriority[u] > Priority[t])
    BY <2>1, <2>2 DEF Continue
  <2>4. uxPriority' = uxPriority
    BY <1>1, <2>1, <2>3 DEF IInv, TypeOK
  <2>5. \A u \in Tasks : status'[u] = "ready"
                         => status[u] = "ready" \/ uxPriority[u] <= uxPriority[current]
    BY <1>1, <2>1, <2>3, TasksAssumption DEF Woken, IInv, TypeOK
  <2>. QED
    BY <2>3, <2>4, <2>5 DEF NoneAbove
<1>. QED
  BY <1>2, <1>3

LEMMA TopInit == Init => TopRuns
  BY DEF Init, TopRuns

LEMMA NextTop ==
  ASSUME IInv, TopRuns, [Next]_vars
  PROVE  TopRuns'
<1>1. CASE Watchdog \/ MainReset
  BY <1>1 DEF Watchdog, MainReset, Restart, TopRuns
<1>2. CASE Tick \/ OtherDelay
  BY <1>2, TopKept DEF Tick, OtherDelay, Block
<1>3. CASE LockStart \/ MainLock \/ PeriodicLock
  <2>1. ASSUME NEW t, NEW next, Lock(t, next)
        PROVE  Schedule \/ UNCHANGED kernel
    BY <2>1 DEF Lock
  <2>2. Schedule \/ UNCHANGED kernel
    BY <1>3, <2>1 DEF LockStart, MainLock, PeriodicLock
  <2>. QED
    BY <2>2, TopKept DEF NoneAbove, kernel
<1>4. CASE MainUnlock \/ PeriodicUnlock
  BY <1>4, UnlockTop, TopKept DEF MainUnlock, PeriodicUnlock, Users
<1>5. CASE MainWake
  <2>1. /\ current = "mainline" /\ UNCHANGED uxPriority
        /\ status' = IF status["periodic"] = "semaphore"
                     THEN [status EXCEPT !["periodic"] = "ready"] ELSE status
        /\ IF status["periodic"] = "semaphore"
              /\ uxPriority["periodic"] > uxPriority["mainline"]
           THEN Schedule ELSE Continue
    BY <1>5 DEF MainWake, Runs
  <2>2. SUFFICES ASSUME ~Schedule PROVE NoneAbove
    BY TopKept
  <2>3. current' = current
        /\ (status["periodic"] = "semaphore" => uxPriority["periodic"] <= uxPriority["mainline"])
    BY <2>1, <2>2 DEF Continue, IInv, TypeOK, Tasks
  <2>. QED
    BY <2>1, <2>3 DEF NoneAbove, IInv, TypeOK, Tasks
<1>6. CASE MainWait \/ PeriodicWait \/ WaitBits \/ TimerTask
  <2>1. Schedule \/ UNCHANGED kernel
    BY <1>6 DEF MainWait, PeriodicWait, WaitBits, TimerTask, Block
  <2>. QED
    BY <2>1, TopKept DEF NoneAbove, kernel
<1>7. CASE BusOff
  <2>1. UNCHANGED <<current, uxPriority>>
        /\ (status' = status \/ status' = [status EXCEPT !["timer"] = "ready"])
    BY <1>7 DEF BusOff
  <2>2. NoneAbove
    BY <2>1 DEF NoneAbove, IInv, TypeOK
  <2>. QED
    BY <2>2, TopKept
<1>8. CASE \/ Create \/ InitNode \/ SetNormal \/ MainProcess \/ PeriodicWoken
           \/ PeriodicProcess \/ SetBits \/ Feed \/ UNCHANGED vars
  <2>1. UNCHANGED kernel
    BY <1>8 DEF Create, InitNode, SetNormal, MainProcess, PeriodicWoken, PeriodicProcess,
                SetBits, Feed, vars
  <2>. QED
    BY <2>1 DEF TopRuns, kernel
<1>. QED
  BY <1>1, <1>2, <1>3, <1>4, <1>5, <1>6, <1>7, <1>8 DEF Next, Mainline, Periodic

(* Whoever waits for the lock has lent his priority to a ready task, and   *)
(* the task that runs is not below that one.                               *)
LEMMA TopSound ==
  ASSUME IInv, TopRuns
  PROVE  MutexSound
<1>1. SUFFICES ASSUME NEW t \in Tasks, status[t] = "mutex"
               PROVE  uxPriority[current] >= Priority[t]
  BY DEF IInv, MutexSound, NoInversion
<1>2. holder \in Tasks \ {"timer"} /\ status[holder] = "ready"
      /\ uxPriority[holder] >= Priority[t]
  BY <1>1 DEF IInv, TypeOK, MutexKept, Users, Tasks
<1>3. uxPriority[holder] <= uxPriority[current]
  BY <1>2 DEF TopRuns
<1>4. uxPriority[holder] \in Nat /\ uxPriority[current] \in Nat /\ Priority[t] \in Nat
  BY <1>1, <1>2, TasksAssumption DEF IInv, TypeOK
<1>. QED
  BY <1>2, <1>3, <1>4

(* The lock exists when it is first asked for, is never held by a task     *)
(* that waits, and has the priority of whoever waits for it; and while a   *)
(* task waits for it, only tasks of that priority or a higher one run.     *)
THEOREM LockIsSound == Spec => []MutexSound
<1>1. Init => TopRuns
  BY TopInit
<1>2. IInv /\ TopRuns /\ [Next]_vars => TopRuns'
  BY NextTop
<1>3. IInv /\ TopRuns => MutexSound
  BY TopSound
<1>. QED
  BY <1>1, <1>2, <1>3, Invariance, PTL DEF Spec

=============================================================================
