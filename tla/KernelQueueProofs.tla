-------------------------- MODULE KernelQueueProofs --------------------------
(***************************************************************************)
(* Proofs about the queue of the kernel and its clock, for any tasks,      *)
(* priorities and waiting times, any length of the queue and any width of  *)
(* the counter of ticks.                                                   *)
(***************************************************************************)
EXTENDS KernelQueue, FiniteSetTheorems, SequenceTheorems, TLAPS

---------------------------------------------------------------------------
(* Numbers                                                                 *)

(* The least number of a set of naturals.                                  *)
LEMMA LeastNatural ==
  ASSUME NEW S \in SUBSET Nat, S # {}
  PROVE  Min(S) \in S /\ \A x \in S : Min(S) <= x
<1> DEFINE R == OpToRel(<, Nat)
<1>1. IsWellFoundedOn(R, Nat)
  BY NatLessThanWellFounded
<1> HIDE DEF R
<1>2. PICK x \in S : \A y \in S : ~(<<y, x>> \in R)
  BY <1>1, WFMin
<1>3. \A y \in S : x <= y
  <2> SUFFICES ASSUME NEW y \in S, ~(x <= y) PROVE FALSE
    OBVIOUS
  <2>1. <<y, x>> \in R
    BY DEF R, OpToRel
  <2>. QED
    BY <1>2, <2>1
<1>. QED
  BY <1>3 DEF Min

(* Addition and subtraction on a clock of m ticks.                         *)
LEMMA ClockArithmetic ==
  ASSUME NEW m \in Nat \ {0}, NEW a \in 0..m - 1, NEW b \in 0..m - 1
  PROVE  /\ (a + b) % m = IF a + b < m THEN a + b ELSE a + b - m
         /\ (a - b) % m = IF b <= a THEN a - b ELSE a - b + m
<1>1. CASE a + b < m
  BY <1>1, SMTT(30)
<1>2. CASE ~(a + b < m)
  BY <1>2
<1>. QED
  BY <1>1, <1>2

(* Any number of steps is reached one by one.                              *)
LEMMA StepByStep ==
  ASSUME NEW n \in Nat, NEW J \in SUBSET Nat, 0 \in J,
         \A i \in 1..n : i - 1 \in J => i \in J
  PROVE  n \in J
<1> DEFINE Missed == (0..n) \ J
<1>1. CASE Missed = {}
  BY <1>1
<1>2. CASE Missed # {}
  <2>1. Missed \in SUBSET Nat
    OBVIOUS
  <2>2. Min(Missed) \in Missed /\ \A x \in Missed : Min(Missed) <= x
    BY <1>2, <2>1, LeastNatural
  <2> DEFINE k == Min(Missed)
  <2>3. k \in 1..n /\ k - 1 \notin Missed
    BY <2>2
  <2>. QED
    BY <2>2, <2>3
<1>. QED
  BY <1>1, <1>2

---------------------------------------------------------------------------
(* The lists and the time                                                  *)

(* A task that is woken by the clock if nothing else wakes it              *)
Sleeps(s, t) == s.list[t] \in {"delayed", "overflow"}

(* The ticks until a task that sleeps is woken                             *)
Left(s, t) ==
  s.xItemValue[t] - s.xTickCount + (IF s.list[t] = "overflow" THEN TickMod ELSE 0)

(* The tasks on the current list wake before the counter wraps, and none   *)
(* before xNextTaskUnblockTime; those on the other list after the wrap,    *)
(* and before it has come round to the time it shows now.                  *)
ClockSound(s) ==
  \A t \in Tasks :
    /\ s.list[t] = "delayed"  => /\ s.xTickCount < s.xItemValue[t]
                                 /\ s.xNextTaskUnblockTime <= s.xItemValue[t]
    /\ s.list[t] = "overflow" => s.xItemValue[t] < s.xTickCount

Clocks == {s \in Scheds : ClockSound(s)}

(* What n ticks do to the lists                                            *)
AfterTicks(s, n) ==
  {u \in Clocks :
     /\ u.xItemValue = s.xItemValue
     /\ s.xTickCount + n < 2 * TickMod
          => u.xTickCount = s.xTickCount + n - (IF s.xTickCount + n >= TickMod THEN TickMod ELSE 0)
     /\ \A t \in Tasks :
          IF ~Sleeps(s, t) THEN u.list[t] = s.list[t] /\ u.event[t] = s.event[t]
          ELSE IF Left(s, t) > n
          THEN Sleeps(u, t) /\ Left(u, t) = Left(s, t) - n /\ u.event[t] = s.event[t]
          ELSE u.list[t] = "ready" /\ u.event[t] = "none"}

(* The range of the counter of ticks                                       *)
LEMMA TicksAre ==
  /\ TickMod \in Nat \ {0, 1} /\ portMAX_DELAY = TickMod - 1 /\ portMAX_DELAY \in Ticks
  /\ Ticks = 0..TickMod - 1 /\ 0 \in Ticks /\ 1 \in Ticks
  BY KernelAssumption DEF Ticks, portMAX_DELAY

(* The time some ticks from now, and the ticks since some time.            *)
LEMMA TickArithmetic ==
  ASSUME NEW a \in Ticks, NEW b \in Ticks
  PROVE  /\ (a + b) % TickMod = IF a + b < TickMod THEN a + b ELSE a + b - TickMod
         /\ (a - b) % TickMod = IF b <= a THEN a - b ELSE a - b + TickMod
         /\ (a + b) % TickMod \in Ticks /\ (a - b) % TickMod \in Ticks
<1>1. TickMod \in Nat \ {0} /\ a \in 0..TickMod - 1 /\ b \in 0..TickMod - 1
  BY TicksAre
<1>2. /\ (a + b) % TickMod = IF a + b < TickMod THEN a + b ELSE a + b - TickMod
      /\ (a - b) % TickMod = IF b <= a THEN a - b ELSE a - b + TickMod
  BY <1>1, ClockArithmetic
<1>. QED
  BY <1>1, <1>2, TicksAre

(* The first time at which one of some tasks wakes.                        *)
LEMMA FirstWakeIsFirst ==
  ASSUME NEW s \in Scheds, NEW D \in SUBSET Tasks
  PROVE  /\ FirstWake(s, D) \in Ticks
         /\ \A t \in D : FirstWake(s, D) <= s.xItemValue[t]
<1> DEFINE S == {portMAX_DELAY} \cup {s.xItemValue[t] : t \in D}
<1>1. S \in SUBSET Ticks /\ S # {}
  BY TicksAre DEF Scheds
<1>2. S \in SUBSET Nat
  BY <1>1, TicksAre
<1> HIDE DEF S
<1>3. Min(S) \in S /\ \A x \in S : Min(S) <= x
  BY <1>1, <1>2, LeastNatural
<1>4. \A t \in D : s.xItemValue[t] \in S
  BY DEF S
<1>. QED
  BY <1>1, <1>3, <1>4 DEF FirstWake, S

(* A sleeping task has at least one tick to sleep.                         *)
LEMMA LeftIsPositive ==
  ASSUME NEW s \in Clocks, NEW t \in Tasks, Sleeps(s, t)
  PROVE  Left(s, t) \in Nat \ {0}
  BY TicksAre DEF Clocks, Scheds, ClockSound, Sleeps, Left

(* The fields of the lists after a tick: u is what the switch of the lists *)
(* leaves, due are the tasks whose time has come.                          *)
LEMMA TickedIs ==
  ASSUME NEW s \in Scheds,
         NEW now, now = (s.xTickCount + 1) % TickMod,
         NEW u, u = IF now = 0 THEN Switched(s) ELSE s,
         NEW due, due = {t \in In(u, "delayed") : u.xItemValue[t] <= now}
  PROVE  /\ now \in Ticks /\ u \in Scheds /\ u.xItemValue = s.xItemValue
         /\ Ticked(s) \in Scheds
         /\ Ticked(s).xTickCount = now /\ Ticked(s).xItemValue = s.xItemValue
         /\ now < u.xNextTaskUnblockTime
              => /\ Ticked(s).list = u.list /\ Ticked(s).event = u.event
                 /\ Ticked(s).xNextTaskUnblockTime = u.xNextTaskUnblockTime
         /\ ~(now < u.xNextTaskUnblockTime)
              => /\ \A t \in Tasks :
                      /\ Ticked(s).list[t] = IF t \in due THEN "ready" ELSE u.list[t]
                      /\ Ticked(s).event[t] = IF t \in due THEN "none" ELSE u.event[t]
                 /\ \A t \in In(u, "delayed") \ due :
                      Ticked(s).xNextTaskUnblockTime <= u.xItemValue[t]
<1>1. now \in Ticks
  BY TicksAre, TickArithmetic DEF Scheds
<1>2. In(s, "overflow") \in SUBSET Tasks
  BY DEF In
<1>3. Switched(s) \in Scheds /\ Switched(s).xItemValue = s.xItemValue
  BY <1>2, FirstWakeIsFirst DEF Switched, Scheds, Lists
<1>4. u \in Scheds /\ u.xItemValue = s.xItemValue
  BY <1>3
<1> DEFINE first == FirstWake(u, In(u, "delayed") \ due)
           list  == [t \in Tasks |-> IF t \in due THEN "ready" ELSE u.list[t]]
           event == [t \in Tasks |-> IF t \in due THEN "none" ELSE u.event[t]]
<1>5. In(u, "delayed") \ due \in SUBSET Tasks
  BY DEF In
<1>6. first \in Ticks /\ \A t \in In(u, "delayed") \ due : first <= u.xItemValue[t]
  BY <1>4, <1>5, FirstWakeIsFirst
<1>7. list \in [Tasks -> Lists] /\ event \in [Tasks -> Events]
  BY <1>4 DEF Scheds, Lists, Events
<1>8. CASE now < u.xNextTaskUnblockTime
  <2>1. Ticked(s) = [u EXCEPT !.xTickCount = now]
    BY <1>8 DEF Ticked
  <2>. QED
    BY <1>1, <1>4, <1>8, <2>1 DEF Scheds
<1>9. CASE ~(now < u.xNextTaskUnblockTime)
  <2>1. Ticked(s) = [u EXCEPT !.xTickCount = now, !.list = list, !.event = event,
                              !.xNextTaskUnblockTime = first]
    BY <1>9 DEF Ticked
  <2> HIDE DEF first, list, event
  <2>2. /\ Ticked(s) \in Scheds
        /\ Ticked(s).xTickCount = now /\ Ticked(s).xItemValue = u.xItemValue
        /\ Ticked(s).list = list /\ Ticked(s).event = event
        /\ Ticked(s).xNextTaskUnblockTime = first
    BY <1>1, <1>4, <1>6, <1>7, <2>1 DEF Scheds
  <2>. QED
    BY <1>1, <1>4, <1>6, <1>9, <2>2 DEF list, event
<1>. QED
  BY <1>8, <1>9

(* A tick keeps the lists sound, wakes the tasks with one tick left, and   *)
(* takes one from the others.                                              *)
LEMMA TickedSound ==
  ASSUME NEW s \in Clocks
  PROVE  Ticked(s) \in AfterTicks(s, 1)
<1>a. PICK now : now = (s.xTickCount + 1) % TickMod
  OBVIOUS
<1>b. PICK u : u = IF now = 0 THEN Switched(s) ELSE s
  OBVIOUS
<1>c. PICK due : due = {t \in In(u, "delayed") : u.xItemValue[t] <= now}
  OBVIOUS
<1> DEFINE r == Ticked(s)
<1>0. s \in Scheds /\ ClockSound(s)
  BY DEF Clocks
<1>1. now = IF s.xTickCount + 1 < TickMod THEN s.xTickCount + 1 ELSE 0
  <2>1. s.xTickCount \in Ticks
    BY <1>0 DEF Scheds
  <2>. QED
    BY <1>a, <2>1, TicksAre, TickArithmetic
<1>2. /\ now \in Ticks /\ u \in Scheds /\ u.xItemValue = s.xItemValue
      /\ r \in Scheds /\ r.xTickCount = now /\ r.xItemValue = s.xItemValue
      /\ now < u.xNextTaskUnblockTime
           => /\ r.list = u.list /\ r.event = u.event
              /\ r.xNextTaskUnblockTime = u.xNextTaskUnblockTime
      /\ ~(now < u.xNextTaskUnblockTime)
           => /\ \A t \in Tasks : /\ r.list[t] = IF t \in due THEN "ready" ELSE u.list[t]
                                  /\ r.event[t] = IF t \in due THEN "none" ELSE u.event[t]
              /\ \A t \in In(u, "delayed") \ due : r.xNextTaskUnblockTime <= u.xItemValue[t]
  BY <1>0, <1>a, <1>b, <1>c, TickedIs
(* What the switch leaves is on the current list if it wakes in this round *)
<1>3. /\ u.event = s.event
      /\ \A t \in Tasks : /\ ~Sleeps(s, t) => u.list[t] = s.list[t]
                          /\ Sleeps(s, t) => Sleeps(u, t)
      /\ \A t \in Tasks : u.list[t] = "delayed" =>
           u.xNextTaskUnblockTime <= u.xItemValue[t] /\ Left(s, t) = u.xItemValue[t] - now + 1
      /\ \A t \in Tasks : u.list[t] = "overflow" =>
           u.xItemValue[t] < now /\ Left(s, t) = u.xItemValue[t] - now + 1 + TickMod
  <2>1. CASE now = 0
    <3>1. s.xTickCount = TickMod - 1
      BY <1>0, <1>1, <2>1, TicksAre DEF Scheds
    <3>2. \A t \in Tasks : s.list[t] # "delayed"
      BY <1>0, <3>1, TicksAre DEF ClockSound, Scheds
    <3>3. /\ u.event = s.event /\ u.xItemValue = s.xItemValue
          /\ \A t \in Tasks : u.list[t] = CASE s.list[t] = "delayed"  -> "overflow"
                                            [] s.list[t] = "overflow" -> "delayed"
                                            [] OTHER                  -> s.list[t]
          /\ u.xNextTaskUnblockTime = FirstWake(s, In(s, "overflow"))
      BY <1>0, <1>b, <2>1 DEF Switched, Scheds
    <3>4. \A t \in In(s, "overflow") : u.xNextTaskUnblockTime <= s.xItemValue[t]
      BY <1>0, <3>3, FirstWakeIsFirst DEF In
    <3>5. \A t \in Tasks : s.xItemValue[t] \in 0..TickMod - 1 /\ s.list[t] \in Lists
      BY <1>0, TicksAre DEF Scheds
    <3>6. \A t \in Tasks : /\ ~Sleeps(s, t) => u.list[t] = s.list[t]
                           /\ Sleeps(s, t) => u.list[t] = "delayed" /\ s.list[t] = "overflow"
      BY <3>2, <3>3, <3>5 DEF Sleeps, Lists
    <3>7. \A t \in Tasks : u.list[t] = "delayed" => s.list[t] = "overflow" /\ t \in In(s, "overflow")
      BY <3>2, <3>3, <3>5 DEF Lists, In
    <3>8. \A t \in Tasks : u.list[t] # "overflow"
      BY <3>2, <3>3, <3>5 DEF Lists
    <3>9. TickMod \in Nat
      BY TicksAre
    <3>10. \A t \in Tasks : u.list[t] = "delayed" =>
             u.xNextTaskUnblockTime <= u.xItemValue[t] /\ Left(s, t) = u.xItemValue[t] - now + 1
      BY <2>1, <3>1, <3>3, <3>4, <3>5, <3>7, <3>9 DEF Left
    <3>. QED
      BY <3>3, <3>6, <3>8, <3>10 DEF Sleeps
  <2>2. CASE now # 0
    <3>1. u = s /\ now = s.xTickCount + 1
      BY <1>b, <1>1, <2>2
    <3>. QED
      BY <1>0, <3>1, TicksAre DEF Sleeps, Left, ClockSound, Scheds
  <2>. QED
    BY <2>1, <2>2
<1> HIDE DEF r
<1>4. \A t \in Tasks : /\ r.list[t] = IF t \in due THEN "ready" ELSE u.list[t]
                       /\ r.event[t] = IF t \in due THEN "none" ELSE u.event[t]
  <2>1. now < u.xNextTaskUnblockTime => due = {}
    BY <1>c, <1>2, <1>3, TicksAre DEF In, Scheds
  <2>. QED
    BY <1>2, <2>1
<1>5. \A t \in Tasks : t \in due <=> u.list[t] = "delayed" /\ s.xItemValue[t] <= now
  BY <1>c, <1>2 DEF In
<1>6. ClockSound(r)
  BY <1>2, <1>3, <1>4, <1>5, TicksAre DEF ClockSound, Scheds, In
<1>7. \A t \in Tasks : Sleeps(s, t) => (t \in due <=> ~(Left(s, t) > 1))
  BY <1>2, <1>3, <1>5, TicksAre DEF Sleeps, Scheds
<1>8. \A t \in Tasks : Sleeps(s, t) /\ t \notin due => Sleeps(r, t) /\ Left(r, t) = Left(s, t) - 1
  BY <1>2, <1>3, <1>4, TicksAre DEF Sleeps, Left, Scheds
<1>9. \A t \in Tasks : ~Sleeps(s, t) => t \notin due
  BY <1>3, <1>5 DEF Sleeps
<1>10. now = s.xTickCount + 1 - (IF s.xTickCount + 1 >= TickMod THEN TickMod ELSE 0)
  BY <1>0, <1>1, TicksAre DEF Scheds
<1>11. r \in AfterTicks(s, 1)
  BY <1>2, <1>3, <1>4, <1>6, <1>7, <1>8, <1>9, <1>10 DEF AfterTicks, Clocks
<1>. QED
  BY <1>11 DEF r

(* One more tick after n of them                                           *)
LEMMA OneMoreTick ==
  ASSUME NEW s \in Clocks, NEW n \in Nat, NEW u \in AfterTicks(s, n)
  PROVE  Ticked(u) \in AfterTicks(s, n + 1)
<1> DEFINE r == Ticked(u)
<1>1. u \in Clocks /\ r \in AfterTicks(u, 1)
  BY TickedSound DEF AfterTicks
<1>2. /\ r \in Clocks /\ r.xItemValue = s.xItemValue
      /\ s.xTickCount \in 0..TickMod - 1 /\ u.xTickCount \in 0..TickMod - 1
  BY <1>1, TicksAre DEF AfterTicks, Clocks, Scheds
<1> HIDE DEF r
<1>3. s.xTickCount + (n + 1) < 2 * TickMod
        => r.xTickCount = s.xTickCount + (n + 1)
                          - (IF s.xTickCount + (n + 1) >= TickMod THEN TickMod ELSE 0)
  <2>1. u.xTickCount + 1 < 2 * TickMod
          => r.xTickCount = u.xTickCount + 1 - (IF u.xTickCount + 1 >= TickMod THEN TickMod ELSE 0)
    BY <1>1 DEF AfterTicks
  <2>2. s.xTickCount + n < 2 * TickMod
          => u.xTickCount = s.xTickCount + n - (IF s.xTickCount + n >= TickMod THEN TickMod ELSE 0)
    BY DEF AfterTicks
  <2>3. TickMod \in Nat
    BY TicksAre
  <2>4. \A a, b, c \in Int :
          /\ a + n < 2 * TickMod => b = a + n - (IF a + n >= TickMod THEN TickMod ELSE 0)
          /\ b + 1 < 2 * TickMod => c = b + 1 - (IF b + 1 >= TickMod THEN TickMod ELSE 0)
          /\ b \in 0..TickMod - 1 /\ c \in 0..TickMod - 1
          => (a + (n + 1) < 2 * TickMod
                => c = a + (n + 1) - (IF a + (n + 1) >= TickMod THEN TickMod ELSE 0))
    BY <2>3
  <2>5. r.xTickCount \in 0..TickMod - 1
    BY <1>2, TicksAre DEF Clocks, Scheds
  <2>6. s.xTickCount \in Int /\ u.xTickCount \in Int /\ r.xTickCount \in Int
    BY <1>2, <2>3, <2>5
  <2>. QED
    BY <1>2, <2>1, <2>2, <2>4, <2>5, <2>6
<1>4. ASSUME NEW t \in Tasks
      PROVE  IF ~Sleeps(s, t) THEN r.list[t] = s.list[t] /\ r.event[t] = s.event[t]
             ELSE IF Left(s, t) > n + 1
             THEN Sleeps(r, t) /\ Left(r, t) = Left(s, t) - (n + 1) /\ r.event[t] = s.event[t]
             ELSE r.list[t] = "ready" /\ r.event[t] = "none"
  <2>1. IF ~Sleeps(s, t) THEN u.list[t] = s.list[t] /\ u.event[t] = s.event[t]
        ELSE IF Left(s, t) > n
        THEN Sleeps(u, t) /\ Left(u, t) = Left(s, t) - n /\ u.event[t] = s.event[t]
        ELSE u.list[t] = "ready" /\ u.event[t] = "none"
    BY DEF AfterTicks
  <2>2. IF ~Sleeps(u, t) THEN r.list[t] = u.list[t] /\ r.event[t] = u.event[t]
        ELSE IF Left(u, t) > 1
        THEN Sleeps(r, t) /\ Left(r, t) = Left(u, t) - 1 /\ r.event[t] = u.event[t]
        ELSE r.list[t] = "ready" /\ r.event[t] = "none"
    BY <1>1 DEF AfterTicks
  <2>3. Sleeps(s, t) => Left(s, t) \in Nat
    BY LeftIsPositive
  <2>4. u.list[t] = "ready" => ~Sleeps(u, t)
    BY DEF Sleeps
  <2>5. CASE ~Sleeps(s, t)
    BY <2>1, <2>2, <2>5 DEF Sleeps
  <2>6. CASE Sleeps(s, t) /\ Left(s, t) > n
    BY <2>1, <2>2, <2>3, <2>6
  <2>7. CASE Sleeps(s, t) /\ ~(Left(s, t) > n)
    BY <2>1, <2>2, <2>3, <2>4, <2>7
  <2>. QED
    BY <2>5, <2>6, <2>7
<1>. QED
  BY <1>2, <1>3, <1>4 DEF AfterTicks, r

(* The recursive function of TicksFrom exists, and counts the ticks.       *)
LEMMA TicksFromIs ==
  ASSUME NEW s \in Clocks, NEW n \in Nat
  PROVE  TicksFrom(s, n) \in AfterTicks(s, n)
<1> DEFINE CountsTo(f, k) == f = [i \in 0..k |-> IF i = 0 THEN s ELSE Ticked(f[i - 1])]
           J == {k \in Nat : \E f : CountsTo(f, k)}
<1>1. n \in J
  <2>1. J \in SUBSET Nat
    OBVIOUS
  <2>2. 0 \in J
    <3>1. CountsTo([i \in 0..0 |-> s], 0)
      OBVIOUS
    <3>. QED
      BY <3>1
  <2>3. ASSUME NEW k \in 1..n, k - 1 \in J PROVE k \in J
    <3>1. PICK g : CountsTo(g, k - 1)
      BY <2>3
    <3> DEFINE f == [i \in 0..k |-> IF i < k THEN g[i] ELSE Ticked(g[k - 1])]
    <3>2. \A i \in 0..k - 1 : g[i] = IF i = 0 THEN s ELSE Ticked(g[i - 1])
      BY <3>1
    <3>3. \A i \in 0..k : f[i] = IF i = 0 THEN s ELSE Ticked(f[i - 1])
      BY <3>2
    <3>4. CountsTo(f, k)
      BY <3>3
    <3> HIDE DEF f
    <3>. QED
      BY <3>4
  <2> HIDE DEF J
  <2>. QED
    BY <2>1, <2>2, <2>3, StepByStep
<1> DEFINE after == CHOOSE f : CountsTo(f, n)
<1>2. CountsTo(after, n)
  BY <1>1
<1>3. TicksFrom(s, n) = after[n]
  BY DEF TicksFrom
<1> HIDE DEF after
<1>4. \A i \in 0..n : after[i] = IF i = 0 THEN s ELSE Ticked(after[i - 1])
  BY <1>2
<1> DEFINE K == {k \in Nat : k <= n => after[k] \in AfterTicks(s, k)}
<1>5. s \in AfterTicks(s, 0)
  BY LeftIsPositive, TicksAre DEF AfterTicks, Clocks, Scheds
<1>6. n \in K
  <2>1. 0 \in K
    BY <1>4, <1>5
  <2>2. ASSUME NEW k \in 1..n, k - 1 \in K PROVE k \in K
    <3>1. after[k] = Ticked(after[k - 1]) /\ after[k - 1] \in AfterTicks(s, k - 1)
      BY <1>4, <2>2
    <3>2. after[k] \in AfterTicks(s, (k - 1) + 1)
      BY <3>1, OneMoreTick
    <3>. QED
      BY <3>2
  <2>3. K \in SUBSET Nat
    OBVIOUS
  <2> HIDE DEF K
  <2>. QED
    BY <2>1, <2>2, <2>3, StepByStep
<1>. QED
  BY <1>3, <1>6

(* A task that puts itself on a list: with a limit it has so many ticks    *)
(* left, without one it is on the list of suspended tasks.                 *)
LEMMA DelayedIs ==
  ASSUME NEW s \in Clocks, NEW t \in Tasks, s.list[t] = "ready",
         NEW wait \in Ticks, NEW forEver \in BOOLEAN,
         wait # 0
  PROVE  LET r == Delayed(s, t, wait, forEver) IN
         /\ r \in Clocks /\ r.xTickCount = s.xTickCount /\ r.event = s.event
         /\ \A u \in Tasks \ {t} : r.list[u] = s.list[u] /\ r.xItemValue[u] = s.xItemValue[u]
         /\ IF wait = portMAX_DELAY /\ forEver THEN r.list[t] = "suspended"
            ELSE Sleeps(r, t) /\ Left(r, t) = wait
<1> DEFINE wake == (s.xTickCount + wait) % TickMod
           r == Delayed(s, t, wait, forEver)
<1>1. s \in Scheds /\ ClockSound(s) /\ s.xTickCount \in Ticks
  BY DEF Clocks, Scheds
<1>2. wake \in Ticks
  BY <1>1, TickArithmetic
<1>3. wake = IF s.xTickCount + wait < TickMod THEN s.xTickCount + wait
             ELSE s.xTickCount + wait - TickMod
  BY <1>1, TickArithmetic
<1>4. /\ wait \in 1..TickMod - 1 /\ s.xTickCount \in 0..TickMod - 1 /\ wake \in 0..TickMod - 1
      /\ TickMod \in Nat
  BY <1>1, <1>2, TicksAre
<1> HIDE DEF wake
<1>5. CASE wait = portMAX_DELAY /\ forEver
  <2> DEFINE list == [s.list EXCEPT ![t] = "suspended"]
  <2>1. r = [s EXCEPT !.list = list]
    BY <1>5 DEF Delayed
  <2>2. list \in [Tasks -> Lists] /\ list[t] = "suspended"
        /\ \A u \in Tasks \ {t} : list[u] = s.list[u]
    BY <1>1 DEF Scheds, Lists
  <2> HIDE DEF list
  <2>3. /\ r \in Scheds /\ r.list = list
        /\ r.xTickCount = s.xTickCount /\ r.xItemValue = s.xItemValue /\ r.event = s.event
        /\ r.xNextTaskUnblockTime = s.xNextTaskUnblockTime
    BY <1>1, <2>1, <2>2 DEF Scheds
  <2>4. ClockSound(r)
    BY <1>1, <2>2, <2>3 DEF ClockSound
  <2>. QED
    BY <1>5, <2>2, <2>3, <2>4 DEF Clocks
<1>6. CASE ~(wait = portMAX_DELAY /\ forEver) /\ wake < s.xTickCount
  <2> DEFINE list  == [s.list EXCEPT ![t] = "overflow"]
             value == [s.xItemValue EXCEPT ![t] = wake]
  <2>1. r = [s EXCEPT !.list = list, !.xItemValue = value]
    BY <1>6 DEF Delayed, wake
  <2>a. list \in [Tasks -> Lists] /\ list[t] = "overflow"
        /\ \A u \in Tasks \ {t} : list[u] = s.list[u]
    BY <1>1 DEF Scheds, Lists
  <2>b. value \in [Tasks -> Ticks] /\ value[t] = wake
        /\ \A u \in Tasks \ {t} : value[u] = s.xItemValue[u]
    BY <1>1, <1>2 DEF Scheds
  <2> HIDE DEF list, value
  <2>2. r \in Scheds
    BY <1>1, <2>1, <2>a, <2>b DEF Scheds
  <2>3. /\ r.xTickCount = s.xTickCount /\ r.event = s.event
        /\ r.xNextTaskUnblockTime = s.xNextTaskUnblockTime
        /\ r.list[t] = "overflow" /\ r.xItemValue[t] = wake
        /\ \A u \in Tasks \ {t} : r.list[u] = s.list[u] /\ r.xItemValue[u] = s.xItemValue[u]
    BY <1>1, <2>1, <2>a, <2>b DEF Scheds
  <2>4. ClockSound(r)
    BY <1>1, <1>6, <2>3 DEF ClockSound
  <2>5. Sleeps(r, t) /\ Left(r, t) = wait
    BY <1>3, <1>4, <1>6, <2>3 DEF Sleeps, Left
  <2>. QED
    BY <1>6, <2>2, <2>3, <2>4, <2>5 DEF Clocks
<1>7. CASE ~(wait = portMAX_DELAY /\ forEver) /\ ~(wake < s.xTickCount)
  <2> DEFINE first == IF wake < s.xNextTaskUnblockTime THEN wake ELSE s.xNextTaskUnblockTime
             list  == [s.list EXCEPT ![t] = "delayed"]
             value == [s.xItemValue EXCEPT ![t] = wake]
  <2>1. r = [s EXCEPT !.list = list, !.xItemValue = value, !.xNextTaskUnblockTime = first]
    BY <1>7 DEF Delayed, wake
  <2>2. first \in Ticks /\ first <= wake /\ first <= s.xNextTaskUnblockTime
    BY <1>1, <1>2, <1>4, TicksAre DEF Scheds
  <2>a. list \in [Tasks -> Lists] /\ list[t] = "delayed"
        /\ \A u \in Tasks \ {t} : list[u] = s.list[u]
    BY <1>1 DEF Scheds, Lists
  <2>b. value \in [Tasks -> Ticks] /\ value[t] = wake
        /\ \A u \in Tasks \ {t} : value[u] = s.xItemValue[u]
    BY <1>1, <1>2 DEF Scheds
  <2> HIDE DEF first, list, value
  <2>3. r \in Scheds
    BY <1>1, <2>1, <2>2, <2>a, <2>b DEF Scheds
  <2>4. /\ r.xTickCount = s.xTickCount /\ r.event = s.event
        /\ r.xNextTaskUnblockTime = first
        /\ r.list[t] = "delayed" /\ r.xItemValue[t] = wake
        /\ \A u \in Tasks \ {t} : r.list[u] = s.list[u] /\ r.xItemValue[u] = s.xItemValue[u]
    BY <1>1, <2>1, <2>a, <2>b DEF Scheds
  <2>5. s.xTickCount < wake
    BY <1>3, <1>4, <1>7
  <2>6. /\ \A u \in Tasks : s.xItemValue[u] \in Nat
        /\ s.xNextTaskUnblockTime \in Nat /\ first \in Nat
    BY <1>1, <2>2, TicksAre DEF Scheds
  <2>7. ClockSound(r)
    BY <1>1, <2>2, <2>4, <2>5, <2>6 DEF ClockSound
  <2>8. Sleeps(r, t) /\ Left(r, t) = wait
    BY <1>3, <1>4, <2>4, <2>5 DEF Sleeps, Left
  <2>. QED
    BY <1>7, <2>3, <2>4, <2>7, <2>8 DEF Clocks
<1>. QED
  BY <1>5, <1>6, <1>7

(* Lists whose tasks leave the sleeping lists only for the ready one stay  *)
(* sound.                                                                  *)
LEMMA FewerSleep ==
  ASSUME NEW s \in Clocks, NEW r \in Scheds,
         r.xTickCount = s.xTickCount, r.xItemValue = s.xItemValue,
         r.xNextTaskUnblockTime = s.xNextTaskUnblockTime,
         \A u \in Tasks : r.list[u] = s.list[u] \/ r.list[u] = "ready"
  PROVE  r \in Clocks
  BY DEF Clocks, ClockSound

(* A task that is taken from the list of an event: r are the lists after s *)
IsFreed(r, s, t) ==
  /\ r \in Clocks
  /\ r.xTickCount = s.xTickCount /\ r.xItemValue = s.xItemValue
  /\ \A u \in Tasks \ {t} : r.list[u] = s.list[u] /\ r.event[u] = s.event[u]
  /\ IF uxSchedulerSuspended THEN r.list[t] = s.list[t] /\ r.event[t] = "pendingReady"
     ELSE r.list[t] = "ready" /\ r.event[t] = "none"

(* xTaskRemoveFromEventList                                                *)
LEMMA FreedIs ==
  ASSUME NEW s \in Clocks, NEW t \in Tasks
  PROVE  IsFreed(Freed(s, t), s, t)
<1> DEFINE r == Freed(s, t)
<1>1. s \in Scheds
  BY DEF Clocks
<1>2. CASE uxSchedulerSuspended
  <2> DEFINE event == [s.event EXCEPT ![t] = "pendingReady"]
  <2>1. r = [s EXCEPT !.event = event]
    BY <1>2 DEF Freed
  <2>2. event \in [Tasks -> Events] /\ event[t] = "pendingReady"
        /\ \A u \in Tasks \ {t} : event[u] = s.event[u]
    BY <1>1 DEF Scheds, Events
  <2> HIDE DEF event
  <2>3. /\ r \in Scheds /\ r.list = s.list /\ r.event = event
        /\ r.xTickCount = s.xTickCount /\ r.xItemValue = s.xItemValue
        /\ r.xNextTaskUnblockTime = s.xNextTaskUnblockTime
    BY <1>1, <2>1, <2>2 DEF Scheds
  <2>4. r \in Clocks
    BY <2>3, FewerSleep
  <2>. QED
    BY <1>2, <2>2, <2>3, <2>4 DEF IsFreed
<1>3. CASE ~uxSchedulerSuspended
  <2> DEFINE event == [s.event EXCEPT ![t] = "none"]
             list  == [s.list EXCEPT ![t] = "ready"]
  <2>1. r = [s EXCEPT !.event = event, !.list = list]
    BY <1>3 DEF Freed
  <2>2. /\ event \in [Tasks -> Events] /\ event[t] = "none"
        /\ \A u \in Tasks \ {t} : event[u] = s.event[u]
        /\ list \in [Tasks -> Lists] /\ list[t] = "ready"
        /\ \A u \in Tasks \ {t} : list[u] = s.list[u]
    BY <1>1 DEF Scheds, Events, Lists
  <2> HIDE DEF event, list
  <2>3. /\ r \in Scheds /\ r.list = list /\ r.event = event
        /\ r.xTickCount = s.xTickCount /\ r.xItemValue = s.xItemValue
        /\ r.xNextTaskUnblockTime = s.xNextTaskUnblockTime
    BY <1>1, <2>1, <2>2 DEF Scheds
  <2>4. r \in Clocks
    BY <2>2, <2>3, FewerSleep
  <2>. QED
    BY <1>3, <2>2, <2>3, <2>4 DEF IsFreed
<1>. QED
  BY <1>2, <1>3

(* What xTaskResumeAll does to the lists before it counts the ticks        *)
Pending == {u \in Tasks : sched.event[u] = "pendingReady"}

Resumed ==
  LET moved == [sched EXCEPT
                  !.list  = [u \in Tasks |-> IF u \in Pending THEN "ready" ELSE @[u]],
                  !.event = [u \in Tasks |-> IF u \in Pending THEN "none" ELSE @[u]]]
  IN IF Pending = {} THEN sched
     ELSE [moved EXCEPT !.xNextTaskUnblockTime = FirstWake(moved, In(moved, "delayed"))]

(* They are sound as before, and who was pending is ready.                 *)
LEMMA ResumedIs ==
  ASSUME sched \in Clocks
  PROVE  /\ Resumed \in Clocks
         /\ Resumed.xTickCount = sched.xTickCount /\ Resumed.xItemValue = sched.xItemValue
         /\ \A u \in Tasks :
              /\ Resumed.list[u] = IF u \in Pending THEN "ready" ELSE sched.list[u]
              /\ Resumed.event[u] = IF u \in Pending THEN "none" ELSE sched.event[u]
<1> DEFINE list  == [u \in Tasks |-> IF u \in Pending THEN "ready" ELSE sched.list[u]]
           event == [u \in Tasks |-> IF u \in Pending THEN "none" ELSE sched.event[u]]
           moved == [sched EXCEPT !.list = list, !.event = event]
           first == FirstWake(moved, In(moved, "delayed"))
<1>1. sched \in Scheds
  BY DEF Clocks
<1>2. list \in [Tasks -> Lists] /\ event \in [Tasks -> Events]
  BY <1>1 DEF Scheds, Lists, Events
<1>3. CASE Pending = {}
  <2>1. Resumed = sched
    BY <1>3 DEF Resumed
  <2>. QED
    BY <1>3, <2>1
<1>4. CASE Pending # {}
  <2>1. Resumed = [moved EXCEPT !.xNextTaskUnblockTime = first]
    BY <1>4 DEF Resumed
  <2> HIDE DEF list, event
  <2>2. moved \in Scheds /\ moved.list = list /\ moved.event = event
        /\ moved.xTickCount = sched.xTickCount /\ moved.xItemValue = sched.xItemValue
    BY <1>1, <1>2 DEF Scheds
  <2> HIDE DEF moved
  <2>3. In(moved, "delayed") \in SUBSET Tasks
    BY DEF In
  <2>4. first \in Ticks /\ \A u \in In(moved, "delayed") : first <= moved.xItemValue[u]
    BY <2>2, <2>3, FirstWakeIsFirst
  <2> HIDE DEF first
  <2>5. /\ Resumed \in Scheds /\ Resumed.list = list /\ Resumed.event = event
        /\ Resumed.xTickCount = sched.xTickCount /\ Resumed.xItemValue = sched.xItemValue
        /\ Resumed.xNextTaskUnblockTime = first
    BY <2>1, <2>2, <2>4 DEF Scheds
  <2>6. \A u \in Tasks : /\ list[u] = IF u \in Pending THEN "ready" ELSE sched.list[u]
                         /\ event[u] = IF u \in Pending THEN "none" ELSE sched.event[u]
    BY DEF list, event
  <2>7. ClockSound(Resumed)
    BY <2>2, <2>4, <2>5, <2>6 DEF Clocks, ClockSound, In
  <2>. QED
    BY <2>5, <2>6, <2>7 DEF Clocks
<1>. QED
  BY <1>3, <1>4

---------------------------------------------------------------------------
(* The inductive invariant                                                 *)

Suspends == {"lock", "test", "place", "unlock", "resume"}
Locks    == {"test", "place", "unlock"}
Queued   == {"receive", "send"}

(* Who has suspended the scheduler runs, and no one else is where he has   *)
(* suspended it; the queue is locked by him; and what he found out about   *)
(* the queue still holds but for what interrupts have sent since.          *)
Owned ==
  /\ uxSchedulerSuspended <=> pc[current] \in Suspends
  /\ \A t \in Tasks : pc[t] \in Suspends => t = current
  /\ ~uxSchedulerSuspended => xPendedTicks = 0
  /\ cTxLock # queueUNLOCKED <=> pc[current] \in Locks
  /\ pc[current] = "place" =>
       IF call[current].op = "send" THEN uxMessagesWaiting = QueueLength
       ELSE uxMessagesWaiting <= cTxLock

(* What the variables of a call are at each of its labels                  *)
Phase(p, c) ==
  /\ c.op = "none" <=> p = "run"
  /\ c.op = "delay" => p \in {"resume", "woken"} /\ c.next = "block" /\ c.asked > 0
  /\ p = "woken" => c.op = "delay"
  /\ p = "empty" => c.op = "receive" /\ c.next = "expired"
  /\ p = "full" => c.op = "send" /\ c.next = "expired"
  /\ p \in {"suspend", "lock"} => c.next # "expired"
  /\ p \in {"test", "place"} => c.next = "again"
  /\ c.xEntryTimeSet => c.op \in Queued
  /\ c.op \in Queued /\ p # "try" => c.xEntryTimeSet
  /\ c.op \in Queued /\ ~c.xEntryTimeSet => c.xTicksToWait = c.asked /\ c.next = "again"
  /\ c.wrapped => c.xEntryTimeSet
  /\ c.next = "expired" => c.xEntryTimeSet /\ c.xTicksToWait = 0 /\ c.asked # portMAX_DELAY
  /\ c.xEntryTimeSet /\ c.next # "expired" => c.xTicksToWait > 0
  /\ c.xTicksToWait <= c.asked
  /\ c.op \in Queued /\ c.asked = portMAX_DELAY => c.xTicksToWait = portMAX_DELAY
  /\ c.op = "restricted" => c.xTicksToWait = 0

Phases == \A t \in Tasks : Phase(pc[t], call[t])

(* A task is off the list of those who are ready only where it has put     *)
(* itself on another one, with the event that its call waits for.          *)
ListOf(t) ==
  /\ sched.event[t] # "none" => sched.list[t] # "ready" /\ call[t].op # "delay"
  /\ sched.event[t] = "pendingReady" => uxSchedulerSuspended
  /\ sched.event[t] = "receive" => call[t].op \in Receives
  /\ sched.event[t] = "send" => call[t].op = "send"
  /\ sched.list[t] # "ready" => /\ pc[t] \in {"unlock", "resume", "try", "woken"}
                                /\ call[t].next = "block"
  /\ sched.list[t] = "suspended" => Endless(t)
  /\ Endless(t) => ~Sleeps(sched, t)
  /\ sched.list[t] = "ready" /\ Priority[t] > Priority[current] => xYieldPending

CurrentReady == uxSchedulerSuspended \/ sched.list[current] = "ready"

ListsInv == CurrentReady /\ \A t \in Tasks : ListOf(t)

(* The ticks since its call began to wait that the lists have counted      *)
Seen(t) == elapsed[t] - xPendedTicks

(* The ticks since the entry time of its wait                              *)
Since(t) ==
  sched.xTickCount - call[t].xTimeOnEntering + (IF call[t].wrapped THEN TickMod ELSE 0)

(* The time seen and the time left are the time asked for; when a wait is  *)
(* begun anew what is left of it is what is not accounted for.             *)
TimeOf(t) ==
  /\ IF Counts(t) THEN Seen(t) >= 0 ELSE elapsed[t] = 0
  /\ Sleeps(sched, t) => Counts(t) /\ Seen(t) + Left(sched, t) = call[t].asked
  /\ call[t].xEntryTimeSet /\ ~Endless(t) /\ call[t].next # "expired"
       => Since(t) >= 0 /\ Seen(t) = call[t].asked - call[t].xTicksToWait + Since(t)
  /\ pc[t] \in {"test", "place"} /\ Counts(t) => Since(t) = 0
  /\ call[t].next = "expired" => Seen(t) >= call[t].asked
  /\ call[t].op = "delay" /\ sched.list[t] = "ready" => Seen(t) >= call[t].asked

TimeInv == ClockSound(sched) /\ \A t \in Tasks : TimeOf(t)

(* The messages are between the read and the write position.               *)
RingInv == pcWriteTo = (pcReadFrom + 1 + uxMessagesWaiting) % QueueLength

IInv ==
  /\ TypeOK /\ Owned /\ Phases /\ ListsInv /\ TimeInv
  /\ NoLostWakeup /\ RingInv

---------------------------------------------------------------------------
(* Calls                                                                   *)

(* What xTaskCheckForTimeOut makes of the variables c of a call: a wait    *)
(* without end goes on, any other is begun anew with the rest of its time, *)
(* or over.                                                                *)
Outcome(c, d, passed) ==
  LET around  == c.wrapped /\ sched.xTickCount >= c.xTimeOnEntering
      endless == c.op = "restricted" \/ c.xTicksToWait = portMAX_DELAY
  IN
  /\ d \in Calls /\ d.op = c.op /\ d.asked = c.asked /\ d.xEntryTimeSet = c.xEntryTimeSet
  /\ \/ /\ endless /\ d.next = "again" /\ d.xTicksToWait = c.xTicksToWait
        /\ d.wrapped = c.wrapped /\ d.xTimeOnEntering = c.xTimeOnEntering
     \/ /\ ~endless /\ ~around /\ passed < c.xTicksToWait
        /\ d.next = "again" /\ d.xTicksToWait = c.xTicksToWait - passed
        /\ d.xTimeOnEntering = sched.xTickCount /\ d.wrapped = FALSE
     \/ /\ ~endless /\ (around \/ passed >= c.xTicksToWait)
        /\ d.next = "expired" /\ d.xTicksToWait = 0 /\ d.wrapped = c.wrapped

(* xTaskCheckForTimeOut comes to one of the three.                         *)
LEMMA CheckedIs ==
  ASSUME TypeOK, NEW c \in Calls,
         NEW passed, passed = (sched.xTickCount - c.xTimeOnEntering) % TickMod
  PROVE  Outcome(c, Checked(c), passed)
<1> SUFFICES ASSUME NEW d, d = Checked(c) PROVE Outcome(c, d, passed)
  OBVIOUS
<1> DEFINE around == c.wrapped /\ sched.xTickCount >= c.xTimeOnEntering
<1>1. sched.xTickCount \in Ticks /\ c.xTimeOnEntering \in Ticks /\ c.xTicksToWait \in Ticks
      /\ passed \in Ticks
  BY TickArithmetic DEF TypeOK, Scheds, Calls
<1>2. CASE c.op = "restricted" \/ c.xTicksToWait = portMAX_DELAY
  <2>1. d = [c EXCEPT !.next = "again"]
    BY <1>2 DEF Checked
  <2>. QED
    BY <1>2, <2>1 DEF Calls, Outcome
<1>3. CASE /\ ~(c.op = "restricted" \/ c.xTicksToWait = portMAX_DELAY)
           /\ ~around /\ passed < c.xTicksToWait
  <2>1. d = [c EXCEPT !.xTicksToWait = c.xTicksToWait - passed,
                      !.xTimeOnEntering = sched.xTickCount, !.wrapped = FALSE, !.next = "again"]
    BY <1>3 DEF Checked, Renewed
  <2>2. c.xTicksToWait - passed \in Ticks
    BY <1>1, <1>3, TicksAre
  <2>. QED
    BY <1>1, <1>3, <2>1, <2>2 DEF Calls, Outcome
<1>4. CASE /\ ~(c.op = "restricted" \/ c.xTicksToWait = portMAX_DELAY)
           /\ ~(~around /\ passed < c.xTicksToWait)
  <2>1. d = [c EXCEPT !.xTicksToWait = 0, !.next = "expired"]
    BY <1>4 DEF Checked
  <2>2. passed >= c.xTicksToWait \/ around
    BY <1>1, <1>4, TicksAre
  <2>. QED
    BY <1>1, <1>4, <2>1, <2>2, TicksAre DEF Calls, Outcome
<1>. QED
  BY <1>2, <1>3, <1>4

(* What the lemmas on steps use of the type invariant                      *)
LEMMA Types ==
  ASSUME TypeOK
  PROVE  /\ current \in Tasks /\ sched \in Scheds
         /\ pc \in [Tasks -> Labels] /\ call \in [Tasks -> Calls]
         /\ elapsed \in [Tasks -> 0..TickMod]
         /\ \A t \in Tasks :
              /\ pc[t] \in Labels /\ call[t] \in Calls /\ elapsed[t] \in 0..TickMod
              /\ sched.list[t] \in Lists /\ sched.event[t] \in Events
              /\ sched.xItemValue[t] \in 0..TickMod - 1
              /\ call[t].op \in {"none", "delay", "receive", "send", "restricted"}
              /\ call[t].asked \in 0..TickMod - 1 /\ call[t].xTicksToWait \in 0..TickMod - 1
              /\ call[t].xTimeOnEntering \in 0..TickMod - 1
              /\ call[t].xEntryTimeSet \in BOOLEAN /\ call[t].wrapped \in BOOLEAN
              /\ call[t].next \in {"block", "again", "expired"}
         /\ sched.xTickCount \in 0..TickMod - 1
         /\ xPendedTicks \in Nat /\ uxMessagesWaiting \in 0..QueueLength /\ QueueLength \in Nat
         /\ cTxLock \in -1..uxMessagesWaiting /\ queueUNLOCKED = -1
         /\ uxSchedulerSuspended \in BOOLEAN /\ xYieldPending \in BOOLEAN
<1>1. /\ current \in Tasks /\ sched \in Scheds
      /\ pc \in [Tasks -> Labels] /\ call \in [Tasks -> Calls]
      /\ elapsed \in [Tasks -> 0..TickMod]
      /\ xPendedTicks \in Nat /\ uxMessagesWaiting \in 0..QueueLength /\ QueueLength \in Nat
      /\ uxSchedulerSuspended \in BOOLEAN /\ xYieldPending \in BOOLEAN
  BY KernelAssumption DEF TypeOK
<1>2. ASSUME NEW t \in Tasks
      PROVE  pc[t] \in Labels /\ call[t] \in Calls /\ elapsed[t] \in 0..TickMod
  BY <1>1
<1>3. ASSUME NEW t \in Tasks
      PROVE  /\ sched.list[t] \in Lists /\ sched.event[t] \in Events
             /\ sched.xItemValue[t] \in 0..TickMod - 1
  BY <1>1, TicksAre DEF Scheds
<1>4. ASSUME NEW c \in Calls
      PROVE  /\ c.op \in {"none", "delay", "receive", "send", "restricted"}
             /\ c.asked \in 0..TickMod - 1 /\ c.xTicksToWait \in 0..TickMod - 1
             /\ c.xTimeOnEntering \in 0..TickMod - 1
             /\ c.xEntryTimeSet \in BOOLEAN /\ c.wrapped \in BOOLEAN
             /\ c.next \in {"block", "again", "expired"}
  BY TicksAre DEF Calls
<1>5. sched.xTickCount \in 0..TickMod - 1
  BY <1>1, TicksAre DEF Scheds
<1>6. cTxLock \in -1..uxMessagesWaiting /\ queueUNLOCKED = -1
  BY DEF TypeOK, queueUNLOCKED
<1>. QED
  BY <1>1, <1>2, <1>3, <1>4, <1>5, <1>6

(* A set of more tasks does not count less.                                *)
LEMMA CountGrows ==
  ASSUME NEW B \in SUBSET Tasks, NEW A \in SUBSET B
  PROVE  /\ Cardinality(A) \in Nat /\ Cardinality(B) \in Nat
         /\ Cardinality(A) <= Cardinality(B)
<1>1. IsFiniteSet(Tasks)
  BY KernelAssumption
<1>2. IsFiniteSet(B)
  BY <1>1, FS_Subset
<1>3. IsFiniteSet(A) /\ Cardinality(A) <= Cardinality(B)
  BY <1>2, FS_Subset
<1>. QED
  BY <1>2, <1>3, FS_CardinalityType

(* The messages that the lock has counted                                  *)
LEMMA CountedIs ==
  ASSUME TypeOK
  PROVE  Counted \in Nat /\ Counted = (IF cTxLock = -1 THEN 0 ELSE cTxLock)
  BY Types DEF Counted

(* The running task is ready but where it has suspended the scheduler and  *)
(* put itself on a list.                                                   *)
LEMMA RunnerReady ==
  ASSUME IInv, pc[current] \notin {"unlock", "resume"}
  PROVE  sched.list[current] = "ready" /\ sched.event[current] = "none"
<1>1. current \in Tasks /\ ListOf(current) /\ CurrentReady /\ sched.event[current] \in Events
  BY Types DEF IInv, ListsInv
<1>2. uxSchedulerSuspended => pc[current] \in {"lock", "test", "place"}
  BY DEF IInv, Owned, Suspends
<1>. QED
  BY <1>1, <1>2 DEF ListOf, CurrentReady, Events

(* A step of the running task that leaves the lists and the messages alone *)
LEMMA RunnerStep ==
  ASSUME IInv, NEW t \in Tasks, current = t,
         NEW p \in Labels, pc' = [pc EXCEPT ![t] = p],
         NEW c \in Calls, call' = [call EXCEPT ![t] = c],
         NEW e \in 0..TickMod, elapsed' = [elapsed EXCEPT ![t] = e],
         UNCHANGED <<current, sched, xYieldPending, xPendedTicks, store>>,
         uxSchedulerSuspended' \in BOOLEAN, uxSchedulerSuspended => uxSchedulerSuspended',
         cTxLock' \in -1..uxMessagesWaiting, Counted' = Counted,
         Owned', Phase(p, c), TimeOf(t)',
         pc[t] \notin {"unlock", "resume"},
         pc[t] = "try" => Impossible(t)
  PROVE  IInv'
<1>1. /\ sched.list[t] = "ready" /\ sched.event[t] = "none"
      /\ pc'[t] = p /\ call'[t] = c
      /\ \A u \in Tasks \ {t} : pc'[u] = pc[u] /\ call'[u] = call[u] /\ elapsed'[u] = elapsed[u]
  BY RunnerReady, Types DEF IInv
<1>2. TypeOK'
  BY DEF IInv, TypeOK, store, queueUNLOCKED
<1>3. Phases'
  BY <1>1 DEF IInv, Phases
<1>4. ListsInv'
  <2>1. CurrentReady'
    BY <1>1 DEF CurrentReady
  <2>2. ListOf(t)'
    BY <1>1 DEF IInv, ListsInv, ListOf, Endless, Sleeps
  <2>3. ASSUME NEW u \in Tasks \ {t} PROVE ListOf(u)'
    BY <1>1 DEF IInv, ListsInv, ListOf, Endless, Sleeps
  <2>. QED
    BY <2>1, <2>2, <2>3 DEF ListsInv
<1>5. TimeInv'
  <2>1. ASSUME NEW u \in Tasks \ {t} PROVE TimeOf(u)'
    BY <1>1 DEF IInv, TimeInv, TimeOf, Endless, Counts, Seen, Since, Sleeps, Left
  <2>. QED
    BY <2>1 DEF IInv, TimeInv, ClockSound
<1>6. RingInv'
  BY DEF IInv, RingInv, store
<1>7. NoLostWakeup'
  <2>1. ASSUME NEW ops, t \notin Eager(ops) PROVE Cardinality(Eager(ops)) <= Cardinality(Eager(ops)')
    <3>1. Eager(ops) \subseteq Eager(ops)'
      BY <1>1, <2>1 DEF Eager
    <3>2. Eager(ops)' \in SUBSET Tasks
      BY DEF Eager
    <3>. QED
      BY <3>1, <3>2, CountGrows
  <2>2. \A ops : Cardinality(Eager(ops)) \in Nat /\ Cardinality(Eager(ops)') \in Nat
    <3>1. \A ops : Eager(ops) \in SUBSET Tasks /\ Eager(ops)' \in SUBSET Tasks
      BY DEF Eager
    <3>. QED
      BY <3>1, CountGrows
  <2>3. t \in Eager(Receives) => uxMessagesWaiting = 0
    BY <1>1 DEF Eager, Impossible, Receives
  <2>4. t \in Eager({"send"}) => uxMessagesWaiting = QueueLength
    BY <1>1 DEF Eager, Impossible
  <2>5. Counted \in Nat /\ QueueLength \in Nat /\ uxMessagesWaiting \in Nat
    BY CountedIs, Types DEF IInv
  <2>6. sched' = sched /\ uxMessagesWaiting' = uxMessagesWaiting
    BY DEF store
  <2>7. NoLostWakeup
    BY DEF IInv
  <2>8. (\E u \in Tasks : sched.event[u] = "receive")
          => uxMessagesWaiting <= Cardinality(Eager(Receives)') + Counted
    BY <2>1, <2>2, <2>3, <2>5, <2>7 DEF NoLostWakeup
  <2>9. (\E u \in Tasks : sched.event[u] = "send")
          => QueueLength - uxMessagesWaiting <= Cardinality(Eager({"send"})')
    BY <2>1, <2>2, <2>4, <2>5, <2>7 DEF NoLostWakeup
  <2>. QED
    BY <2>6, <2>8, <2>9 DEF NoLostWakeup
<1>. QED
  BY <1>2, <1>3, <1>4, <1>5, <1>6, <1>7 DEF IInv

(* While a task runs that has not suspended the scheduler, nothing waits   *)
(* for it to be resumed, and the queue is not locked.                      *)
LEMMA NotSuspended ==
  ASSUME IInv, pc[current] \notin Suspends
  PROVE  /\ uxSchedulerSuspended = FALSE /\ xPendedTicks = 0 /\ cTxLock = -1
         /\ \A u \in Tasks : pc[u] \notin Suspends
  BY Types DEF IInv, Owned, Suspends, Locks

(* xQueueReceive, xQueueGenericSend, prvProcessTimerOrBlockTask begin.     *)
LEMMA BeginStep ==
  ASSUME IInv, NEW t \in Tasks,
         NEW op \in {"receive", "send", "restricted"}, NEW wait \in Ticks,
         op = "restricted" => wait = 0,
         Begin(t, op, wait), Goto(t, IF op = "restricted" THEN "suspend" ELSE "try")
  PROVE  IInv'
<1> DEFINE p == IF op = "restricted" THEN "suspend" ELSE "try"
<1> DEFINE c == Call(op, wait)
<1>1. /\ current = t /\ pc[t] = "run" /\ pc' = [pc EXCEPT ![t] = p]
      /\ call' = [call EXCEPT ![t] = c]
      /\ UNCHANGED <<scheduler, store, cTxLock, elapsed>>
  BY DEF Begin, Runs, Goto
<1>a. op \in {"none", "delay", "receive", "send", "restricted"}
  OBVIOUS
<1>3. /\ c \in Calls
      /\ c.op = op /\ c.asked = wait /\ c.xTicksToWait = wait /\ c.xEntryTimeSet = FALSE
      /\ c.next = "again" /\ c.wrapped = FALSE
  BY <1>a, TicksAre DEF Call, Calls
<1> HIDE DEF c
<1>2. p \in Labels /\ pc'[t] = p /\ call'[t] = c
  BY <1>1, Types DEF Labels, IInv
<1>4. uxSchedulerSuspended = FALSE /\ xPendedTicks = 0 /\ cTxLock = -1
      /\ \A u \in Tasks : pc[u] \notin Suspends
  BY <1>1, NotSuspended DEF Suspends
<1>5. sched.list[t] = "ready"
  BY <1>1, RunnerReady
<1>6. Owned'
  <2>1. \A u \in Tasks : pc'[u] \notin Suspends
    BY <1>1, <1>2, <1>4, Types DEF Suspends, IInv
  <2>. QED
    BY <1>1, <1>4, <2>1, Types DEF Owned, scheduler, Suspends, Locks, IInv
<1>7. Phase(p, c)
  BY <1>3, TicksAre DEF Phase, Queued
<1>8. elapsed[t] = 0 /\ elapsed[t] \in 0..TickMod /\ elapsed' = [elapsed EXCEPT ![t] = 0]
  <2>1. call[t].op = "none" /\ call[t].xEntryTimeSet = FALSE
    BY <1>1, Types DEF IInv, Phases, Phase, Queued
  <2>. QED
    BY <1>1, <2>1, Types DEF IInv, TimeInv, TimeOf, Counts
<1>9. TimeOf(t)'
  BY <1>1, <1>2, <1>3, <1>5, <1>8 DEF TimeOf, Counts, scheduler, Sleeps
<1>10. /\ elapsed' = [elapsed EXCEPT ![t] = elapsed[t]] /\ elapsed[t] \in 0..TickMod
       /\ Counted' = Counted /\ cTxLock' \in -1..uxMessagesWaiting
       /\ UNCHANGED <<current, sched, xYieldPending, xPendedTicks, store>>
       /\ uxSchedulerSuspended' \in BOOLEAN
       /\ uxSchedulerSuspended => uxSchedulerSuspended'
  BY <1>1, <1>4, <1>8, Types DEF scheduler, Counted, IInv
<1>. QED
  BY <1>1, <1>2, <1>3, <1>6, <1>7, <1>9, <1>10, RunnerStep

(* The end of a call that found nothing                                    *)
LEMMA ReturnStep ==
  ASSUME IInv, NEW t \in Tasks, current = t, Return(t),
         pc[t] \notin Suspends, pc[t] = "try" => Impossible(t),
         UNCHANGED <<scheduler, store, cTxLock>>
  PROVE  IInv'
<1> DEFINE c == Call("none", 0)
<1>1. /\ pc' = [pc EXCEPT ![t] = "run"] /\ call' = [call EXCEPT ![t] = c]
      /\ elapsed' = [elapsed EXCEPT ![t] = 0]
  BY DEF Return, Goto
<1>a. "none" \in {"none", "delay", "receive", "send", "restricted"} /\ 0 \in Ticks
  BY TicksAre
<1>3. /\ c \in Calls
      /\ c.op = "none" /\ c.asked = 0 /\ c.xTicksToWait = 0 /\ c.xEntryTimeSet = FALSE
      /\ c.next = "again" /\ c.wrapped = FALSE
  BY <1>a, TicksAre DEF Call, Calls
<1> HIDE DEF c
<1>2. "run" \in Labels /\ pc'[t] = "run" /\ call'[t] = c
      /\ elapsed'[t] = 0 /\ 0 \in 0..TickMod
  BY <1>1, TicksAre, Types DEF Labels, IInv
<1>4. uxSchedulerSuspended = FALSE /\ xPendedTicks = 0 /\ cTxLock = -1
      /\ \A u \in Tasks : pc[u] \notin Suspends
  BY NotSuspended
<1>5. sched.list[t] = "ready"
  BY RunnerReady DEF Suspends
<1>6. Owned'
  <2>1. \A u \in Tasks : pc'[u] \notin Suspends
    BY <1>1, <1>2, <1>4, Types DEF Suspends, IInv
  <2>. QED
    BY <1>4, <2>1, Types DEF Owned, scheduler, Suspends, Locks, IInv
<1>7. Phase("run", c)
  BY <1>3, TicksAre DEF Phase, Queued
<1>8. TimeOf(t)'
  BY <1>1, <1>2, <1>3, <1>5 DEF TimeOf, Counts, scheduler, Sleeps
<1>9. /\ Counted' = Counted /\ cTxLock' \in -1..uxMessagesWaiting
      /\ UNCHANGED <<current, sched, xYieldPending, xPendedTicks, store>>
      /\ uxSchedulerSuspended' \in BOOLEAN
      /\ uxSchedulerSuspended => uxSchedulerSuspended'
  BY <1>4, Types DEF scheduler, Counted, IInv
<1>10. pc[t] \notin {"unlock", "resume"}
  BY DEF Suspends
<1>. QED
  BY <1>1, <1>2, <1>3, <1>6, <1>7, <1>8, <1>9, <1>10, RunnerStep

(* TryFails when the call begins to wait, or waits on                      *)
LEMMA WaitStep ==
  ASSUME IInv, NEW t \in Tasks, Runs(t, "try"), Impossible(t),
         call[t].xTicksToWait # 0,
         call' = IF call[t].xEntryTimeSet THEN call
                 ELSE [call EXCEPT ![t].xEntryTimeSet = TRUE,
                                   ![t].xTimeOnEntering = sched.xTickCount],
         Goto(t, "suspend"),
         UNCHANGED <<elapsed, scheduler, store, cTxLock>>
  PROVE  IInv'
<1> DEFINE now == sched.xTickCount
           c0  == call[t]
           c   == IF c0.xEntryTimeSet THEN c0
                  ELSE [c0 EXCEPT !.xEntryTimeSet = TRUE, !.xTimeOnEntering = now]
<1>1. current = t /\ pc[t] = "try" /\ pc' = [pc EXCEPT ![t] = "suspend"]
  BY DEF Runs, Goto
<1>2. call' = [call EXCEPT ![t] = c]
  BY Types DEF IInv
<1>3. c0 \in Calls /\ now \in Ticks /\ Phase("try", c0) /\ TimeOf(t)
      /\ elapsed[t] \in 0..TickMod /\ elapsed' = [elapsed EXCEPT ![t] = elapsed[t]]
  BY <1>1, Types, TicksAre DEF IInv, Phases, TimeInv
<1> HIDE DEF now
<1>4. c \in Calls /\ c.op = c0.op /\ c.asked = c0.asked /\ c.xTicksToWait = c0.xTicksToWait
      /\ c.next = c0.next /\ c.wrapped = c0.wrapped /\ c.xEntryTimeSet = TRUE
      /\ c.xTimeOnEntering = IF c0.xEntryTimeSet THEN c0.xTimeOnEntering ELSE now
  BY <1>3 DEF Calls
<1>5. "suspend" \in Labels /\ pc'[t] = "suspend" /\ call'[t] = c
  BY <1>1, <1>2, Types DEF Labels, IInv
<1>6. uxSchedulerSuspended = FALSE /\ xPendedTicks = 0 /\ cTxLock = -1
      /\ \A u \in Tasks : pc[u] \notin Suspends
  BY <1>1, NotSuspended DEF Suspends
<1>7. sched.list[t] = "ready"
  BY <1>1, RunnerReady
<1> HIDE DEF c
<1>8. Owned'
  <2>1. \A u \in Tasks : pc'[u] \notin Suspends
    BY <1>1, <1>5, <1>6, Types DEF Suspends, IInv
  <2>. QED
    BY <1>1, <1>6, <2>1, Types DEF Owned, scheduler, Suspends, Locks, IInv
<1>9. c0.op \in Queued /\ c0.next # "expired"
  BY <1>3 DEF Phase, Queued, Calls
<1>10. Phase("suspend", c)
  BY <1>3, <1>4, <1>9, TicksAre DEF Phase, Queued, Calls
<1>11. TimeOf(t)'
  <2>1. CASE c0.xEntryTimeSet
    <3>1. c = c0 /\ call' = call
      BY <2>1 DEF c
    <3>. QED
      BY <1>3, <1>5, <3>1 DEF TimeOf, Counts, scheduler, Sleeps, Seen, Since, Left, Endless
  <2>2. CASE ~c0.xEntryTimeSet
    <3>1. elapsed[t] = 0 /\ c0.wrapped = FALSE /\ c0.xTicksToWait = c0.asked
      BY <1>3, <1>9, <2>2 DEF TimeOf, Counts, Phase, Queued, Calls
    <3>2. Seen(t)' = 0 /\ Since(t)' = 0
      BY <1>3, <1>4, <1>5, <1>6, <2>2, <3>1, TicksAre DEF Seen, Since, scheduler, now
    <3>3. ~Sleeps(sched, t)'
      BY <1>7 DEF Sleeps, scheduler
    <3>4. c.asked \in Nat
      BY <1>4, TicksAre DEF Calls
    <3>. QED
      BY <1>3, <1>4, <1>5, <1>9, <2>2, <3>1, <3>2, <3>3, <3>4 DEF TimeOf, Queued
  <2>. QED
    BY <2>1, <2>2
<1>. QED
  BY <1>1, <1>2, <1>3, <1>4, <1>5, <1>6, <1>8, <1>10, <1>11, RunnerStep, Types
     DEF scheduler, Suspends, Counted, IInv

(* A step that moves on, and changes neither its call nor the lists        *)
LEMMA GoStep ==
  ASSUME IInv, NEW t \in Tasks, current = t, NEW p \in Labels, Goto(t, p),
         pc[t] \notin {"unlock", "resume", "try"},
         p \in {"test", "place"} => pc[t] \in {"test", "place"},
         Phase(p, call[t]), Owned',
         uxSchedulerSuspended' \in BOOLEAN, uxSchedulerSuspended => uxSchedulerSuspended',
         UNCHANGED <<current, sched, xYieldPending, xPendedTicks, store, cTxLock, call, elapsed>>
  PROVE  IInv'
<1>1. call[t] \in Calls /\ elapsed[t] \in 0..TickMod /\ TimeOf(t)
      /\ call' = [call EXCEPT ![t] = call[t]] /\ elapsed' = [elapsed EXCEPT ![t] = elapsed[t]]
      /\ cTxLock' \in -1..uxMessagesWaiting
  BY Types DEF IInv, TimeInv
<1>2. pc' = [pc EXCEPT ![t] = p] /\ pc'[t] = p /\ Counted' = Counted
  BY Types DEF Goto, Counted, IInv
<1>3. TimeOf(t)'
  BY <1>1, <1>2 DEF TimeOf, Counts, Sleeps, Seen, Since, Left, Endless
<1>. QED
  BY <1>1, <1>2, <1>3, RunnerStep

(* xQueueReceive, xQueueGenericSend and the wait of the timer task begin.  *)
LEMMA BeginsStep ==
  ASSUME IInv, NEW t \in Tasks, BeginReceive(t) \/ BeginSend(t) \/ BeginWait(t)
  PROVE  IInv'
<1>1. ReceiveWaits[t] \subseteq Ticks /\ SendWaits[t] \subseteq Ticks /\ 0 \in Ticks
  BY KernelAssumption, TicksAre
<1>2. CASE BeginReceive(t)
  <2>1. PICK n \in Ticks : Begin(t, "receive", n) /\ Goto(t, "try")
    BY <1>1, <1>2 DEF BeginReceive
  <2>. QED
    BY <2>1, BeginStep
<1>3. CASE BeginSend(t)
  <2>1. PICK n \in Ticks : Begin(t, "send", n) /\ Goto(t, "try")
    BY <1>1, <1>3 DEF BeginSend
  <2>. QED
    BY <2>1, BeginStep
<1>4. CASE BeginWait(t)
  BY <1>1, <1>4, BeginStep DEF BeginWait
<1>. QED
  BY <1>2, <1>3, <1>4

(* There is no message, or no room: the call returns or begins to wait.    *)
LEMMA TryFailsStep ==
  ASSUME IInv, NEW t \in Tasks, TryFails(t)
  PROVE  IInv'
<1>1. Runs(t, "try") /\ Impossible(t) /\ UNCHANGED <<scheduler, store, cTxLock>>
  BY DEF TryFails
<1>2. CASE call[t].xTicksToWait = 0
  <2>1. Return(t)
    BY <1>2 DEF TryFails
  <2>. QED
    BY <1>1, <2>1, ReturnStep DEF Runs, Suspends
<1>3. CASE call[t].xTicksToWait # 0
  BY <1>1, <1>3, WaitStep DEF TryFails
<1>. QED
  BY <1>2, <1>3

(* A call gives up, or a delay is over.                                    *)
LEMMA GiveUpStep ==
  ASSUME IInv, NEW t \in Tasks, GiveUp(t)
  PROVE  IInv'
<1>1. current = t /\ pc[t] \in {"full", "empty", "woken"}
  BY DEF GiveUp, Runs
<1>. QED
  BY <1>1, ReturnStep DEF GiveUp, Suspends

(* xQueueReceive finds a message although its time is up, and tries again. *)
LEMMA OnceMoreStep ==
  ASSUME IInv, NEW t \in Tasks, OnceMore(t)
  PROVE  IInv'
<1>1. /\ current = t /\ pc[t] = "empty" /\ pc' = [pc EXCEPT ![t] = "try"]
      /\ UNCHANGED <<scheduler, store, cTxLock, call, elapsed>>
  BY DEF OnceMore, Runs, Goto
<1>2. uxSchedulerSuspended = FALSE /\ xPendedTicks = 0 /\ cTxLock = -1
      /\ \A u \in Tasks : pc[u] \notin Suspends
  BY <1>1, NotSuspended DEF Suspends
<1>3. \A u \in Tasks : pc'[u] \notin Suspends
  BY <1>1, <1>2, Types DEF Suspends, IInv
<1>4. Owned'
  BY <1>1, <1>2, <1>3, Types DEF Owned, scheduler, Suspends, Locks, IInv
<1>5. Phase("try", call[t])
  BY <1>1 DEF IInv, Phases, Phase
<1>6. uxSchedulerSuspended' \in BOOLEAN /\ "try" \in Labels
  BY <1>1, <1>2 DEF scheduler, Labels
<1>. QED
  BY <1>1, <1>2, <1>4, <1>5, <1>6, GoStep DEF Goto, scheduler

(* vTaskSuspendAll before a call waits                                     *)
LEMMA SuspendStep ==
  ASSUME IInv, NEW t \in Tasks, Suspend(t)
  PROVE  IInv'
<1>1. PICK p \in {"lock", "resume"} : Goto(t, p) /\ (p = "lock" \/ call[t].op = "restricted")
  BY DEF Suspend
<1>2. /\ current = t /\ pc[t] = "suspend" /\ uxSchedulerSuspended' = TRUE
      /\ UNCHANGED <<current, sched, xYieldPending, xPendedTicks, store, cTxLock, call, elapsed>>
      /\ pc' = [pc EXCEPT ![t] = p]
  BY <1>1 DEF Suspend, Runs, SuspendAll, Goto
<1>3. uxSchedulerSuspended = FALSE /\ xPendedTicks = 0 /\ cTxLock = -1
      /\ \A u \in Tasks : pc[u] \notin Suspends
  BY <1>2, NotSuspended DEF Suspends
<1>4. pc'[t] = p /\ \A u \in Tasks \ {t} : pc'[u] = pc[u]
  BY <1>2, Types DEF IInv
<1>5. Owned'
  BY <1>1, <1>2, <1>3, <1>4, Types DEF Owned, Suspends, Locks, IInv
<1>6. Phase(p, call[t])
  BY <1>1, <1>2 DEF IInv, Phases, Phase, Queued
<1>7. uxSchedulerSuspended' \in BOOLEAN /\ p \in Labels
  BY <1>1, <1>2 DEF Labels
<1>. QED
  BY <1>1, <1>2, <1>3, <1>5, <1>6, <1>7, GoStep

(* prvIsQueueEmpty, prvIsQueueFull: what they find holds until the queue   *)
(* is unlocked, but for the messages that the lock counts.                 *)
LEMMA TestStep ==
  ASSUME IInv, NEW t \in Tasks, Test(t)
  PROVE  IInv'
<1> DEFINE p == IF Impossible(t) THEN "place" ELSE "unlock"
<1>1. /\ current = t /\ pc[t] = "test" /\ pc' = [pc EXCEPT ![t] = p]
      /\ UNCHANGED <<scheduler, store, cTxLock, call, elapsed>>
  BY DEF Test, Runs, Goto
<1>2. pc'[t] = p /\ \A u \in Tasks \ {t} : pc'[u] = pc[u]
  BY <1>1, Types DEF IInv
<1>3. uxSchedulerSuspended = TRUE /\ cTxLock # -1 /\ cTxLock >= 0
      /\ \A u \in Tasks : pc[u] \in Suspends => u = t
  BY <1>1, Types DEF IInv, Owned, Suspends, Locks
<1>4. p = "place" => IF call[t].op = "send" THEN uxMessagesWaiting = QueueLength
                     ELSE uxMessagesWaiting <= cTxLock
  BY <1>3, Types DEF Impossible, IInv
<1>5. p \in {"place", "unlock"}
  OBVIOUS
<1> HIDE DEF p
<1>6. Owned'
  <2>1. uxSchedulerSuspended' /\ cTxLock' # queueUNLOCKED /\ pc'[t] \in Locks /\ pc'[t] \in Suspends
        /\ current' = t
    BY <1>1, <1>2, <1>3, <1>5, Types DEF scheduler, Locks, Suspends, IInv
  <2>2. \A u \in Tasks : pc'[u] \in Suspends => u = t
    BY <1>2, <1>3
  <2>. QED
    BY <1>1, <1>2, <1>4, <2>1, <2>2 DEF Owned, store
<1>7. Phase(p, call[t])
  BY <1>1, <1>5 DEF IInv, Phases, Phase, Queued
<1>8. uxSchedulerSuspended' \in BOOLEAN /\ p \in Labels
  BY <1>1, <1>3, <1>5 DEF scheduler, Labels
<1>. QED
  BY <1>1, <1>3, <1>6, <1>7, <1>8, GoStep DEF Goto, scheduler

(* prvLockQueue and xTaskCheckForTimeOut: what is left of the time asked   *)
(* for is what was not yet seen of it.                                     *)
LEMMA LockStep ==
  ASSUME IInv, NEW t \in Tasks, Lock(t)
  PROVE  IInv'
<1> DEFINE c0     == call[t]
           c      == Checked(c0)
           passed == (sched.xTickCount - c0.xTimeOnEntering) % TickMod
           around == c0.wrapped /\ sched.xTickCount >= c0.xTimeOnEntering
           p      == IF c.next = "expired" THEN "unlock" ELSE "test"
<1>1. /\ current = t /\ pc[t] = "lock"
      /\ cTxLock' = IF cTxLock = queueUNLOCKED THEN queueLOCKED_UNMODIFIED ELSE cTxLock
      /\ call' = [call EXCEPT ![t] = c]
      /\ UNCHANGED <<scheduler, store, elapsed>>
  BY DEF Lock, Runs
<1>2. TypeOK /\ c0 \in Calls /\ Phase("lock", c0) /\ TimeOf(t)
  BY <1>1, Types DEF IInv, Phases, TimeInv
<1>a. Outcome(c0, c, passed)
  BY <1>2, CheckedIs
<1> HIDE DEF c, passed
<1>3. /\ c \in Calls /\ c.op = c0.op /\ c.asked = c0.asked /\ c.xEntryTimeSet = c0.xEntryTimeSet
      /\ c0.op = "restricted" \/ c0.xTicksToWait = portMAX_DELAY
           => /\ c.next = "again" /\ c.xTicksToWait = c0.xTicksToWait
              /\ c.wrapped = c0.wrapped /\ c.xTimeOnEntering = c0.xTimeOnEntering
      /\ c0.op # "restricted" /\ c0.xTicksToWait # portMAX_DELAY =>
           \/ /\ c.next = "again" /\ passed < c0.xTicksToWait /\ ~around
              /\ c.xTicksToWait = c0.xTicksToWait - passed
              /\ c.xTimeOnEntering = sched.xTickCount /\ c.wrapped = FALSE
           \/ /\ c.next = "expired" /\ c.xTicksToWait = 0 /\ c.wrapped = c0.wrapped
              /\ passed >= c0.xTicksToWait \/ around
  BY <1>a DEF Outcome
<1>4. /\ sched.xTickCount \in 0..TickMod - 1 /\ c0.xTimeOnEntering \in 0..TickMod - 1
      /\ c0.xTicksToWait \in 0..TickMod - 1 /\ c0.asked \in 0..TickMod - 1
      /\ c.xTicksToWait \in 0..TickMod - 1 /\ TickMod \in Nat /\ portMAX_DELAY = TickMod - 1
      /\ c0.wrapped \in BOOLEAN
  BY <1>2, <1>3, Types, TicksAre DEF IInv, Calls
<1>5. passed = IF c0.xTimeOnEntering <= sched.xTickCount THEN sched.xTickCount - c0.xTimeOnEntering
               ELSE sched.xTickCount - c0.xTimeOnEntering + TickMod
  <2>1. sched.xTickCount \in Ticks /\ c0.xTimeOnEntering \in Ticks
    BY <1>4, TicksAre
  <2>. QED
    BY <2>1, TickArithmetic DEF passed
<1>6. pc' = [pc EXCEPT ![t] = p]
  BY <1>1, Types DEF Lock, Goto, IInv, c
<1>7. /\ pc'[t] = p /\ call'[t] = c /\ p \in {"unlock", "test"}
      /\ \A u \in Tasks \ {t} : pc'[u] = pc[u]
  BY <1>1, <1>6, Types DEF IInv
<1>8. c0.op \in {"receive", "send", "restricted"} /\ c0.next # "expired"
      /\ (c0.op # "restricted" => c0.xEntryTimeSet)
  BY <1>2 DEF Phase, Queued, Calls
<1>9. Phase(p, c)
  BY <1>2, <1>3, <1>4, <1>5, <1>8 DEF Phase, Queued, Calls, passed
<1>10. /\ uxSchedulerSuspended = TRUE /\ cTxLock = -1 /\ cTxLock' = 0
       /\ \A u \in Tasks : pc[u] \in Suspends => u = t
  <2>1. uxSchedulerSuspended = TRUE /\ cTxLock = queueUNLOCKED
        /\ \A u \in Tasks : pc[u] \in Suspends => u = t
    BY <1>1, Types DEF IInv, Owned, Suspends, Locks
  <2>. QED
    BY <1>1, <2>1 DEF queueUNLOCKED, queueLOCKED_UNMODIFIED
<1>11. Owned'
  <2>1. uxSchedulerSuspended' /\ cTxLock' # queueUNLOCKED /\ pc'[t] \in Locks /\ pc'[t] \in Suspends
        /\ current' = t /\ pc'[t] # "place"
    BY <1>1, <1>7, <1>10, Types DEF scheduler, Locks, Suspends, IInv
  <2>2. \A u \in Tasks : pc'[u] \in Suspends => u = t
    BY <1>7, <1>10
  <2>. QED
    BY <2>1, <2>2 DEF Owned
<1>12. TimeOf(t)'
  <2>1. /\ Seen(t)' = Seen(t) /\ Counts(t)' = Counts(t) /\ Endless(t)' = Endless(t)
        /\ ~Sleeps(sched, t)' /\ elapsed' = elapsed
        /\ Seen(t) \in Int
    <3>1. sched.list[t] = "ready"
      BY <1>1, RunnerReady
    <3>2. Seen(t) \in Int
      BY Types DEF Seen, IInv
    <3>. QED
      BY <1>1, <1>3, <1>7, <3>1, <3>2 DEF Seen, Counts, Endless, Sleeps, scheduler
  <2>2. Endless(t) <=> c0.op = "restricted" \/ c0.xTicksToWait = portMAX_DELAY
    BY <1>2, <1>4, <1>8 DEF Endless, Phase, Queued
  <2>3. CASE Endless(t)
    <3>1. ~Counts(t)
      BY <1>8, <2>3 DEF Counts
    <3>. QED
      BY <1>3, <1>7, <1>8, <1>2, <2>1, <2>2, <2>3, <3>1 DEF TimeOf
  <2>4. CASE ~Endless(t)
    <3>1. /\ Since(t) >= 0 /\ Seen(t) = c0.asked - c0.xTicksToWait + Since(t)
          /\ Since(t) = sched.xTickCount - c0.xTimeOnEntering + (IF c0.wrapped THEN TickMod ELSE 0)
          /\ c0.xEntryTimeSet
      BY <1>2, <1>8, <2>2, <2>4 DEF TimeOf, Since
    <3>2. CASE c.next = "again"
      <4>1. Since(t) = passed
        BY <1>3, <1>4, <1>5, <2>2, <2>4, <3>1, <3>2
      <4>2. Since(t)' = 0
        BY <1>1, <1>3, <1>4, <1>7, <2>2, <2>4, <3>2 DEF Since, scheduler
      <4>3. Seen(t) = c.asked - c.xTicksToWait + 0
        BY <1>3, <1>4, <2>2, <2>4, <3>1, <3>2, <4>1
      <4>. QED
        BY <1>2, <1>3, <1>7, <1>8, <2>1, <3>2, <4>2, <4>3 DEF TimeOf
    <3>3. CASE c.next = "expired"
      <4>1. Seen(t) >= c.asked
        BY <1>3, <1>4, <1>5, <2>2, <2>4, <3>1, <3>3
      <4>. QED
        BY <1>2, <1>3, <1>7, <1>8, <2>1, <3>3, <4>1 DEF TimeOf
    <3>. QED
      BY <1>3, <2>2, <2>4, <3>2, <3>3
  <2>. QED
    BY <2>3, <2>4
<1>13. /\ elapsed' = [elapsed EXCEPT ![t] = elapsed[t]] /\ elapsed[t] \in 0..TickMod
       /\ Counted' = Counted /\ cTxLock' \in -1..uxMessagesWaiting
       /\ UNCHANGED <<current, sched, xYieldPending, xPendedTicks, store>>
       /\ uxSchedulerSuspended' \in BOOLEAN
       /\ uxSchedulerSuspended => uxSchedulerSuspended'
       /\ p \in Labels
  BY <1>1, <1>7, <1>10, Types DEF scheduler, Counted, IInv, Labels
<1> HIDE DEF p
<1>. QED
  BY <1>1, <1>3, <1>6, <1>9, <1>11, <1>12, <1>13, RunnerStep

(* The calls after some ticks: only the wrap is noted in them.             *)
LEMMA WrappingIs ==
  ASSUME TypeOK, NEW n \in Nat, Wrapping(n)
  PROVE  /\ call' \in [Tasks -> Calls]
         /\ \A u \in Tasks :
              /\ call'[u].op = call[u].op /\ call'[u].asked = call[u].asked
              /\ call'[u].xTicksToWait = call[u].xTicksToWait
              /\ call'[u].xEntryTimeSet = call[u].xEntryTimeSet
              /\ call'[u].xTimeOnEntering = call[u].xTimeOnEntering
              /\ call'[u].next = call[u].next
              /\ call'[u].wrapped
                   = (call[u].wrapped \/ (call[u].xEntryTimeSet /\ sched.xTickCount + n >= TickMod))
              /\ Endless(u)' <=> Endless(u)
              /\ Counts(u)' <=> Counts(u)
<1> DEFINE w(u) == call[u].xEntryTimeSet /\ sched.xTickCount + n >= TickMod
           d(u) == IF w(u) THEN [call[u] EXCEPT !.wrapped = TRUE] ELSE call[u]
<1>1. call' = [u \in Tasks |-> d(u)]
  BY DEF Wrapping
<1>2. ASSUME NEW u \in Tasks
      PROVE  /\ d(u) \in Calls
             /\ d(u).op = call[u].op /\ d(u).asked = call[u].asked
             /\ d(u).xTicksToWait = call[u].xTicksToWait
             /\ d(u).xEntryTimeSet = call[u].xEntryTimeSet
             /\ d(u).xTimeOnEntering = call[u].xTimeOnEntering
             /\ d(u).next = call[u].next
             /\ d(u).wrapped = (call[u].wrapped \/ w(u))
  <2>1. call[u] \in Calls
    BY Types
  <2> HIDE DEF w
  <2>. QED
    BY <2>1 DEF Calls
<1> HIDE DEF d, w
<1>3. \A u \in Tasks : call'[u] = d(u)
  BY <1>1
<1>4. call' \in [Tasks -> Calls]
  BY <1>1, <1>2
<1>5. ASSUME NEW u \in Tasks
      PROVE  (Endless(u)' <=> Endless(u)) /\ (Counts(u)' <=> Counts(u))
  <2>1. call'[u].op = call[u].op /\ call'[u].asked = call[u].asked
        /\ call'[u].xEntryTimeSet = call[u].xEntryTimeSet
    BY <1>2, <1>3
  <2>. QED
    BY <2>1 DEF Endless, Counts
<1>. QED
  BY <1>2, <1>3, <1>4, <1>5 DEF w

(* What the expiry of a wait and a delay say of its kind                   *)
LEMMA WhoCounts ==
  ASSUME IInv, NEW u \in Tasks
  PROVE  /\ call[u].op = "delay" => Counts(u) /\ ~Endless(u)
         /\ call[u].next = "expired" => Counts(u) /\ ~Endless(u)
         /\ call[u].xEntryTimeSet /\ ~Endless(u) => Counts(u)
         /\ Sleeps(sched, u) => Counts(u) /\ ~Endless(u)
<1>1. Phase(pc[u], call[u]) /\ ListOf(u) /\ TimeOf(u)
  BY DEF IInv, Phases, ListsInv, TimeInv
<1>. QED
  BY <1>1 DEF Phase, ListOf, TimeOf, Counts, Endless, Queued

(* n ticks are counted: s are the lists before them, with some of the      *)
(* waiting tasks made ready.                                               *)
LEMMA TimePasses ==
  ASSUME IInv, NEW n \in Nat, NEW s \in Clocks, sched' \in AfterTicks(s, n),
         s.xTickCount = sched.xTickCount, s.xItemValue = sched.xItemValue,
         \A u \in Tasks : \/ s.list[u] = sched.list[u]
                          \/ s.list[u] = "ready" /\ call[u].op # "delay",
         Wrapping(n), \A u \in Tasks : pc'[u] \notin Suspends,
         \A u \in Tasks : IF Counts(u) THEN Seen(u)' = Seen(u) + n /\ Seen(u)' <= TickMod
                          ELSE elapsed'[u] = 0
  PROVE  TimeInv'
<1>1. ClockSound(sched') /\ sched' \in Scheds
  BY DEF AfterTicks, Clocks
<1>2. ASSUME NEW u \in Tasks PROVE TimeOf(u)'
  <2>1. TimeOf(u) /\ Phase(pc[u], call[u]) /\ ListOf(u)
    BY DEF IInv, TimeInv, Phases, ListsInv
  <2>2. /\ call'[u].op = call[u].op /\ call'[u].asked = call[u].asked
        /\ call'[u].xTicksToWait = call[u].xTicksToWait
        /\ call'[u].xEntryTimeSet = call[u].xEntryTimeSet
        /\ call'[u].xTimeOnEntering = call[u].xTimeOnEntering
        /\ call'[u].next = call[u].next
        /\ call'[u].wrapped
             = (call[u].wrapped \/ (call[u].xEntryTimeSet /\ sched.xTickCount + n >= TickMod))
        /\ Endless(u)' <=> Endless(u)
        /\ Counts(u)' <=> Counts(u)
    BY WrappingIs DEF IInv
  <2>3. /\ call[u].op = "delay" => Counts(u) /\ ~Endless(u)
        /\ call[u].next = "expired" => Counts(u) /\ ~Endless(u)
        /\ call[u].xEntryTimeSet /\ ~Endless(u) => Counts(u)
        /\ Sleeps(sched, u) => Counts(u) /\ ~Endless(u)
    BY WhoCounts
  <2>4. /\ call[u].asked \in 0..TickMod - 1 /\ call[u].xTicksToWait \in 0..TickMod - 1
        /\ call[u].xTimeOnEntering \in 0..TickMod - 1 /\ sched.xTickCount \in 0..TickMod - 1
        /\ TickMod \in Nat /\ Seen(u) \in Int /\ call[u].wrapped \in BOOLEAN
        /\ call[u].xTicksToWait <= call[u].asked
    BY <2>1, Types, TicksAre DEF IInv, Seen, Phase
  <2>5. /\ Sleeps(s, u) => /\ Sleeps(sched, u) /\ Left(s, u) = Left(sched, u)
                           /\ Left(s, u) \in Nat \ {0}
        /\ s.list[u] \in Lists /\ s.list[u] \in {sched.list[u], "ready"}
    BY LeftIsPositive DEF Sleeps, Left, Clocks, Scheds
  <2>6. IF ~Sleeps(s, u) THEN sched'.list[u] = s.list[u]
        ELSE IF Left(s, u) > n THEN Sleeps(sched, u)' /\ Left(sched, u)' = Left(s, u) - n
        ELSE sched'.list[u] = "ready"
    BY DEF AfterTicks, Sleeps, Left
  <2>7. Sleeps(sched, u)' => Sleeps(s, u) /\ Left(s, u) > n /\ Left(sched, u)' = Left(s, u) - n
    BY <2>6 DEF Sleeps
  <2>8. IF Counts(u)' THEN Seen(u)' >= 0 ELSE elapsed'[u] = 0
    BY <2>1, <2>2, <2>4 DEF TimeOf
  <2>9. Sleeps(sched, u)' => Counts(u)' /\ Seen(u)' + Left(sched, u)' = call'[u].asked
    BY <2>1, <2>2, <2>3, <2>4, <2>5, <2>7 DEF TimeOf
  <2>10. call'[u].next = "expired" => Seen(u)' >= call'[u].asked
    BY <2>1, <2>2, <2>3, <2>4 DEF TimeOf
  <2>11. call'[u].op = "delay" /\ sched'.list[u] = "ready" => Seen(u)' >= call'[u].asked
    <3>1. SUFFICES ASSUME call[u].op = "delay", sched'.list[u] = "ready"
                   PROVE  Seen(u)' >= call[u].asked
      BY <2>2
    <3>2. s.list[u] = sched.list[u] /\ Counts(u) /\ ~Endless(u) /\ Seen(u)' = Seen(u) + n
      BY <2>3, <3>1
    <3>3. CASE ~Sleeps(s, u)
      <4>1. sched.list[u] = "ready"
        BY <2>6, <3>1, <3>2, <3>3
      <4>. QED
        BY <2>1, <2>4, <3>1, <3>2, <4>1 DEF TimeOf
    <3>4. CASE Sleeps(s, u)
      <4>1. ~(Left(s, u) > n)
        BY <2>6, <3>1, <3>4 DEF Sleeps
      <4>2. Seen(u) + Left(s, u) = call[u].asked
        BY <2>1, <2>5, <3>4 DEF TimeOf
      <4>. QED
        BY <2>4, <2>5, <3>2, <3>4, <4>1, <4>2
    <3>. QED
      BY <3>3, <3>4
  <2>12. call'[u].xEntryTimeSet /\ ~Endless(u)' /\ call'[u].next # "expired"
           => Since(u)' >= 0 /\ Seen(u)' = call'[u].asked - call'[u].xTicksToWait + Since(u)'
    <3>1. SUFFICES ASSUME call[u].xEntryTimeSet, ~Endless(u), call[u].next # "expired"
                   PROVE  Since(u)' = Since(u) + n /\ Since(u) \in Int
                          /\ Since(u) >= 0 /\ Seen(u) = call[u].asked - call[u].xTicksToWait + Since(u)
                          /\ Seen(u)' = Seen(u) + n
      BY <2>2, <2>4
    <3>2. /\ Since(u) >= 0 /\ Seen(u) = call[u].asked - call[u].xTicksToWait + Since(u)
          /\ Seen(u)' = Seen(u) + n /\ Seen(u)' <= TickMod
      BY <2>1, <2>3, <3>1 DEF TimeOf
    <3> DEFINE now == sched.xTickCount
               in  == call[u].xTimeOnEntering
               w   == call[u].wrapped
    <3>3. Since(u) = now - in + (IF w THEN TickMod ELSE 0) /\ Since(u) \in Int
      BY <2>4 DEF Since
    <3>4. Since(u) + n <= TickMod
      BY <2>4, <3>2, <3>3
    <3>5. now + n < 2 * TickMod /\ (w => now + n < TickMod)
      BY <2>4, <3>3, <3>4
    <3>6. sched'.xTickCount = now + n - (IF now + n >= TickMod THEN TickMod ELSE 0)
      BY <3>5 DEF AfterTicks
    <3>7. call'[u].wrapped = (w \/ now + n >= TickMod) /\ call'[u].xTimeOnEntering = in
      BY <2>2, <3>1
    <3>8. Since(u)' = sched'.xTickCount - in + (IF w \/ now + n >= TickMod THEN TickMod ELSE 0)
      BY <3>7 DEF Since
    <3> HIDE DEF now, in, w
    <3>9. now \in Int /\ in \in Int /\ TickMod \in Int
      BY <2>4 DEF now, in
    <3>10. Since(u)' = Since(u) + n
      BY <3>3, <3>5, <3>6, <3>8, <3>9
    <3>. QED
      BY <3>2, <3>3, <3>10
  <2>. QED
    BY <2>8, <2>9, <2>10, <2>11, <2>12 DEF TimeOf, Suspends
<1>. QED
  BY <1>1, <1>2 DEF TimeInv

(* Nobody loses what wakes him in a step after which no one more waits and *)
(* no one less is about to look.                                           *)
LEMMA WakeupsStay ==
  ASSUME IInv,
         \A u \in Tasks : sched'.event[u] \in Queued => sched'.event[u] = sched.event[u],
         \A u \in Tasks : /\ call'[u].op = call[u].op
                          /\ (\/ pc[u] = "try" /\ sched.list[u] = "ready"
                              \/ sched.event[u] = "pendingReady")
                               => (\/ pc'[u] = "try" /\ sched'.list[u] = "ready"
                                   \/ sched'.event[u] = "pendingReady"),
         uxMessagesWaiting' = uxMessagesWaiting, Counted' = Counted
  PROVE  NoLostWakeup'
<1>1. ASSUME NEW ops PROVE /\ Cardinality(Eager(ops)) <= Cardinality(Eager(ops)')
                           /\ Cardinality(Eager(ops)) \in Nat
                           /\ Cardinality(Eager(ops)') \in Nat
  <2>1. Eager(ops) \subseteq Eager(ops)'
    BY DEF Eager
  <2>2. Eager(ops)' \in SUBSET Tasks
    BY DEF Eager
  <2>. QED
    BY <2>1, <2>2, CountGrows
<1>2. Counted \in Nat /\ QueueLength \in Nat /\ uxMessagesWaiting \in Nat
  BY CountedIs, Types DEF IInv
<1>3. NoLostWakeup
  BY DEF IInv
<1>4. ASSUME NEW u \in Tasks, sched'.event[u] = "receive"
      PROVE  uxMessagesWaiting' <= Cardinality(Eager(Receives)') + Counted'
  <2>1. sched.event[u] = "receive"
    BY <1>4 DEF Queued
  <2>2. uxMessagesWaiting <= Cardinality(Eager(Receives)) + Counted
    BY <1>3, <2>1 DEF NoLostWakeup
  <2>. QED
    BY <1>1, <1>2, <2>2
<1>5. ASSUME NEW u \in Tasks, sched'.event[u] = "send"
      PROVE  QueueLength - uxMessagesWaiting' <= Cardinality(Eager({"send"})')
  <2>1. sched.event[u] = "send"
    BY <1>5 DEF Queued
  <2>2. QueueLength - uxMessagesWaiting <= Cardinality(Eager({"send"}))
    BY <1>3, <2>1 DEF NoLostWakeup
  <2>. QED
    BY <1>1, <1>2, <2>2
<1>. QED
  BY <1>4, <1>5 DEF NoLostWakeup

(* What ticks leave of the lists s they start from                         *)
LEMMA TicksKeep ==
  ASSUME NEW s \in Clocks, NEW n \in Nat, NEW r \in AfterTicks(s, n), NEW u \in Tasks
  PROVE  /\ s.list[u] = "ready" => r.list[u] = "ready"
         /\ r.list[u] # "ready" => /\ s.list[u] # "ready"
                                   /\ r.list[u] = "suspended" => s.list[u] = "suspended"
                                   /\ Sleeps(r, u) => Sleeps(s, u)
                                   /\ r.event[u] = s.event[u]
         /\ r.list[u] = "ready" => r.event[u] = "none" \/ (s.list[u] = "ready" /\ r.event[u] = s.event[u])
         /\ n = 0 /\ s.list[u] # "ready" => r.list[u] # "ready"
<1>1. IF ~Sleeps(s, u) THEN r.list[u] = s.list[u] /\ r.event[u] = s.event[u]
      ELSE IF Left(s, u) > n THEN Sleeps(r, u) /\ r.event[u] = s.event[u]
      ELSE r.list[u] = "ready" /\ r.event[u] = "none"
  BY DEF AfterTicks
<1>2. Sleeps(s, u) => Left(s, u) \in Nat \ {0}
  BY LeftIsPositive
<1>3. s.list[u] \in Lists /\ r.list[u] \in Lists
  BY DEF AfterTicks, Clocks, Scheds
<1>. QED
  BY <1>1, <1>2, <1>3 DEF Sleeps, Lists

(* A tick while the scheduler is suspended is counted as pended.           *)
LEMMA TickSuspendedStep ==
  ASSUME IInv, Tick, uxSchedulerSuspended
  PROVE  IInv'
<1>1. /\ xPendedTicks < MaxPended /\ xPendedTicks' = xPendedTicks + 1
      /\ UNCHANGED <<current, sched, xYieldPending, call>>
      /\ UNCHANGED <<uxSchedulerSuspended, store, cTxLock, pc>>
      /\ \A t \in Tasks : elapsed[t] < TickMod
      /\ elapsed' = [t \in Tasks |-> IF Counts(t) THEN elapsed[t] + 1 ELSE 0]
  BY DEF Tick
<1>2. TypeOK'
  <2>1. elapsed' \in [Tasks -> 0..TickMod]
    BY <1>1, Types, TicksAre DEF IInv
  <2>2. xPendedTicks' \in 0..MaxPended
    BY <1>1, KernelAssumption DEF IInv, TypeOK
  <2>. QED
    BY <1>1, <2>1, <2>2 DEF IInv, TypeOK, store
<1>3. Owned'
  BY <1>1 DEF IInv, Owned, store
<1>4. Phases'
  BY <1>1 DEF IInv, Phases
<1>5. ListsInv'
  BY <1>1 DEF IInv, ListsInv, CurrentReady, ListOf, Endless, Sleeps
<1>6. TimeInv'
  <2>1. ASSUME NEW u \in Tasks PROVE TimeOf(u)'
    <3>1. TimeOf(u) /\ elapsed'[u] = IF Counts(u) THEN elapsed[u] + 1 ELSE 0
      BY <1>1 DEF IInv, TimeInv
    <3>2. /\ call[u].op = "delay" => Counts(u)
          /\ call[u].next = "expired" => Counts(u)
          /\ call[u].xEntryTimeSet /\ ~Endless(u) => Counts(u)
          /\ Sleeps(sched, u) => Counts(u)
      BY WhoCounts
    <3>3. Counts(u)' = Counts(u) /\ Endless(u)' = Endless(u) /\ Since(u)' = Since(u)
          /\ Sleeps(sched, u)' = Sleeps(sched, u) /\ Left(sched, u)' = Left(sched, u)
      BY <1>1 DEF Counts, Endless, Since, Sleeps, Left
    <3>4. Counts(u) => Seen(u)' = Seen(u)
      BY <1>1, <3>1, Types DEF Seen, IInv
    <3>. QED
      BY <1>1, <3>1, <3>2, <3>3, <3>4 DEF TimeOf
  <2>. QED
    BY <1>1, <2>1 DEF IInv, TimeInv, ClockSound
<1>7. NoLostWakeup'
  BY <1>1, WakeupsStay DEF Queued, store, Counted
<1>8. RingInv'
  BY <1>1 DEF IInv, RingInv, store
<1>. QED
  BY <1>2, <1>3, <1>4, <1>5, <1>6, <1>7, <1>8 DEF IInv

(* A tick while it is not                                                  *)
LEMMA TickRunsStep ==
  ASSUME IInv, Tick, ~uxSchedulerSuspended
  PROVE  IInv'
<1>1. /\ sched' = Ticked(sched) /\ Wrapping(1) /\ UNCHANGED xPendedTicks
      /\ IF Preempts(sched, sched') \/ xYieldPending THEN Switch
         ELSE GoOn /\ UNCHANGED xYieldPending
      /\ UNCHANGED <<uxSchedulerSuspended, store, cTxLock, pc>>
      /\ \A t \in Tasks : elapsed[t] < TickMod
      /\ elapsed' = [t \in Tasks |-> IF Counts(t) THEN elapsed[t] + 1 ELSE 0]
  BY DEF Tick
<1>2. xPendedTicks = 0 /\ cTxLock = queueUNLOCKED /\ \A u \in Tasks : pc[u] \notin Suspends
  BY Types DEF IInv, Owned, Suspends, Locks
<1>3. sched \in Clocks /\ sched' \in AfterTicks(sched, 1) /\ sched' \in Clocks /\ sched' \in Scheds
      /\ 1 \in Nat
  BY <1>1, TickedSound, Types DEF IInv, TimeInv, Clocks, AfterTicks
<1>4. /\ call' \in [Tasks -> Calls]
      /\ \A u \in Tasks :
           /\ call'[u].op = call[u].op /\ call'[u].asked = call[u].asked
           /\ call'[u].xTicksToWait = call[u].xTicksToWait
           /\ call'[u].xEntryTimeSet = call[u].xEntryTimeSet
           /\ call'[u].next = call[u].next
           /\ call'[u].wrapped => call[u].wrapped \/ call[u].xEntryTimeSet
           /\ Endless(u)' <=> Endless(u)
  BY <1>1, <1>3, WrappingIs DEF IInv
<1>5. \A u \in Tasks :
        /\ sched.list[u] = "ready" => sched'.list[u] = "ready"
        /\ sched'.list[u] # "ready" => /\ sched.list[u] # "ready"
                                       /\ sched'.list[u] = "suspended" => sched.list[u] = "suspended"
                                       /\ Sleeps(sched', u) => Sleeps(sched, u)
                                       /\ sched'.event[u] = sched.event[u]
        /\ sched'.list[u] = "ready"
             => sched'.event[u] = "none" \/ (sched.list[u] = "ready" /\ sched'.event[u] = sched.event[u])
  BY <1>3, TicksKeep
<1>6. current' \in Tasks /\ xYieldPending' \in BOOLEAN
  BY <1>1, Types DEF Switch, GoOn, In, IInv
<1>7. TypeOK'
  <2>1. elapsed' \in [Tasks -> 0..TickMod]
    BY <1>1, Types, TicksAre DEF IInv
  <2>. QED
    BY <1>1, <1>3, <1>4, <1>6, <2>1 DEF IInv, TypeOK, store
<1>8. Owned'
  BY <1>1, <1>2, <1>6 DEF Owned, Suspends, Locks
<1>9. Phases'
  <2>1. ASSUME NEW u \in Tasks PROVE Phase(pc[u], call[u])'
    <3>1. Phase(pc[u], call[u])
      BY DEF IInv, Phases
    <3>. QED
      BY <1>1, <1>4, <3>1 DEF Phase
  <2>. QED
    BY <2>1 DEF Phases
<1>10. ListsInv'
  <2>1. CurrentReady'
    <3>1. CASE current' \in In(sched', "ready")
      BY <3>1 DEF CurrentReady, In
    <3>2. CASE current' = current
      BY <1>1, <1>5, <3>2, Types DEF IInv, ListsInv, CurrentReady
    <3>. QED
      BY <1>1, <3>1, <3>2 DEF Switch, GoOn
  <2>2. ASSUME NEW u \in Tasks, sched'.list[u] = "ready", Priority[u] > Priority[current']
        PROVE  xYieldPending'
    <3>1. CASE Switch
      <4>1. u \in In(sched', "ready") /\ Priority[u] <= Priority[current']
        BY <2>2, <3>1 DEF Switch, In
      <4>. QED
        BY <1>6, <2>2, <4>1, KernelAssumption
    <3>2. CASE ~Preempts(sched, sched') /\ ~xYieldPending /\ GoOn /\ UNCHANGED xYieldPending
      <4>1. current' = current /\ Priority[u] \in Nat /\ Priority[current] \in Nat
        BY <3>2, KernelAssumption, Types DEF GoOn, IInv
      <4>2. u \in In(sched', "ready") \ {current}
        BY <2>2, <4>1 DEF In
      <4>3. sched.list[u] = "ready"
        BY <2>2, <3>2, <4>1, <4>2 DEF Preempts
      <4>. QED
        BY <2>2, <3>2, <4>1, <4>3 DEF IInv, ListsInv, ListOf
    <3>. QED
      BY <1>1, <3>1, <3>2
  <2>3. ASSUME NEW u \in Tasks PROVE ListOf(u)'
    <3>1. ListOf(u)
      BY DEF IInv, ListsInv
    <3>2. Sleeps(sched, u)' <=> Sleeps(sched', u)
      BY DEF Sleeps
    <3>3. sched'.event[u] # "none" => sched'.list[u] # "ready" /\ sched'.event[u] = sched.event[u]
      BY <1>5, <3>1 DEF ListOf
    <3>. QED
      BY <1>1, <1>4, <1>5, <2>2, <3>1, <3>2, <3>3 DEF ListOf, Sleeps
  <2>. QED
    BY <2>1, <2>3 DEF ListsInv
<1>11. TimeInv'
  <2>1. ASSUME NEW u \in Tasks
        PROVE  IF Counts(u) THEN Seen(u)' = Seen(u) + 1 /\ Seen(u)' <= TickMod
               ELSE elapsed'[u] = 0
    BY <1>1, <1>2, Types, TicksAre DEF Seen, IInv
  <2>. QED
    BY <1>1, <1>2, <1>3, <2>1, TimePasses
<1>12. NoLostWakeup'
  <2>1. ASSUME NEW u \in Tasks
        PROVE  /\ sched'.event[u] \in Queued => sched'.event[u] = sched.event[u]
               /\ call'[u].op = call[u].op
               /\ pc[u] = "try" /\ sched.list[u] = "ready" =>
                    pc'[u] = "try" /\ sched'.list[u] = "ready"
               /\ sched.event[u] # "pendingReady"
    <3>1. ListOf(u)
      BY DEF IInv, ListsInv
    <3>. QED
      BY <1>1, <1>4, <1>5, <3>1 DEF ListOf, Queued
  <2>. QED
    BY <1>1, <2>1, WakeupsStay DEF store, Counted
<1>13. RingInv'
  BY <1>1 DEF IInv, RingInv, store
<1>. QED
  BY <1>7, <1>8, <1>9, <1>10, <1>11, <1>12, <1>13 DEF IInv

(* The running task puts itself on a list, while the scheduler is          *)
(* suspended.                                                              *)
LEMMA SleepStep ==
  ASSUME IInv, NEW t \in Tasks, current = t,
         NEW p \in Labels \ {"try"}, pc' = [pc EXCEPT ![t] = p],
         NEW c \in Calls, call' = [call EXCEPT ![t] = c],
         NEW e \in 0..TickMod, elapsed' = [elapsed EXCEPT ![t] = e],
         UNCHANGED <<current, xYieldPending, xPendedTicks, store, cTxLock>>,
         uxSchedulerSuspended' = TRUE,
         sched' \in Clocks, sched'.xTickCount = sched.xTickCount,
         \A u \in Tasks \ {t} : /\ sched'.list[u] = sched.list[u]
                                /\ sched'.xItemValue[u] = sched.xItemValue[u]
                                /\ sched'.event[u] = sched.event[u],
         sched'.event[t] # "pendingReady",
         sched'.event[t] = "receive" => uxMessagesWaiting <= Counted,
         sched'.event[t] = "send" => uxMessagesWaiting = QueueLength,
         Owned', Phase(p, c), ListOf(t)', TimeOf(t)', pc[t] \notin {"unlock", "resume", "try"}
  PROVE  IInv'
<1>1. /\ sched.list[t] = "ready" /\ sched.event[t] = "none"
      /\ pc'[t] = p /\ call'[t] = c
      /\ \A u \in Tasks \ {t} : pc'[u] = pc[u] /\ call'[u] = call[u] /\ elapsed'[u] = elapsed[u]
  BY RunnerReady, Types DEF IInv
<1>2. TypeOK'
  BY DEF IInv, TypeOK, store, Clocks
<1>3. Phases'
  BY <1>1 DEF IInv, Phases
<1>4. ListsInv'
  <2>1. ASSUME NEW u \in Tasks \ {t} PROVE ListOf(u)'
    BY <1>1 DEF IInv, ListsInv, ListOf, Endless, Sleeps
  <2>. QED
    BY <2>1 DEF ListsInv, CurrentReady
<1>5. TimeInv'
  <2>1. ASSUME NEW u \in Tasks \ {t} PROVE TimeOf(u)'
    BY <1>1 DEF IInv, TimeInv, TimeOf, Endless, Counts, Seen, Since, Sleeps, Left
  <2>. QED
    BY <2>1 DEF TimeInv, Clocks
<1>6. RingInv'
  BY DEF IInv, RingInv, store
<1>7. NoLostWakeup'
  <2>1. ASSUME NEW ops PROVE /\ Cardinality(Eager(ops)) <= Cardinality(Eager(ops)')
                             /\ Cardinality(Eager(ops)) \in Nat
                             /\ Cardinality(Eager(ops)') \in Nat
    <3>1. Eager(ops) \subseteq Eager(ops)'
      BY <1>1 DEF Eager
    <3>2. Eager(ops)' \in SUBSET Tasks
      BY DEF Eager
    <3>. QED
      BY <3>1, <3>2, CountGrows
  <2>2. Counted \in Nat /\ QueueLength \in Nat /\ uxMessagesWaiting \in Nat /\ Counted' = Counted
        /\ uxMessagesWaiting' = uxMessagesWaiting
    BY CountedIs, Types DEF IInv, Counted, store
  <2>3. NoLostWakeup
    BY DEF IInv
  <2>4. ASSUME NEW u \in Tasks, sched'.event[u] = "receive"
        PROVE  uxMessagesWaiting' <= Cardinality(Eager(Receives)') + Counted'
    <3>1. uxMessagesWaiting <= Cardinality(Eager(Receives)) + Counted
      BY <2>1, <2>2, <2>3, <2>4 DEF NoLostWakeup
    <3>. QED
      BY <2>1, <2>2, <3>1
  <2>5. ASSUME NEW u \in Tasks, sched'.event[u] = "send"
        PROVE  QueueLength - uxMessagesWaiting' <= Cardinality(Eager({"send"})')
    <3>1. QueueLength - uxMessagesWaiting <= Cardinality(Eager({"send"}))
      BY <2>1, <2>2, <2>3, <2>5 DEF NoLostWakeup
    <3>. QED
      BY <2>1, <2>2, <3>1
  <2>. QED
    BY <2>4, <2>5 DEF NoLostWakeup
<1>. QED
  BY <1>2, <1>3, <1>4, <1>5, <1>6, <1>7 DEF IInv

(* vTaskDelay: the task has as many ticks left as it asks for.             *)
LEMMA DelayStep ==
  ASSUME IInv, NEW t \in Tasks, Delay(t)
  PROVE  IInv'
<1>1. PICK n \in Delays[t] :
        /\ current = t /\ pc[t] = "run" /\ uxSchedulerSuspended' = TRUE
        /\ sched' = Delayed(sched, t, n, FALSE)
        /\ call' = [call EXCEPT ![t] = [Call("delay", n) EXCEPT !.next = "block"]]
        /\ pc' = [pc EXCEPT ![t] = "resume"]
        /\ elapsed' = [elapsed EXCEPT ![t] = 0]
        /\ UNCHANGED <<current, xYieldPending, xPendedTicks, store, cTxLock>>
  BY DEF Delay, Runs, SuspendAll, Goto
<1> DEFINE c == [Call("delay", n) EXCEPT !.next = "block"]
<1>2. n \in Ticks /\ n # 0 /\ n \in Nat /\ n > 0
  BY KernelAssumption, TicksAre
<1>3. /\ c \in Calls /\ c.op = "delay" /\ c.asked = n /\ c.xTicksToWait = n
      /\ c.xEntryTimeSet = FALSE /\ c.next = "block" /\ c.wrapped = FALSE
  BY <1>2, TicksAre DEF Call, Calls
<1>4. call' = [call EXCEPT ![t] = c]
  BY <1>1
<1> HIDE DEF c
<1>5. /\ uxSchedulerSuspended = FALSE /\ xPendedTicks = 0 /\ cTxLock = -1
      /\ \A u \in Tasks : pc[u] \notin Suspends
  BY <1>1, NotSuspended DEF Suspends
<1>6. sched.list[t] = "ready" /\ sched.event[t] = "none" /\ sched \in Clocks
  BY <1>1, RunnerReady, Types DEF IInv, TimeInv, Clocks
<1>7. /\ sched' \in Clocks /\ sched'.xTickCount = sched.xTickCount /\ sched'.event = sched.event
      /\ \A u \in Tasks \ {t} : /\ sched'.list[u] = sched.list[u]
                                /\ sched'.xItemValue[u] = sched.xItemValue[u]
      /\ Sleeps(sched', t) /\ Left(sched', t) = n
  BY <1>1, <1>2, <1>6, DelayedIs
<1>8. /\ pc'[t] = "resume" /\ call'[t] = c /\ elapsed'[t] = 0
      /\ \A u \in Tasks \ {t} : pc'[u] = pc[u]
  BY <1>1, <1>4, Types DEF IInv
<1>9. Owned'
  BY <1>1, <1>5, <1>8, Types DEF Owned, Suspends, Locks, IInv
<1>10. Phase("resume", c)
  BY <1>2, <1>3, TicksAre DEF Phase, Queued
<1>11. ListOf(t)'
  BY <1>3, <1>6, <1>7, <1>8 DEF ListOf, Sleeps, Endless
<1>12. TimeOf(t)'
  <2>1. Seen(t)' = 0
    BY <1>1, <1>5, <1>8 DEF Seen
  <2>2. Counts(t)' /\ Sleeps(sched, t)'
    BY <1>3, <1>7, <1>8 DEF Counts, Sleeps
  <2>3. Left(sched, t)' = n
    BY <1>7 DEF Left
  <2>. QED
    BY <1>2, <1>3, <1>7, <1>8, <2>1, <2>2, <2>3 DEF TimeOf, Sleeps
<1>13. "resume" \in Labels \ {"try"} /\ 0 \in 0..TickMod
  BY TicksAre DEF Labels
<1>. QED
  BY <1>1, <1>3, <1>4, <1>6, <1>7, <1>9, <1>10, <1>11, <1>12, <1>13, SleepStep

(* vTaskPlaceOnEventList: a receiver waits only while all the messages     *)
(* there are have been counted, a sender only while there is no room.      *)
LEMMA PlaceStep ==
  ASSUME IInv, NEW t \in Tasks, Place(t)
  PROVE  IInv'
<1> DEFINE c0   == call[t]
           wait == IF c0.op = "restricted" THEN portMAX_DELAY ELSE c0.xTicksToWait
           r    == Delayed(sched, t, wait, TRUE)
           ev   == IF c0.op = "send" THEN "send" ELSE "receive"
           c    == [c0 EXCEPT !.next = "block"]
<1>1. /\ current = t /\ pc[t] = "place"
      /\ call' = [call EXCEPT ![t] = c]
      /\ pc' = [pc EXCEPT ![t] = "unlock"]
      /\ UNCHANGED <<current, xYieldPending, uxSchedulerSuspended, xPendedTicks, store, cTxLock,
                     elapsed>>
  BY Types DEF Place, Runs, Goto, IInv
<1>2. sched' = [r EXCEPT !.event[t] = ev]
  BY DEF Place
<1>3. c0 \in Calls /\ Phase("place", c0) /\ TimeOf(t)
  BY <1>1, Types DEF IInv, Phases, TimeInv
<1>4. /\ c \in Calls /\ c.op = c0.op /\ c.asked = c0.asked /\ c.xTicksToWait = c0.xTicksToWait
      /\ c.xEntryTimeSet = c0.xEntryTimeSet /\ c.next = "block" /\ c.wrapped = c0.wrapped
      /\ c.xTimeOnEntering = c0.xTimeOnEntering
  BY <1>3 DEF Calls
<1>5. /\ c0.op \in {"receive", "send", "restricted"} /\ c0.next = "again"
      /\ c0.op # "restricted" => c0.xEntryTimeSet
      /\ c0.asked \in 0..TickMod - 1 /\ c0.xTicksToWait \in 0..TickMod - 1
  BY <1>3, TicksAre DEF Phase, Queued, Calls
<1>6. wait \in Ticks /\ wait # 0
  BY <1>3, <1>5, TicksAre DEF Phase
<1>7. Endless(t) <=> wait = portMAX_DELAY
  BY <1>3, <1>5, TicksAre DEF Endless, Phase, Queued
<1>8. sched.list[t] = "ready" /\ sched.event[t] = "none" /\ sched \in Clocks
  BY <1>1, RunnerReady, Types DEF IInv, TimeInv, Clocks
<1>9. /\ r \in Clocks /\ r.xTickCount = sched.xTickCount /\ r.event = sched.event
      /\ \A u \in Tasks \ {t} : r.list[u] = sched.list[u] /\ r.xItemValue[u] = sched.xItemValue[u]
      /\ IF wait = portMAX_DELAY THEN r.list[t] = "suspended"
         ELSE Sleeps(r, t) /\ Left(r, t) = wait
  <2> HIDE DEF wait
  <2>. QED
    BY <1>6, <1>8, DelayedIs
<1>a. ev \in Events /\ ev \in {"send", "receive"} /\ (ev = "send" <=> c0.op = "send")
  BY DEF Events
<1> HIDE DEF r, c, ev, wait
<1>10. /\ sched' \in Clocks /\ sched'.xTickCount = sched.xTickCount
       /\ sched'.list = r.list /\ sched'.xItemValue = r.xItemValue
       /\ sched'.event[t] = ev /\ \A u \in Tasks \ {t} : sched'.event[u] = sched.event[u]
  <2> DEFINE event == [r.event EXCEPT ![t] = ev]
  <2>1. r \in Scheds /\ sched' = [r EXCEPT !.event = event]
    BY <1>2, <1>9 DEF Clocks
  <2>2. event \in [Tasks -> Events] /\ event[t] = ev /\ \A u \in Tasks \ {t} : event[u] = sched.event[u]
    BY <1>9, <1>a, <2>1 DEF Scheds
  <2> HIDE DEF event
  <2>3. /\ sched' \in Scheds /\ sched'.event = event
        /\ sched'.xTickCount = r.xTickCount /\ sched'.list = r.list
        /\ sched'.xItemValue = r.xItemValue
        /\ sched'.xNextTaskUnblockTime = r.xNextTaskUnblockTime
    BY <2>1, <2>2 DEF Scheds
  <2>4. sched' \in Clocks
    BY <1>9, <2>3, FewerSleep
  <2>. QED
    BY <1>9, <2>2, <2>3, <2>4
<1>11. /\ pc'[t] = "unlock" /\ call'[t] = c
       /\ \A u \in Tasks \ {t} : pc'[u] = pc[u]
  BY <1>1, Types DEF IInv
<1>12. /\ uxSchedulerSuspended = TRUE /\ cTxLock # -1 /\ \A u \in Tasks : pc[u] \in Suspends => u = t
       /\ IF c0.op = "send" THEN uxMessagesWaiting = QueueLength ELSE uxMessagesWaiting <= cTxLock
  BY <1>1, Types DEF IInv, Owned, Suspends, Locks
<1>13. Owned'
  BY <1>1, <1>11, <1>12, Types DEF Owned, Suspends, Locks, IInv
<1>14. Phase("unlock", c)
  BY <1>3, <1>4, <1>5 DEF Phase, Queued
<1>15. Endless(t)' <=> Endless(t)
  BY <1>4, <1>11 DEF Endless
<1>16. /\ Sleeps(sched, t)' <=> Sleeps(r, t)
       /\ Left(sched, t)' = Left(r, t)
       /\ sched'.list[t] # "ready" /\ (sched'.list[t] = "suspended" => Endless(t))
       /\ Sleeps(r, t) => ~Endless(t)
  BY <1>7, <1>9, <1>10 DEF Sleeps, Left
<1>17. ListOf(t)'
  BY <1>4, <1>5, <1>10, <1>11, <1>15, <1>16, <1>a DEF ListOf, Receives, Sleeps
<1>18. TimeOf(t)'
  <2>1. Counts(t)' <=> Counts(t)
    BY <1>4, <1>11, <1>15 DEF Counts
  <2>2. /\ Seen(t)' = Seen(t) /\ Since(t)' = Since(t) /\ elapsed'[t] = elapsed[t]
    BY <1>1, <1>4, <1>10, <1>11 DEF Seen, Since
  <2>3. ~Endless(t) => /\ Counts(t) /\ Since(t) = 0
                       /\ Seen(t) = c0.asked - c0.xTicksToWait + Since(t)
                       /\ wait = c0.xTicksToWait
    <3>1. ~Endless(t) => Counts(t) /\ c0.op # "restricted"
      BY <1>5 DEF Endless, Counts
    <3>. QED
      BY <1>1, <1>3, <1>5, <3>1 DEF TimeOf, wait
  <2>4. Sleeps(sched, t)' => Counts(t)' /\ Seen(t)' + Left(sched, t)' = c.asked
    BY <1>4, <1>5, <1>7, <1>9, <1>16, <2>1, <2>2, <2>3
  <2>. QED
    BY <1>1, <1>3, <1>4, <1>5, <1>11, <1>15, <2>1, <2>2, <2>4 DEF TimeOf
<1>19. /\ "unlock" \in Labels \ {"try"} /\ elapsed[t] \in 0..TickMod
       /\ elapsed' = [elapsed EXCEPT ![t] = elapsed[t]]
       /\ uxSchedulerSuspended' = TRUE
  BY <1>1, <1>12, Types DEF Labels, IInv
<1>20. /\ sched'.event[t] # "pendingReady"
       /\ sched'.event[t] = "receive" => uxMessagesWaiting <= Counted
       /\ sched'.event[t] = "send" => uxMessagesWaiting = QueueLength
  BY <1>10, <1>12, <1>a, Types, CountedIs DEF IInv
<1>21. \A u \in Tasks \ {t} : /\ sched'.list[u] = sched.list[u]
                              /\ sched'.xItemValue[u] = sched.xItemValue[u]
                              /\ sched'.event[u] = sched.event[u]
  BY <1>9, <1>10
<1>. QED
  BY <1>1, <1>4, <1>10, <1>13, <1>14, <1>17, <1>18, <1>19, <1>20, <1>21, SleepStep

(* xTaskResumeAll: pending tasks get ready, the pended ticks are made up   *)
(* for, and nobody whose time is up is left on a list.                     *)
LEMMA ResumeStep ==
  ASSUME IInv, NEW t \in Tasks, ResumeAll(t)
  PROVE  IInv'
<1> DEFINE c0 == call[t]
           s  == Resumed
           p  == CASE c0.op = "delay" -> "woken"
                   [] c0.op # "delay" /\ c0.next # "expired" -> "try"
                   [] c0.op = "receive" /\ c0.next = "expired" -> "empty"
                   [] OTHER -> "full"
<1>1. /\ current = t /\ pc[t] = "resume" /\ uxSchedulerSuspended' = FALSE
      /\ sched' = TicksFrom(s, xPendedTicks) /\ Wrapping(xPendedTicks) /\ xPendedTicks' = 0
      /\ pc' = [pc EXCEPT ![t] = p]
      /\ UNCHANGED <<store, cTxLock, elapsed>>
  BY DEF ResumeAll, Runs, Goto, Resumed, Pending
<1>2. \/ Switch
      \/ /\ GoOn /\ UNCHANGED xYieldPending /\ ~xYieldPending
         /\ \A u \in Pending : ~(Priority[u] >= Priority[current])
         /\ ~(xPendedTicks > 0 /\ Preempts(s, sched'))
         /\ c0.next # "block" /\ c0.op # "restricted"
  BY DEF ResumeAll, Resumed, Pending
<1>3. /\ uxSchedulerSuspended = TRUE /\ cTxLock = queueUNLOCKED
      /\ \A u \in Tasks : pc[u] \in Suspends => u = t
  BY <1>1, Types DEF IInv, Owned, Suspends, Locks
<1>4. sched \in Clocks /\ xPendedTicks \in Nat
  BY Types DEF IInv, TimeInv, Clocks
<1>5. /\ s \in Clocks
      /\ s.xTickCount = sched.xTickCount /\ s.xItemValue = sched.xItemValue
      /\ \A u \in Tasks :
           /\ s.list[u] = IF u \in Pending THEN "ready" ELSE sched.list[u]
           /\ s.event[u] = IF u \in Pending THEN "none" ELSE sched.event[u]
  BY <1>4, ResumedIs
<1> HIDE DEF s
<1>6. sched' \in AfterTicks(s, xPendedTicks) /\ sched' \in Clocks /\ sched' \in Scheds
  <2>1. sched' \in AfterTicks(s, xPendedTicks)
    BY <1>1, <1>4, <1>5, TicksFromIs
  <2>. QED
    BY <2>1 DEF AfterTicks, Clocks
<1>7. /\ call' \in [Tasks -> Calls]
      /\ \A u \in Tasks :
           /\ call'[u].op = call[u].op /\ call'[u].asked = call[u].asked
           /\ call'[u].xTicksToWait = call[u].xTicksToWait
           /\ call'[u].xEntryTimeSet = call[u].xEntryTimeSet
           /\ call'[u].next = call[u].next
           /\ call'[u].wrapped => call[u].wrapped \/ call[u].xEntryTimeSet
           /\ Endless(u)' <=> Endless(u)
  BY <1>1, <1>4, WrappingIs DEF IInv
<1>8. \A u \in Tasks :
        /\ s.list[u] = "ready" => sched'.list[u] = "ready"
        /\ sched'.list[u] # "ready" => /\ s.list[u] # "ready"
                                       /\ sched'.list[u] = "suspended" => s.list[u] = "suspended"
                                       /\ Sleeps(sched', u) => Sleeps(s, u)
                                       /\ sched'.event[u] = s.event[u]
        /\ sched'.list[u] = "ready"
             => sched'.event[u] = "none" \/ (s.list[u] = "ready" /\ sched'.event[u] = s.event[u])
        /\ xPendedTicks = 0 /\ s.list[u] # "ready" => sched'.list[u] # "ready"
  BY <1>4, <1>5, <1>6, TicksKeep
<1>9. Phase("resume", c0) /\ c0 \in Calls
  BY <1>1, Types DEF IInv, Phases
<1>10. p \in {"woken", "try", "empty", "full"} /\ p \in Labels
  BY DEF Labels
<1>11. /\ p = "woken" <=> c0.op = "delay"
       /\ c0.op # "delay" /\ c0.next # "expired" => p = "try"
       /\ p = "empty" => c0.op = "receive" /\ c0.next = "expired"
       /\ p = "full" => c0.op = "send" /\ c0.next = "expired"
  <2>1. c0.op # "delay" /\ c0.next = "expired" => c0.op \in {"receive", "send"}
    BY <1>9 DEF Phase, Queued
  <2>2. CASE c0.op = "delay"
    <3>1. p = "woken"
      BY <2>2
    <3>. QED
      BY <2>2, <3>1
  <2>3. CASE c0.op # "delay" /\ c0.next # "expired"
    <3>1. p = "try"
      BY <2>3
    <3>. QED
      BY <2>3, <3>1
  <2>4. CASE c0.op = "receive" /\ c0.next = "expired"
    <3>1. p = "empty"
      BY <2>4
    <3>. QED
      BY <2>4, <3>1
  <2>5. CASE c0.op = "send" /\ c0.next = "expired"
    <3>1. p = "full"
      BY <2>5
    <3>. QED
      BY <2>5, <3>1
  <2>. QED
    BY <2>1, <2>2, <2>3, <2>4, <2>5
<1> HIDE DEF p
<1>12. pc' \in [Tasks -> Labels] /\ pc'[t] = p /\ \A u \in Tasks \ {t} : pc'[u] = pc[u]
  BY <1>1, <1>10, Types DEF IInv
<1>13. \A u \in Tasks : pc'[u] \notin Suspends
  BY <1>3, <1>10, <1>12 DEF Suspends
<1>14. current' \in Tasks /\ xYieldPending' \in BOOLEAN
  BY <1>2, Types DEF Switch, GoOn, In, IInv
<1>15. TypeOK'
  <2>1. xPendedTicks' \in 0..MaxPended
    BY <1>1, KernelAssumption
  <2>. QED
    BY <1>1, <1>6, <1>7, <1>12, <1>14, <2>1 DEF IInv, TypeOK, store
<1>16. Owned'
  BY <1>1, <1>3, <1>13, <1>14 DEF Owned, Suspends, Locks
<1>17. Phases'
  <2>1. ASSUME NEW u \in Tasks \ {t} PROVE Phase(pc[u], call[u])'
    <3>1. Phase(pc[u], call[u])
      BY DEF IInv, Phases
    <3>. QED
      BY <1>7, <1>12, <3>1 DEF Phase
  <2>2. Phase(pc[t], call[t])'
    BY <1>7, <1>9, <1>10, <1>11, <1>12 DEF Phase
  <2>. QED
    BY <2>1, <2>2 DEF Phases
<1>18. \A u \in Tasks : /\ sched.event[u] = "pendingReady" <=> u \in Pending
                        /\ u \in Pending => sched.list[u] # "ready" /\ call[u].op # "delay"
  BY DEF IInv, ListsInv, ListOf, Pending
<1>19. ListsInv'
  <2>1. CurrentReady'
    <3>1. CASE Switch
      BY <3>1 DEF CurrentReady, In, Switch
    <3>2. CASE GoOn /\ c0.next # "block"
      <4>1. sched.list[t] = "ready"
        BY <3>2 DEF IInv, ListsInv, ListOf
      <4>. QED
        BY <1>1, <1>5, <1>8, <3>2, <4>1 DEF CurrentReady, GoOn
    <3>. QED
      BY <1>2, <3>1, <3>2
  <2>2. ASSUME NEW u \in Tasks, sched'.list[u] = "ready", Priority[u] > Priority[current']
        PROVE  xYieldPending'
    <3>1. CASE Switch
      <4>1. u \in In(sched', "ready") /\ Priority[u] <= Priority[current']
        BY <2>2, <3>1 DEF Switch, In
      <4>. QED
        BY <1>14, <2>2, <4>1, KernelAssumption
    <3>2. CASE /\ GoOn /\ UNCHANGED xYieldPending /\ ~xYieldPending
               /\ \A v \in Pending : ~(Priority[v] >= Priority[current])
               /\ ~(xPendedTicks > 0 /\ Preempts(s, sched'))
      <4>1. current' = current /\ Priority[u] \in Nat /\ Priority[current] \in Nat
        BY <3>2, KernelAssumption, Types DEF GoOn, IInv
      <4>2. u \notin Pending
        BY <2>2, <3>2, <4>1
      <4>3. s.list[u] = sched.list[u]
        BY <1>5, <4>2
      <4>4. CASE s.list[u] = "ready"
        BY <2>2, <3>2, <4>1, <4>3, <4>4 DEF IInv, ListsInv, ListOf
      <4>5. CASE s.list[u] # "ready"
        <5>1. xPendedTicks > 0
          BY <1>4, <1>8, <2>2, <4>5
        <5>2. u \in In(sched', "ready") \ {current} /\ Priority[u] >= Priority[current]
          BY <2>2, <4>1 DEF In
        <5>3. Preempts(s, sched')
          BY <4>5, <5>2 DEF Preempts
        <5>. QED
          BY <3>2, <5>1, <5>3
      <4>. QED
        BY <4>4, <4>5
    <3>. QED
      BY <1>2, <3>1, <3>2
  <2>3. ASSUME NEW u \in Tasks PROVE ListOf(u)'
    <3>1. ListOf(u)
      BY DEF IInv, ListsInv
    <3>2. Sleeps(sched, u)' <=> Sleeps(sched', u)
      BY DEF Sleeps
    <3>3. /\ sched'.event[u] # "none" => /\ sched'.list[u] # "ready"
                                         /\ sched'.event[u] = sched.event[u]
          /\ sched'.event[u] # "pendingReady"
      BY <1>5, <1>8, <1>18, <3>1 DEF ListOf
    <3>4. /\ sched'.list[u] # "ready" => sched.list[u] # "ready"
          /\ sched'.list[u] = "suspended" => sched.list[u] = "suspended"
          /\ Sleeps(sched', u) => Sleeps(sched, u)
      BY <1>5, <1>8 DEF Sleeps
    <3>5. sched'.list[u] # "ready" => pc'[u] \in {"unlock", "resume", "try", "woken"}
      <4>1. sched'.list[u] # "ready" => pc[u] \in {"unlock", "resume", "try", "woken"}
                                        /\ call[u].next = "block"
        BY <3>1, <3>4 DEF ListOf
      <4>2. CASE u = t
        BY <1>11, <1>12, <4>1, <4>2
      <4>3. CASE u # t
        BY <1>12, <4>1, <4>3
      <4>. QED
        BY <4>2, <4>3
    <3>. QED
      BY <1>7, <2>2, <3>1, <3>2, <3>3, <3>4, <3>5 DEF ListOf
  <2>. QED
    BY <2>1, <2>3 DEF ListsInv
<1>20. TimeInv'
  <2>1. ASSUME NEW u \in Tasks
        PROVE  IF Counts(u) THEN Seen(u)' = Seen(u) + xPendedTicks /\ Seen(u)' <= TickMod
               ELSE elapsed'[u] = 0
    <3>1. TimeOf(u)
      BY DEF IInv, TimeInv
    <3>. QED
      BY <1>1, <3>1, Types, TicksAre DEF Seen, IInv, TimeOf
  <2>2. \A u \in Tasks : \/ s.list[u] = sched.list[u]
                         \/ s.list[u] = "ready" /\ call[u].op # "delay"
    BY <1>5, <1>18
  <2>. QED
    BY <1>1, <1>4, <1>5, <1>6, <1>13, <2>1, <2>2, TimePasses
<1>21. NoLostWakeup'
  <2>1. ASSUME NEW u \in Tasks
        PROVE  /\ sched'.event[u] \in Queued => sched'.event[u] = sched.event[u]
               /\ call'[u].op = call[u].op
               /\ pc[u] = "try" /\ sched.list[u] = "ready" =>
                    pc'[u] = "try" /\ sched'.list[u] = "ready"
               /\ sched.event[u] = "pendingReady" =>
                    pc'[u] = "try" /\ sched'.list[u] = "ready"
    <3>1. ListOf(u) /\ Phase(pc[u], call[u])
      BY DEF IInv, ListsInv, Phases
    <3>2. sched'.event[u] \in Queued => sched'.event[u] = sched.event[u]
      BY <1>5, <1>8, <3>1 DEF Queued, ListOf
    <3>3. pc[u] = "try" /\ sched.list[u] = "ready" => pc'[u] = "try" /\ sched'.list[u] = "ready"
      BY <1>1, <1>5, <1>8, <1>12
    <3>4. ASSUME sched.event[u] = "pendingReady" PROVE pc'[u] = "try" /\ sched'.list[u] = "ready"
      <4>1. /\ u \in Pending /\ sched'.list[u] = "ready" /\ call[u].op # "delay"
            /\ pc[u] \in {"unlock", "resume", "try", "woken"} /\ call[u].next = "block"
        BY <1>5, <1>8, <1>18, <3>1, <3>4 DEF ListOf
      <4>2. pc[u] \in {"unlock", "resume", "try"}
        BY <3>1, <4>1 DEF Phase
      <4>3. CASE u = t
        BY <1>11, <1>12, <4>1, <4>3
      <4>4. CASE u # t
        BY <1>3, <1>12, <4>1, <4>2, <4>4 DEF Suspends
      <4>. QED
        BY <4>3, <4>4
    <3>. QED
      BY <1>7, <3>2, <3>3, <3>4
  <2>. QED
    BY <1>1, <2>1, WakeupsStay DEF store, Counted
<1>22. RingInv'
  BY <1>1 DEF IInv, RingInv, store
<1>. QED
  BY <1>15, <1>16, <1>17, <1>19, <1>20, <1>21, <1>22 DEF IInv

---------------------------------------------------------------------------
(* The ring                                                                *)

(* A position of the ring of n messages, at most twice round.              *)
LEMMA RingArithmetic ==
  ASSUME NEW n \in Nat \ {0}, NEW x \in 0..2 * n
  PROVE  /\ x % n \in 0..n - 1
         /\ x % n = IF x < n THEN x ELSE IF x < 2 * n THEN x - n ELSE x - 2 * n
<1>1. CASE x < n
  BY <1>1
<1>2. CASE x >= n /\ x < 2 * n
  <2>1. x - n \in 0..n - 1
    BY <1>2
  <2>2. x = n * 1 + (x - n)
    OBVIOUS
  <2>. QED
    BY <1>2, <2>1, <2>2, SMTT(30)
<1>3. CASE x = 2 * n
  <2>1. x = n * 2 + 0
    BY <1>3
  <2>. QED
    BY <1>3, <2>1, SMTT(30)
<1>. QED
  BY <1>1, <1>2, <1>3

(* The position after r + 1 + k is the one of r + 1 + (k + 1), and the one  *)
(* of k - 1 more after r + 1.                                              *)
LEMMA RingStep ==
  ASSUME NEW n \in Nat \ {0}, NEW r \in 0..n - 1, NEW k \in 0..n
  PROVE  /\ (r + 1 + k) % n \in 0..n - 1 /\ (r + 1) % n \in 0..n - 1
         /\ k < n => (((r + 1 + k) % n) + 1) % n = (r + 1 + (k + 1)) % n
         /\ k > 0 => (((r + 1) % n) + 1 + (k - 1)) % n = (r + 1 + k) % n
<1> DEFINE Round(x) == IF x < n THEN x ELSE IF x < 2 * n THEN x - n ELSE x - 2 * n
<1>1. \A x \in 0..2 * n : x % n = Round(x) /\ Round(x) \in 0..n - 1
  BY RingArithmetic
<1>2. r + 1 + k \in 0..2 * n /\ r + 1 \in 0..2 * n
  OBVIOUS
<1>3. PICK w \in 0..n - 1 : w = (r + 1 + k) % n /\ w = Round(r + 1 + k)
  BY <1>1, <1>2
<1>4. PICK f \in 0..n - 1 : f = (r + 1) % n /\ f = Round(r + 1)
  BY <1>1, <1>2
<1>5. ASSUME k < n PROVE (w + 1) % n = (r + 1 + (k + 1)) % n
  <2>1. w + 1 \in 0..2 * n /\ r + 1 + (k + 1) \in 0..2 * n
    BY <1>5
  <2>2. (w + 1) % n = Round(w + 1) /\ (r + 1 + (k + 1)) % n = Round(r + 1 + (k + 1))
    BY <1>1, <2>1
  <2>3. Round(w + 1) = Round(r + 1 + (k + 1))
    BY <1>3, <1>5
  <2>. QED
    BY <2>2, <2>3
<1>6. ASSUME k > 0 PROVE (f + 1 + (k - 1)) % n = w
  <2>1. f + 1 + (k - 1) \in 0..2 * n
    BY <1>6
  <2>2. (f + 1 + (k - 1)) % n = Round(f + 1 + (k - 1))
    BY <1>1, <2>1
  <2>3. Round(f + 1 + (k - 1)) = Round(r + 1 + k)
    BY <1>4, <1>6
  <2>. QED
    BY <1>3, <2>2, <2>3
<1>. QED
  BY <1>3, <1>4, <1>5, <1>6

(* What the lemmas on the ring use of the type invariant                   *)
LEMMA RingTypes ==
  ASSUME TypeOK
  PROVE  /\ QueueLength \in Nat \ {0} /\ uxMessagesWaiting \in 0..QueueLength
         /\ pcWriteTo \in 0..QueueLength - 1 /\ pcReadFrom \in 0..QueueLength - 1
         /\ ring \in [0..QueueLength - 1 -> Messages \cup {None}]
         /\ got \in Messages \cup {None}
  BY KernelAssumption DEF TypeOK

(* prvCopyDataToQueue keeps the messages between the two positions.        *)
LEMMA PutKeeps ==
  ASSUME TypeOK, RingInv, uxMessagesWaiting < QueueLength, NEW m \in Messages, Put(m)
  PROVE  /\ RingInv'
         /\ uxMessagesWaiting' = uxMessagesWaiting + 1 /\ uxMessagesWaiting' \in 0..QueueLength
         /\ ring' \in [0..QueueLength - 1 -> Messages \cup {None}]
         /\ {pcWriteTo', pcReadFrom'} \subseteq 0..QueueLength - 1
         /\ got' \in Messages \cup {None}
<1> DEFINE n == uxMessagesWaiting
<1>1. /\ pcWriteTo' = (pcWriteTo + 1) % QueueLength /\ n' = n + 1 /\ pcReadFrom' = pcReadFrom
      /\ ring' = [ring EXCEPT ![pcWriteTo] = m] /\ got' = got
  BY DEF Put
<1>2. QueueLength \in Nat \ {0} /\ pcReadFrom \in 0..QueueLength - 1 /\ n \in 0..QueueLength
  BY RingTypes
<1>3. (((pcReadFrom + 1 + n) % QueueLength) + 1) % QueueLength
        = (pcReadFrom + 1 + (n + 1)) % QueueLength
  BY <1>2, RingStep
<1>4. n + 1 \in 0..QueueLength
  BY <1>2
<1>a. (pcReadFrom + 1 + (n + 1)) % QueueLength \in 0..QueueLength - 1
  BY <1>2, <1>4, RingStep
<1>5. RingInv'
  BY <1>1, <1>3 DEF RingInv
<1>6. n' \in 0..QueueLength
  BY <1>1, RingTypes
<1>7. ring' \in [0..QueueLength - 1 -> Messages \cup {None}]
  BY <1>1, RingTypes
<1>8. {pcWriteTo', pcReadFrom'} \subseteq 0..QueueLength - 1
  BY <1>1, <1>3, <1>a, RingTypes DEF RingInv
<1>. QED
  BY <1>1, <1>5, <1>6, <1>7, <1>8, RingTypes

(* prvCopyDataFromQueue does too.                                          *)
LEMMA GetKeeps ==
  ASSUME TypeOK, RingInv, uxMessagesWaiting > 0, Get
  PROVE  /\ RingInv'
         /\ uxMessagesWaiting' = uxMessagesWaiting - 1 /\ uxMessagesWaiting' \in 0..QueueLength
         /\ ring' \in [0..QueueLength - 1 -> Messages \cup {None}]
         /\ {pcWriteTo', pcReadFrom'} \subseteq 0..QueueLength - 1
         /\ got' \in Messages \cup {None}
<1> DEFINE n == uxMessagesWaiting
<1>1. /\ pcReadFrom' = (pcReadFrom + 1) % QueueLength /\ n' = n - 1 /\ pcWriteTo' = pcWriteTo
      /\ got' = ring[pcReadFrom'] /\ ring' = ring
  BY DEF Get
<1>2. QueueLength \in Nat \ {0} /\ pcReadFrom \in 0..QueueLength - 1 /\ n \in 0..QueueLength
  BY RingTypes
<1>3. /\ (pcReadFrom + 1) % QueueLength \in 0..QueueLength - 1
      /\ (((pcReadFrom + 1) % QueueLength) + 1 + (n - 1)) % QueueLength
            = (pcReadFrom + 1 + n) % QueueLength
  BY <1>2, RingStep
<1>7. RingInv'
  BY <1>1, <1>3 DEF RingInv
<1>8. n' \in 0..QueueLength
  BY <1>1, RingTypes
<1>. QED
  BY <1>1, <1>3, <1>7, <1>8, RingTypes

---------------------------------------------------------------------------
(* The tasks that wait for the queue                                       *)

(* A list of waiting tasks that is not empty has a head.                   *)
LEMMA HeadsExist ==
  ASSUME NEW event, NEW u \in Tasks, sched.event[u] = event
  PROVE  Heads(sched, event) # {}
<1> DEFINE W        == {v \in Tasks : sched.event[v] = event}
           Above(v) == {w \in W : Priority[w] > Priority[v]}
           N        == {Cardinality(Above(v)) : v \in W}
<1>1. \A v \in W : IsFiniteSet(Above(v)) /\ Cardinality(Above(v)) \in Nat
  <2>1. IsFiniteSet(Tasks)
    BY KernelAssumption
  <2>2. \A v \in W : Above(v) \in SUBSET Tasks
    OBVIOUS
  <2>. QED
    BY <2>1, <2>2, FS_Subset, FS_CardinalityType
<1>2. \A v \in Tasks : Priority[v] \in Nat
  BY KernelAssumption
<1>3. PICK v \in W : \A w \in W : Cardinality(Above(v)) <= Cardinality(Above(w))
  <2>1. N \in SUBSET Nat /\ N # {}
    BY <1>1
  <2> HIDE DEF N
  <2>2. Min(N) \in N /\ \A k \in N : Min(N) <= k
    BY <2>1, LeastNatural
  <2>3. PICK v \in W : Min(N) = Cardinality(Above(v))
    BY <2>2 DEF N
  <2>4. \A w \in W : Cardinality(Above(w)) \in N
    BY DEF N
  <2>. QED
    BY <2>2, <2>3, <2>4
<1>4. ASSUME NEW w \in W, Priority[w] > Priority[v] PROVE FALSE
  <2>1. w \in Above(v) /\ w \notin Above(w) /\ Above(w) \in SUBSET Above(v)
    BY <1>2, <1>4
  <2>2. Above(w) # Above(v) /\ IsFiniteSet(Above(v))
        /\ Cardinality(Above(w)) \in Nat /\ Cardinality(Above(v)) \in Nat
        /\ Cardinality(Above(v)) <= Cardinality(Above(w))
    BY <1>1, <1>3, <2>1
  <2> HIDE DEF Above
  <2>3. /\ Cardinality(Above(w)) <= Cardinality(Above(v))
        /\ Cardinality(Above(v)) = Cardinality(Above(w)) => Above(v) = Above(w)
    BY <2>1, <2>2, FS_Subset
  <2>. QED
    BY <2>2, <2>3
<1>. QED
  BY <1>2, <1>3, <1>4 DEF Heads

---------------------------------------------------------------------------
(* Tasks that are freed                                                    *)

(* The tasks of F, which wait for the queue, are freed.                    *)
Frees(F) ==
  /\ UNCHANGED <<uxSchedulerSuspended, xPendedTicks>>
  /\ sched' \in Clocks
  /\ sched'.xTickCount = sched.xTickCount /\ sched'.xItemValue = sched.xItemValue
  /\ \A u \in Tasks :
       IF u \notin F
       THEN sched'.list[u] = sched.list[u] /\ sched'.event[u] = sched.event[u]
       ELSE /\ sched.event[u] \in Queued
            /\ IF uxSchedulerSuspended
               THEN sched'.list[u] = sched.list[u] /\ sched'.event[u] = "pendingReady"
               ELSE sched'.list[u] = "ready" /\ sched'.event[u] = "none"

(* What holds of a task when some are freed: its call goes on where it was, *)
(* or the queue is unlocked.                                               *)
LEMMA FreesKeep ==
  ASSUME IInv, NEW F \in SUBSET Tasks, Frees(F), NEW u \in Tasks,
         call'[u] = call[u], elapsed'[u] = elapsed[u],
         pc'[u] = pc[u] \/ (pc[u] = "unlock" /\ pc'[u] = "resume"),
         sched'.list[u] = "ready" /\ Priority[u] > Priority[current'] => xYieldPending'
  PROVE  ListOf(u)' /\ TimeOf(u)'
<1>1. ListOf(u) /\ TimeOf(u)
  BY DEF IInv, ListsInv, TimeInv
<1>2. /\ Endless(u)' = Endless(u) /\ Counts(u)' = Counts(u)
      /\ Seen(u)' = Seen(u) /\ Since(u)' = Since(u)
      /\ uxSchedulerSuspended' = uxSchedulerSuspended
  BY DEF Endless, Counts, Seen, Since, Frees
<1>3. /\ Sleeps(sched, u)' => Sleeps(sched, u) /\ Left(sched, u)' = Left(sched, u)
      /\ sched'.list[u] # "ready" => sched'.list[u] = sched.list[u]
      /\ sched'.list[u] = "ready" => sched.list[u] = "ready" \/ sched.event[u] \in Queued
  BY DEF Frees, Sleeps, Left
<1>4. ListOf(u)'
  <2>1. /\ sched'.event[u] # "none" => sched'.list[u] # "ready" /\ call[u].op # "delay"
        /\ sched'.event[u] = "pendingReady" => uxSchedulerSuspended
        /\ sched'.event[u] \in Queued => sched'.event[u] = sched.event[u]
    BY <1>1 DEF ListOf, Frees, Queued
  <2>2. sched'.list[u] # "ready" => /\ pc'[u] \in {"unlock", "resume", "try", "woken"}
                                    /\ call[u].next = "block"
    BY <1>1, <1>3 DEF ListOf
  <2>. QED
    BY <1>1, <1>2, <1>3, <2>1, <2>2 DEF ListOf, Queued
<1>5. TimeOf(u)'
  <2>1. call[u].op = "delay" /\ sched'.list[u] = "ready" => sched.list[u] = "ready"
    BY <1>1, <1>3 DEF ListOf, Queued
  <2>. QED
    BY <1>1, <1>2, <1>3, <2>1 DEF TimeOf
<1>. QED
  BY <1>4, <1>5

(* Two sets without a common task                                          *)
LEMMA CountAdds ==
  ASSUME NEW B \in SUBSET Tasks, NEW A \in SUBSET B, NEW F \in SUBSET B, A \cap F = {}
  PROVE  /\ Cardinality(A) \in Nat /\ Cardinality(F) \in Nat /\ Cardinality(B) \in Nat
         /\ Cardinality(A) + Cardinality(F) <= Cardinality(B)
<1>1. IsFiniteSet(A) /\ IsFiniteSet(F)
  BY KernelAssumption, FS_Subset
<1>2. Cardinality(A \cup F) = Cardinality(A) + Cardinality(F) - Cardinality({})
  BY <1>1, FS_Union
<1>3. A \cup F \in SUBSET B /\ Cardinality({}) = 0
  BY FS_EmptySet
<1>4. Cardinality(A) \in Nat /\ Cardinality(F) \in Nat
  BY <1>1, FS_CardinalityType
<1>5. Cardinality(A \cup F) <= Cardinality(B) /\ Cardinality(B) \in Nat
  BY <1>3, CountGrows
<1>. QED
  BY <1>2, <1>3, <1>4, <1>5

(* A set without one of its tasks, if it has it                            *)
LEMMA CountLoses ==
  ASSUME NEW A \in SUBSET Tasks, NEW t \in Tasks
  PROVE  /\ Cardinality(A) \in Nat /\ Cardinality(A \ {t}) \in Nat
         /\ Cardinality(A) <= Cardinality(A \ {t}) + 1
<1>1. IsFiniteSet(A) /\ IsFiniteSet(A \ {t})
  BY KernelAssumption, FS_Subset
<1>2. Cardinality(A) \in Nat /\ Cardinality(A \ {t}) \in Nat
  BY <1>1, FS_CardinalityType
<1>3. CASE t \in A
  BY <1>1, <1>2, <1>3, FS_RemoveElement
<1>4. CASE t \notin A
  <2>1. A \ {t} = A
    BY <1>4
  <2>. QED
    BY <1>2, <2>1
<1>. QED
  BY <1>2, <1>3, <1>4

(* The tasks that are about to look, when those of F are freed: they come  *)
(* to the others, of which those of X may leave.                           *)
LEMMA WakeupsAdd ==
  ASSUME IInv, NEW ops, NEW X \in SUBSET Tasks, NEW F \in SUBSET Tasks, Frees(F),
         \A u \in F : call[u].op \in ops,
         \A u \in Tasks \ X : /\ call'[u].op = call[u].op
                              /\ pc[u] = "try" => pc'[u] = "try",
         X \cap F = {}
  PROVE  /\ Cardinality(Eager(ops)) \in Nat /\ Cardinality(Eager(ops)') \in Nat
         /\ Cardinality(Eager(ops) \ X) \in Nat /\ Cardinality(F) \in Nat
         /\ Cardinality(Eager(ops) \ X) + Cardinality(F) <= Cardinality(Eager(ops)')
<1>1. \A u \in Tasks : ListOf(u) /\ Phase(pc[u], call[u]) /\ pc[u] \in Labels
  BY Types DEF IInv, ListsInv, Phases
<1>2. Eager(ops)' \in SUBSET Tasks /\ Eager(ops) \in SUBSET Tasks
  BY DEF Eager
<1>3. ASSUME NEW u \in F PROVE u \notin Eager(ops) /\ u \in Eager(ops)'
  <2>1. /\ sched.event[u] \in Queued /\ sched.list[u] # "ready" /\ call[u].op # "delay"
        /\ pc[u] \in {"unlock", "resume", "try", "woken"} /\ u \in Tasks \ X
    BY <1>1 DEF Frees, ListOf, Queued
  <2>2. u \notin Eager(ops)
    BY <2>1 DEF Eager, Queued
  <2>3. CASE uxSchedulerSuspended
    BY <2>1, <2>2, <2>3 DEF Eager, Frees
  <2>4. CASE ~uxSchedulerSuspended
    <3>1. pc[u] \notin Suspends
      BY <2>4, Types DEF IInv, Owned
    <3>2. pc[u] = "try"
      BY <1>1, <2>1, <3>1 DEF Suspends, Phase
    <3>. QED
      BY <2>1, <2>2, <2>4, <3>2 DEF Eager, Frees
  <2>. QED
    BY <2>2, <2>3, <2>4
<1>4. ASSUME NEW u \in Eager(ops) \ X PROVE u \in Eager(ops)'
  <2>1. u \in Tasks \ X /\ u \notin F
    BY <1>3 DEF Eager
  <2>. QED
    BY <1>4, <2>1 DEF Eager, Frees
<1>5. Cardinality(Eager(ops)) \in Nat
  BY <1>2, CountGrows
<1>6. /\ Eager(ops) \ X \in SUBSET (Eager(ops)') /\ F \in SUBSET (Eager(ops)')
      /\ (Eager(ops) \ X) \cap F = {}
  BY <1>3, <1>4
<1>7. \A A, B : /\ B \in SUBSET Tasks /\ A \in SUBSET B /\ F \in SUBSET B /\ A \cap F = {}
                => /\ Cardinality(A) \in Nat /\ Cardinality(F) \in Nat /\ Cardinality(B) \in Nat
                   /\ Cardinality(A) + Cardinality(F) <= Cardinality(B)
  BY CountAdds
<1>8. PICK A : A = Eager(ops) \ X
  OBVIOUS
<1>9. PICK B : B = Eager(ops)'
  OBVIOUS
<1>. QED
  BY <1>2, <1>5, <1>6, <1>7, <1>8, <1>9

(* prvUnlockQueue: what an interrupt has sent is still to be received when *)
(* as many tasks are freed as the lock has counted, or nobody is left.     *)
LEMMA UnlockStep ==
  ASSUME IInv, NEW t \in Tasks, Unlock(t)
  PROVE  IInv'
<1> DEFINE waiting == {u \in Tasks : sched.event[u] = "receive"}
<1>1. PICK freed \in SUBSET waiting :
        /\ Cardinality(freed) = Woken(waiting)
        /\ sched' = [sched EXCEPT !.event = [u \in Tasks |-> IF u \in freed THEN "pendingReady"
                                                             ELSE @[u]]]
        /\ xYieldPending' = (xYieldPending \/ \E u \in freed : Priority[u] > Priority[t])
  BY DEF Unlock
<1>2. /\ current = t /\ pc[t] = "unlock" /\ cTxLock' = -1
      /\ pc' = [pc EXCEPT ![t] = "resume"]
      /\ UNCHANGED <<current, uxSchedulerSuspended, xPendedTicks, store, call, elapsed>>
  BY DEF Unlock, Runs, Goto, queueUNLOCKED
<1>3. /\ uxSchedulerSuspended = TRUE /\ cTxLock \in Nat
      /\ \A u \in Tasks : pc[u] \in Suspends => u = t
  BY <1>2, Types DEF IInv, Owned, Suspends, Locks
<1>4. /\ pc' \in [Tasks -> Labels] /\ pc'[t] = "resume" /\ \A u \in Tasks \ {t} : pc'[u] = pc[u]
  BY <1>2, Types DEF IInv, Labels
<1>5. sched \in Scheds /\ sched \in Clocks
  BY Types DEF IInv, TimeInv, Clocks
<1>6. freed \in SUBSET Tasks /\ \A u \in freed : sched.event[u] = "receive"
  OBVIOUS
<1>7. Frees(freed) /\ sched' \in Scheds
  <2> DEFINE event == [u \in Tasks |-> IF u \in freed THEN "pendingReady" ELSE sched.event[u]]
  <2>1. sched' = [sched EXCEPT !.event = event]
    BY <1>1
  <2>2. /\ event \in [Tasks -> Events]
        /\ \A u \in Tasks : event[u] = IF u \in freed THEN "pendingReady" ELSE sched.event[u]
    BY <1>5 DEF Scheds, Events
  <2> HIDE DEF event
  <2>3. /\ sched' \in Scheds /\ sched'.event = event /\ sched'.list = sched.list
        /\ sched'.xTickCount = sched.xTickCount /\ sched'.xItemValue = sched.xItemValue
        /\ sched'.xNextTaskUnblockTime = sched.xNextTaskUnblockTime
    BY <1>5, <2>1, <2>2 DEF Scheds
  <2>4. sched' \in Clocks
    BY <1>5, <2>3, FewerSleep
  <2>. QED
    BY <1>2, <1>3, <1>6, <2>2, <2>3, <2>4 DEF Frees, Queued
<1>8. TypeOK'
  <2>1. xYieldPending' \in BOOLEAN
    BY <1>1, Types DEF IInv
  <2>2. cTxLock' \in queueUNLOCKED..uxMessagesWaiting'
    BY <1>2, Types DEF IInv, queueUNLOCKED, store
  <2>. QED
    BY <1>2, <1>4, <1>7, <2>1, <2>2 DEF IInv, TypeOK, store
<1>9. Owned'
  BY <1>2, <1>3, <1>4 DEF Owned, Suspends, Locks, queueUNLOCKED
<1>10. Phases'
  <2>1. Phase("unlock", call[t])
    BY <1>2 DEF IInv, Phases
  <2>2. Phase("resume", call[t])
    BY <2>1 DEF Phase, Queued
  <2>. QED
    BY <1>2, <1>4, <2>2 DEF IInv, Phases
<1>11. ASSUME NEW u \in Tasks PROVE ListOf(u)' /\ TimeOf(u)'
  <2>1. sched'.list[u] = "ready" /\ Priority[u] > Priority[current'] => xYieldPending'
    BY <1>1, <1>2, <1>3, <1>7 DEF IInv, ListsInv, ListOf, Frees
  <2>. QED
    BY <1>2, <1>4, <1>6, <1>7, <2>1, FreesKeep
<1>12. ListsInv' /\ TimeInv'
  BY <1>2, <1>3, <1>7, <1>11 DEF ListsInv, CurrentReady, TimeInv, Frees, Clocks
<1>13. RingInv'
  BY <1>2 DEF IInv, RingInv, store
<1>14. NoLostWakeup'
  <2>1. /\ uxMessagesWaiting' = uxMessagesWaiting /\ uxMessagesWaiting \in Nat
        /\ QueueLength \in Nat
        /\ Counted = cTxLock /\ Counted' = 0
    BY <1>2, <1>3, Types DEF Counted, queueUNLOCKED, store, IInv
  <2>2. NoLostWakeup
    BY DEF IInv
  <2>3. ASSUME NEW u \in Tasks, sched'.event[u] = "receive"
        PROVE  uxMessagesWaiting' <= Cardinality(Eager(Receives)') + Counted'
    <3>1. u \in waiting /\ u \notin freed
      BY <2>3, <1>7 DEF Frees
    <3>2. uxMessagesWaiting <= Cardinality(Eager(Receives)) + cTxLock
      BY <2>1, <2>2, <3>1 DEF NoLostWakeup
    <3>3. Cardinality(freed) = cTxLock
      <4>1. IsFiniteSet(waiting)
        <5>1. waiting \in SUBSET Tasks
          OBVIOUS
        <5>. QED
          BY <5>1, KernelAssumption, FS_Subset
      <4>2. /\ Cardinality(waiting) \in Nat
            /\ Cardinality(freed) = Cardinality(waiting) => freed = waiting
        BY <4>1, FS_Subset, FS_CardinalityType
      <4>3. {cTxLock, Cardinality(waiting)} \in SUBSET Nat
        BY <1>3, <4>2
      <4>4. Woken(waiting) \in {cTxLock, Cardinality(waiting)}
        BY <4>3, LeastNatural DEF Woken
      <4>. QED
        BY <1>1, <3>1, <4>2, <4>4
    <3>4. /\ Cardinality(Eager(Receives)) \in Nat /\ Cardinality(Eager(Receives)') \in Nat
          /\ Cardinality(Eager(Receives) \ {}) + Cardinality(freed) <= Cardinality(Eager(Receives)')
      <4>1. \A v \in freed : call[v].op \in Receives
        BY <1>6 DEF IInv, ListsInv, ListOf
      <4>2. \A v \in Tasks \ {} : call'[v].op = call[v].op /\ (pc[v] = "try" => pc'[v] = "try")
        BY <1>2, <1>4
      <4>3. {} \in SUBSET Tasks /\ {} \cap freed = {}
        OBVIOUS
      <4>. QED
        BY <1>6, <1>7, <4>1, <4>2, <4>3, WakeupsAdd
    <3>5. Eager(Receives) \ {} = Eager(Receives)
      OBVIOUS
    <3>. QED
      BY <1>3, <2>1, <3>2, <3>3, <3>4, <3>5
  <2>4. ASSUME NEW u \in Tasks, sched'.event[u] = "send"
        PROVE  QueueLength - uxMessagesWaiting' <= Cardinality(Eager({"send"})')
    <3>1. sched.event[u] = "send"
      BY <1>7, <2>4 DEF Frees
    <3>2. QueueLength - uxMessagesWaiting <= Cardinality(Eager({"send"}))
      BY <2>2, <3>1 DEF NoLostWakeup
    <3>3. Eager({"send"}) \in SUBSET (Eager({"send"})') /\ Eager({"send"})' \in SUBSET Tasks
      <4>1. \A v \in Tasks : /\ call'[v].op = call[v].op
                             /\ pc[v] = "try" => pc'[v] = "try"
                             /\ sched'.list[v] = sched.list[v]
                             /\ sched.event[v] = "pendingReady" => sched'.event[v] = "pendingReady"
        BY <1>2, <1>3, <1>4, <1>7 DEF Frees
      <4>. QED
        BY <4>1 DEF Eager
    <3>4. /\ Cardinality(Eager({"send"})) <= Cardinality(Eager({"send"})')
          /\ Cardinality(Eager({"send"})) \in Nat /\ Cardinality(Eager({"send"})') \in Nat
      BY <3>3, CountGrows
    <3>. QED
      BY <2>1, <3>2, <3>4
  <2>. QED
    BY <2>3, <2>4 DEF NoLostWakeup
<1>. QED
  BY <1>8, <1>9, <1>10, <1>12, <1>13, <1>14 DEF IInv

(* A task that waits for the event is freed when there is one; the next    *)
(* task to run is ready, and nobody of a higher priority is forgotten.     *)
LEMMA WakeOneIs ==
  ASSUME IInv, ~uxSchedulerSuspended, NEW event \in Queued, WakeOne(event),
         UNCHANGED <<uxSchedulerSuspended, xPendedTicks>>
  PROVE  /\ current' \in Tasks /\ xYieldPending' \in BOOLEAN /\ sched' \in Scheds
         /\ sched'.list[current'] = "ready"
         /\ \A u \in Tasks : sched'.list[u] = "ready" /\ Priority[u] > Priority[current']
                               => xYieldPending'
         /\ \E F \in SUBSET Tasks :
              /\ Frees(F)
              /\ \A u \in F : sched.event[u] = event
              /\ (\E u \in Tasks : sched.event[u] = event) => Cardinality(F) = 1
<1>1. /\ current \in Tasks /\ xYieldPending \in BOOLEAN /\ sched \in Scheds /\ sched \in Clocks
      /\ \A u \in Tasks : ListOf(u) /\ Priority[u] \in Nat
      /\ sched.list[current] = "ready"
  BY Types, KernelAssumption DEF IInv, ListsInv, CurrentReady, TimeInv, Clocks
<1>2. CASE Heads(sched, event) = {}
  <2>1. UNCHANGED <<current, sched, xYieldPending>>
    BY <1>2 DEF WakeOne
  <2>2. Frees({})
    BY <1>1, <2>1 DEF Frees
  <2>3. ~\E u \in Tasks : sched.event[u] = event
    BY <1>2, HeadsExist
  <2>4. {} \in SUBSET Tasks /\ \A u \in {} : sched.event[u] = event
    OBVIOUS
  <2>5. \E F \in SUBSET Tasks :
          /\ Frees(F)
          /\ \A u \in F : sched.event[u] = event
          /\ (\E u \in Tasks : sched.event[u] = event) => Cardinality(F) = 1
    BY <2>2, <2>3, <2>4
  <2>. QED
    BY <1>1, <2>1, <2>5 DEF ListOf
<1>3. CASE Heads(sched, event) # {}
  <2>1. PICK u \in Heads(sched, event) : sched' = Freed(sched, u) /\ YieldTo(u)
    BY <1>3 DEF WakeOne
  <2>2. u \in Tasks /\ sched.event[u] = event
    BY DEF Heads
  <2>3. /\ sched' \in Clocks
        /\ sched'.xTickCount = sched.xTickCount /\ sched'.xItemValue = sched.xItemValue
        /\ \A v \in Tasks \ {u} : sched'.list[v] = sched.list[v] /\ sched'.event[v] = sched.event[v]
        /\ sched'.list[u] = "ready" /\ sched'.event[u] = "none"
    <3>1. IsFreed(sched', sched, u)
      BY <1>1, <2>1, <2>2, FreedIs
    <3>. QED
      BY <3>1 DEF IsFreed
  <2>4. Frees({u})
    BY <2>2, <2>3 DEF Frees
  <2>5. Cardinality({u}) = 1
    BY FS_Singleton
  <2>6. \E F \in SUBSET Tasks :
          /\ Frees(F)
          /\ \A v \in F : sched.event[v] = event
          /\ (\E v \in Tasks : sched.event[v] = event) => Cardinality(F) = 1
    BY <2>2, <2>4, <2>5
  <2>7. /\ current' \in Tasks /\ xYieldPending' \in BOOLEAN /\ sched'.list[current'] = "ready"
        /\ \A v \in Tasks : sched'.list[v] = "ready" /\ Priority[v] > Priority[current']
                              => xYieldPending'
    <3>1. CASE Switch
      <4>1. current' \in Tasks /\ sched'.list[current'] = "ready" /\ xYieldPending' = FALSE
        BY <3>1 DEF Switch, In
      <4>2. \A v \in Tasks : sched'.list[v] = "ready" => Priority[v] <= Priority[current']
        BY <3>1 DEF Switch, In
      <4>3. \A v \in Tasks : sched'.list[v] = "ready" => ~(Priority[v] > Priority[current'])
        BY <1>1, <4>1, <4>2
      <4>. QED
        BY <4>1, <4>3
    <3>2. CASE GoOn /\ UNCHANGED xYieldPending /\ ~(Priority[u] > Priority[current])
      <4>1. current' = current /\ xYieldPending' = xYieldPending
        BY <3>2 DEF GoOn
      <4>2. sched'.list[current] = "ready"
        BY <1>1, <2>3
      <4>3. ASSUME NEW v \in Tasks, sched'.list[v] = "ready", Priority[v] > Priority[current]
            PROVE  xYieldPending
        <5>1. v # u
          BY <3>2, <4>3
        <5>. QED
          BY <1>1, <2>3, <4>3, <5>1 DEF ListOf
      <4>. QED
        BY <1>1, <4>1, <4>2, <4>3
    <3>. QED
      BY <2>1, <3>1, <3>2 DEF YieldTo
  <2>. QED
    BY <2>3, <2>6, <2>7 DEF Clocks
<1>. QED
  BY <1>2, <1>3

(* A message is taken from the queue or put to it, and one of those that   *)
(* wait for that is freed.                                                 *)
LEMMA MoveStep ==
  ASSUME IInv, NEW t \in Tasks, Runs(t, "try"), Return(t) \/ UNCHANGED calls,
         NEW event \in Queued, WakeOne(event),
         UNCHANGED <<uxSchedulerSuspended, xPendedTicks, cTxLock>>,
         IF event = "receive"
         THEN uxMessagesWaiting' = uxMessagesWaiting + 1 /\ call[t].op = "send"
         ELSE uxMessagesWaiting' = uxMessagesWaiting - 1 /\ call[t].op \in Receives,
         RingInv', uxMessagesWaiting' \in 0..QueueLength,
         ring' \in [0..QueueLength - 1 -> Messages \cup {None}],
         {pcWriteTo', pcReadFrom'} \subseteq 0..QueueLength - 1,
         got' \in Messages \cup {None}
  PROVE  IInv'
<1> DEFINE returned == /\ pc' = [pc EXCEPT ![t] = "run"]
                       /\ call' = [call EXCEPT ![t] = Call("none", 0)]
                       /\ elapsed' = [elapsed EXCEPT ![t] = 0]
<1>1. current = t /\ pc[t] = "try" /\ (returned \/ UNCHANGED calls)
  BY DEF Runs, Return, Goto
<1> DEFINE c == Call("none", 0)
<1>a. "none" \in {"none", "delay", "receive", "send", "restricted"} /\ 0 \in Ticks
  BY TicksAre
<1>2. /\ c \in Calls
      /\ c.op = "none" /\ c.asked = 0 /\ c.xTicksToWait = 0 /\ c.xEntryTimeSet = FALSE
      /\ c.next = "again" /\ c.wrapped = FALSE
  BY <1>a, TicksAre DEF Call, Calls
<1>b. returned => call' = [call EXCEPT ![t] = c]
  OBVIOUS
<1> HIDE DEF c
<1>3. /\ uxSchedulerSuspended = FALSE /\ xPendedTicks = 0 /\ cTxLock = -1
      /\ \A u \in Tasks : pc[u] \notin Suspends
  BY <1>1, NotSuspended DEF Suspends
<1>4. sched.list[t] = "ready" /\ sched.event[t] = "none"
  BY <1>1, RunnerReady
<1>5. /\ current' \in Tasks /\ xYieldPending' \in BOOLEAN /\ sched' \in Scheds
      /\ sched'.list[current'] = "ready"
      /\ \A u \in Tasks : sched'.list[u] = "ready" /\ Priority[u] > Priority[current']
                            => xYieldPending'
  BY <1>3, WakeOneIs
<1>6. PICK F \in SUBSET Tasks :
        /\ Frees(F)
        /\ \A u \in F : sched.event[u] = event
        /\ (\E u \in Tasks : sched.event[u] = event) => Cardinality(F) = 1
  BY <1>3, WakeOneIs
<1>7. /\ pc' \in [Tasks -> Labels] /\ call' \in [Tasks -> Calls]
      /\ elapsed' \in [Tasks -> 0..TickMod]
      /\ \A u \in Tasks \ {t} : pc'[u] = pc[u] /\ call'[u] = call[u] /\ elapsed'[u] = elapsed[u]
      /\ \/ pc'[t] = "run" /\ call'[t] = c /\ elapsed'[t] = 0
         \/ pc'[t] = pc[t] /\ call'[t] = call[t] /\ elapsed'[t] = elapsed[t]
  <2>1. CASE returned
    BY <1>b, <1>2, <2>1, Types, TicksAre DEF Labels, IInv
  <2>2. CASE UNCHANGED calls
    BY <2>2, Types DEF calls, IInv
  <2>. QED
    BY <1>1, <2>1, <2>2
<1>8. TypeOK'
  <2>1. xPendedTicks' = xPendedTicks /\ uxSchedulerSuspended' = uxSchedulerSuspended
    OBVIOUS
  <2>2. cTxLock' \in queueUNLOCKED..uxMessagesWaiting'
    <3>1. uxMessagesWaiting' \in Nat /\ cTxLock' = -1
      BY <1>3, KernelAssumption
    <3>. QED
      BY <3>1 DEF queueUNLOCKED
  <2>. QED
    BY <1>5, <1>7, <2>1, <2>2 DEF TypeOK, IInv
<1>9. \A u \in Tasks : pc'[u] \notin Suspends
  BY <1>1, <1>3, <1>7 DEF Suspends
<1>10. Owned'
  BY <1>3, <1>5, <1>9 DEF Owned, Suspends, Locks, queueUNLOCKED
<1>11. Phases'
  <2>1. Phase("run", c)
    BY <1>2, TicksAre DEF Phase, Queued
  <2>. QED
    BY <1>7, <2>1 DEF IInv, Phases
<1>12. ASSUME NEW u \in Tasks PROVE ListOf(u)' /\ TimeOf(u)'
  <2>1. CASE pc'[u] = pc[u] /\ call'[u] = call[u] /\ elapsed'[u] = elapsed[u]
    BY <1>5, <1>6, <2>1, FreesKeep
  <2>2. CASE u = t /\ pc'[t] = "run" /\ call'[t] = c /\ elapsed'[t] = 0
    <3>1. sched'.list[t] = "ready" /\ sched'.event[t] = "none"
      BY <1>4, <1>6 DEF Frees, Queued
    <3>2. ListOf(t)'
      BY <1>2, <1>5, <2>2, <3>1 DEF ListOf, Endless, Sleeps
    <3>3. TimeOf(t)'
      BY <1>2, <2>2, <3>1 DEF TimeOf, Counts, Sleeps
    <3>. QED
      BY <2>2, <3>2, <3>3
  <2>. QED
    BY <1>7, <2>1, <2>2
<1>13. ListsInv' /\ TimeInv'
  BY <1>5, <1>6, <1>12 DEF ListsInv, CurrentReady, TimeInv, Frees, Clocks
<1>14. ASSUME NEW ops
       PROVE  /\ Cardinality(Eager(ops)) \in Nat /\ Cardinality(Eager(ops)') \in Nat
              /\ Cardinality(Eager(ops)) <= Cardinality(Eager(ops)') + 1
              /\ call[t].op \notin ops /\ (\A u \in F : call[u].op \in ops)
                   => /\ Cardinality(F) \in Nat
                      /\ Cardinality(Eager(ops)) + Cardinality(F) <= Cardinality(Eager(ops)')
  <2>1. Eager(ops) \in SUBSET Tasks /\ Eager(ops)' \in SUBSET Tasks /\ {t} \in SUBSET Tasks
    BY DEF Eager
  <2>2. Eager(ops) \ {t} \in SUBSET (Eager(ops)')
    <3>1. ASSUME NEW u \in Eager(ops) \ {t} PROVE u \in Eager(ops)'
      <4>1. u \in Tasks \ {t} /\ pc'[u] = pc[u] /\ call'[u] = call[u]
        BY <1>7 DEF Eager
      <4>2. sched.list[u] = "ready" => sched'.list[u] = "ready"
        BY <1>3, <1>6, <4>1 DEF Frees
      <4>3. sched.event[u] = "pendingReady" => sched'.event[u] = "pendingReady"
        BY <1>3, <1>6, <4>1 DEF Frees, Queued
      <4>. QED
        BY <3>1, <4>1, <4>2, <4>3 DEF Eager
    <3>. QED
      BY <3>1
  <2>3. /\ Cardinality(Eager(ops)) \in Nat /\ Cardinality(Eager(ops) \ {t}) \in Nat
        /\ Cardinality(Eager(ops)) <= Cardinality(Eager(ops) \ {t}) + 1
    BY <2>1, CountLoses
  <2>4. /\ Cardinality(Eager(ops)') \in Nat
        /\ Cardinality(Eager(ops) \ {t}) <= Cardinality(Eager(ops)')
    BY <2>1, <2>2, CountGrows
  <2>5. ASSUME call[t].op \notin ops, \A u \in F : call[u].op \in ops
        PROVE  /\ Cardinality(F) \in Nat
               /\ Cardinality(Eager(ops)) + Cardinality(F) <= Cardinality(Eager(ops)')
    <3>1. Eager(ops) \ {t} = Eager(ops) /\ {t} \cap F = {}
      BY <2>5 DEF Eager
    <3>2. \A u \in Tasks \ {t} : call'[u].op = call[u].op /\ (pc[u] = "try" => pc'[u] = "try")
      BY <1>7
    <3>. QED
      BY <1>6, <2>1, <2>5, <3>1, <3>2, WakeupsAdd
  <2>. QED
    BY <2>3, <2>4, <2>5
<1>15. \A u \in Tasks : /\ sched'.event[u] \in Queued => sched'.event[u] = sched.event[u]
                        /\ sched.event[u] = "receive" => call[u].op \in Receives
                        /\ sched.event[u] = "send" => call[u].op = "send"
  BY <1>6 DEF IInv, ListsInv, ListOf, Frees, Queued
<1>16. NoLostWakeup'
  <2>1. /\ Counted = 0 /\ Counted' = 0 /\ uxMessagesWaiting \in Nat /\ uxMessagesWaiting' \in Nat
        /\ QueueLength \in Nat /\ NoLostWakeup
    BY <1>3, Types DEF Counted, queueUNLOCKED, IInv
  <2>2. ASSUME NEW u \in Tasks, sched'.event[u] = "receive"
        PROVE  uxMessagesWaiting' <= Cardinality(Eager(Receives)') + Counted'
    <3>1. sched.event[u] = "receive" /\ uxMessagesWaiting <= Cardinality(Eager(Receives)) + Counted
      BY <1>15, <2>1, <2>2 DEF NoLostWakeup, Queued
    <3>2. CASE event = "receive"
      <4>1. Cardinality(F) = 1 /\ call[t].op \notin Receives /\ \A v \in F : call[v].op \in Receives
        BY <1>6, <1>15, <3>1, <3>2 DEF Receives
      <4>. QED
        BY <1>14, <2>1, <3>1, <3>2, <4>1
    <3>3. CASE event # "receive"
      BY <1>14, <2>1, <3>1, <3>3
    <3>. QED
      BY <3>2, <3>3
  <2>3. ASSUME NEW u \in Tasks, sched'.event[u] = "send"
        PROVE  QueueLength - uxMessagesWaiting' <= Cardinality(Eager({"send"})')
    <3>1. sched.event[u] = "send" /\ QueueLength - uxMessagesWaiting <= Cardinality(Eager({"send"}))
      BY <1>15, <2>1, <2>3 DEF NoLostWakeup, Queued
    <3>2. CASE event = "send"
      <4>1. Cardinality(F) = 1 /\ call[t].op \notin {"send"} /\ \A v \in F : call[v].op \in {"send"}
        BY <1>6, <1>15, <3>1, <3>2 DEF Receives
      <4>. QED
        BY <1>14, <2>1, <3>1, <3>2, <4>1
    <3>3. CASE event = "receive"
      BY <1>14, <2>1, <3>1, <3>3
    <3>. QED
      BY <3>2, <3>3 DEF Queued
  <2>. QED
    BY <2>2, <2>3 DEF NoLostWakeup
<1>. QED
  BY <1>8, <1>10, <1>11, <1>13, <1>16 DEF IInv

(* xQueueReceive finds a message.                                          *)
LEMMA TryReceiveStep ==
  ASSUME IInv, NEW t \in Tasks, TryReceive(t)
  PROVE  IInv'
<1>1. /\ RingInv' /\ uxMessagesWaiting' = uxMessagesWaiting - 1
      /\ uxMessagesWaiting' \in 0..QueueLength
      /\ ring' \in [0..QueueLength - 1 -> Messages \cup {None}]
      /\ {pcWriteTo', pcReadFrom'} \subseteq 0..QueueLength - 1
      /\ got' \in Messages \cup {None}
  BY GetKeeps DEF TryReceive, IInv
<1>2. "send" \in Queued /\ "send" # "receive"
  BY DEF Queued
<1>. QED
  BY <1>1, <1>2, MoveStep DEF TryReceive

(* xQueueGenericSend finds room.                                           *)
LEMMA TrySendStep ==
  ASSUME IInv, NEW t \in Tasks, TrySend(t)
  PROVE  IInv'
<1>1. PICK m \in Messages : Put(m)
  BY DEF TrySend, Messages
<1>2. /\ RingInv' /\ uxMessagesWaiting' = uxMessagesWaiting + 1
      /\ uxMessagesWaiting' \in 0..QueueLength
      /\ ring' \in [0..QueueLength - 1 -> Messages \cup {None}]
      /\ {pcWriteTo', pcReadFrom'} \subseteq 0..QueueLength - 1
      /\ got' \in Messages \cup {None}
  BY <1>1, PutKeeps DEF TrySend, IInv
<1>3. "receive" \in Queued
  BY DEF Queued
<1>. QED
  BY <1>2, <1>3, MoveStep DEF TrySend

(* xQueueGenericSendFromISR frees a task that waits, or leaves that to the *)
(* one who has locked the queue.                                           *)
LEMMA InterruptSendStep ==
  ASSUME IInv, InterruptSend
  PROVE  IInv'
<1>1. PICK m \in Messages : Put(m)
  BY DEF InterruptSend, Messages
<1>2. /\ RingInv' /\ uxMessagesWaiting' = uxMessagesWaiting + 1
      /\ uxMessagesWaiting' \in 0..QueueLength
      /\ ring' \in [0..QueueLength - 1 -> Messages \cup {None}]
      /\ {pcWriteTo', pcReadFrom'} \subseteq 0..QueueLength - 1
      /\ got' \in Messages \cup {None}
  BY <1>1, PutKeeps DEF InterruptSend, IInv
<1>3. /\ uxMessagesWaiting < QueueLength
      /\ UNCHANGED <<current, uxSchedulerSuspended, xPendedTicks>>
      /\ UNCHANGED <<pc, call, elapsed>>
  BY DEF InterruptSend, calls
<1>4. /\ current \in Tasks /\ sched \in Clocks /\ xYieldPending \in BOOLEAN
      /\ uxMessagesWaiting \in Nat /\ QueueLength \in Nat /\ cTxLock \in -1..uxMessagesWaiting
      /\ \A u \in Tasks : ListOf(u)
  BY Types DEF IInv, TimeInv, Clocks, ListsInv
<1>5. PICK F \in SUBSET Tasks :
        /\ Frees(F)
        /\ xYieldPending' \in BOOLEAN
        /\ xYieldPending \/ (\E u \in F : Priority[u] > Priority[current]) => xYieldPending'
        /\ \A u \in F : sched.event[u] = "receive"
        /\ \/ /\ cTxLock = -1 /\ cTxLock' = -1
              /\ (\E u \in Tasks : sched.event[u] = "receive") => Cardinality(F) = 1
           \/ F = {} /\ cTxLock # -1 /\ cTxLock' = cTxLock + 1
  <2>1. UNCHANGED <<sched, xYieldPending>> => Frees({})
    BY <1>3, <1>4 DEF Frees
  <2>2. CASE cTxLock = -1 /\ cTxLock' = -1 /\ Heads(sched, "receive") = {}
             /\ UNCHANGED <<sched, xYieldPending>>
    <3>1. ~\E u \in Tasks : sched.event[u] = "receive"
      BY <2>2, HeadsExist
    <3>. QED
      BY <1>4, <2>1, <2>2, <3>1
  <2>3. ASSUME cTxLock = -1, cTxLock' = -1,
               NEW u \in Heads(sched, "receive"), sched' = Freed(sched, u),
               xYieldPending' = (xYieldPending \/ Priority[u] > Priority[current])
        PROVE  /\ Frees({u}) /\ {u} \in SUBSET Tasks /\ Cardinality({u}) = 1
               /\ xYieldPending' \in BOOLEAN /\ sched.event[u] = "receive"
    <3>1. u \in Tasks /\ sched.event[u] = "receive"
      BY DEF Heads
    <3>2. /\ sched' \in Clocks
          /\ sched'.xTickCount = sched.xTickCount /\ sched'.xItemValue = sched.xItemValue
          /\ \A v \in Tasks \ {u} : sched'.list[v] = sched.list[v] /\ sched'.event[v] = sched.event[v]
          /\ IF uxSchedulerSuspended
             THEN sched'.list[u] = sched.list[u] /\ sched'.event[u] = "pendingReady"
             ELSE sched'.list[u] = "ready" /\ sched'.event[u] = "none"
      <4>1. IsFreed(sched', sched, u)
        BY <1>4, <2>3, <3>1, FreedIs
      <4>. QED
        BY <4>1 DEF IsFreed
    <3>3. Frees({u})
      BY <1>3, <3>1, <3>2 DEF Frees, Queued
    <3>4. xYieldPending' \in BOOLEAN
      BY <1>4, <2>3
    <3>. QED
      BY <3>1, <3>3, <3>4, FS_Singleton
  <2>4. CASE cTxLock # -1 /\ cTxLock' = cTxLock + 1 /\ UNCHANGED <<sched, xYieldPending>>
    BY <1>4, <2>1, <2>4
  <2>. QED
    BY <2>2, <2>3, <2>4 DEF InterruptSend, queueUNLOCKED
<1>6. TypeOK'
  <2>1. cTxLock' \in queueUNLOCKED..uxMessagesWaiting'
    BY <1>2, <1>4, <1>5 DEF queueUNLOCKED
  <2>2. sched' \in Scheds /\ xYieldPending' \in BOOLEAN
    BY <1>5 DEF Frees, Clocks
  <2>. QED
    BY <1>2, <1>3, <2>1, <2>2 DEF TypeOK, IInv
<1>7. Owned'
  <2>1. /\ uxSchedulerSuspended' <=> uxSchedulerSuspended
        /\ cTxLock' # queueUNLOCKED <=> cTxLock # queueUNLOCKED
    BY <1>3, <1>4, <1>5 DEF queueUNLOCKED
  <2>2. pc[current] = "place" => /\ call[current].op # "send"
                                 /\ uxMessagesWaiting' <= cTxLock'
    <3>1. ASSUME pc[current] = "place"
          PROVE  /\ call[current].op # "send" /\ uxMessagesWaiting <= cTxLock /\ cTxLock # -1
      BY <1>3, <1>4, <3>1 DEF IInv, Owned, Locks, queueUNLOCKED
    <3>. QED
      BY <1>2, <1>4, <1>5, <3>1
  <2>. QED
    BY <1>3, <2>1, <2>2 DEF IInv, Owned
<1>8. Phases'
  BY <1>3 DEF IInv, Phases
<1>9. ASSUME NEW u \in Tasks PROVE ListOf(u)' /\ TimeOf(u)'
  <2>1. sched'.list[u] = "ready" /\ Priority[u] > Priority[current'] => xYieldPending'
    BY <1>3, <1>4, <1>5 DEF ListOf, Frees
  <2>. QED
    BY <1>3, <1>5, <2>1, FreesKeep
<1>10. CurrentReady'
  BY <1>3, <1>4, <1>5 DEF IInv, ListsInv, CurrentReady, Frees
<1>11. ListsInv' /\ TimeInv'
  BY <1>5, <1>9, <1>10 DEF ListsInv, TimeInv, Frees, Clocks
<1>12. ASSUME NEW ops
       PROVE  /\ Cardinality(Eager(ops)) \in Nat /\ Cardinality(Eager(ops)') \in Nat
              /\ Cardinality(Eager(ops)) <= Cardinality(Eager(ops)')
              /\ (\A u \in F : call[u].op \in ops)
                   => /\ Cardinality(F) \in Nat
                      /\ Cardinality(Eager(ops)) + Cardinality(F) <= Cardinality(Eager(ops)')
  <2>1. Eager(ops) \in SUBSET Tasks /\ Eager(ops)' \in SUBSET Tasks
    BY DEF Eager
  <2>2. Eager(ops) \in SUBSET (Eager(ops)')
    <3>1. \A u \in Tasks : /\ sched.list[u] = "ready" => sched'.list[u] = "ready"
                           /\ sched.event[u] = "pendingReady" => sched'.event[u] = "pendingReady"
      BY <1>5 DEF Frees, Queued
    <3>. QED
      BY <1>3, <3>1 DEF Eager
  <2>3. /\ Cardinality(Eager(ops)) \in Nat /\ Cardinality(Eager(ops)') \in Nat
        /\ Cardinality(Eager(ops)) <= Cardinality(Eager(ops)')
    BY <2>1, <2>2, CountGrows
  <2>4. ASSUME \A u \in F : call[u].op \in ops
        PROVE  /\ Cardinality(F) \in Nat
               /\ Cardinality(Eager(ops)) + Cardinality(F) <= Cardinality(Eager(ops)')
    <3>1. Eager(ops) \ {} = Eager(ops) /\ {} \cap F = {} /\ {} \in SUBSET Tasks
      OBVIOUS
    <3>2. \A u \in Tasks \ {} : call'[u].op = call[u].op /\ (pc[u] = "try" => pc'[u] = "try")
      BY <1>3
    <3>. QED
      BY <1>5, <2>4, <3>1, <3>2, WakeupsAdd
  <2>. QED
    BY <2>3, <2>4
<1>13. \A u \in Tasks : /\ sched'.event[u] \in Queued => sched'.event[u] = sched.event[u]
                        /\ sched.event[u] = "receive" => call[u].op \in Receives
  BY <1>4, <1>5 DEF ListOf, Frees, Queued
<1>14. NoLostWakeup'
  <2>1. NoLostWakeup /\ Counted \in Nat /\ Counted = (IF cTxLock = -1 THEN 0 ELSE cTxLock)
        /\ Counted' = (IF cTxLock' = -1 THEN 0 ELSE cTxLock')
    BY CountedIs DEF IInv, Counted, queueUNLOCKED
  <2>2. ASSUME NEW u \in Tasks, sched'.event[u] = "receive"
        PROVE  uxMessagesWaiting' <= Cardinality(Eager(Receives)') + Counted'
    <3>1. sched.event[u] = "receive" /\ uxMessagesWaiting <= Cardinality(Eager(Receives)) + Counted
      BY <1>13, <2>1, <2>2 DEF NoLostWakeup, Queued
    <3>2. CASE cTxLock = -1 /\ cTxLock' = -1
      <4>1. Cardinality(F) = 1 /\ \A v \in F : call[v].op \in Receives
        BY <1>5, <1>13, <3>1, <3>2
      <4>. QED
        BY <1>2, <1>4, <1>12, <2>1, <3>1, <3>2, <4>1
    <3>3. CASE cTxLock # -1 /\ cTxLock' = cTxLock + 1
      BY <1>2, <1>4, <1>12, <2>1, <3>1, <3>3
    <3>. QED
      BY <1>5, <3>2, <3>3
  <2>3. ASSUME NEW u \in Tasks, sched'.event[u] = "send"
        PROVE  QueueLength - uxMessagesWaiting' <= Cardinality(Eager({"send"})')
    <3>1. sched.event[u] = "send" /\ QueueLength - uxMessagesWaiting <= Cardinality(Eager({"send"}))
      BY <1>13, <2>1, <2>3 DEF NoLostWakeup, Queued
    <3>. QED
      BY <1>2, <1>4, <1>12, <3>1
  <2>. QED
    BY <2>2, <2>3 DEF NoLostWakeup
<1>. QED
  BY <1>2, <1>6, <1>7, <1>8, <1>11, <1>14 DEF IInv

---------------------------------------------------------------------------
(* The steps together                                                      *)

(* The invariant holds when the scheduler starts ...                       *)
LEMMA InitIInv == Init => IInv
<1> SUFFICES ASSUME Init PROVE IInv
  OBVIOUS
<1> DEFINE c == Call("none", 0)
<1>a. "none" \in {"none", "delay", "receive", "send", "restricted"} /\ 0 \in Ticks
      /\ 0 \in 0..TickMod /\ TickMod \in Nat
  BY TicksAre
<1>1. /\ c \in Calls
      /\ c.op = "none" /\ c.asked = 0 /\ c.xTicksToWait = 0 /\ c.xEntryTimeSet = FALSE
      /\ c.next = "again" /\ c.wrapped = FALSE
  BY <1>a, TicksAre DEF Call, Calls
<1>2. call = [t \in Tasks |-> c]
  BY DEF Init
<1> HIDE DEF c
<1>3. /\ sched \in Scheds /\ sched.xTickCount = 0
      /\ \A u \in Tasks : sched.list[u] = "ready" /\ sched.event[u] = "none"
  BY TicksAre DEF Init, Scheds, Lists, Events
<1>4. /\ current \in Tasks /\ \A u \in Tasks : Priority[u] <= Priority[current]
      /\ xYieldPending = FALSE /\ uxSchedulerSuspended = FALSE /\ xPendedTicks = 0
      /\ uxMessagesWaiting = 0 /\ cTxLock = -1
      /\ pc = [t \in Tasks |-> "run"] /\ elapsed = [t \in Tasks |-> 0]
      /\ pcWriteTo = 0 /\ pcReadFrom = QueueLength - 1
      /\ ring = [i \in 0..QueueLength - 1 |-> None] /\ got = None
  BY DEF Init, queueUNLOCKED
<1>5. QueueLength \in Nat \ {0} /\ MaxPended \in Nat /\ Priority \in [Tasks -> Nat]
  BY KernelAssumption
<1>6. TypeOK
  <2>1. uxMessagesWaiting \in 0..QueueLength /\ cTxLock \in queueUNLOCKED..uxMessagesWaiting
        /\ {pcWriteTo, pcReadFrom} \subseteq 0..QueueLength - 1
        /\ xPendedTicks \in 0..MaxPended
    BY <1>4, <1>5 DEF queueUNLOCKED
  <2>2. pc \in [Tasks -> Labels] /\ elapsed \in [Tasks -> 0..TickMod] /\ call \in [Tasks -> Calls]
    BY <1>a, <1>1, <1>2, <1>4 DEF Labels
  <2>. QED
    BY <1>3, <1>4, <2>1, <2>2 DEF TypeOK
<1>7. Owned
  BY <1>4 DEF Owned, Suspends, Locks, queueUNLOCKED
<1>8. Phases
  BY <1>1, <1>2, <1>4, TicksAre DEF Phases, Phase, Queued
<1>9. ListsInv
  <2>1. \A u \in Tasks : ~(Priority[u] > Priority[current])
    BY <1>4, <1>5
  <2>. QED
    BY <1>1, <1>2, <1>3, <1>4, <2>1 DEF ListsInv, ListOf, CurrentReady, Endless, Sleeps
<1>10. TimeInv
  BY <1>1, <1>2, <1>3, <1>4 DEF TimeInv, ClockSound, TimeOf, Counts, Sleeps
<1>11. NoLostWakeup
  BY <1>3 DEF NoLostWakeup
<1>12. RingInv
  <2>1. QueueLength \in 0..2 * QueueLength
    BY <1>5
  <2>2. QueueLength % QueueLength = 0
    BY <1>5, <2>1, RingArithmetic
  <2>3. pcReadFrom + 1 + uxMessagesWaiting = QueueLength
    BY <1>4, <1>5
  <2>. QED
    BY <1>4, <2>2, <2>3 DEF RingInv
<1>. QED
  BY <1>6, <1>7, <1>8, <1>9, <1>10, <1>11, <1>12 DEF IInv

(* ... in a step that changes nothing ...                                  *)
LEMMA StutterStep == IInv /\ UNCHANGED vars => IInv'
<1> SUFFICES ASSUME IInv, UNCHANGED vars PROVE IInv'
  OBVIOUS
<1>1. /\ UNCHANGED <<current, sched, xYieldPending, uxSchedulerSuspended, xPendedTicks>>
      /\ UNCHANGED <<uxMessagesWaiting, ring, pcWriteTo, pcReadFrom, got, cTxLock>>
      /\ UNCHANGED <<pc, call, elapsed>>
  BY DEF vars, scheduler, store, calls
<1>2. TypeOK' /\ Owned' /\ Phases' /\ RingInv'
  BY <1>1 DEF IInv, TypeOK, Owned, Phases, RingInv
<1>3. ListsInv'
  BY <1>1 DEF IInv, ListsInv, ListOf, CurrentReady, Endless, Sleeps
<1>4. TimeInv'
  BY <1>1 DEF IInv, TimeInv, ClockSound, TimeOf, Counts, Endless, Sleeps, Seen, Since, Left
<1>5. NoLostWakeup'
  BY <1>1 DEF IInv, NoLostWakeup, Eager, Counted
<1>. QED
  BY <1>2, <1>3, <1>4, <1>5 DEF IInv

(* ... and after each step.                                                *)
LEMMA NextIInv == IInv /\ [Next]_vars => IInv'
<1> SUFFICES ASSUME IInv, [Next]_vars PROVE IInv'
  OBVIOUS
<1>1. CASE Tick
  BY <1>1, TickSuspendedStep, TickRunsStep
<1>2. CASE InterruptSend
  BY <1>2, InterruptSendStep
<1>3. ASSUME NEW t \in Tasks, Begins(t) PROVE IInv'
  BY <1>3, DelayStep, BeginsStep DEF Begins
<1>4. ASSUME NEW t \in Tasks, Continues(t) PROVE IInv'
  BY <1>4, TryReceiveStep, TrySendStep, TryFailsStep, SuspendStep, LockStep, TestStep, PlaceStep,
     UnlockStep, ResumeStep, GiveUpStep, OnceMoreStep DEF Continues
<1>5. CASE UNCHANGED vars
  BY <1>5, StutterStep
<1>. QED
  BY <1>1, <1>2, <1>3, <1>4, <1>5 DEF Next

(* The inductive invariant: the lists, the clock, the lock and the calls   *)
(* of the tasks fit together after every step (tasks.c, queue.c).          *)
THEOREM Invariance == Spec => []IInv
  BY InitIInv, NextIInv, PTL DEF Spec

(* All variables keep their types for every number of tasks, length of the *)
(* queue and width of the counter (TickType_t, cTxLock, pcWriteTo).        *)
THEOREM TypeCorrect == Spec => []TypeOK
<1>1. IInv => TypeOK
  BY DEF IInv
<1>. QED
  BY <1>1, Invariance, PTL

(* Ready, sleeping, waiting and pending tasks are told apart as            *)
(* xTaskResumeAll, xTaskRemoveFromEventList and vTaskSwitchContext take    *)
(* for granted, and the list of delayed tasks is empty when                *)
(* taskSWITCH_DELAYED_LISTS asserts that it is.                            *)
THEOREM ListsAreSound == Spec => []ListsSound
<1>1. IInv => ListsSound
  <2> SUFFICES ASSUME IInv PROVE ListsSound
    OBVIOUS
  <2>1. \A t \in Tasks :
          /\ sched.event[t] # "none" => sched.list[t] # "ready"
          /\ sched.event[t] = "pendingReady" => uxSchedulerSuspended
          /\ sched.list[t] = "ready" /\ Priority[t] > Priority[current] => xYieldPending
    BY DEF IInv, ListsInv, ListOf
  <2>2. cTxLock # queueUNLOCKED => uxSchedulerSuspended
    BY DEF IInv, Owned, Locks, Suspends
  <2>3. sched.xTickCount = portMAX_DELAY => In(sched, "delayed") = {}
    <3>1. ASSUME sched.xTickCount = portMAX_DELAY, NEW t \in In(sched, "delayed") PROVE FALSE
      <4>1. t \in Tasks /\ sched.list[t] = "delayed"
        BY DEF In
      <4>2. sched.xTickCount < sched.xItemValue[t] /\ sched.xItemValue[t] \in 0..TickMod - 1
        BY <4>1, Types DEF IInv, TimeInv, ClockSound
      <4>. QED
        BY <3>1, <4>2, TicksAre
    <3>. QED
      BY <3>1
  <2>4. uxSchedulerSuspended \/ sched.list[current] = "ready"
    BY DEF IInv, ListsInv, CurrentReady
  <2>. QED
    BY <2>1, <2>2, <2>3, <2>4 DEF ListsSound
<1>. QED
  BY <1>1, Invariance, PTL

(* Nobody sleeps or waits longer than he asked for, for every width of the *)
(* counter of ticks and whatever it wraps in between                       *)
(* (prvAddCurrentTaskToDelayedList, xTaskIncrementTick, xTaskResumeAll).   *)
THEOREM NobodyIsLate == Spec => []NobodyLate
<1>1. IInv => NobodyLate
  <2> SUFFICES ASSUME IInv, NEW t \in Tasks, Waits(t)
               PROVE  elapsed[t] - xPendedTicks < call[t].asked
    BY DEF NobodyLate
  <2>1. sched \in Clocks /\ Sleeps(sched, t)
    BY Types DEF IInv, TimeInv, Clocks, Waits, Sleeps
  <2>2. Seen(t) + Left(sched, t) = call[t].asked
    BY <2>1 DEF IInv, TimeInv, TimeOf
  <2>3. PICK left \in Nat \ {0} : left = Left(sched, t)
    BY <2>1, LeftIsPositive
  <2>4. Seen(t) = elapsed[t] - xPendedTicks /\ Seen(t) \in Int
    BY Types DEF Seen, IInv
  <2>. QED
    BY <2>2, <2>3, <2>4
<1>. QED
  BY <1>1, Invariance, PTL

(* Nobody gives up, and no delay ends, before the time asked for is over,  *)
(* however often the wait was begun anew (xTaskCheckForTimeOut,            *)
(* vTaskDelay).                                                            *)
THEOREM NobodyIsEarly == Spec => NobodyEarly
<1>1. IInv /\ [Next]_vars
        => [\A t \in Tasks : GiveUp(t) => elapsed[t] >= call[t].asked /\ ~Endless(t)]_vars
  <2> SUFFICES ASSUME IInv, NEW t \in Tasks, GiveUp(t)
               PROVE  elapsed[t] >= call[t].asked /\ ~Endless(t)
    OBVIOUS
  <2>1. current = t /\ pc[t] \in {"full", "empty", "woken"}
    BY DEF GiveUp, Runs
  <2>2. Phase(pc[t], call[t]) /\ TimeOf(t)
    BY DEF IInv, Phases, TimeInv
  <2>3. xPendedTicks = 0
    BY <2>1, NotSuspended DEF Suspends
  <2>4. Seen(t) = elapsed[t]
    BY <2>3, Types DEF Seen, IInv
  <2>5. CASE pc[t] \in {"full", "empty"}
    <3>1. call[t].next = "expired"
      BY <2>2, <2>5 DEF Phase
    <3>. QED
      BY <2>2, <2>4, <3>1, WhoCounts DEF TimeOf
  <2>6. CASE pc[t] = "woken"
    <3>1. call[t].op = "delay"
      BY <2>2, <2>6 DEF Phase
    <3>2. sched.list[t] = "ready"
      BY <2>1, RunnerReady
    <3>. QED
      BY <2>2, <2>4, <3>1, <3>2, WhoCounts DEF TimeOf
  <2>. QED
    BY <2>1, <2>5, <2>6
<1>. QED
  BY <1>1, Invariance, PTL DEF Spec, NobodyEarly

(* Nobody waits for a message or for room that is there and that nobody is *)
(* about to look for (prvLockQueue, prvUnlockQueue,                        *)
(* xQueueGenericSendFromISR, xQueueReceive, xQueueGenericSend).            *)
THEOREM NoWakeupLost == Spec => []NoLostWakeup
<1>1. IInv => NoLostWakeup
  BY DEF IInv
<1>. QED
  BY <1>1, Invariance, PTL

---------------------------------------------------------------------------
(* The queue that the program sees                                         *)

(* The place of a message that waits is not the one that is written next,  *)
(* and stays the same when the first message is taken.                     *)
LEMMA RingPlaces ==
  ASSUME NEW n \in Nat \ {0}, NEW r \in 0..n - 1, NEW k \in 0..n, NEW i \in 1..k
  PROVE  /\ (r + i) % n \in 0..n - 1
         /\ k < n => (r + i) % n # (r + 1 + k) % n
         /\ i < k => (((r + 1) % n) + i) % n = (r + (i + 1)) % n
<1> DEFINE Round(x) == IF x < n THEN x ELSE IF x < 2 * n THEN x - n ELSE x - 2 * n
<1>1. \A x \in 0..2 * n : x % n = Round(x) /\ Round(x) \in 0..n - 1
  BY RingArithmetic
<1>2. r + i \in 0..2 * n /\ r + 1 \in 0..2 * n /\ r + 1 + k \in 0..2 * n
  OBVIOUS
<1>3. ASSUME k < n PROVE (r + i) % n # (r + 1 + k) % n
  <2>1. (r + i) % n = Round(r + i) /\ (r + 1 + k) % n = Round(r + 1 + k)
    BY <1>1, <1>2
  <2>2. Round(r + i) # Round(r + 1 + k)
    BY <1>3
  <2>. QED
    BY <2>1, <2>2
<1>4. PICK f \in 0..n - 1 : f = (r + 1) % n /\ f = Round(r + 1)
  BY <1>1, <1>2
<1>5. ASSUME i < k PROVE (f + i) % n = (r + (i + 1)) % n
  <2>1. f + i \in 0..2 * n /\ r + (i + 1) \in 0..2 * n
    BY <1>5
  <2>2. (f + i) % n = Round(f + i) /\ (r + (i + 1)) % n = Round(r + (i + 1))
    BY <1>1, <2>1
  <2>3. Round(f + i) = Round(r + (i + 1))
    BY <1>4, <1>5
  <2>. QED
    BY <2>2, <2>3
<1>. QED
  BY <1>1, <1>2, <1>3, <1>4, <1>5

(* The messages that wait, as a sequence                                   *)
LEMMA ContentsAre ==
  ASSUME TypeOK
  PROVE  /\ Contents \in Seq(Messages \cup {None}) /\ Len(Contents) = uxMessagesWaiting
         /\ \A i \in 1..uxMessagesWaiting :
              Contents[i] = ring[(pcReadFrom + i) % QueueLength]
<1>1. \A i \in 1..uxMessagesWaiting : (pcReadFrom + i) % QueueLength \in 0..QueueLength - 1
  BY RingTypes, RingPlaces
<1>2. \A i \in 1..uxMessagesWaiting :
        ring[(pcReadFrom + i) % QueueLength] \in Messages \cup {None}
  BY <1>1, RingTypes
<1>3. uxMessagesWaiting \in Nat
  BY RingTypes
<1>. QED
  BY <1>2, <1>3 DEF Contents

(* prvCopyDataToQueue puts a message behind the others.                    *)
LEMMA PutAppends ==
  ASSUME IInv, IInv', uxMessagesWaiting < QueueLength, NEW m \in Messages, Put(m)
  PROVE  Promise!Put(m)
<1> DEFINE n == uxMessagesWaiting
<1>1. /\ n' = n + 1 /\ pcReadFrom' = pcReadFrom /\ ring' = [ring EXCEPT ![pcWriteTo] = m]
      /\ got' = got
  BY DEF Put
<1>2. /\ QueueLength \in Nat \ {0} /\ n \in 0..QueueLength /\ pcReadFrom \in 0..QueueLength - 1
      /\ pcWriteTo \in 0..QueueLength - 1
      /\ ring \in [0..QueueLength - 1 -> Messages \cup {None}]
      /\ pcWriteTo = (pcReadFrom + 1 + n) % QueueLength
  BY RingTypes DEF IInv, RingInv
<1>3. /\ Contents \in Seq(Messages \cup {None}) /\ Len(Contents) = n
      /\ \A i \in 1..n : Contents[i] = ring[(pcReadFrom + i) % QueueLength]
  BY ContentsAre DEF IInv
<1>4. Contents' = [i \in 1..n + 1 |-> ring'[(pcReadFrom + i) % QueueLength]]
  BY <1>1 DEF Contents
<1>5. ASSUME NEW i \in 1..n PROVE ring'[(pcReadFrom + i) % QueueLength] = Contents[i]
  <2>1. (pcReadFrom + i) % QueueLength \in 0..QueueLength - 1
        /\ (pcReadFrom + i) % QueueLength # pcWriteTo
    BY <1>2, RingPlaces
  <2>. QED
    BY <1>1, <1>2, <1>3, <2>1
<1>6. ring'[(pcReadFrom + (n + 1)) % QueueLength] = m
  <2>1. pcReadFrom + (n + 1) = pcReadFrom + 1 + n
    BY <1>2
  <2>. QED
    BY <1>1, <1>2, <2>1
<1>7. Contents' = Append(Contents, m)
  <2>1. \A i \in 1..n + 1 : Contents'[i] = IF i = n + 1 THEN m ELSE Contents[i]
    <3>1. ASSUME NEW i \in 1..n + 1
          PROVE  Contents'[i] = IF i = n + 1 THEN m ELSE Contents[i]
      <4>1. Contents'[i] = ring'[(pcReadFrom + i) % QueueLength]
        BY <1>4
      <4>2. CASE i = n + 1
        BY <1>6, <4>1, <4>2
      <4>3. CASE i # n + 1
        <5>1. i \in 1..n
          BY <1>2, <4>3
        <5>. QED
          BY <1>5, <4>1, <4>3, <5>1
      <4>. QED
        BY <4>2, <4>3
    <3>. QED
      BY <3>1
  <2>2. Contents' \in Seq(Messages \cup {None}) /\ Len(Contents') = n + 1
    <3>1. TypeOK'
      BY DEF IInv
    <3>2. \A i \in 1..n + 1 : Contents'[i] \in Messages \cup {None}
      BY <1>2, <1>3, <2>1
    <3>. QED
      BY <1>2, <1>4, <3>2
  <2>3. /\ Append(Contents, m) \in Seq(Messages \cup {None}) /\ Len(Append(Contents, m)) = n + 1
        /\ \A i \in 1..n : Append(Contents, m)[i] = Contents[i]
        /\ Append(Contents, m)[n + 1] = m
    BY <1>3, AppendProperties
  <2>4. \A i \in 1..n + 1 : Append(Contents, m)[i] = Contents'[i]
    BY <1>2, <2>1, <2>3
  <2>5. PICK new : new = Contents'
    OBVIOUS
  <2>. QED
    BY <2>2, <2>3, <2>4, <2>5, SeqEqual
<1>. QED
  BY <1>1, <1>3, <1>7 DEF Promise!Put

(* prvCopyDataFromQueue takes the oldest one.                              *)
LEMMA GetTakes ==
  ASSUME IInv, IInv', uxMessagesWaiting > 0, Get
  PROVE  Promise!Get
<1> DEFINE n == uxMessagesWaiting
<1>1. /\ n' = n - 1 /\ pcReadFrom' = (pcReadFrom + 1) % QueueLength /\ ring' = ring
      /\ got' = ring[pcReadFrom']
  BY DEF Get
<1>2. /\ QueueLength \in Nat \ {0} /\ n \in 1..QueueLength /\ pcReadFrom \in 0..QueueLength - 1
  BY RingTypes DEF IInv
<1>3. /\ Contents \in Seq(Messages \cup {None}) /\ Len(Contents) = n
      /\ \A i \in 1..n : Contents[i] = ring[(pcReadFrom + i) % QueueLength]
  BY ContentsAre DEF IInv
<1>4. Contents' = [i \in 1..n - 1 |-> ring[(((pcReadFrom + 1) % QueueLength) + i) % QueueLength]]
  BY <1>1 DEF Contents
<1>5. ASSUME NEW i \in 1..n - 1
      PROVE  ring[(((pcReadFrom + 1) % QueueLength) + i) % QueueLength] = Contents[i + 1]
  <2>1. i \in 1..n /\ i + 1 \in 1..n /\ n \in 0..QueueLength /\ i < n
    BY <1>2
  <2>2. (((pcReadFrom + 1) % QueueLength) + i) % QueueLength = (pcReadFrom + (i + 1)) % QueueLength
    BY <1>2, <2>1, RingPlaces
  <2>. QED
    BY <1>3, <2>1, <2>2
<1>6. Contents' = Tail(Contents)
  <2>1. \A i \in 1..n - 1 : Contents'[i] = Contents[i + 1]
    BY <1>4, <1>5
  <2>2. Contents' \in Seq(Messages \cup {None}) /\ Len(Contents') = n - 1
    <3>1. ASSUME NEW i \in 1..n - 1 PROVE Contents'[i] \in Messages \cup {None}
      <4>1. Contents'[i] = Contents[i + 1] /\ i + 1 \in 1..Len(Contents)
        BY <1>2, <1>3, <2>1
      <4>2. \A j \in 1..Len(Contents) : Contents[j] \in Messages \cup {None}
        BY <1>3
      <4>. QED
        BY <4>1, <4>2
    <3>. QED
      BY <1>2, <1>4, <3>1
  <2>3. /\ Tail(Contents) \in Seq(Messages \cup {None}) /\ Len(Tail(Contents)) = n - 1
        /\ \A i \in 1..n - 1 : Tail(Contents)[i] = Contents[i + 1]
    BY <1>2, <1>3, HeadTailProperties
  <2>4. \A i \in 1..n - 1 : Tail(Contents)[i] = Contents'[i]
    BY <2>1, <2>3
  <2>5. PICK new : new = Contents'
    OBVIOUS
  <2>. QED
    BY <2>2, <2>3, <2>4, <2>5, SeqEqual
<1>7. got' = Head(Contents) /\ Contents # << >>
  BY <1>1, <1>2, <1>3
<1>. QED
  BY <1>6, <1>7 DEF Promise!Get

(* Every other step leaves the messages alone.                             *)
LEMMA StepsKept ==
  ASSUME IInv, IInv', [Next]_vars
  PROVE  Promise!Next \/ (Contents' = Contents /\ got' = got)
<1>1. UNCHANGED store => Contents' = Contents /\ got' = got
  BY DEF store, Contents
<1>2. ASSUME NEW m \in Messages, Put(m), uxMessagesWaiting < QueueLength PROVE Promise!Next
  BY <1>2, PutAppends DEF Promise!Next
<1>3. ASSUME NEW t \in Tasks, TrySend(t) PROVE Promise!Next
  BY <1>2, <1>3 DEF TrySend, Messages
<1>4. CASE InterruptSend
  BY <1>2, <1>4 DEF InterruptSend, Messages
<1>5. ASSUME NEW t \in Tasks, TryReceive(t) PROVE Promise!Next
  BY <1>5, GetTakes DEF TryReceive, Promise!Next
<1>6. CASE Tick
  BY <1>1, <1>6 DEF Tick
<1>7. ASSUME NEW t \in Tasks, Begins(t) PROVE UNCHANGED store
  BY <1>7 DEF Begins, Delay, BeginReceive, BeginSend, BeginWait, Begin
<1>8. ASSUME NEW t \in Tasks, Continues(t), ~TrySend(t), ~TryReceive(t) PROVE UNCHANGED store
  BY <1>8 DEF Continues, TryFails, Suspend, Lock, Test, Place, Unlock, ResumeAll, GiveUp, OnceMore
<1>9. CASE UNCHANGED vars
  BY <1>1, <1>9 DEF vars
<1>. QED
  BY <1>1, <1>3, <1>4, <1>5, <1>6, <1>7, <1>8, <1>9 DEF Next

(* The ring with its two positions is a queue of QueueLength messages:     *)
(* they come out once each and in the order they went in, whoever sends    *)
(* (prvCopyDataToQueue, prvCopyDataFromQueue).                             *)
THEOREM QueueRefinement == Spec => QueueKept
<1>1. Init => Promise!Init
  <2> SUFFICES ASSUME Init PROVE Promise!Init
    OBVIOUS
  <2>1. uxMessagesWaiting = 0 /\ got \notin Messages
    BY KernelAssumption DEF Init
  <2>2. Contents = << >>
    BY <2>1 DEF Contents
  <2>. QED
    BY <2>1, <2>2 DEF Promise!Init
<1>2. IInv /\ IInv' /\ [Next]_vars
        => [Promise!Next]_<<Contents, got>>
  BY StepsKept
<1>. QED
  BY <1>1, <1>2, Invariance, PTL DEF Spec, QueueKept, Promise!Spec

=============================================================================
