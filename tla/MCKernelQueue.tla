--------------------------- MODULE MCKernelQueue ---------------------------
(***************************************************************************)
(* An instance of KernelQueue: the timer task; a task that delays and      *)
(* sends without waiting; one of a lower priority that waits with a limit  *)
(* for the same messages, and for room; and an interrupt.  Ticks are       *)
(* counted to four, so that waits and delays reach over the wrap at every  *)
(* count.                                                                  *)
(***************************************************************************)
EXTENDS KernelQueue

MCTasks    == {"timer", "sender", "low", "idle"}
MCPriority == [timer |-> 3, sender |-> 2, low |-> 1, idle |-> 0]
MCDelays   == [t \in MCTasks |-> IF t = "sender" THEN {2} ELSE {}]
MCReceive  == [t \in MCTasks |-> IF t = "low" THEN {2} ELSE {}]
MCSend     == [t \in MCTasks |-> CASE t = "sender" -> {0} [] t = "low" -> {1} [] OTHER -> {}]
=============================================================================
