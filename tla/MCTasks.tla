------------------------------ MODULE MCTasks ------------------------------
(* The priorities of system_init.h and FreeRTOSConfig.h.                   *)
EXTENDS Tasks
MCPriority ==
  [timer |-> 14, process |-> 10, mainline |-> 7, periodic |-> 5, keyboard |-> 5,
   default |-> 3, idle |-> 0]
=============================================================================
