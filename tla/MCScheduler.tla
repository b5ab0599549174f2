---------------------------- MODULE MCScheduler ----------------------------
(* Three task slots, the idle one included, on four priority levels.       *)
EXTENDS Scheduler

MCNTasks    == 3
MCRT        == 3
MCQUANTUM   == 2
MCPeriod    == 2 * MCQUANTUM
MCWithRT    == {1, 3}    \* what kernel.c creates: ordinary tasks and an RT one
MCWithoutRT == {2}
=============================================================================
