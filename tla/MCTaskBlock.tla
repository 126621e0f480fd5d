---------------------------- MODULE MCTaskBlock ----------------------------
(* Model-checking instance of TaskBlock: one task (tasks share only the   *)
(* clock in this module), a clock of four instants and timeouts 0..2, so *)
(* that a timer can expire before, during and after a wake-up.           *)
EXTENDS TaskBlock

MCTasks == {"t1"}
MCMaxTime == 3
MCDurations == 0..2
=============================================================================
