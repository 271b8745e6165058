---------------------------- MODULE MCPauseWatch ----------------------------
(***************************************************************************)
(* Worker for TLC. The grace is 4 cycles of 30 s in the code (120 s). Three *)
(* pids and four processes: a worker, a child or helper of it, and two that *)
(* come later and may get the pid of either.                               *)
(***************************************************************************)
EXTENDS Worker
=============================================================================
