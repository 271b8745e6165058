------------------------------ MODULE MCUpkeep ------------------------------
(* Upkeep for TLC. *)
EXTENDS Upkeep

CONSTANTS v27, v30

\* One release of each plugin layout.
MCLayout == [v \in Versions |-> IF v = v27 THEN "corePlugin" ELSE "plugins"]

\* Cycles of 30 s.  The code waits 0, 60, 300 and 900 s, and 900 from then on: here the waits
\* grow as often as the faults allow, and the third is shortened.
MCBackoff == <<0, 2, 3>>
=============================================================================
