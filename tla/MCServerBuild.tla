---------------------------- MODULE MCServerBuild ----------------------------
(* One release of each plugin layout. *)
EXTENDS ServerBuild

CONSTANTS v27, v30

MCLayout == [v \in Versions |-> IF v = v27 THEN "corePlugin" ELSE "plugins"]
==============================================================================
