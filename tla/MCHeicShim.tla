----------------------------- MODULE MCHeicShim -----------------------------
(***************************************************************************)
(* HeicShim for TLC.                                                       *)
(*                                                                         *)
(* DecodeSlots has three callers for one slot, so that two wait and either  *)
(* can give up in front of or behind the other; one reads a RAW.            *)
(* DecodeReuse has three files for a Map of two entries, so that a new entry *)
(* evicts the oldest while another stays, one of them rewritten once so that *)
(* its entry is replaced, and two jobs, which may await the                 *)
(* same promise: of three promises one can be kept, or shared, while two are *)
(* in flight.                                                              *)
(***************************************************************************)
EXTENDS HeicShim

CONSTANTS c1, c2, c3, p1, p2, p3, d1, d2, d3

MCCallers == {c1, c2, c3}
MCRaw     == {c3}
MCJobs    == {c1, c2}
MCPaths   == {p1, p2, p3}
MCDecodes == {d1, d2, d3}
MCFixed   == {p2, p3}
=============================================================================
