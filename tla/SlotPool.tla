------------------------------ MODULE SlotPool ------------------------------
(***************************************************************************)
(* What the decode semaphore of heic_decode_shim.js promises its callers:    *)
(* a pool of Slots places, no more in use at a time, given out in the order  *)
(* of asking, and a place that is free is never withheld from somebody who   *)
(* waits.  A waiter may give up.  Nothing is said of counters, of waiter     *)
(* objects or of timers.                                                    *)
(***************************************************************************)
EXTENDS Integers, Sequences, FiniteSets, SequencesExt

CONSTANTS Callers, Slots

VARIABLES
  held,   \* the callers that hold a place
  line    \* the callers that wait for one, first come first

Enter(c) ==
  /\ c \notin held
  /\ \A i \in DOMAIN line : line[i] # c
  /\ IF Cardinality(held) < Slots
     THEN held' = held \cup {c} /\ line' = line
     ELSE line' = Append(line, c) /\ held' = held

Leave(c) ==
  /\ c \in held
  /\ IF line = <<>>
     THEN held' = held \ {c} /\ line' = line
     ELSE held' = (held \ {c}) \cup {Head(line)} /\ line' = Tail(line)

GiveUp(i) ==
  /\ line' = RemoveAt(line, i)
  /\ held' = held

Init == held = {} /\ line = <<>>

Next ==
  \/ \E c \in Callers : Enter(c) \/ Leave(c)
  \/ \E i \in DOMAIN line : GiveUp(i)

Spec == Init /\ [][Next]_<<held, line>>

=============================================================================
