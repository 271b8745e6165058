--------------------------- MODULE MCNativeModels ---------------------------
(***************************************************************************)
(* Two crews, one of them in a behaviour.  Three request threads over two    *)
(* zoo models, so that one can sleep while another loads and a third changes *)
(* its mind about which model comes next, one of them now and then over a    *)
(* face; and two threads over one model of each kind, with every lock of the *)
(* registry between them.                                                   *)
(***************************************************************************)
EXTENDS NativeModels

CONSTANTS t1, t2, t3, siglip, clipL

VARIABLE crew      \* what each thread may ask for

MCThreads == {t1, t2, t3}
MCZoo == {siglip, clipL}
MCNative == {siglip}
MCModels == MCZoo \cup Towers \cup {"arcface"}

Crews ==
  {[t \in MCThreads |-> IF t = t3 THEN MCZoo \cup {"arcface"} ELSE MCZoo],
   [t \in MCThreads |-> IF t = t3 THEN {} ELSE {siglip, "visual", "arcface"}]}

MCInit == Init /\ crew \in Crews

MCNext ==
  /\ Next /\ UNCHANGED crew
  /\ \A t \in MCThreads : want'[t] \in {want[t], NoModel} \cup crew[t]

MCSpec == MCInit /\ [][MCNext]_<<vars, crew>> /\ Fairness
=============================================================================
