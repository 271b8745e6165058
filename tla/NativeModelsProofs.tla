------------------------- MODULE NativeModelsProofs -------------------------
(***************************************************************************)
(* Proofs about NativeModels, for any number of threads, any zoo and any     *)
(* TTL: types, one load at a time, no sleeper without a load to wake it, and *)
(* the resident zoo model kept.  One inductive invariant carries the four.  *)
(***************************************************************************)
EXTENDS NativeModels, TLAPS

\* Where a thread is tells what it may want.
WantsInv ==
  \A t \in Threads :
    /\ pc[t] # "idle" => want[t] \in Models
    /\ pc[t] \in {"asleep", "loading"} => want[t] \in Zoo
    /\ pc[t] = "building" => want[t] \notin Zoo

\* The zoo's time of use is taken whenever a zoo model is handed out.
ZooClock == unused["zoo"] = idle["zoo"]

IInv ==
  /\ TypeOK /\ WantsInv /\ OneLoadAtATime /\ NoLostWakeup /\ ZooClock

\* The parts of the state the invariant relates, apart from the clocks.
loads == <<pc, want, zooModel, zooLoading>>

LEMMA Initially == Init => IInv
<1> SUFFICES ASSUME Init PROVE IInv
  OBVIOUS
<1> USE DEF Init
<1>1. TypeOK
  <2>1. 0 \in 0..TTL
    BY TTLAssumption
  <2>2. unused \in [Kinds -> 0..TTL] /\ idle \in [Kinds -> 0..TTL]
    BY <2>1
  <2> QED BY <2>2 DEF TypeOK
<1>2. WantsInv /\ OneLoadAtATime /\ NoLostWakeup
  BY DEF WantsInv, OneLoadAtATime, NoLostWakeup
<1>3. ZooClock
  BY DEF ZooClock, Kinds
<1> QED BY <1>1, <1>2, <1>3 DEF IInv

\* Handing out touches the clock of the model's kind, which is the zoo's for
\* a zoo model only.
LEMMA KindIsZoo ==
  ASSUME NEW m \in Models
  PROVE  Kind(m) \in Kinds /\ (Kind(m) = "zoo" <=> m \in Zoo)
<1>1. CASE m \in Zoo
  BY <1>1, ModelsAssumption DEF Kind, Kinds
<1>2. CASE m \in Towers
  BY <1>2, ModelsAssumption DEF Kind, Kinds
<1>3. CASE m = "arcface"
  BY <1>3, ModelsAssumption DEF Kind, Kinds, Towers
<1> QED BY <1>1, <1>2, <1>3 DEF Models

\* Steps of one thread that neither load, end a load nor go to sleep.
LEMMA Elsewhere ==
  ASSUME IInv, NEW t \in Threads, NEW place \in {"idle", "get", "building", "have", "infer"},
         pc[t] # "loading",
         pc' = [pc EXCEPT ![t] = place],
         zooLoading' = zooLoading,
         want' \in [Threads -> Models \cup {NoModel}],
         \A s \in Threads : s # t => want'[s] = want[s],
         place # "idle" => want'[t] \in Models,
         place = "building" => want'[t] \notin Zoo
  PROVE  WantsInv' /\ OneLoadAtATime' /\ NoLostWakeup'
<1> USE DEF IInv, TypeOK
<1>1. pc'[t] = place /\ \A s \in Threads : s # t => pc'[s] = pc[s]
  OBVIOUS
<1>2. WantsInv'
  BY <1>1 DEF WantsInv
<1>3. OneLoadAtATime'
  BY <1>1 DEF OneLoadAtATime
<1>4. NoLostWakeup'
  BY <1>1 DEF NoLostWakeup
<1> QED BY <1>2, <1>3, <1>4

\* Steps that leave threads and loads alone.
LEMMA Untouched ==
  ASSUME WantsInv, OneLoadAtATime, NoLostWakeup, UNCHANGED <<pc, want, zooLoading>>
  PROVE  WantsInv' /\ OneLoadAtATime' /\ NoLostWakeup'
  BY DEF WantsInv, OneLoadAtATime, NoLostWakeup

LEMMA ZooSteps ==
  ASSUME IInv, NEW t \in Threads,
         ZooHit(t) \/ ZooWait(t) \/ ZooStartsLoad(t) \/ ZooLoaded(t) \/ ZooLoadFailed(t)
  PROVE  IInv'
<1> USE ModelsAssumption, TTLAssumption DEF IInv, registry, timer
<1>1. CASE ZooHit(t)
  <2>1. want[t] \in Zoo /\ want[t] \in Models /\ Kind(want[t]) = "zoo"
    BY <1>1, KindIsZoo DEF ZooHit, AsksZoo, Models
  <2>2. TypeOK'
    BY <1>1, <2>1 DEF ZooHit, Touch, HandOut, Goto, TypeOK, Kinds
  <2>3. ZooClock'
    BY <1>1, <2>1 DEF ZooHit, Touch, HandOut, TypeOK, ZooClock, Kinds
  <2>4. WantsInv' /\ OneLoadAtATime' /\ NoLostWakeup'
    BY <1>1, <2>1, Elsewhere DEF ZooHit, AsksZoo, HandOut, Goto, TypeOK
  <2> QED BY <2>2, <2>3, <2>4
<1>2. CASE ZooWait(t)
  <2> USE <1>2 DEF ZooWait, AsksZoo, MustWait, Goto
  <2>1. TypeOK'
    BY DEF TypeOK
  <2>2. ZooClock'
    BY DEF ZooClock
  <2>3. WantsInv' /\ OneLoadAtATime' /\ NoLostWakeup'
    BY DEF TypeOK, WantsInv, OneLoadAtATime, NoLostWakeup
  <2> QED BY <2>1, <2>2, <2>3
<1>3. CASE ZooStartsLoad(t)
  <2> USE <1>3 DEF ZooStartsLoad, AsksZoo, MustWait, Goto
  <2>1. TypeOK'
    BY DEF TypeOK
  <2>2. ZooClock'
    BY DEF ZooClock
  <2>3. \A s \in Threads : pc[s] # "loading"
    BY DEF OneLoadAtATime, TypeOK, WantsInv
  <2>4. WantsInv' /\ NoLostWakeup'
    BY DEF TypeOK, WantsInv, NoLostWakeup
  <2>5. OneLoadAtATime'
    BY <2>3 DEF TypeOK, OneLoadAtATime
  <2> QED BY <2>1, <2>2, <2>4, <2>5
<1>4. CASE ZooLoaded(t)
  <2> USE <1>4 DEF ZooLoaded, WakeAll, Touch
  <2>1. TypeOK'
    BY DEF TypeOK, WantsInv, Kinds
  <2>2. ZooClock'
    BY DEF ZooClock, TypeOK, Kinds
  <2>3. \A s \in Threads : pc'[s] # "loading" /\ pc'[s] # "asleep"
    BY DEF OneLoadAtATime, TypeOK
  <2>4. WantsInv'
    BY DEF WantsInv, TypeOK
  <2>5. OneLoadAtATime' /\ NoLostWakeup'
    BY <2>3 DEF OneLoadAtATime, NoLostWakeup
  <2> QED BY <2>1, <2>2, <2>4, <2>5
<1>5. CASE ZooLoadFailed(t)
  <2> USE <1>5 DEF ZooLoadFailed, WakeAll
  <2>1. TypeOK'
    BY DEF TypeOK
  <2>2. ZooClock'
    BY DEF ZooClock
  <2>3. \A s \in Threads : pc'[s] # "loading" /\ pc'[s] # "asleep"
    BY DEF OneLoadAtATime, TypeOK
  <2>4. WantsInv'
    BY DEF WantsInv, TypeOK
  <2>5. OneLoadAtATime' /\ NoLostWakeup'
    BY <2>3 DEF OneLoadAtATime, NoLostWakeup
  <2> QED BY <2>1, <2>2, <2>4, <2>5
<1> QED BY <1>1, <1>2, <1>3, <1>4, <1>5

LEMMA LocalSteps ==
  ASSUME IInv, NEW t \in Threads, LocalTake(t) \/ TowerBuilt(t) \/ FaceBuilt(t)
  PROVE  IInv'
<1> USE ModelsAssumption, TTLAssumption DEF IInv, registry, timer
<1>m. pc[t] # "idle" => want[t] \in Models
  BY DEF WantsInv
<1>1. CASE LocalTake(t)
  <2>1. /\ want[t] \in Models /\ want[t] \notin Zoo
        /\ Kind(want[t]) \in Kinds /\ Kind(want[t]) # "zoo"
    BY <1>1, <1>m, KindIsZoo DEF LocalTake
  <2>2. \/ HandOut(t)
        \/ Goto(t, "building") /\ UNCHANGED idle
    BY <1>1 DEF LocalTake
  <2>3. unused' = [unused EXCEPT ![Kind(want[t])] = 0]
    BY <1>1 DEF LocalTake, Touch
  <2>u. UNCHANGED <<want, zooModel, zooLoading, towers, face, evictor, released>>
    BY <1>1 DEF LocalTake
  <2>g. pc[t] = "get"
    BY <1>1 DEF LocalTake
  <2>4. TypeOK'
    BY <2>1, <2>2, <2>3, <2>u DEF HandOut, Goto, TypeOK
  <2>5. ZooClock'
    BY <2>1, <2>2, <2>3 DEF HandOut, TypeOK, ZooClock, Kinds
  <2>6. \E place \in {"have", "building"} : pc' = [pc EXCEPT ![t] = place]
    BY <2>2 DEF HandOut, Goto
  <2>7. WantsInv' /\ OneLoadAtATime' /\ NoLostWakeup'
    BY <2>1, <2>6, <2>u, <2>g, Elsewhere DEF TypeOK
  <2> QED BY <2>4, <2>5, <2>7
<1>2. CASE TowerBuilt(t)
  <2>1. /\ want[t] \in Models /\ want[t] \notin Zoo /\ want[t] \in Towers
        /\ Kind(want[t]) \in Kinds /\ Kind(want[t]) # "zoo"
    BY <1>2, <1>m, KindIsZoo DEF TowerBuilt, WantsInv
  <2>2. TypeOK'
    BY <1>2, <2>1 DEF TowerBuilt, HandOut, Goto, TypeOK
  <2>3. ZooClock'
    BY <1>2, <2>1 DEF TowerBuilt, HandOut, TypeOK, ZooClock, Kinds
  <2>4. WantsInv' /\ OneLoadAtATime' /\ NoLostWakeup'
    BY <1>2, <2>1, Elsewhere DEF TowerBuilt, HandOut, Goto, TypeOK
  <2> QED BY <2>2, <2>3, <2>4
<1>3. CASE FaceBuilt(t)
  <2>1. /\ want[t] \in Models /\ want[t] \notin Zoo
        /\ Kind(want[t]) \in Kinds /\ Kind(want[t]) # "zoo"
    BY <1>3, <1>m, KindIsZoo DEF FaceBuilt, WantsInv
  <2>2. CASE face' = TRUE /\ HandOut(t) /\ UNCHANGED want
    <3>1. TypeOK'
      BY <1>3, <2>1, <2>2 DEF FaceBuilt, HandOut, Goto, TypeOK
    <3>2. ZooClock'
      BY <1>3, <2>1, <2>2 DEF FaceBuilt, HandOut, TypeOK, ZooClock, Kinds
    <3>3. WantsInv' /\ OneLoadAtATime' /\ NoLostWakeup'
      BY <1>3, <2>1, <2>2, Elsewhere DEF FaceBuilt, HandOut, Goto, TypeOK
    <3> QED BY <3>1, <3>2, <3>3
  <2>3. CASE face' = FALSE /\ Finish(t) /\ UNCHANGED idle
    <3>1. TypeOK'
      BY <1>3, <2>3 DEF FaceBuilt, Finish, Goto, TypeOK
    <3>2. ZooClock'
      BY <1>3, <2>3 DEF FaceBuilt, ZooClock
    <3>3. WantsInv' /\ OneLoadAtATime' /\ NoLostWakeup'
      BY <1>3, <2>3, Elsewhere DEF FaceBuilt, Finish, Goto, TypeOK
    <3> QED BY <3>1, <3>2, <3>3
  <2> QED BY <1>3, <2>2, <2>3 DEF FaceBuilt
<1> QED BY <1>1, <1>2, <1>3

LEMMA RequestSteps ==
  ASSUME IInv, NEW t \in Threads, Ask(t) \/ SpuriousWake(t) \/ Infer(t) \/ Answer(t)
  PROVE  IInv'
<1> USE ModelsAssumption DEF IInv, registry, timer
<1>1. TypeOK'
  BY DEF Ask, SpuriousWake, Infer, Answer, Finish, Goto, TypeOK
<1>2. ZooClock'
  BY DEF Ask, SpuriousWake, Infer, Answer, ZooClock
<1>3. PICK place \in {"idle", "get", "infer"} : pc' = [pc EXCEPT ![t] = place]
  BY DEF Ask, SpuriousWake, Infer, Answer, Finish, Goto
<1>4. pc[t] # "loading" /\ zooLoading' = zooLoading
  BY DEF Ask, SpuriousWake, Infer, Answer
<1>5. /\ want' \in [Threads -> Models \cup {NoModel}]
      /\ \A s \in Threads : s # t => want'[s] = want[s]
  BY DEF Ask, SpuriousWake, Infer, Answer, Finish, TypeOK
<1>6. place # "idle" => want'[t] \in Models
  BY <1>3 DEF Ask, SpuriousWake, Infer, Answer, Finish, Goto, TypeOK, WantsInv
<1>7. WantsInv' /\ OneLoadAtATime' /\ NoLostWakeup'
  BY <1>3, <1>4, <1>5, <1>6, Elsewhere
<1> QED BY <1>1, <1>2, <1>7

LEMMA TimerSteps ==
  ASSUME IInv, Evict \/ Period
  PROVE  IInv'
<1> USE DEF IInv, registry, timer
<1>1. UNCHANGED <<pc, want, zooLoading>>
  BY DEF Evict, EvictZoo, EvictClip, EvictArcface, ClearCache, Period
<1>2. TypeOK'
  <2>1. CASE Evict
    BY <2>1 DEF Evict, EvictZoo, EvictClip, EvictArcface, ClearCache, TypeOK
  <2>2. CASE Period
    BY <2>2, TTLAssumption DEF Period, TypeOK
  <2> QED BY <2>1, <2>2
<1>3. ZooClock'
  BY DEF Evict, EvictZoo, EvictClip, EvictArcface, ClearCache, Period, ZooClock, Kinds
<1> QED BY <1>1, <1>2, <1>3, Untouched

\* Every step of the specification preserves the inductive invariant.
THEOREM Inductive == IInv /\ [Next]_vars => IInv'
<1> SUFFICES ASSUME IInv, [Next]_vars PROVE IInv'
  OBVIOUS
<1>1. CASE Next
  BY <1>1, ZooSteps, LocalSteps, RequestSteps, TimerSteps DEF Next, ThreadStep
<1>2. CASE UNCHANGED vars
  BY <1>2 DEF vars, registry, timer, IInv, TypeOK, WantsInv, OneLoadAtATime, NoLostWakeup, ZooClock
<1> QED BY <1>1, <1>2

THEOREM Invariant == Spec => []IInv
  BY Initially, Inductive, PTL DEF Spec

\* The state stays well typed (Models.swift's registry and its clocks).
THEOREM TypeCorrect == Spec => []TypeOK
  BY Invariant, PTL DEF IInv

\* zoo(for:) runs one download or load at a time, and zooLoading names it.
THEOREM OneLoadTheorem == Spec => []OneLoadAtATime
  BY Invariant, PTL DEF IInv

\* A thread asleep in zoo(for:) is always owed a broadcast.
THEOREM WakeupTheorem == Spec => []NoLostWakeup
  BY Invariant, PTL DEF IInv

\* Loads follow one another, and each wakes those who slept over it.
THEOREM LoadsTheorem == Spec => []LoadsAreSerial
  BY OneLoadTheorem, WakeupTheorem, PTL DEF LoadsAreSerial

\* The resident zoo model leaves its place only to one that has been loaded,
\* or to the idle timer after a TTL in which nobody was given it.
THEOREM ZooModelTheorem == Spec => ZooModelKept
<1> DEFINE Kept == zooModel # NoModel /\ zooModel' # zooModel
                     => \/ zooLoading # NoModel /\ zooModel' = zooLoading
                        \/ zooLoading = NoModel /\ zooModel' = NoModel /\ idle["zoo"] >= TTL
<1>1. IInv /\ [Next]_vars => [Kept]_vars
  <2> SUFFICES ASSUME IInv, Next, zooModel # NoModel, zooModel' # zooModel
               PROVE  Kept
    OBVIOUS
  <2>1. EvictZoo \/ \E t \in Threads : ZooLoaded(t)
    BY DEF Next, ThreadStep, Ask, ZooHit, ZooWait, ZooStartsLoad, ZooLoadFailed, SpuriousWake,
       LocalTake, TowerBuilt, FaceBuilt, Infer, Answer, Evict, EvictClip, EvictArcface,
       ClearCache, Period, registry
  <2>2. CASE EvictZoo
    BY <2>2 DEF EvictZoo, Expired, IInv, ZooClock
  <2>3. ASSUME NEW t \in Threads, ZooLoaded(t) PROVE Kept
    BY <2>3, ModelsAssumption DEF ZooLoaded, IInv, WantsInv, OneLoadAtATime, Models
  <2> QED BY <2>1, <2>2, <2>3
<1>2. [][Kept]_vars => ZooModelKept
  BY PTL DEF ZooModelKept
<1> QED BY <1>1, <1>2, Invariant, PTL DEF Spec
=============================================================================
