---------------------------- MODULE NativeModels ----------------------------
(***************************************************************************)
(* The model registry of the native ML service (Models.swift), used by the   *)
(* request threads of Server.swift through predict: the zoo model behind a   *)
(* condition variable, the default CLIP towers and ArcFace behind plain      *)
(* locks, the timer that releases what went unused, and the lock around MLX  *)
(* inference (GPULock.swift).                                               *)
(*                                                                         *)
(* What a thread does while it holds a lock is one action, except for a load *)
(* under localLock or arcfaceLock, which others can see taking its time.     *)
(* Time is counted in runs of the idle timer's period.                       *)
(***************************************************************************)
EXTENDS Integers

CONSTANTS
  Threads,   \* request threads (Server.swift's maxConcurrent)
  Zoo,       \* the zoo models Immich asks for
  Native,    \* those of them that run on MLX, not on onnxruntime
  NoModel,   \* nil
  Asked,     \* the models this instance of Immich has jobs for
  TTL        \* modelTTL, in periods of the idle timer

Towers == {"visual", "text"}
Models == Zoo \cup Towers \cup {"arcface"}

ASSUME ModelsAssumption ==
  /\ Native \subseteq Zoo
  /\ Zoo \cap (Towers \cup {"arcface"}) = {}
  /\ NoModel \notin Models
  /\ Asked \subseteq Models
ASSUME TTLAssumption == TTL \in Nat \ {0}

VARIABLES
  pc,           \* where each request thread is
  want,         \* the model it asked for
  zooModel,     \* the resident zoo model
  zooLoading,   \* the zoo model being downloaded or loaded
  towers,       \* clipVisualModel and clipTextModel, the loaded ones
  face,         \* arcfaceSession is loaded
  unused,       \* periods since zooLastUsed, clipLastUsed, arcfaceLastUsed
  evictor,      \* which section of evictIdle comes next
  released,     \* evictIdle has released something in this run
  idle          \* history: periods since a model of each kind was handed out

registry == <<zooModel, zooLoading, towers, face>>
timer == <<evictor, released>>
vars == <<pc, want, registry, unused, timer, idle>>

Kinds == {"zoo", "clip", "arcface"}
Kind(m) == CASE m \in Zoo -> "zoo" [] m \in Towers -> "clip" [] OTHER -> "arcface"

TypeOK ==
  /\ pc \in [Threads -> {"idle", "get", "asleep", "loading", "building", "have", "infer"}]
  /\ want \in [Threads -> Models \cup {NoModel}]
  /\ zooModel \in Zoo \cup {NoModel}
  /\ zooLoading \in Zoo \cup {NoModel}
  /\ towers \subseteq Towers
  /\ face \in BOOLEAN
  /\ unused \in [Kinds -> 0..TTL]
  /\ evictor \in {"zoo", "clip", "arcface", "clear"}
  /\ released \in BOOLEAN
  /\ idle \in [Kinds -> 0..TTL]

-----------------------------------------------------------------------------
Goto(t, place) == pc' = [pc EXCEPT ![t] = place]

\* Mutant of Touch: the time of use is only taken on a load.
TouchNothing(kind) == UNCHANGED unused

Touch(kind) == unused' = [unused EXCEPT ![kind] = 0]

\* The thread leaves the registry with the model it wanted.
HandOut(t) ==
  /\ Goto(t, "have")
  /\ idle' = [idle EXCEPT ![Kind(want[t])] = 0]

\* The request is over; its reference to the model goes with it.
Finish(t) == Goto(t, "idle") /\ want' = [want EXCEPT ![t] = NoModel]

\* A lock that is held over a load: nobody else is in its section meanwhile.
Free(kind) == \A t \in Threads : ~(pc[t] = "building" /\ Kind(want[t]) = kind)

Ask(t) ==
  /\ pc[t] = "idle"
  /\ \E m \in Asked : want' = [want EXCEPT ![t] = m]
  /\ Goto(t, "get")
  /\ UNCHANGED <<registry, unused, timer, idle>>

-----------------------------------------------------------------------------
(* zoo(for:), one action per stretch under zooCond.                         *)

\* Mutant of AsksZoo: the default model's name is looked up in the zoo.
AsksZooForAny(t) == pc[t] = "get"

AsksZoo(t) == pc[t] = "get" /\ want[t] \in Zoo

\* Mutant of MustWait: only a load of the same model is waited for.
MustWaitForSame(t) == zooLoading = want[t]

\* Whichever model is being loaded, its load comes first.
MustWait(t) == zooLoading # NoModel

ZooHit(t) ==
  /\ AsksZoo(t) /\ zooModel = want[t]
  /\ Touch("zoo") /\ HandOut(t)
  /\ UNCHANGED <<want, registry, timer>>

ZooWait(t) ==
  /\ AsksZoo(t) /\ zooModel # want[t] /\ MustWait(t)
  /\ Goto(t, "asleep")
  /\ UNCHANGED <<want, registry, unused, timer, idle>>

ZooStartsLoad(t) ==
  /\ AsksZoo(t) /\ zooModel # want[t] /\ ~MustWait(t)
  /\ zooLoading' = want[t]
  /\ Goto(t, "loading")
  /\ UNCHANGED <<want, zooModel, towers, face, unused, timer, idle>>

\* Mutant of WakeAll: nobody is told.
WakeNobody(t, place) == Goto(t, place)

\* The broadcast, together with where the loading thread goes.
WakeAll(t, place) ==
  pc' = [s \in Threads |-> IF s = t THEN place
                           ELSE IF pc[s] = "asleep" THEN "get" ELSE pc[s]]

ZooLoaded(t) ==
  /\ pc[t] = "loading"
  /\ zooLoading' = NoModel
  /\ zooModel' = want[t]
  /\ Touch("zoo")
  /\ WakeAll(t, "have")
  /\ idle' = [idle EXCEPT !["zoo"] = 0]
  /\ UNCHANGED <<want, towers, face, timer>>

\* A name that is no model, a download that failed, a file that is not there.
ZooLoadFailed(t) ==
  /\ pc[t] = "loading"
  /\ zooLoading' = NoModel
  /\ WakeAll(t, "idle")
  /\ want' = [want EXCEPT ![t] = NoModel]
  /\ UNCHANGED <<zooModel, towers, face, unused, timer, idle>>

\* A condition variable may wake without a broadcast.
SpuriousWake(t) ==
  /\ pc[t] = "asleep"
  /\ Goto(t, "get")
  /\ UNCHANGED <<want, registry, unused, timer, idle>>

-----------------------------------------------------------------------------
(* clipVisual, clipText and arcface: the time of use is taken on entry, and  *)
(* a first load runs under the lock.                                        *)

Loaded(m) == IF m = "arcface" THEN face ELSE m \in towers

LocalTake(t) ==
  LET m == want[t] IN
  /\ pc[t] = "get" /\ m \notin Zoo /\ Free(Kind(m))
  /\ Touch(Kind(m))
  /\ IF Loaded(m) THEN HandOut(t) ELSE Goto(t, "building") /\ UNCHANGED idle
  /\ UNCHANGED <<want, registry, timer>>

TowerBuilt(t) ==
  /\ pc[t] = "building" /\ want[t] \in Towers
  /\ towers' = towers \cup {want[t]}
  /\ HandOut(t)
  /\ UNCHANGED <<want, zooModel, zooLoading, face, unused, timer>>

\* A session that cannot be made leaves nil, and the request has no faces.
FaceBuilt(t) ==
  /\ pc[t] = "building" /\ want[t] = "arcface"
  /\ \/ face' = TRUE /\ HandOut(t) /\ UNCHANGED want
     \/ face' = FALSE /\ Finish(t) /\ UNCHANGED idle
  /\ UNCHANGED <<zooModel, zooLoading, towers, unused, timer>>

-----------------------------------------------------------------------------
(* Inference.  Only MLX models take the metal lock.                         *)

OnMlx(m) == m \in Native \cup Towers

Infer(t) ==
  /\ pc[t] = "have"
  /\ OnMlx(want[t]) => \A s \in Threads : ~(pc[s] = "infer" /\ OnMlx(want[s]))
  /\ Goto(t, "infer")
  /\ UNCHANGED <<want, registry, unused, timer, idle>>

Answer(t) ==
  /\ pc[t] = "infer"
  /\ Finish(t)
  /\ UNCHANGED <<registry, unused, timer, idle>>

-----------------------------------------------------------------------------
(* evictIdle, one action per lock it takes.                                 *)

\* A period of the timer passes; its handler runs if the last run is over.
Period ==
  /\ unused' = [k \in Kinds |-> IF unused[k] < TTL THEN unused[k] + 1 ELSE TTL]
  /\ idle' = [k \in Kinds |-> IF idle[k] < TTL THEN idle[k] + 1 ELSE TTL]
  /\ UNCHANGED <<pc, want, registry, timer>>

Expired(kind) == unused[kind] >= TTL

EvictZoo ==
  /\ evictor = "zoo" /\ evictor' = "clip"
  /\ IF zooLoading = NoModel /\ zooModel # NoModel /\ Expired("zoo")
     THEN zooModel' = NoModel /\ released' = TRUE
     ELSE zooModel' = zooModel /\ released' = FALSE
  /\ UNCHANGED <<pc, want, zooLoading, towers, face, unused, idle>>

EvictClip ==
  /\ evictor = "clip" /\ Free("clip") /\ evictor' = "arcface"
  /\ IF towers # {} /\ Expired("clip")
     THEN towers' = {} /\ released' = TRUE
     ELSE UNCHANGED <<towers, released>>
  /\ UNCHANGED <<pc, want, zooModel, zooLoading, face, unused, idle>>

EvictArcface ==
  /\ evictor = "arcface" /\ Free("arcface")
  /\ IF face /\ Expired("arcface")
     THEN face' = FALSE /\ released' = TRUE
     ELSE UNCHANGED <<face, released>>
  /\ evictor' = IF released' THEN "clear" ELSE "zoo"
  /\ UNCHANGED <<pc, want, zooModel, zooLoading, towers, unused, idle>>

ClearCache ==
  /\ evictor = "clear"
  /\ evictor' = "zoo" /\ released' = FALSE
  /\ UNCHANGED <<pc, want, registry, unused, idle>>

-----------------------------------------------------------------------------
Init ==
  /\ pc = [t \in Threads |-> "idle"]
  /\ want = [t \in Threads |-> NoModel]
  /\ zooModel = NoModel /\ zooLoading = NoModel /\ towers = {} /\ face = FALSE
  /\ unused = [k \in Kinds |-> 0] /\ idle = [k \in Kinds |-> 0]
  /\ evictor = "zoo" /\ released = FALSE

ThreadStep(t) ==
  \/ ZooHit(t) \/ ZooWait(t) \/ ZooStartsLoad(t) \/ ZooLoaded(t) \/ ZooLoadFailed(t)
  \/ LocalTake(t) \/ TowerBuilt(t) \/ FaceBuilt(t)
  \/ Infer(t) \/ Answer(t)

Evict == EvictZoo \/ EvictClip \/ EvictArcface \/ ClearCache

Next ==
  \/ \E t \in Threads : Ask(t) \/ ThreadStep(t) \/ SpuriousWake(t)
  \/ Evict
  \/ Period

Spec == Init /\ [][Next]_vars

\* Threads run, loads and inferences end, and the timer goes on.  A lock is
\* won in the end by whoever keeps asking for it.
Fairness ==
  /\ \A t \in Threads : SF_vars(ThreadStep(t))
  /\ SF_vars(EvictZoo) /\ SF_vars(EvictClip) /\ SF_vars(EvictArcface) /\ WF_vars(ClearCache)
  /\ WF_vars(Period)

-----------------------------------------------------------------------------
(* Properties.                                                              *)

\* One multi-gigabyte download or load at a time, and zooLoading tells which:
\* the lock is not held meanwhile, so only zooLoading keeps a second one out.
OneLoadAtATime ==
  /\ \A s, t \in Threads : pc[s] = "loading" /\ pc[t] = "loading" => s = t
  /\ \A t \in Threads : pc[t] = "loading" => zooLoading = want[t]
  /\ zooLoading # NoModel => \E t \in Threads : pc[t] = "loading"

\* Nobody sleeps on the condition unless a load is under way whose end will
\* wake it, however that load ends.
NoLostWakeup ==
  \A t \in Threads : pc[t] = "asleep" => zooLoading # NoModel

\* The lock is given up for a load and nothing goes wrong: no second load begins beside it,
\* and it wakes whoever went to sleep over it.
LoadsAreSerial == OneLoadAtATime /\ NoLostWakeup

\* A model is only taken out of the zoo's slot by one that loaded, or by the
\* timer after a whole TTL in which nobody was given it, never by a load that
\* failed or is still running.
ZooModelKept ==
  [][zooModel # NoModel /\ zooModel' # zooModel
       => \/ zooLoading # NoModel /\ zooModel' = zooLoading
          \/ zooLoading = NoModel /\ zooModel' = NoModel /\ idle["zoo"] >= TTL]_vars

\* Once requests stop coming, every one is answered and every model of the
\* process is released: no thread sleeps on, and no lock is left behind.
Settles ==
  <>[][\A t \in Threads : ~Ask(t)]_vars
    => <>[](/\ \A t \in Threads : pc[t] = "idle"
            /\ zooModel = NoModel /\ towers = {} /\ ~face)

-----------------------------------------------------------------------------
(* What comments of the code say and the model refutes.                     *)

Infers(t) == pc[t] = "infer" /\ OnMlx(want[t])

\* Who is inside MLX: whoever infers, whoever loads a CLIP tower (MLX.loadArrays), and the
\* timer in clearCache. A zoo model's load is not counted, since here it is one step with its
\* download.
MlxCallers ==
  {t \in Threads : Infers(t) \/ (pc[t] = "building" /\ want[t] \in Towers)}
    \cup (IF evictor = "clear" THEN {"timer"} ELSE {})

\* "Held around every MLX call site ... through eval() completion, so no other Metal submission
\* can land mid-inference" (GPULock.swift:13-15). A tower's load and the eviction's clearCache
\* do not take the lock, and either may come beside an inference that holds it.
MlxIsSerialized == \A t \in Threads : Infers(t) => MlxCallers = {t}
=============================================================================
