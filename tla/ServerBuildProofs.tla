--------------------------- MODULE ServerBuildProofs ---------------------------
(***************************************************************************)
(* Theorems about ServerBuild, for every set of releases and every number  *)
(* of moves, faults and commands.                                          *)
(*                                                                         *)
(* The types hold whoever runs beside whom, and so does that no start takes *)
(* the directory of the worker that runs, as long as the starts have the    *)
(* start lock. That the recorded directory holds a build, and that build    *)
(* data has the plugin of the version it serves, is said of one process at  *)
(* work at a time (~beside): no lock keeps an update or a setup from a      *)
(* follow, and the run ServerBuild_prune shows what becomes of the first of *)
(* the two where they meet.                                                *)
(***************************************************************************)
EXTENDS ServerBuild, TLAPS

Fetching  == {"fetch", "copy", "wipe", "fill", "sharp", "swap", "rename", "stamp"}
Importing == {"import", "isharp", "ibuild"}
Starting  == {"preflight", "launch", "spawn", "prune"}

Task == [at : Steps, goal : Goals, want : Versions \cup {NoVersion}, via : {"docker", "registry"},
         cfg : Configs \cup {NoConfig}, force : BOOLEAN]

\* Who fetches or imports knows what and why, and who starts has a configuration.
TaskFits(t) ==
  /\ t.at \in Fetching \cup Importing \cup {"save"} => t.want \in Versions
  /\ t.at \in Fetching => t.goal \in {"follow", "update", "setup", "start"}
  /\ t.at \in Importing => t.goal = "import"
  /\ t.at \in Starting => t.cfg \in Configs

BuildTypes == TypeOK /\ \A p \in Procs : TaskFits(proc[p])

-----------------------------------------------------------------------------
(* What a step does to the processes: one goes to a step, or turns to what *)
(* is new, or rests; the others stay where they are.                       *)

Others(p) == \A q \in Procs \ {p} : proc'[q] = proc[q]

\* The process is at another step of what it was doing.
Moves(p, step) ==
  /\ proc'[p].at = step /\ proc'[p].goal = proc[p].goal /\ proc'[p].want = proc[p].want
  /\ proc'[p].via = proc[p].via /\ proc'[p].cfg = proc[p].cfg
  /\ Others(p)

\* The process fetches the same again, from the registry.
Reroutes(p) ==
  /\ proc'[p].at = "fetch" /\ proc'[p].goal = proc[p].goal /\ proc'[p].want = proc[p].want
  /\ proc'[p].via = "registry" /\ proc'[p].cfg = proc[p].cfg
  /\ Others(p)

Rests(p) == proc'[p] = Idle /\ Others(p)

\* Something else is begun.
Begins(p, at, goal, want) ==
  /\ proc'[p].at = at /\ proc'[p].goal = goal /\ proc'[p].want = want
  /\ Others(p)

ProcTypes == proc \in [Procs -> Task]

\* Replacing a task by another one replaces that one only.
LEMMA Turns ==
  ASSUME ProcTypes, NEW p \in Procs, NEW t \in Task, proc' = [proc EXCEPT ![p] = t]
  PROVE  ProcTypes' /\ proc'[p] = t /\ Others(p)
BY DEF ProcTypes, Others

\* Idle is a task, and so is every version of it that has a step, a goal, a version to want
\* and a configuration.
LEMMA IdleIsATask ==
  /\ Idle \in Task
  /\ \A a \in Steps, f \in BOOLEAN :
       LET t == [Idle EXCEPT !.at = a, !.force = f]
       IN  t \in Task /\ t.at = a /\ t.goal = "none" /\ t.want = NoVersion /\ t.cfg = NoConfig
BY DEF Task, Idle, Steps, Goals

\* Going to a step changes the step.
LEMMA GotoMoves ==
  ASSUME ProcTypes, NEW p \in Procs, NEW step \in Steps, Goto(p, step)
  PROVE  ProcTypes' /\ Moves(p, step)
<1> DEFINE t == [proc[p] EXCEPT !.at = step]
<1>1. proc[p] \in Task
  BY DEF ProcTypes
<1>2. /\ t \in Task /\ t.at = step /\ t.goal = proc[p].goal /\ t.want = proc[p].want
      /\ t.via = proc[p].via /\ t.cfg = proc[p].cfg
  BY <1>1 DEF Task
<1>3. proc' = [proc EXCEPT ![p] = t]
  BY DEF Goto
<1> HIDE DEF t
<1> QED BY <1>2, <1>3, Turns DEF Moves

\* A process that is finished rests.
LEMMA FinishRests ==
  ASSUME ProcTypes, NEW p \in Procs, Finish(p)
  PROVE  ProcTypes' /\ Rests(p)
BY IdleIsATask, Turns DEF Finish, Rests

\* The end of a start leaves the lock to nobody or to whom it belongs.
LEMMA EndRests ==
  ASSUME ProcTypes, lock \in Procs \cup {"free"}, NEW p \in Procs, EndStart(p)
  PROVE  ProcTypes' /\ Rests(p) /\ lock' \in Procs \cup {"free"}
BY FinishRests DEF EndStart

\* A fetch that fails is tried again from the registry, or given up.
LEMMA FailsReroutes ==
  ASSUME ProcTypes, lock \in Procs \cup {"free"}, backoff \in BOOLEAN,
         NEW p \in Procs, BuildFails(p)
  PROVE  /\ ProcTypes' /\ lock' \in Procs \cup {"free"} /\ backoff' \in BOOLEAN
         /\ Rests(p) \/ (proc[p].via = "docker" /\ Reroutes(p))
<1>1. CASE ~FallsBack(p)
  BY <1>1, EndRests DEF BuildFails
<1>2. CASE FallsBack(p)
  <2> DEFINE u == [proc[p] EXCEPT !.at = "fetch"]
             t == [u EXCEPT !.via = "registry"]
  <2>1. proc[p] \in Task
    BY DEF ProcTypes
  <2>2. /\ u \in Task /\ u.at = "fetch" /\ u.goal = proc[p].goal /\ u.want = proc[p].want
        /\ u.cfg = proc[p].cfg
    BY <2>1 DEF Task, Steps
  <2>3. t = [proc[p] EXCEPT !.at = "fetch", !.via = "registry"]
    BY <2>1 DEF Task
  <2> HIDE DEF u
  <2>4. /\ t \in Task /\ t.at = "fetch" /\ t.goal = proc[p].goal /\ t.want = proc[p].want
        /\ t.via = "registry" /\ t.cfg = proc[p].cfg
    BY <2>2 DEF Task
  <2>5. proc' = [proc EXCEPT ![p] = t]
    BY <1>2, <2>3 DEF BuildFails
  <2> HIDE DEF t
  <2>6. ProcTypes' /\ Reroutes(p)
    BY <2>4, <2>5, Turns DEF Reroutes
  <2> QED BY <1>2, <2>6 DEF BuildFails, FallsBack
<1> QED BY <1>1, <1>2

\* One task that fits, beside others that did.
LEMMA FitsAll ==
  ASSUME \A q \in Procs : TaskFits(proc[q]), NEW p \in Procs, Others(p), TaskFits(proc'[p])
  PROVE  (\A q \in Procs : TaskFits(proc[q]))'
BY DEF Others, TaskFits

-----------------------------------------------------------------------------
(* The operators on build data and trees keep their types. *)

LeftTypes == left \in [moves : 0..MaxMoves, faults : 0..MaxFaults, commands : 0..MaxCommands]

\* What a fault and a command take is there.
LEMMA Spends ==
  ASSUME LeftTypes
  PROVE  /\ Fault \/ NoFault => LeftTypes'
         /\ \A c : Command(c) => LeftTypes'
         /\ left.moves > 0 /\ left' = [left EXCEPT !.moves = @ - 1] => LeftTypes'
BY BoundsAssumption DEF LeftTypes, Fault, NoFault, Command

\* A layout that is a release's is one of the two.
LEMMA LayoutsOfVersions ==
  ASSUME NEW v \in Versions
  PROVE  NeedsPlugin(v) => Layout[v] \in Layouts
BY LayoutAssumption DEF NeedsPlugin

\* Empty build data is build data, without a stamp.
LEMMA EmptyIsData == Empty \in Data /\ Empty.stamp = NoVersion
BY DEF Empty, Data

\* Adopting, filling and stamping give build data, and the stamp is all that adopting and
\* stamping change.
LEMMA DataIsKept ==
  ASSUME NEW d \in Data, NEW v \in Versions
  PROVE  /\ Adopted(d, v) \in Data /\ Adopted(d, v).plugin = d.plugin
         /\ Finalized(d, v) \in Data /\ Finalized(d, v).plugin = d.plugin
         /\ Filled(d, v) \in Data /\ Filled(d, v).stamp = d.stamp
         /\ Filled(d, v).plugin = d.plugin \cup {l \in Layouts : l = Layout[v]}
BY DEF Adopted, Finalized, Filled, Data

\* What remains of build data is build data that has no more than it had.
LEMMA RemainsAreData ==
  ASSUME NEW d \in Data, NEW e \in Remains(d)
  PROVE  e \in Data /\ e.stamp \in {d.stamp, NoVersion} /\ e.plugin \subseteq d.plugin
BY DEF Remains, Data

\* The trees that are put into place are trees, and a torn one is too.
LEMMA TreesAreTrees ==
  /\ Linux \in Trees /\ Whole(Linux) /\ Absent \in Trees /\ ~Absent.main
  /\ \A t \in Trees : [t EXCEPT !.sharp = "native"] \in Trees
                      /\ [t EXCEPT !.sharp = "native"].main = t.main
                      /\ [t EXCEPT !.sharp = "native"].sharp = "native"
  /\ \A t : Torn(t) \subseteq Trees
BY DEF Linux, Whole, Absent, Trees, Torn

\* So is one that comes without its Sharp.
LEMMA NoSharpIsATree == [Linux EXCEPT !.sharp = "missing"] \in Trees
BY DEF Linux, Trees

-----------------------------------------------------------------------------
(* The types are kept by every step. *)

\* What the types say of a process and of the state it works on.
LEMMA Known ==
  ASSUME BuildTypes
  PROVE  /\ ProcTypes /\ LeftTypes
         /\ \A p \in Procs : proc[p] \in Task /\ TaskFits(proc[p])
         /\ config \in Configs /\ data \in Data
         /\ server \in [Versions -> Trees] /\ staging \in [Versions -> Trees]
         /\ lock \in Procs \cup {"free"} /\ backoff \in BOOLEAN
BY DEF BuildTypes, TypeOK, ProcTypes, LeftTypes, Task

\* A process that goes on within its fetch, its import or its start still fits.
LEMMA StillFits ==
  ASSUME NEW p \in Procs, TaskFits(proc[p]), NEW step \in Steps, Moves(p, step),
         \/ proc[p].at \in Fetching /\ step \in Fetching \cup {"save"}
         \/ proc[p].at \in Importing /\ step \in Importing \cup {"save"}
         \/ proc[p].at \in Starting /\ step \in Starting
  PROVE  TaskFits(proc'[p]) /\ Others(p)
BY DEF TaskFits, Moves, Fetching, Importing, Starting

\* So does one that fetches again from the registry, and one that rests.
LEMMA FailedFits ==
  ASSUME NEW p \in Procs, TaskFits(proc[p]),
         Rests(p) \/ (proc[p].at \in Fetching /\ Reroutes(p))
  PROVE  TaskFits(proc'[p]) /\ Others(p)
BY DEF TaskFits, Rests, Reroutes, Idle, Fetching, Importing, Starting

\* With the types of what a step changes, all types are kept.
LEMMA TypesTogether ==
  ASSUME BuildTypes, ProcTypes', (\A q \in Procs : TaskFits(proc[q]))', LeftTypes',
         UNCHANGED world, config' \in Configs, data' \in Data,
         server' \in [Versions -> Trees], staging' \in [Versions -> Trees],
         worker' \in Versions \cup {NoVersion}, lock' \in Procs \cup {"free"},
         backoff' \in BOOLEAN, cut' \subseteq Versions,
         UNCHANGED marks \/ (stray' \in BOOLEAN /\ unlocked' \subseteq Procs)
  PROVE  BuildTypes'
BY DEF BuildTypes, TypeOK, ProcTypes, LeftTypes, Task, world, marks

\* The build that is cached is looked at, and the build data adopted.
LEMMA FetchTypes ==
  ASSUME BuildTypes, NEW p \in Procs, Fetch(p)
  PROVE  BuildTypes'
<1> DEFINE v == proc[p].want
<1>1. proc[p].at \in Fetching /\ v \in Versions
  BY Known DEF Fetch, TaskFits, Fetching
<1>2. data' \in Data
  BY <1>1, Known, DataIsKept DEF Fetch
<1>3. /\ ProcTypes' /\ TaskFits(proc'[p]) /\ Others(p)
      /\ lock' \in Procs \cup {"free"} /\ backoff' \in BOOLEAN
  <2>1. CASE \E step \in {"save", "copy", "wipe"} : Goto(p, step) /\ UNCHANGED <<lock, backoff>>
    BY <2>1, <1>1, Known, GotoMoves, StillFits DEF Fetching, Steps
  <2>2. CASE BuildFails(p)
    BY <2>2, <1>1, Known, FailsReroutes, FailedFits
  <2> QED BY <2>1, <2>2 DEF Fetch
<1>4. LeftTypes'
  BY Known, Spends DEF Fetch
<1> QED BY <1>2, <1>3, <1>4, Known, FitsAll, TypesTogether DEF Fetch, BuildTypes, TypeOK

\* The server is copied to staging.
LEMMA CopyServerTypes ==
  ASSUME BuildTypes, NEW p \in Procs, CopyServer(p)
  PROVE  BuildTypes'
<1> DEFINE v == proc[p].want
<1>1. proc[p].at \in Fetching /\ v \in Versions
  BY Known DEF CopyServer, TaskFits, Fetching
<1>2. staging' \in [Versions -> Trees]
  BY <1>1, Known, TreesAreTrees DEF CopyServer
<1>3. /\ ProcTypes' /\ TaskFits(proc'[p]) /\ Others(p)
      /\ lock' \in Procs \cup {"free"} /\ backoff' \in BOOLEAN
  <2>1. CASE \E step \in {"wipe", "fill"} : Goto(p, step) /\ UNCHANGED <<lock, backoff>>
    BY <2>1, <1>1, Known, GotoMoves, StillFits DEF Fetching, Steps
  <2>2. CASE BuildFails(p)
    BY <2>2, <1>1, Known, FailsReroutes, FailedFits
  <2> QED BY <2>1, <2>2 DEF CopyServer
<1>4. LeftTypes'
  BY Known, Spends DEF CopyServer
<1> QED BY <1>2, <1>3, <1>4, Known, FitsAll, TypesTogether DEF CopyServer, BuildTypes, TypeOK

\* The build data is removed, or part of it.
LEMMA WipeBuildDataTypes ==
  ASSUME BuildTypes, NEW p \in Procs, WipeBuildData(p)
  PROVE  BuildTypes'
<1> DEFINE v == proc[p].want
<1>1. proc[p].at \in Fetching /\ v \in Versions
  BY Known DEF WipeBuildData, TaskFits, Fetching
<1>2. data' \in Data /\ staging' \in [Versions -> Trees]
  BY <1>1, Known, EmptyIsData, RemainsAreData, TreesAreTrees DEF WipeBuildData
<1>3. /\ ProcTypes' /\ TaskFits(proc'[p]) /\ Others(p)
      /\ lock' \in Procs \cup {"free"} /\ backoff' \in BOOLEAN
  <2>1. CASE \E step \in {"copy", "fill"} : Goto(p, step) /\ UNCHANGED <<lock, backoff>>
    BY <2>1, <1>1, Known, GotoMoves, StillFits DEF Fetching, Steps
  <2>2. CASE BuildFails(p)
    BY <2>2, <1>1, Known, FailsReroutes, FailedFits
  <2> QED BY <2>1, <2>2 DEF WipeBuildData
<1>4. LeftTypes'
  BY Known, Spends DEF WipeBuildData
<1> QED BY <1>2, <1>3, <1>4, Known, FitsAll, TypesTogether DEF WipeBuildData, BuildTypes, TypeOK

\* What is copied, if anything, is a release.
LEMMA CopiesARelease ==
  ASSUME BuildTypes, NEW p \in Procs, CopiedFrom(p) # NoVersion
  PROVE  CopiedFrom(p) \in Versions
BY Known DEF CopiedFrom, Task, BuildTypes, TypeOK

\* The build data is filled, or not.
LEMMA FillBuildDataTypes ==
  ASSUME BuildTypes, NEW p \in Procs, FillBuildData(p)
  PROVE  BuildTypes'
<1>1. proc[p].at \in Fetching
  BY DEF FillBuildData, Fetching
<1>2. data' \in Data /\ stray' \in BOOLEAN
  <2>1. CASE UNCHANGED <<data, stray>>
    BY <2>1, Known DEF BuildTypes, TypeOK
  <2>2. CASE /\ CopiedFrom(p) # NoVersion /\ data' = Filled(data, CopiedFrom(p))
             /\ stray' = (stray \/ CopiedFrom(p) # proc[p].want)
    <3>1. CopiedFrom(p) \in Versions
      BY <2>2, CopiesARelease
    <3>2. stray' \in BOOLEAN
      BY <2>2 DEF BuildTypes, TypeOK
    <3> QED BY <2>2, <3>1, <3>2, Known, DataIsKept
  <2> QED BY <2>1, <2>2 DEF FillBuildData
<1>3. ProcTypes' /\ TaskFits(proc'[p]) /\ Others(p)
  BY <1>1, Known, GotoMoves, StillFits DEF FillBuildData, Fetching, Steps
<1>4. LeftTypes'
  BY Known, Spends DEF FillBuildData
<1> QED BY <1>2, <1>3, <1>4, Known, FitsAll, TypesTogether DEF FillBuildData, BuildTypes, TypeOK

\* Sharp is built for this Mac, or the staging directory is given up.
LEMMA RebuildSharpTypes ==
  ASSUME BuildTypes, NEW p \in Procs, RebuildSharp(p)
  PROVE  BuildTypes'
<1> DEFINE v == proc[p].want
<1>1. proc[p].at \in Fetching /\ v \in Versions
  BY Known DEF RebuildSharp, TaskFits, Fetching
<1>2. staging' \in [Versions -> Trees]
  <2>1. \A t \in Trees : [staging EXCEPT ![v] = t] \in [Versions -> Trees]
    BY <1>1, Known
  <2>2. [staging[v] EXCEPT !.sharp = "native"] \in Trees /\ Absent \in Trees
    BY <1>1, Known, TreesAreTrees
  <2>3. \/ staging' = [staging EXCEPT ![v] = [staging[v] EXCEPT !.sharp = "native"]]
        \/ staging' = [staging EXCEPT ![v] = Absent]
        \/ staging' = staging
    BY <1>1, Known DEF RebuildSharp
  <2> QED BY <2>1, <2>2, <2>3, Known
<1>3. /\ ProcTypes' /\ TaskFits(proc'[p]) /\ Others(p)
      /\ lock' \in Procs \cup {"free"} /\ backoff' \in BOOLEAN
  <2>1. CASE Goto(p, "swap") /\ UNCHANGED <<lock, backoff>>
    BY <2>1, <1>1, Known, GotoMoves, StillFits DEF Fetching, Steps
  <2>2. CASE BuildFails(p)
    BY <2>2, <1>1, Known, FailsReroutes, FailedFits
  <2> QED BY <2>1, <2>2 DEF RebuildSharp
<1>4. LeftTypes'
  BY Known, Spends DEF RebuildSharp
<1> QED BY <1>2, <1>3, <1>4, Known, FitsAll, TypesTogether DEF RebuildSharp, BuildTypes, TypeOK

\* The directory in place is removed.
LEMMA RemoveOldServerTypes ==
  ASSUME BuildTypes, NEW p \in Procs, RemoveOldServer(p)
  PROVE  BuildTypes'
<1>1. proc[p].at \in Fetching /\ proc[p].want \in Versions
  BY Known DEF RemoveOldServer, TaskFits, Fetching
<1>2. server' \in [Versions -> Trees]
  BY <1>1, Known, TreesAreTrees DEF RemoveOldServer
<1>3. ProcTypes' /\ TaskFits(proc'[p]) /\ Others(p)
  BY <1>1, Known, GotoMoves, StillFits DEF RemoveOldServer, Fetching, Steps
<1> QED BY <1>2, <1>3, Known, FitsAll, TypesTogether
        DEF RemoveOldServer, LeftTypes, BuildTypes, TypeOK

\* Staging takes its place.
LEMMA RenameStagingTypes ==
  ASSUME BuildTypes, NEW p \in Procs, RenameStaging(p)
  PROVE  BuildTypes'
<1> DEFINE v == proc[p].want
<1>1. proc[p].at \in Fetching /\ v \in Versions
  BY Known DEF RenameStaging, TaskFits, Fetching
<1>2. server' \in [Versions -> Trees] /\ staging' \in [Versions -> Trees] /\ cut' \subseteq cut
  BY <1>1, Known, TreesAreTrees DEF RenameStaging
<1>3. /\ ProcTypes' /\ TaskFits(proc'[p]) /\ Others(p)
      /\ lock' \in Procs \cup {"free"} /\ backoff' \in BOOLEAN
  <2>1. CASE Goto(p, "stamp") /\ UNCHANGED <<lock, backoff>>
    BY <2>1, <1>1, Known, GotoMoves, StillFits DEF Fetching, Steps
  <2>2. CASE BuildFails(p)
    BY <2>2, <1>1, Known, FailsReroutes, FailedFits
  <2> QED BY <2>1, <2>2 DEF RenameStaging
<1> QED BY <1>2, <1>3, Known, FitsAll, TypesTogether
        DEF RenameStaging, LeftTypes, BuildTypes, TypeOK

\* The build data is stamped.
LEMMA FinalizeBuildDataTypes ==
  ASSUME BuildTypes, NEW p \in Procs, FinalizeBuildData(p)
  PROVE  BuildTypes'
<1>1. proc[p].at \in Fetching /\ proc[p].want \in Versions
  BY Known DEF FinalizeBuildData, TaskFits, Fetching
<1>2. data' \in Data
  BY <1>1, Known, DataIsKept DEF FinalizeBuildData
<1>3. ProcTypes' /\ TaskFits(proc'[p]) /\ Others(p)
  BY <1>1, Known, GotoMoves, StillFits DEF FinalizeBuildData, Fetching, Steps
<1> QED BY <1>2, <1>3, Known, FitsAll, TypesTogether
        DEF FinalizeBuildData, LeftTypes, BuildTypes, TypeOK

\* A process that takes up a new task: one step, one configuration.
LEMMA TurnsTo ==
  ASSUME BuildTypes, NEW p \in Procs, NEW t \in Task, TaskFits(t), proc' = [proc EXCEPT ![p] = t]
  PROVE  /\ ProcTypes' /\ proc'[p] = t /\ Others(p)
         /\ (\A q \in Procs : TaskFits(proc[q]))'
BY Known, Turns, FitsAll

\* The start lock is what a start that begins waits for.
LEMMA AwaitsLock ==
  ASSUME NEW f \in BOOLEAN
  PROVE  LET t == [Idle EXCEPT !.at = "lock", !.force = f]
         IN  t \in Task /\ TaskFits(t) /\ t.at = "lock"
<1> DEFINE t == [Idle EXCEPT !.at = "lock", !.force = f]
<1>1. t \in Task /\ t.at = "lock"
  BY IdleIsATask DEF Steps
<1>2. TaskFits(t)
  BY <1>1 DEF TaskFits, Fetching, Importing, Starting
<1> QED BY <1>1, <1>2

\* The step of a start that goes on with a configuration it has loaded.
LEMMA LoadsConfig ==
  ASSUME BuildTypes, NEW p \in Procs, NEW step \in {"preflight", "launch"}, NEW c \in Configs,
         proc' = [proc EXCEPT ![p].at = step, ![p].cfg = c]
  PROVE  /\ ProcTypes' /\ proc'[p].at = step /\ proc'[p].cfg = c /\ Others(p)
         /\ (\A q \in Procs : TaskFits(proc[q]))'
<1> DEFINE u == [proc[p] EXCEPT !.at = step]
           t == [u EXCEPT !.cfg = c]
<1>1. u \in Task /\ u.at = step
  BY Known DEF Task, Steps
<1>2. proc' = [proc EXCEPT ![p] = t]
  BY Known DEF ProcTypes
<1> HIDE DEF u
<1>3. t \in Task /\ t.at = step /\ t.cfg = c
  BY <1>1 DEF Task
<1>4. TaskFits(t)
  BY <1>3 DEF TaskFits, Fetching, Importing, Starting
<1> HIDE DEF t
<1> QED BY <1>2, <1>3, <1>4, TurnsTo

\* What is fetched, imported or built is recorded.
LEMMA SaveConfigTypes ==
  ASSUME BuildTypes, NEW p \in Procs, SaveConfig(p)
  PROVE  BuildTypes'
<1> DEFINE v == proc[p].want
           c == [version |-> v, dir |-> v]
<1>1. v \in Versions /\ c \in Configs
  BY Known DEF SaveConfig, TaskFits, Configs
<1>2. config' \in Configs
  <2>1. docker = NoVersion \/ docker \in Versions
    BY DEF BuildTypes, TypeOK
  <2>2. proc[p].cfg # NoConfig => [proc[p].cfg EXCEPT !.dir = v] \in Configs
    BY <1>1, Known DEF Task, Configs
  <2> QED BY <1>1, <2>1, <2>2 DEF SaveConfig, Configs
<1>3. ProcTypes' /\ (\A q \in Procs : TaskFits(proc[q]))'
  <2>1. CASE Finish(p)
    BY <2>1, Known, FinishRests, FailedFits, FitsAll
  <2>2. CASE proc' = [proc EXCEPT ![p] = [Idle EXCEPT !.at = "lock", !.force = TRUE]]
    BY <2>2, AwaitsLock, TurnsTo
  <2>3. CASE proc' = [proc EXCEPT ![p].at = "launch", ![p].cfg = c]
    BY <2>3, <1>1, LoadsConfig
  <2> QED BY <2>1, <2>2, <2>3 DEF SaveConfig
<1> QED BY <1>2, <1>3, Known, TypesTogether DEF SaveConfig, LeftTypes, BuildTypes, TypeOK

\* A server is unpacked into place.
LEMMA ImportServerTypes ==
  ASSUME BuildTypes, NEW p \in Procs, ImportServer(p)
  PROVE  BuildTypes'
<1>1. proc[p].at \in Importing /\ proc[p].want \in Versions
  BY Known DEF ImportServer, TaskFits, Importing
<1>2. server' \in [Versions -> Trees] /\ cut' \subseteq Versions
  BY <1>1, Known, TreesAreTrees, NoSharpIsATree DEF ImportServer, BuildTypes, TypeOK
<1>3. ProcTypes' /\ TaskFits(proc'[p]) /\ Others(p)
  BY <1>1, Known, GotoMoves, StillFits DEF ImportServer, Importing, Steps
<1> QED BY <1>2, <1>3, Known, FitsAll, TypesTogether DEF ImportServer, LeftTypes, BuildTypes, TypeOK

\* Its Sharp is built for this Mac, or the import given up.
LEMMA ImportSharpTypes ==
  ASSUME BuildTypes, NEW p \in Procs, ImportSharp(p)
  PROVE  BuildTypes'
<1> DEFINE v == proc[p].want
<1>1. proc[p].at \in Importing /\ v \in Versions
  BY Known DEF ImportSharp, TaskFits, Importing
<1>2. server' \in [Versions -> Trees]
  <2>1. [server[v] EXCEPT !.sharp = "native"] \in Trees
    BY <1>1, Known, TreesAreTrees
  <2>2. server' = server \/ server' = [server EXCEPT ![v] = [server[v] EXCEPT !.sharp = "native"]]
    BY <1>1, Known DEF ImportSharp
  <2> QED BY <1>1, <2>1, <2>2, Known
<1>3. ProcTypes' /\ TaskFits(proc'[p]) /\ Others(p)
  <2>1. CASE Goto(p, "ibuild")
    BY <2>1, <1>1, Known, GotoMoves, StillFits DEF Importing, Steps
  <2>2. CASE Finish(p)
    BY <2>2, Known, FinishRests, FailedFits
  <2> QED BY <2>1, <2>2 DEF ImportSharp
<1>4. LeftTypes'
  BY Known, Spends DEF ImportSharp
<1> QED BY <1>2, <1>3, <1>4, Known, FitsAll, TypesTogether DEF ImportSharp, BuildTypes, TypeOK

\* A build tarball replaces the build data.
LEMMA ImportBuildDataTypes ==
  ASSUME BuildTypes, NEW p \in Procs, ImportBuildData(p)
  PROVE  BuildTypes'
<1> DEFINE v == proc[p].want
<1>1. proc[p].at \in Importing /\ v \in Versions
  BY Known DEF ImportBuildData, TaskFits, Importing
<1>2. data' \in Data
  <2>1. Empty \in Data /\ \A w \in Versions : Filled(Empty, w) \in Data
    BY EmptyIsData, DataIsKept
  <2>2. \A d \in Data : Finalized(d, v) \in Data
    BY <1>1, DataIsKept
  <2> QED BY <2>1, <2>2, Known DEF ImportBuildData
<1>3. ProcTypes' /\ TaskFits(proc'[p]) /\ Others(p)
  BY <1>1, Known, GotoMoves, StillFits DEF ImportBuildData, Importing, Steps
<1> QED BY <1>2, <1>3, Known, FitsAll, TypesTogether
        DEF ImportBuildData, LeftTypes, BuildTypes, TypeOK

\* The lock is taken, and the configuration read.
LEMMA AcquireStartLockTypes ==
  ASSUME BuildTypes, NEW p \in Procs, AcquireStartLock(p)
  PROVE  BuildTypes'
<1>1. ProcTypes' /\ (\A q \in Procs : TaskFits(proc[q]))'
  BY Known, LoadsConfig DEF AcquireStartLock
<1>2. LeftTypes'
  BY Known, Spends DEF AcquireStartLock
<1>3. /\ lock' \in Procs \cup {"free"} /\ backoff' \in BOOLEAN
      /\ stray' \in BOOLEAN /\ unlocked' \subseteq Procs
  BY DEF AcquireStartLock, BuildTypes, TypeOK
<1>4. /\ UNCHANGED world /\ config' \in Configs /\ data' \in Data
      /\ server' \in [Versions -> Trees] /\ staging' \in [Versions -> Trees]
      /\ worker' \in Versions \cup {NoVersion} /\ cut' \subseteq Versions
  BY DEF AcquireStartLock, BuildTypes, TypeOK
<1> QED BY <1>1, <1>2, <1>3, <1>4, TypesTogether

\* A start that fetches the version of the container first.
LEMMA FetchesFirst ==
  ASSUME BuildTypes, NEW p \in Procs, NEW v \in Versions,
         proc' = [proc EXCEPT ![p].at = "fetch", ![p].goal = "start",
                              ![p].want = v, ![p].via = "docker"]
  PROVE  /\ ProcTypes' /\ (\A q \in Procs : TaskFits(proc[q]))' /\ Begins(p, "fetch", "start", v)
<1> DEFINE a == [proc[p] EXCEPT !.at = "fetch"]
           b == [a EXCEPT !.goal = "start"]
           c == [b EXCEPT !.want = v]
           t == [c EXCEPT !.via = "docker"]
<1>1. a \in Task /\ a.at = "fetch"
  BY Known DEF Task, Steps
<1>2. proc' = [proc EXCEPT ![p] = t]
  BY Known DEF ProcTypes
<1> HIDE DEF a
<1>3. b \in Task /\ b.at = "fetch" /\ b.goal = "start"
  BY <1>1 DEF Task, Goals
<1> HIDE DEF b
<1>4. c \in Task /\ c.at = "fetch" /\ c.goal = "start" /\ c.want = v
  BY <1>3 DEF Task
<1> HIDE DEF c
<1>5. t \in Task /\ t.at = "fetch" /\ t.goal = "start" /\ t.want = v
  BY <1>4 DEF Task
<1>6. TaskFits(t)
  BY <1>5 DEF TaskFits, Fetching, Importing, Starting
<1> HIDE DEF t
<1> QED BY <1>2, <1>5, <1>6, TurnsTo DEF Begins

\* A local install looks at the version of its container, a split one at its Immich.
LEMMA PreflightTypes ==
  ASSUME BuildTypes, NEW p \in Procs, Preflight(p)
  PROVE  BuildTypes'
<1>1. ProcTypes' /\ (\A q \in Procs : TaskFits(proc[q]))' /\ lock' \in Procs \cup {"free"}
  <2>1. CASE Goto(p, "launch") /\ UNCHANGED lock
    <3>1. proc[p].at \in Starting
      BY DEF Preflight, Starting
    <3> QED BY <2>1, <3>1, Known, GotoMoves, StillFits, FitsAll DEF Starting, Steps
  <2>2. CASE /\ proc' = [proc EXCEPT ![p].at = "fetch", ![p].goal = "start",
                                    ![p].want = docker, ![p].via = "docker"]
             /\ docker # NoVersion /\ UNCHANGED lock
    <3>1. docker \in Versions
      BY <2>2 DEF BuildTypes, TypeOK
    <3> QED BY <2>2, <3>1, Known, FetchesFirst
  <2>3. CASE EndStart(p)
    BY <2>3, Known, EndRests, FailedFits, FitsAll
  <2> QED BY <2>1, <2>2, <2>3 DEF Preflight
<1>2. LeftTypes'
  BY Known, Spends DEF Preflight
<1> QED BY <1>1, <1>2, Known, TypesTogether DEF Preflight, BuildTypes, TypeOK

\* The worker that runs is stopped, and Sharp made fit for this Mac.
LEMMA LaunchTypes ==
  ASSUME BuildTypes, NEW p \in Procs, Launch(p)
  PROVE  BuildTypes'
<1> DEFINE d == proc[p].cfg.dir
<1>1. proc[p].at \in Starting /\ proc[p].cfg \in Configs /\ d \in Versions
  BY Known DEF Launch, TaskFits, Starting, Configs
<1>2. server' \in [Versions -> Trees]
  <2>1. [server[d] EXCEPT !.sharp = "native"] \in Trees
    BY <1>1, Known, TreesAreTrees
  <2>2. server' = server \/ server' = [server EXCEPT ![d] = [server[d] EXCEPT !.sharp = "native"]]
    BY <1>1, Known DEF Launch
  <2> QED BY <1>1, <2>1, <2>2, Known
<1>3. /\ ProcTypes' /\ TaskFits(proc'[p]) /\ Others(p) /\ lock' \in Procs \cup {"free"}
  <2>1. CASE Goto(p, "spawn") /\ UNCHANGED lock
    BY <2>1, <1>1, Known, GotoMoves, StillFits DEF Starting, Steps
  <2>2. CASE EndStart(p)
    BY <2>2, Known, EndRests, FailedFits
  <2> QED BY <2>1, <2>2 DEF Launch
<1>4. LeftTypes'
  BY Known, Spends DEF Launch
<1>5. config' \in Configs /\ worker' \in Versions \cup {NoVersion}
  BY <1>1, Known DEF Launch, BuildTypes, TypeOK
<1> QED BY <1>2, <1>3, <1>4, <1>5, Known, FitsAll, TypesTogether DEF Launch, BuildTypes, TypeOK

\* The worker is spawned, or the start refused.
LEMMA SpawnTypes ==
  ASSUME BuildTypes, NEW p \in Procs, Spawn(p)
  PROVE  BuildTypes'
<1>1. proc[p].at \in Starting /\ proc[p].cfg \in Configs /\ proc[p].cfg.dir \in Versions
  BY Known DEF Spawn, TaskFits, Starting, Configs
<1>2. worker' \in Versions \cup {NoVersion}
  BY <1>1 DEF Spawn, BuildTypes, TypeOK
<1>3. ProcTypes' /\ TaskFits(proc'[p]) /\ Others(p) /\ lock' \in Procs \cup {"free"}
  <2>1. CASE Goto(p, "prune") /\ UNCHANGED lock
    BY <2>1, <1>1, Known, GotoMoves, StillFits DEF Starting, Steps
  <2>2. CASE EndStart(p)
    BY <2>2, Known, EndRests, FailedFits
  <2> QED BY <2>1, <2>2 DEF Spawn
<1> QED BY <1>2, <1>3, Known, FitsAll, TypesTogether DEF Spawn, LeftTypes, BuildTypes, TypeOK

\* What is not run is removed, or most of it.
LEMMA PruneTypes ==
  ASSUME BuildTypes, NEW p \in Procs, PruneOldServerVersions(p)
  PROVE  BuildTypes'
<1>1. server' \in [Versions -> Trees] /\ staging' \in [Versions -> Trees]
  BY Known, TreesAreTrees DEF PruneOldServerVersions
<1>2. cut' \subseteq Versions
  BY DEF PruneOldServerVersions, BuildTypes, TypeOK
<1>3. ProcTypes' /\ TaskFits(proc'[p]) /\ Others(p) /\ lock' \in Procs \cup {"free"}
  BY Known, EndRests, FailedFits DEF PruneOldServerVersions
<1>4. LeftTypes'
  BY Known, Spends DEF PruneOldServerVersions
<1> QED BY <1>1, <1>2, <1>3, <1>4, Known, FitsAll, TypesTogether
        DEF PruneOldServerVersions, BuildTypes, TypeOK

\* A process is killed, with what it had half done.
LEMMA KillTypes ==
  ASSUME BuildTypes, NEW p \in Procs, Kill(p)
  PROVE  BuildTypes'
<1> DEFINE v == proc[p].want
<1>1. proc[p].at \in Fetching \cup Importing => v \in Versions
  BY Known DEF TaskFits
<1>2. data' \in Data
  <2>1. \/ data' = data \/ data' \in Remains(data)
        \/ CopiedFrom(p) # NoVersion /\ data' \in Remains(Filled(data, CopiedFrom(p)))
        \/ \E w \in Versions : data' \in Remains(Filled(Empty, w))
    BY DEF Kill
  <2>2. Empty \in Data /\ \A w \in Versions : Filled(data, w) \in Data /\ Filled(Empty, w) \in Data
    BY Known, EmptyIsData, DataIsKept
  <2> QED BY <2>1, <2>2, Known, CopiesARelease, RemainsAreData
<1>3. server' \in [Versions -> Trees] /\ cut' \subseteq Versions
  <2>1. CASE UNCHANGED server /\ UNCHANGED cut
    BY <2>1, Known DEF BuildTypes, TypeOK
  <2>2. CASE \E w \in Versions, t \in Trees :
               server' = [server EXCEPT ![w] = t] /\ cut' = cut \cup {w}
    BY <2>2, Known DEF BuildTypes, TypeOK
  <2>3. CASE v \in Versions /\ cut' = cut \cup {v} /\ UNCHANGED server
    BY <2>3, Known DEF BuildTypes, TypeOK
  <2>4. CASE /\ v \in Versions /\ cut' = cut \cup {v}
             /\ \E t \in Torn(server[v]) \cup Torn(Linux) : server' = [server EXCEPT ![v] = t]
    BY <2>2, <2>4, TreesAreTrees
  <2>5. CASE \E w \in Versions \ {proc[p].cfg.dir} : \E t \in Torn(server[w]) :
               server' = [server EXCEPT ![w] = t] /\ cut' = cut \cup {w}
    BY <2>2, <2>5, TreesAreTrees
  <2> QED BY <1>1, <2>1, <2>3, <2>4, <2>5 DEF Kill, Fetching, Importing
<1>4. /\ ProcTypes' /\ TaskFits(proc'[p]) /\ Others(p) /\ lock' \in Procs \cup {"free"}
  BY Known, EndRests, FailedFits DEF Kill
<1>5. LeftTypes' /\ backoff' \in BOOLEAN
  BY Known, Spends DEF Kill
<1> QED BY <1>2, <1>3, <1>4, <1>5, Known, FitsAll, TypesTogether DEF Kill, BuildTypes, TypeOK

-----------------------------------------------------------------------------
(* What the watcher and the user begin. *)

\* A fetch of a release, from wherever.
LEMMA FetchesFrom ==
  ASSUME BuildTypes, NEW p \in Procs, NEW goal \in {"follow", "update", "setup"},
         NEW v \in Versions, NEW from \in {"docker", "registry"},
         proc' = [proc EXCEPT ![p] = [Idle EXCEPT !.at = "fetch", !.goal = goal,
                                                   !.want = v, !.via = from]]
  PROVE  /\ ProcTypes' /\ (\A q \in Procs : TaskFits(proc[q]))' /\ Begins(p, "fetch", goal, v)
<1> DEFINE a == [Idle EXCEPT !.at = "fetch"]
           b == [a EXCEPT !.goal = goal]
           c == [b EXCEPT !.want = v]
           t == [c EXCEPT !.via = from]
<1>1. proc' = [proc EXCEPT ![p] = t]
  OBVIOUS
<1>2. a \in Task /\ a.at = "fetch"
  <2>1. Idle \in Task
    BY IdleIsATask
  <2> QED BY <2>1 DEF Task, Steps
<1> HIDE DEF a
<1>3. b \in Task /\ b.at = "fetch" /\ b.goal = goal
  BY <1>2 DEF Task, Goals
<1> HIDE DEF b
<1>4. c \in Task /\ c.at = "fetch" /\ c.goal = goal /\ c.want = v
  BY <1>3 DEF Task
<1> HIDE DEF c
<1>5. t \in Task /\ t.at = "fetch" /\ t.goal = goal /\ t.want = v
  BY <1>4 DEF Task
<1> HIDE DEF t
<1>6. TaskFits(t)
  BY <1>5 DEF TaskFits, Fetching, Importing, Starting
<1> QED BY <1>1, <1>5, <1>6, TurnsTo DEF Begins

\* An import of a release, without a configuration or with the one that is kept.
LEMMA Imports ==
  ASSUME NEW v \in Versions, NEW c \in Configs
  PROVE  LET u == [Idle EXCEPT !.at = "import", !.goal = "import", !.want = v]
             t == [Idle EXCEPT !.at = "import", !.goal = "import", !.want = v, !.cfg = c]
         IN  /\ u \in Task /\ TaskFits(u) /\ u.at = "import"
             /\ t \in Task /\ TaskFits(t) /\ t.at = "import"
<1> DEFINE a == [Idle EXCEPT !.at = "import"]
           b == [a EXCEPT !.goal = "import"]
           u == [b EXCEPT !.want = v]
           t == [u EXCEPT !.cfg = c]
<1>1. /\ u = [Idle EXCEPT !.at = "import", !.goal = "import", !.want = v]
      /\ t = [Idle EXCEPT !.at = "import", !.goal = "import", !.want = v, !.cfg = c]
  OBVIOUS
<1>2. a \in Task /\ a.at = "import"
  <2>1. Idle \in Task
    BY IdleIsATask
  <2> QED BY <2>1 DEF Task, Steps
<1> HIDE DEF a
<1>3. b \in Task /\ b.at = "import" /\ b.goal = "import"
  BY <1>2 DEF Task, Goals
<1> HIDE DEF b
<1>4. u \in Task /\ u.at = "import" /\ u.goal = "import" /\ u.want = v
  BY <1>3 DEF Task
<1> HIDE DEF u
<1>5. t \in Task /\ t.at = "import" /\ t.goal = "import" /\ t.want = v
  BY <1>4 DEF Task
<1> HIDE DEF t
<1>6. TaskFits(u) /\ TaskFits(t)
  BY <1>4, <1>5 DEF TaskFits, Fetching, Importing, Starting
<1> QED BY <1>1, <1>4, <1>5, <1>6

\* The two kinds of import, in the words of the action.
LEMMA ImportBegins ==
  ASSUME BuildTypes, UserImport
  PROVE  /\ ProcTypes' /\ (\A q \in Procs : TaskFits(proc[q]))'
         /\ proc'["user"].at = "import" /\ Others("user")
<1>1. immich \in Versions /\ config \in Configs /\ config.version \in Versions /\ "user" \in Procs
  BY DEF Configs, Procs, BuildTypes, TypeOK
<1>2. PICK t \in Task : /\ TaskFits(t) /\ t.at = "import"
                        /\ proc' = [proc EXCEPT !["user"] = t]
  <2>1. CASE proc' = [proc EXCEPT !["user"] =
                        [Idle EXCEPT !.at = "import", !.goal = "import", !.want = immich]]
    BY <1>1, <2>1, Imports
  <2>2. CASE proc' = [proc EXCEPT !["user"] = [Idle EXCEPT !.at = "import", !.goal = "import",
                                                  !.want = config.version, !.cfg = config]]
    BY <1>1, <2>2, Imports
  <2> QED BY <2>1, <2>2 DEF UserImport
<1> QED BY <1>1, <1>2, TurnsTo

\* A begin of the watcher or the user: the process rested, and what it begins is a start, a
\* fetch or an import.
WatchBegins == FollowServerVersion \/ CrashCheck
UserBegins  == UserStart \/ UserUpdate \/ UserSetupLocal \/ UserSetupRemote \/ UserImport

\* What the watcher begins.
LEMMA WatcherBegins ==
  ASSUME BuildTypes, WatchBegins
  PROVE  /\ ProcTypes' /\ (\A q \in Procs : TaskFits(proc[q]))'
         /\ \/ proc'["watch"].at = "lock" /\ Others("watch")
            \/ immich # config.version /\ Begins("watch", "fetch", "follow", immich)
<1>1. immich \in Versions /\ Source(immich) \in {"docker", "registry"} /\ "watch" \in Procs
  BY DEF Source, Procs, BuildTypes, TypeOK
<1>2. CASE FollowServerVersion
  <2>1. \E from \in {"docker", "registry"} :
          proc' = [proc EXCEPT !["watch"] = [Idle EXCEPT !.at = "fetch", !.goal = "follow",
                                               !.want = immich, !.via = from]]
    BY <1>1, <1>2 DEF FollowServerVersion
  <2>2. immich # config.version
    BY <1>2 DEF FollowServerVersion
  <2> QED BY <1>1, <2>1, <2>2, FetchesFrom DEF Begins
<1>3. CASE CrashCheck
  BY <1>1, <1>3, AwaitsLock, TurnsTo DEF CrashCheck
<1> QED BY <1>2, <1>3 DEF WatchBegins

\* What the user begins.
LEMMA UserBeginsSo ==
  ASSUME BuildTypes, UserBegins
  PROVE  /\ ProcTypes' /\ (\A q \in Procs : TaskFits(proc[q]))'
         /\ \/ proc'["user"].at \in {"lock", "import"} /\ Others("user")
            \/ immich # config.version /\ Begins("user", "fetch", "update", immich)
            \/ Begins("user", "fetch", "setup", immich)
<1>1. immich \in Versions /\ Source(immich) \in {"docker", "registry"} /\ "user" \in Procs
  BY DEF Source, Procs, BuildTypes, TypeOK
<1>2. CASE UserStart
  BY <1>1, <1>2, AwaitsLock, TurnsTo DEF UserStart
<1>3. CASE UserUpdate
  <2>1. \E from \in {"docker", "registry"} :
          proc' = [proc EXCEPT !["user"] = [Idle EXCEPT !.at = "fetch", !.goal = "update",
                                              !.want = immich, !.via = from]]
    BY <1>1, <1>3 DEF UserUpdate
  <2>2. immich # config.version
    BY <1>3 DEF UserUpdate
  <2> QED BY <1>1, <2>1, <2>2, FetchesFrom DEF Begins
<1>4. CASE UserSetupLocal \/ UserSetupRemote
  <2>1. \E from \in {"docker", "registry"} :
          proc' = [proc EXCEPT !["user"] = [Idle EXCEPT !.at = "fetch", !.goal = "setup",
                                              !.want = immich, !.via = from]]
    BY <1>4 DEF UserSetupLocal, UserSetupRemote
  <2> QED BY <1>1, <2>1, FetchesFrom DEF Begins
<1>5. CASE UserImport
  BY <1>5, ImportBegins
<1> QED BY <1>2, <1>3, <1>4, <1>5 DEF UserBegins

\* The steps at which no process is at work.
Elsewhere == \/ FollowRetry \/ UserStop \/ ImmichMoves \/ OtherContainerMoves
             \/ ContainerStops \/ ContainerReturns \/ WorkerExit

\* They leave the processes and what these work on alone, and at most stop the worker.
LEMMA ElsewhereTypes ==
  ASSUME BuildTypes, Elsewhere
  PROVE  /\ BuildTypes' /\ UNCHANGED <<config, server, staging, data, proc, cut, lock, beside, marks>>
         /\ worker' \in {worker, NoVersion}
<1>1. /\ immich' \in Versions /\ split' \in BOOLEAN /\ docker' \in Versions \cup {NoVersion}
      /\ backoff' \in BOOLEAN /\ lock' = lock /\ worker' \in {worker, NoVersion}
      /\ UNCHANGED <<config, server, staging, data, proc, cut, beside, marks>>
  BY DEF Elsewhere, FollowRetry, UserStop, ImmichMoves, OtherContainerMoves, ContainerStops,
         ContainerReturns, WorkerExit, BuildTypes, TypeOK, world
<1>2. LeftTypes'
  <2>1. CASE UserStop \/ ContainerStops \/ WorkerExit
    BY <2>1, Known, Spends DEF UserStop, ContainerStops, WorkerExit
  <2>2. CASE FollowRetry \/ ContainerReturns
    BY <2>2, Known DEF FollowRetry, ContainerReturns, LeftTypes
  <2>3. CASE ImmichMoves \/ OtherContainerMoves
    BY <2>3, Known, Spends DEF ImmichMoves, OtherContainerMoves
  <2> QED BY <2>1, <2>2, <2>3 DEF Elsewhere
<1>3. BuildTypes'
  BY <1>1, <1>2 DEF BuildTypes, TypeOK, TaskFits, LeftTypes, marks
<1> QED BY <1>1, <1>3

\* A begin changes the processes, what a command costs, and at most stops the worker.
LEMMA BeginsTypes ==
  ASSUME BuildTypes, WatchBegins \/ UserBegins
  PROVE  /\ BuildTypes' /\ UNCHANGED <<world, config, server, staging, data, cut, lock, marks>>
         /\ worker' \in {worker, NoVersion}
<1>1. /\ UNCHANGED <<world, config, server, staging, data, lock, backoff, cut, marks>>
      /\ worker' \in {worker, NoVersion}
  BY DEF WatchBegins, UserBegins, FollowServerVersion, CrashCheck, UserStart, UserUpdate,
         UserSetupLocal, UserSetupRemote, UserImport
<1>2. LeftTypes'
  <2>1. CASE WatchBegins
    BY <2>1, Known DEF WatchBegins, FollowServerVersion, CrashCheck, LeftTypes
  <2>2. CASE UserBegins
    BY <2>2, Known, Spends DEF UserBegins, UserStart, UserUpdate, UserSetupLocal,
                               UserSetupRemote, UserImport
  <2> QED BY <2>1, <2>2
<1>3. ProcTypes' /\ (\A q \in Procs : TaskFits(proc[q]))'
  BY WatcherBegins, UserBeginsSo
<1>4. BuildTypes'
  BY <1>1, <1>2, <1>3, Known, TypesTogether DEF BuildTypes, TypeOK
<1> QED BY <1>1, <1>4

\* The steps of a process and those of nobody in particular are all there are.
LEMMA StepsAre ==
  ASSUME Next
  PROVE  \/ \E p \in Procs : Work(p) \/ Kill(p)
         \/ WatchBegins \/ UserBegins \/ Elsewhere
BY DEF Next, WatchBegins, UserBegins, Elsewhere

\* The types hold at first.
LEMMA TypesStart ==
  ASSUME Init
  PROVE  BuildTypes
<1>1. data \in Data
  <2>1. immich \in Versions /\ data = Finalized(Filled(Empty, immich), immich)
    BY DEF Init
  <2>2. Empty \in Data
    BY DEF Empty, Data, Layouts
  <2>3. Filled(Empty, immich) \in Data
    BY <2>1, <2>2, DataIsKept
  <2> QED BY <2>1, <2>3, DataIsKept
<1>2. server \in [Versions -> Trees] /\ staging \in [Versions -> Trees]
  BY DEF Init, Trees, Absent
<1>3. proc \in [Procs -> Task] /\ \A p \in Procs : proc[p] = Idle
  BY IdleIsATask DEF Init
<1>4. \A p \in Procs : TaskFits(proc[p])
  BY <1>3 DEF TaskFits, Idle, Fetching, Importing, Starting
<1>5. config \in Configs /\ immich \in Versions
  BY DEF Init, Configs
<1>6. left \in [moves : 0..MaxMoves, faults : 0..MaxFaults, commands : 0..MaxCommands]
  BY BoundsAssumption DEF Init
<1>7. split \in BOOLEAN /\ docker \in Versions \cup {NoVersion} /\ worker \in Versions
      /\ lock = "free" /\ backoff = FALSE /\ cut = {}
      /\ beside \in BOOLEAN /\ stray = FALSE /\ unlocked = {}
  BY DEF Init
<1> QED BY <1>1, <1>2, <1>3, <1>4, <1>5, <1>6, <1>7 DEF BuildTypes, TypeOK, Task

\* The types, and what each process knows, are kept by every step.
LEMMA TypesKept ==
  ASSUME BuildTypes, [Next]_vars
  PROVE  BuildTypes'
<1>1. ASSUME NEW p \in Procs, Work(p)
      PROVE  BuildTypes'
  BY <1>1, FetchTypes, CopyServerTypes, WipeBuildDataTypes, FillBuildDataTypes,
     RebuildSharpTypes, RemoveOldServerTypes, RenameStagingTypes, FinalizeBuildDataTypes,
     SaveConfigTypes, ImportServerTypes, ImportSharpTypes, ImportBuildDataTypes,
     AcquireStartLockTypes, PreflightTypes, LaunchTypes, SpawnTypes, PruneTypes DEF Work
<1>2. ASSUME NEW p \in Procs, Kill(p)
      PROVE  BuildTypes'
  BY <1>2, KillTypes
<1>3. CASE WatchBegins \/ UserBegins
  BY <1>3, BeginsTypes
<1>4. CASE Elsewhere
  BY <1>4, ElsewhereTypes
<1>5. CASE UNCHANGED vars
  BY <1>5 DEF BuildTypes, TypeOK, TaskFits, vars, world, marks
<1> QED BY <1>1, <1>2, <1>3, <1>4, <1>5, StepsAre

\* Whoever runs beside whom, the state keeps its types, and every process knows what it needs
\* for the step it is at: who fetches has a release and a reason, who starts a configuration.
THEOREM BuildInvariant == Spec => []BuildTypes
<1>1. Init => BuildTypes
  BY TypesStart
<1>2. BuildTypes /\ [Next]_vars => BuildTypes'
  BY TypesKept
<1> QED BY <1>1, <1>2, PTL DEF Spec

\* The type invariant of the server build.
THEOREM BuildTypesCorrect == Spec => []TypeOK
<1>1. BuildTypes => TypeOK
  BY DEF BuildTypes
<1> QED BY <1>1, BuildInvariant, PTL

-----------------------------------------------------------------------------
(* While commands keep out of the watcher's way: one process at work. *)

Alone == \A p, q \in Procs : p # q => Resting(p) \/ Resting(q)

\* Build data holds one layout at most, and a stamp of a version that has a plugin is that of
\* a version of this layout.
DataClean(d) ==
  /\ \A l, m \in Layouts : HasLayout(d, l) /\ HasLayout(d, m) => l = m
  /\ d.stamp \in Versions /\ NeedsPlugin(d.stamp) =>
       \A l \in Layouts : HasLayout(d, l) => l = Layout[d.stamp]

\* Who is about to fill the build data has cleared it, and who has filled it finds nothing but
\* its own layout in it.
DataFits(t, d) ==
  /\ t.at = "fill" \/ (t.at = "copy" /\ t.via = "registry") => d = Empty
  /\ t.at \in {"sharp", "swap", "rename", "stamp"} =>
       \A l \in Layouts : HasLayout(d, l) => l = Layout[t.want]

DataInv == DataClean(data) /\ \A p \in Procs : DataFits(proc[p], data)

OthersRest(p) == \A q \in Procs \ {p} : Resting(q)

\* The steps at which a process relies on what build data holds.
Relying == {"fill", "copy", "sharp", "swap", "rename", "stamp"}

\* Who is at work is so alone, and stays so.
LEMMA AtWorkAlone ==
  ASSUME Alone, NEW p \in Procs, ~Resting(p)
  PROVE  OthersRest(p)
BY DEF Alone, OthersRest

\* What one process does leaves it the only one.
LEMMA StaysAlone ==
  ASSUME NEW p \in Procs, OthersRest(p), Others(p)
  PROVE  Alone' /\ OthersRest(p)'
BY DEF Alone, OthersRest, Others, Resting

\* Nobody else relies on anything.
LEMMA DataFitsAll ==
  ASSUME NEW p \in Procs, OthersRest(p), Others(p), DataFits(proc'[p], data')
  PROVE  (\A q \in Procs : DataFits(proc[q], data))'
BY DEF OthersRest, Others, Resting, DataFits

\* Nor does one that is at none of the steps that rely on it.
LEMMA CalmSteps ==
  ASSUME DataClean(data'), NEW p \in Procs, OthersRest(p), Others(p), proc'[p].at \notin Relying
  PROVE  DataInv'
BY DataFitsAll DEF DataInv, DataFits, Relying

\* Empty build data is clean.
LEMMA EmptyIsClean == DataClean(Empty) /\ \A l \in Layouts : ~HasLayout(Empty, l)
BY VersionsAssumption DEF DataClean, Empty, HasLayout

\* Adopting build data keeps it clean: it is stamped for a version whose layout it has.
LEMMA AdoptedIsClean ==
  ASSUME NEW d \in Data, DataClean(d), NEW v \in Versions
  PROVE  DataClean(Adopted(d, v))
<1>1. Adopted(d, v).plugin = d.plugin
  BY DataIsKept
<1>2. CASE ~(NeedsPlugin(v) /\ d.stamp = NoVersion /\ BuildHasCorePluginFor(d, v))
  BY <1>2 DEF Adopted
<1>3. CASE NeedsPlugin(v) /\ d.stamp = NoVersion /\ BuildHasCorePluginFor(d, v)
  <2>1. Adopted(d, v).stamp = v
    BY <1>3 DEF Adopted, Data
  <2>2. HasLayout(d, Layout[v]) /\ Layout[v] \in Layouts
    BY <1>3, LayoutsOfVersions DEF BuildHasCorePluginFor, Layouts
  <2> QED BY <1>1, <2>1, <2>2 DEF DataClean, HasLayout
<1> QED BY <1>2, <1>3

\* Stamping keeps it clean where every layout it has is the version's.
LEMMA FinalizedIsClean ==
  ASSUME NEW d \in Data, DataClean(d), NEW v \in Versions,
         \A l \in Layouts : HasLayout(d, l) => l = Layout[v]
  PROVE  DataClean(Finalized(d, v))
<1>1. Finalized(d, v).plugin = d.plugin
  BY DataIsKept
<1>2. Finalized(d, v).stamp \in {d.stamp, v}
  BY DEF Finalized, Data
<1> QED BY <1>1, <1>2 DEF DataClean, HasLayout

\* Having no more than clean build data is clean, and relies on no more.
LEMMA RemainsAreClean ==
  ASSUME NEW d \in Data, DataClean(d), NEW e \in Remains(d)
  PROVE  DataClean(e)
<1>1. /\ e.stamp \in {d.stamp, NoVersion}
      /\ \A l \in Layouts : HasLayout(e, l) => HasLayout(d, l)
  BY RemainsAreData DEF HasLayout
<1> QED BY <1>1, VersionsAssumption DEF DataClean

\* Filling empty build data gives it one layout and no stamp.
LEMMA FilledIsClean ==
  ASSUME NEW v \in Versions, NEW d \in {Empty, Filled(Empty, v)}
  PROVE  /\ d \in Data /\ d.stamp = NoVersion
         /\ DataClean(d) /\ \A l \in Layouts : HasLayout(d, l) => l = Layout[v]
<1>1. d \in Data /\ d.stamp = NoVersion /\ Empty.plugin = {}
  BY EmptyIsData, DataIsKept DEF Empty
<1>2. \A l \in Layouts : HasLayout(d, l) => l = Layout[v]
  BY <1>1, EmptyIsData, DataIsKept DEF HasLayout
<1> QED BY <1>1, <1>2, VersionsAssumption DEF DataClean

\* The build that is cached is looked at: the data may be adopted.
LEMMA FetchClean ==
  ASSUME BuildTypes, DataInv, NEW p \in Procs, OthersRest(p), Fetch(p)
  PROVE  DataInv'
<1>1. proc[p].want \in Versions
  BY Known DEF Fetch, TaskFits, Fetching
<1>2. DataClean(data')
  BY <1>1, Known, AdoptedIsClean DEF Fetch, DataInv
<1>3. CASE \E step \in {"save", "wipe"} : Goto(p, step)
  BY <1>2, <1>3, Known, GotoMoves, CalmSteps DEF Moves, Steps, Relying
<1>4. CASE Goto(p, "copy") /\ proc[p].via = "docker"
  <2>1. Moves(p, "copy")
    BY <1>4, Known, GotoMoves DEF Steps
  <2>2. DataFits(proc'[p], data')
    BY <1>4, <2>1 DEF DataFits, Moves
  <2> QED BY <1>2, <2>1, <2>2, DataFitsAll DEF DataInv, Moves
<1>5. CASE BuildFails(p)
  BY <1>2, <1>5, Known, FailsReroutes, CalmSteps DEF Rests, Reroutes, Idle, Relying
<1> QED BY <1>3, <1>4, <1>5 DEF Fetch

\* The server is copied: the data is not touched, and cleared already on the registry's way.
LEMMA CopyServerClean ==
  ASSUME BuildTypes, DataInv, NEW p \in Procs, OthersRest(p), CopyServer(p)
  PROVE  DataInv'
<1>1. DataClean(data') /\ data' = data
  BY DEF CopyServer, DataInv
<1>2. CASE Goto(p, "wipe")
  BY <1>1, <1>2, Known, GotoMoves, CalmSteps DEF Moves, Steps, Relying
<1>3. CASE Goto(p, "fill") /\ proc[p].via # "docker"
  <2>1. Moves(p, "fill")
    BY <1>3, Known, GotoMoves DEF Steps
  <2>2. data = Empty
    BY <1>3, Known DEF CopyServer, DataInv, DataFits, Task
  <2>3. DataFits(proc'[p], data')
    BY <1>1, <2>1, <2>2 DEF DataFits, Moves
  <2> QED BY <1>1, <2>1, <2>3, DataFitsAll DEF DataInv, Moves
<1>4. CASE BuildFails(p)
  BY <1>1, <1>4, Known, FailsReroutes, CalmSteps DEF Rests, Reroutes, Idle, Relying
<1> QED BY <1>2, <1>3, <1>4 DEF CopyServer

\* Data that is cleared is as who fills it needs it.
LEMMA ClearedIsClean ==
  ASSUME BuildTypes, NEW p \in Procs, OthersRest(p), data' = Empty,
         NEW step \in {"fill", "copy"}, Goto(p, step)
  PROVE  DataInv'
<1>1. Moves(p, step)
  BY Known, GotoMoves DEF Steps
<1>2. DataFits(proc'[p], data')
  BY <1>1 DEF DataFits, Moves
<1> QED BY <1>1, <1>2, DataFitsAll, EmptyIsClean DEF DataInv, Moves

\* The data is cleared, or as much of it as was removed before that failed.
LEMMA WipeBuildDataClean ==
  ASSUME BuildTypes, DataInv, NEW p \in Procs, OthersRest(p), WipeBuildData(p)
  PROVE  DataInv'
<1>1. CASE data' = Empty /\ \E step \in {"fill", "copy"} : Goto(p, step)
  BY <1>1, ClearedIsClean
<1>2. CASE data' \in Remains(data) /\ BuildFails(p)
  <2>1. DataClean(data')
    BY <1>2, Known, RemainsAreClean DEF DataInv
  <2> QED BY <1>2, <2>1, Known, FailsReroutes, CalmSteps DEF Rests, Reroutes, Idle, Relying
<1> QED BY <1>1, <1>2 DEF WipeBuildData

\* What is filled in is of the one layout where it is of the release that is wanted, and the
\* stamp is still missing.
LEMMA FillBuildDataClean ==
  ASSUME BuildTypes, DataInv, NEW p \in Procs, OthersRest(p), FillBuildData(p), ~stray'
  PROVE  DataInv'
<1> DEFINE v == proc[p].want
<1>1. v \in Versions /\ data = Empty /\ Moves(p, "sharp")
  BY Known, GotoMoves DEF FillBuildData, TaskFits, Fetching, DataInv, DataFits, Steps
<1>2. data' \in {Empty, Filled(Empty, v)}
  BY <1>1, ~stray' DEF FillBuildData, BuildTypes, TypeOK
<1>3. DataClean(data') /\ \A l \in Layouts : HasLayout(data', l) => l = Layout[v]
  BY <1>1, <1>2, FilledIsClean
<1>4. DataFits(proc'[p], data')
  BY <1>1, <1>3 DEF DataFits, Moves
<1> QED BY <1>1, <1>3, <1>4, DataFitsAll DEF DataInv, Moves

\* From Sharp to the rename the data is not touched.
LEMMA ReplacingClean ==
  ASSUME BuildTypes, DataInv, NEW p \in Procs, OthersRest(p),
         RebuildSharp(p) \/ RemoveOldServer(p) \/ RenameStaging(p)
  PROVE  DataInv'
<1>1. DataClean(data') /\ data' = data /\ proc[p].at \in {"sharp", "swap", "rename"}
  BY DEF RebuildSharp, RemoveOldServer, RenameStaging, DataInv
<1>2. CASE \E step \in {"swap", "rename", "stamp"} : Goto(p, step)
  <2>1. PICK step \in {"swap", "rename", "stamp"} : Moves(p, step)
    BY <1>2, Known, GotoMoves DEF Steps
  <2>2. DataFits(proc'[p], data')
    BY <1>1, <2>1 DEF DataFits, Moves, DataInv
  <2> QED BY <1>1, <2>1, <2>2, DataFitsAll DEF DataInv, Moves
<1>3. CASE BuildFails(p)
  BY <1>1, <1>3, Known, FailsReroutes, CalmSteps DEF Rests, Reroutes, Idle, Relying
<1> QED BY <1>2, <1>3 DEF RebuildSharp, RemoveOldServer, RenameStaging

\* The stamp is that of the version whose layout is in the data.
LEMMA FinalizeBuildDataClean ==
  ASSUME BuildTypes, DataInv, NEW p \in Procs, OthersRest(p), FinalizeBuildData(p)
  PROVE  DataInv'
<1>1. proc[p].want \in Versions
  BY Known DEF FinalizeBuildData, TaskFits, Fetching
<1>2. \A l \in Layouts : HasLayout(data, l) => l = Layout[proc[p].want]
  BY DEF FinalizeBuildData, DataInv, DataFits
<1>3. DataClean(data')
  BY <1>1, <1>2, Known, FinalizedIsClean DEF FinalizeBuildData, DataInv
<1>4. Moves(p, "save")
  BY Known, GotoMoves DEF FinalizeBuildData, Steps
<1> QED BY <1>3, <1>4, CalmSteps DEF Moves, Relying

\* A tarball's build data is of one version throughout, and where this is the one it is
\* imported for, the stamp is its own.
LEMMA ImportBuildDataClean ==
  ASSUME BuildTypes, NEW p \in Procs, OthersRest(p), ImportBuildData(p), ~stray',
         DataInv \/ ~UNCHANGED <<data, stray>>
  PROVE  DataInv'
<1> DEFINE v == proc[p].want
<1>1. v \in Versions
  BY Known DEF ImportBuildData, TaskFits, Importing
<1>2. \A d \in {Empty, Filled(Empty, v)} : DataClean(Finalized(d, v))
  BY <1>1, FilledIsClean, FinalizedIsClean
<1>3. DataClean(data')
  <2>1. CASE UNCHANGED <<data, stray>>
    BY <2>1 DEF DataInv
  <2>2. CASE data' \in {Finalized(Filled(Empty, v), v), Finalized(Empty, v)}
    BY <1>2, <2>2
  <2> QED BY <2>1, <2>2 DEF ImportBuildData
<1>4. Moves(p, "save")
  BY Known, GotoMoves DEF ImportBuildData, Steps
<1> QED BY <1>3, <1>4, CalmSteps DEF Moves, Relying

\* Data that was filled with another release's and is no more, has been cleared, or replaced
\* out of a tarball.
LEMMA StrayEnds ==
  ASSUME BuildTypes, stray, ~stray', NEW p \in Procs, OthersRest(p), Work(p) \/ Kill(p)
  PROVE  DataInv'
<1>1. CASE /\ WipeBuildData(p) /\ data' = Empty
           /\ \E step \in {"fill", "copy"} : Goto(p, step)
  BY <1>1, ClearedIsClean
<1>2. CASE ImportBuildData(p) /\ ~UNCHANGED <<data, stray>>
  BY <1>2, ImportBuildDataClean
<1> QED BY <1>1, <1>2 DEF Work, Kill, marks, Fetch, CopyServer, WipeBuildData, FillBuildData,
         RebuildSharp, RemoveOldServer, RenameStaging, FinalizeBuildData, SaveConfig, ImportServer,
         ImportSharp, ImportBuildData, AcquireStartLock, Preflight, Launch, Spawn,
         PruneOldServerVersions

\* A process that is killed relies on nothing any more, and leaves no more than there was.
LEMMA KillClean ==
  ASSUME BuildTypes, DataInv, NEW p \in Procs, OthersRest(p), Kill(p)
  PROVE  DataInv'
<1>1. CASE data' = data \/ data' \in Remains(data)
  <2>1. DataClean(data')
    BY <1>1, Known, RemainsAreClean DEF DataInv
  <2> QED BY <2>1, Known, EndRests, CalmSteps DEF Kill, Rests, Idle, Relying
<1>2. ASSUME NEW w \in Versions, data' \in Remains(Filled(Empty, w))
      PROVE  DataInv'
  <2>1. DataClean(data')
    BY <1>2, FilledIsClean, RemainsAreClean
  <2> QED BY <2>1, Known, EndRests, CalmSteps DEF Kill, Rests, Idle, Relying
<1>3. CASE /\ proc[p].at = "fill" /\ CopiedFrom(p) # NoVersion
           /\ data' \in Remains(Filled(data, CopiedFrom(p)))
  <2>1. data = Empty /\ CopiedFrom(p) \in Versions
    BY <1>3, CopiesARelease DEF DataInv, DataFits
  <2> QED BY <1>2, <1>3, <2>1
<1> QED BY <1>1, <1>2, <1>3 DEF Kill

\* The steps of an import, a start, and what records a build, leave the data alone and rely
\* on none of it.
LEMMA StartingClean ==
  ASSUME BuildTypes, DataInv, NEW p \in Procs, OthersRest(p),
         \/ SaveConfig(p) \/ ImportServer(p) \/ ImportSharp(p) \/ AcquireStartLock(p)
         \/ Preflight(p) \/ Launch(p) \/ Spawn(p) \/ PruneOldServerVersions(p)
  PROVE  DataInv'
<1>1. DataClean(data')
  BY DEF SaveConfig, ImportServer, ImportSharp, AcquireStartLock, Preflight, Launch, Spawn,
         PruneOldServerVersions, DataInv
<1>2. CASE SaveConfig(p)
  <2>1. proc[p].want \in Versions
    BY <1>2, Known DEF SaveConfig, TaskFits
  <2>2. CASE Finish(p)
    BY <1>1, <2>2, Known, FinishRests, CalmSteps DEF Rests, Idle, Relying
  <2>3. CASE proc' = [proc EXCEPT ![p] = [Idle EXCEPT !.at = "lock", !.force = TRUE]]
    BY <1>1, <2>3, AwaitsLock, TurnsTo, CalmSteps DEF Relying
  <2>4. CASE proc' = [proc EXCEPT ![p].at = "launch",
                                  ![p].cfg = [version |-> proc[p].want, dir |-> proc[p].want]]
    <3>1. [version |-> proc[p].want, dir |-> proc[p].want] \in Configs
      BY <2>1 DEF Configs
    <3> QED BY <1>1, <2>4, <3>1, LoadsConfig, CalmSteps DEF Relying
  <2> QED BY <1>2, <2>2, <2>3, <2>4 DEF SaveConfig
<1>3. CASE \E step \in {"isharp", "ibuild", "launch", "spawn", "prune"} : Goto(p, step)
  BY <1>1, <1>3, Known, GotoMoves, CalmSteps DEF Moves, Steps, Relying
<1>4. CASE Finish(p) \/ EndStart(p)
  BY <1>1, <1>4, Known, FinishRests, CalmSteps DEF EndStart, Rests, Idle, Relying
<1>5. CASE AcquireStartLock(p)
  BY <1>1, <1>5, Known, LoadsConfig, CalmSteps DEF AcquireStartLock, Relying
<1>6. CASE docker \in Versions /\ proc' = [proc EXCEPT ![p].at = "fetch", ![p].goal = "start",
                                                      ![p].want = docker, ![p].via = "docker"]
  BY <1>1, <1>6, FetchesFirst, CalmSteps DEF Begins, Relying
<1>7. docker \in Versions \cup {NoVersion}
  BY DEF BuildTypes, TypeOK
<1> QED BY <1>2, <1>3, <1>4, <1>5, <1>6, <1>7
        DEF ImportServer, ImportSharp, Preflight, Launch, Spawn, PruneOldServerVersions

-----------------------------------------------------------------------------
(* The directories under server/. *)

\* What has a main.js is whole, or was cut short.
Sound(v) == server[v].main => Whole(server[v]) \/ v \in cut

\* Who is about to replace a directory has a whole one in staging; who has its build, or is
\* importing it, has a whole one in place; a start runs what is recorded, beside no worker of
\* another directory; and who fetches, and is not setup, fetches what is not recorded.
TreesFit(p) ==
  /\ proc[p].at \in {"swap", "rename"} => Whole(staging[proc[p].want])
  /\ proc[p].at \in {"stamp", "save", "isharp", "ibuild"} =>
       Whole(server[proc[p].want]) \/ proc[p].want \in cut
  /\ proc[p].at \in Starting => proc[p].cfg = config
  /\ proc[p].at \in {"spawn", "prune"} => worker \in {NoVersion, config.dir}
  /\ proc[p].at \in Fetching /\ proc[p].goal # "setup" => proc[p].want # config.version

TreesInv ==
  /\ \A v \in Versions : Sound(v)
  /\ \A p \in Procs : TreesFit(p)
  /\ RecordedIsThere

\* Nobody else needs a tree.
LEMMA TreesFitAll ==
  ASSUME NEW p \in Procs, OthersRest(p), Others(p), TreesFit(p)'
  PROVE  (\A q \in Procs : TreesFit(q))'
BY DEF OthersRest, Others, Resting, TreesFit, Starting, Fetching

\* A process that rests, or waits for the lock, needs none.
LEMMA RestingFits ==
  ASSUME NEW p \in Procs, proc'[p].at \in {"idle", "lock"}
  PROVE  TreesFit(p)'
BY DEF TreesFit, Starting, Fetching

\* Where only one process is at work, and not at the rename, the recorded directory is whole or
\* was cut short.
LEMMA RecordedIsWhole ==
  ASSUME TreesInv, NEW p \in Procs, OthersRest(p), proc[p].at # "rename"
  PROVE  config.dir \in cut \/ Whole(server[config.dir])
BY DEF TreesInv, RecordedIsThere, Replaced, OthersRest, Resting

\* A tree that is made native, and was not missing its Sharp, is as whole as it was.
LEMMA NativeIsAsWhole ==
  ASSUME NEW t \in Trees, t.sharp # "missing"
  PROVE  /\ [t EXCEPT !.sharp = "native"].main = t.main
         /\ Whole([t EXCEPT !.sharp = "native"]) <=> Whole(t)
<1> DEFINE n == [t EXCEPT !.sharp = "native"]
<1>1. n.main = t.main /\ n.sharp = "native"
  BY TreesAreTrees
<1> HIDE DEF n
<1>2. Whole(n) <=> Whole(t)
  BY <1>1 DEF Whole
<1> QED BY <1>1, <1>2 DEF n

\* A step that leaves the directories and the record alone, and whose process is neither about
\* to replace one nor to start, keeps what is said of them.
LEMMA CalmTrees ==
  ASSUME TreesInv, NEW p \in Procs, OthersRest(p), Others(p), proc[p].at # "rename",
         UNCHANGED <<config, server, cut>>, TreesFit(p)'
  PROVE  TreesInv'
<1>1. (\A v \in Versions : Sound(v))'
  BY DEF TreesInv, Sound
<1>2. RecordedIsThere'
  BY RecordedIsWhole DEF RecordedIsThere, Replaced
<1> QED BY <1>1, <1>2, TreesFitAll DEF TreesInv

\* What is fetched again, from the registry, is still not what is recorded.
LEMMA ReroutedFits ==
  ASSUME NEW p \in Procs, TreesFit(p), proc[p].at \in Fetching, Rests(p) \/ Reroutes(p),
         UNCHANGED config
  PROVE  TreesFit(p)'
BY DEF TreesFit, Rests, Reroutes, Idle, Fetching, Starting

\* The steps of a fetch that leave server/ alone and end before the swap.
LEMMA FetchingTrees ==
  ASSUME BuildTypes, TreesInv, NEW p \in Procs, OthersRest(p),
         Fetch(p) \/ CopyServer(p) \/ WipeBuildData(p) \/ FillBuildData(p)
  PROVE  TreesInv'
<1>1. /\ proc[p].at \in {"fetch", "copy", "wipe", "fill"} /\ proc[p].want \in Versions
      /\ UNCHANGED <<config, server, cut>>
  BY Known DEF Fetch, CopyServer, WipeBuildData, FillBuildData, TaskFits, Fetching
<1>2. CASE \E step \in {"copy", "wipe", "fill", "sharp"} : Goto(p, step)
  <2>1. PICK step \in {"copy", "wipe", "fill", "sharp"} : Moves(p, step)
    BY <1>2, Known, GotoMoves DEF Steps
  <2>2. TreesFit(p)'
    BY <1>1, <2>1 DEF TreesInv, TreesFit, Moves, Fetching, Starting
  <2> QED BY <1>1, <2>1, <2>2, CalmTrees DEF Moves
<1>3. CASE Goto(p, "save") /\ CachedServerIfCurrent(proc[p].want)
  <2>1. Moves(p, "save")
    BY <1>3, Known, GotoMoves DEF Steps
  <2>2. Whole(server[proc[p].want]) \/ proc[p].want \in cut
    BY <1>1, <1>3 DEF TreesInv, Sound, CachedServerIfCurrent
  <2>3. TreesFit(p)'
    BY <1>1, <2>1, <2>2 DEF TreesFit, Moves, Fetching, Starting
  <2> QED BY <1>1, <2>1, <2>3, CalmTrees DEF Moves
<1>4. CASE BuildFails(p)
  <2>1. Rests(p) \/ Reroutes(p)
    BY <1>4, Known, FailsReroutes
  <2>2. TreesFit(p)'
    BY <1>1, <2>1, ReroutedFits DEF TreesInv, Fetching
  <2> QED BY <1>1, <2>1, <2>2, CalmTrees DEF Rests, Reroutes
<1> QED BY <1>2, <1>3, <1>4 DEF Fetch, CopyServer, WipeBuildData, FillBuildData

\* What goes on to the swap is whole.
LEMMA RebuildSharpTrees ==
  ASSUME BuildTypes, TreesInv, NEW p \in Procs, OthersRest(p), RebuildSharp(p)
  PROVE  TreesInv'
<1> DEFINE v == proc[p].want
<1>1. /\ proc[p].at = "sharp" /\ v \in Versions /\ UNCHANGED <<config, server, cut>>
  BY Known DEF RebuildSharp, TaskFits, Fetching
<1>2. CASE Goto(p, "swap") /\ Whole(staging[v]) /\ staging' = [staging EXCEPT ![v].sharp = "native"]
  <2>1. Moves(p, "swap")
    BY <1>2, Known, GotoMoves DEF Steps
  <2>2. staging'[v] = [staging[v] EXCEPT !.sharp = "native"] /\ staging[v] \in Trees
    BY <1>1, <1>2, Known
  <2>3. Whole(staging'[v])
    BY <1>2, <2>2, NativeIsAsWhole DEF Whole
  <2>4. TreesFit(p)'
    BY <1>1, <2>1, <2>3 DEF TreesInv, TreesFit, Moves, Fetching, Starting
  <2> QED BY <1>1, <2>1, <2>4, CalmTrees DEF Moves
<1>3. CASE BuildFails(p)
  <2>1. Rests(p) \/ Reroutes(p)
    BY <1>3, Known, FailsReroutes
  <2>2. TreesFit(p)'
    BY <1>1, <2>1, ReroutedFits DEF TreesInv, Fetching
  <2> QED BY <1>1, <2>1, <2>2, CalmTrees DEF Rests, Reroutes
<1> QED BY <1>2, <1>3 DEF RebuildSharp, Whole

\* The directory in place is gone: it is not the recorded one, or setup replaces that, or
\* the recorded one is not of the recorded version.
LEMMA RemoveOldServerTrees ==
  ASSUME BuildTypes, TreesInv, NEW p \in Procs, OthersRest(p), RemoveOldServer(p)
  PROVE  TreesInv'
<1> DEFINE v == proc[p].want
<1>1. /\ proc[p].at = "swap" /\ v \in Versions /\ UNCHANGED <<config, staging, cut>>
      /\ server' = [server EXCEPT ![v] = Absent] /\ Moves(p, "rename")
      /\ server \in [Versions -> Trees] /\ config.dir \in Versions
  BY Known, GotoMoves DEF RemoveOldServer, TaskFits, Fetching, Steps, Configs
<1>2. (\A w \in Versions : Sound(w))'
  <2>1. ~Absent.main
    BY TreesAreTrees
  <2> QED BY <1>1, <2>1 DEF TreesInv, Sound
<1>3. TreesFit(p)'
  BY <1>1 DEF TreesInv, TreesFit, Moves, Fetching, Starting
<1>4. RecordedIsThere'
  <2>1. CASE config.dir = v
    <3>1. proc[p].goal = "setup" \/ config.dir # config.version
      BY <1>1, <2>1 DEF TreesInv, TreesFit, Fetching
    <3> QED BY <1>1, <2>1, <3>1 DEF RecordedIsThere, Replaced, Moves
  <2>2. CASE config.dir # v
    <3>1. server'[config.dir] = server[config.dir]
      BY <1>1, <2>2
    <3> QED BY <1>1, <3>1, RecordedIsWhole DEF RecordedIsThere, Replaced
  <2> QED BY <2>1, <2>2
<1> QED BY <1>1, <1>2, <1>3, <1>4, TreesFitAll DEF TreesInv, Moves

\* What takes its place is whole, and it is there.
LEMMA RenameStagingTrees ==
  ASSUME BuildTypes, TreesInv, NEW p \in Procs, OthersRest(p), RenameStaging(p)
  PROVE  TreesInv'
<1> DEFINE v == proc[p].want
<1>1. /\ proc[p].at = "rename" /\ v \in Versions /\ UNCHANGED config
      /\ Whole(staging[v]) /\ staging[v] # Absent
      /\ server \in [Versions -> Trees] /\ config.dir \in Versions
  <2>1. proc[p].at = "rename" /\ v \in Versions /\ UNCHANGED config /\ Whole(staging[v])
    BY Known DEF RenameStaging, TaskFits, Fetching, TreesInv, TreesFit
  <2>2. ~Whole(Absent)
    BY DEF Whole, Absent
  <2> QED BY <2>1, <2>2, Known DEF Configs
<1>2. server' = [server EXCEPT ![v] = staging[v]] /\ cut' = cut \ {v} /\ Moves(p, "stamp")
  BY <1>1, Known, GotoMoves DEF RenameStaging, Steps
<1>3. Whole(server'[v]) /\ \A w \in Versions \ {v} : server'[w] = server[w]
  BY <1>1, <1>2
<1>4. (\A w \in Versions : Sound(w))'
  BY <1>2, <1>3 DEF TreesInv, Sound
<1>5. TreesFit(p)'
  BY <1>1, <1>2, <1>3 DEF TreesInv, TreesFit, Moves, Fetching, Starting
<1>6. RecordedIsThere'
  <2>1. CASE config.dir = v
    BY <1>1, <1>3, <2>1 DEF RecordedIsThere
  <2>2. CASE config.dir # v
    <3>1. config.dir \in cut \/ Whole(server[config.dir])
      BY <2>2 DEF TreesInv, RecordedIsThere, Replaced, OthersRest, Resting
    <3> QED BY <1>1, <1>2, <1>3, <2>2, <3>1 DEF RecordedIsThere, Replaced
  <2> QED BY <2>1, <2>2
<1> QED BY <1>2, <1>4, <1>5, <1>6, TreesFitAll DEF TreesInv, Moves

\* Stamping does not touch the directories.
LEMMA FinalizeBuildDataTrees ==
  ASSUME BuildTypes, TreesInv, NEW p \in Procs, OthersRest(p), FinalizeBuildData(p)
  PROVE  TreesInv'
<1>1. /\ proc[p].at = "stamp" /\ UNCHANGED <<config, server, cut>> /\ Moves(p, "save")
  BY Known, GotoMoves DEF FinalizeBuildData, Steps
<1>2. TreesFit(p)'
  BY <1>1 DEF TreesInv, TreesFit, Moves, Fetching, Starting
<1> QED BY <1>1, <1>2, CalmTrees DEF Moves

\* What is recorded is the directory that the process has just found whole.
LEMMA SaveConfigTrees ==
  ASSUME BuildTypes, TreesInv, NEW p \in Procs, OthersRest(p), SaveConfig(p)
  PROVE  TreesInv'
<1> DEFINE v == proc[p].want
           c == [version |-> v, dir |-> v]
<1>1. /\ proc[p].at = "save" /\ v \in Versions /\ UNCHANGED <<server, worker, cut>>
      /\ Whole(server[v]) \/ v \in cut
  BY Known DEF SaveConfig, TaskFits, TreesInv, TreesFit
<1>2. config'.dir = v
  <2>1. proc[p].cfg # NoConfig => [proc[p].cfg EXCEPT !.dir = v].dir = v
    BY Known DEF Task, Configs
  <2>2. \/ \E x : config' = [version |-> x, dir |-> v]
        \/ proc[p].cfg # NoConfig /\ config' = [proc[p].cfg EXCEPT !.dir = v]
    <3>1. SaveConfig(p)
      OBVIOUS
    <3> QED BY <3>1, Zenon DEF SaveConfig
  <2>3. ASSUME NEW x, config' = [version |-> x, dir |-> v]
        PROVE  config'.dir = v
    BY <2>3
  <2>4. ASSUME proc[p].cfg # NoConfig, config' = [proc[p].cfg EXCEPT !.dir = v]
        PROVE  config'.dir = v
    BY <2>1, <2>4, Zenon
  <2> HIDE DEF v
  <2> QED BY <2>2, <2>3, <2>4, Zenon
<1>3. (\A w \in Versions : Sound(w))'
  BY <1>1 DEF TreesInv, Sound
<1>4. RecordedIsThere'
  BY <1>1, <1>2 DEF RecordedIsThere, Replaced
<1>5. TreesFit(p)' /\ Others(p)
  <2>1. CASE Finish(p)
    BY <2>1, Known, FinishRests, RestingFits DEF Rests, Idle
  <2>2. CASE proc' = [proc EXCEPT ![p] = [Idle EXCEPT !.at = "lock", !.force = TRUE]]
    BY <2>2, AwaitsLock, TurnsTo, RestingFits
  <2>3. CASE proc' = [proc EXCEPT ![p].at = "launch", ![p].cfg = c] /\ config' = c
    <3>1. c \in Configs
      BY <1>1 DEF Configs
    <3>2. proc'[p].at = "launch" /\ proc'[p].cfg = c /\ Others(p)
      BY <2>3, <3>1, LoadsConfig
    <3> QED BY <2>3, <3>2 DEF TreesFit, Fetching
  <2> QED BY <2>1, <2>2, <2>3 DEF SaveConfig
<1> QED BY <1>3, <1>4, <1>5, TreesFitAll DEF TreesInv

\* What is unpacked into place is whole, as an image holds it, or is known to lack its Sharp.
LEMMA ImportServerTrees ==
  ASSUME BuildTypes, TreesInv, NEW p \in Procs, OthersRest(p), ImportServer(p)
  PROVE  TreesInv'
<1> DEFINE v == proc[p].want
<1>1. /\ proc[p].at = "import" /\ v \in Versions /\ UNCHANGED config
      /\ Moves(p, "isharp") /\ config.dir \in Versions
  BY Known, GotoMoves DEF ImportServer, TaskFits, Importing, Steps, Configs
<1>2. /\ Whole(server'[v]) \/ v \in cut'
      /\ \A w \in Versions \ {v} : server'[w] = server[w] /\ (w \in cut => w \in cut')
  BY <1>1, Known, TreesAreTrees DEF ImportServer
<1>3. (\A w \in Versions : Sound(w))'
  BY <1>1, <1>2 DEF TreesInv, Sound
<1>4. TreesFit(p)'
  BY <1>1, <1>2 DEF TreesFit, Moves, Fetching, Starting
<1>5. RecordedIsThere'
  <2>1. config.dir \in cut \/ Whole(server[config.dir])
    BY <1>1, RecordedIsWhole
  <2> QED BY <1>1, <1>2, <2>1 DEF RecordedIsThere, Replaced
<1> QED BY <1>1, <1>3, <1>4, <1>5, TreesFitAll DEF TreesInv, Moves

\* A directory whose Sharp is made native is as whole as it was, and no other is touched.
LEMMA MadeNative ==
  ASSUME BuildTypes, NEW v \in Versions, UNCHANGED cut,
         \/ UNCHANGED server
         \/ server[v].sharp # "missing" /\ server' = [server EXCEPT ![v].sharp = "native"]
  PROVE  \A w \in Versions : /\ server'[w].main = server[w].main
                             /\ Whole(server'[w]) <=> Whole(server[w])
<1>1. CASE UNCHANGED server
  BY <1>1
<1>2. CASE server[v].sharp # "missing" /\ server' = [server EXCEPT ![v].sharp = "native"]
  <2>1. server[v] \in Trees /\ server'[v] = [server[v] EXCEPT !.sharp = "native"]
    BY <1>2, Known
  <2>2. \A w \in Versions \ {v} : server'[w] = server[w]
    BY <1>2, Known
  <2> QED BY <1>2, <2>1, <2>2, NativeIsAsWhole
<1> QED BY <1>1, <1>2

\* With every tree as whole as before, and nothing cut or recorded, the same directories are
\* sound and the recorded one is whole.
LEMMA AsWholeAsBefore ==
  ASSUME BuildTypes, TreesInv, NEW p \in Procs, OthersRest(p), proc[p].at # "rename",
         UNCHANGED <<config, cut>>,
         \A w \in Versions : /\ server'[w].main = server[w].main
                             /\ Whole(server'[w]) <=> Whole(server[w])
  PROVE  (\A w \in Versions : Sound(w))' /\ RecordedIsThere'
<1>1. config.dir \in Versions
  BY Known DEF Configs
<1>2. config.dir \in cut \/ Whole(server[config.dir])
  BY RecordedIsWhole
<1> QED BY <1>1, <1>2 DEF TreesInv, Sound, RecordedIsThere, Replaced

\* An import goes on with its tree, or is given up.
LEMMA ImportSharpTrees ==
  ASSUME BuildTypes, TreesInv, NEW p \in Procs, OthersRest(p), ImportSharp(p)
  PROVE  TreesInv'
<1> DEFINE v == proc[p].want
<1>1. proc[p].at = "isharp" /\ v \in Versions /\ UNCHANGED <<config, cut>>
  BY Known DEF ImportSharp, TaskFits, Importing
<1>2. \/ UNCHANGED server
      \/ server[v].sharp # "missing" /\ server' = [server EXCEPT ![v].sharp = "native"]
  BY DEF ImportSharp
<1>3. \A w \in Versions : /\ server'[w].main = server[w].main
                          /\ Whole(server'[w]) <=> Whole(server[w])
  BY <1>1, <1>2, MadeNative
<1>4. TreesFit(p)' /\ Others(p)
  <2>1. CASE Goto(p, "ibuild")
    <3>1. Moves(p, "ibuild")
      BY <2>1, Known, GotoMoves DEF Steps
    <3> QED BY <1>1, <1>3, <3>1 DEF TreesInv, TreesFit, Moves, Fetching, Starting
  <2>2. CASE Finish(p)
    BY <2>2, Known, FinishRests, RestingFits DEF Rests, Idle
  <2> QED BY <2>1, <2>2 DEF ImportSharp
<1> QED BY <1>1, <1>3, <1>4, AsWholeAsBefore, TreesFitAll DEF TreesInv

\* The build data of a tarball does not touch the directories.
LEMMA ImportBuildDataTrees ==
  ASSUME BuildTypes, TreesInv, NEW p \in Procs, OthersRest(p), ImportBuildData(p)
  PROVE  TreesInv'
<1>1. /\ proc[p].at = "ibuild" /\ UNCHANGED <<config, server, cut>> /\ Moves(p, "save")
  BY Known, GotoMoves DEF ImportBuildData, Steps
<1>2. TreesFit(p)'
  BY <1>1 DEF TreesInv, TreesFit, Moves, Fetching, Starting
<1> QED BY <1>1, <1>2, CalmTrees DEF Moves

\* A start has the configuration that is recorded, until it fetches another version.
LEMMA StartsTrees ==
  ASSUME BuildTypes, TreesInv, NEW p \in Procs, OthersRest(p), AcquireStartLock(p) \/ Preflight(p)
  PROVE  TreesInv'
<1>1. proc[p].at \in {"lock", "preflight"} /\ UNCHANGED <<config, server, cut>>
  BY DEF AcquireStartLock, Preflight
<1>2. CASE AcquireStartLock(p)
  <2>1. proc'[p].at = "preflight" /\ proc'[p].cfg = config /\ Others(p)
    BY <1>2, Known, LoadsConfig DEF AcquireStartLock
  <2>2. TreesFit(p)'
    BY <1>1, <2>1 DEF TreesFit, Fetching
  <2> QED BY <1>1, <2>1, <2>2, CalmTrees
<1>3. CASE proc[p].at = "preflight" /\ Goto(p, "launch")
  <2>1. Moves(p, "launch")
    BY <1>3, Known, GotoMoves DEF Steps
  <2>2. TreesFit(p)'
    BY <1>1, <1>3, <2>1 DEF TreesInv, TreesFit, Moves, Fetching, Starting
  <2> QED BY <1>1, <2>1, <2>2, CalmTrees DEF Moves
<1>4. CASE /\ proc[p].at = "preflight" /\ docker \notin {NoVersion, proc[p].cfg.version}
           /\ proc' = [proc EXCEPT ![p].at = "fetch", ![p].goal = "start",
                                   ![p].want = docker, ![p].via = "docker"]
  <2>1. docker \in Versions /\ proc[p].cfg = config
    BY <1>4 DEF BuildTypes, TypeOK, TreesInv, TreesFit, Starting
  <2>2. Begins(p, "fetch", "start", docker)
    BY <1>4, <2>1, FetchesFirst
  <2>3. TreesFit(p)'
    BY <1>1, <1>4, <2>1, <2>2 DEF TreesFit, Begins, Starting
  <2> QED BY <1>1, <2>2, <2>3, CalmTrees DEF Begins
<1>5. CASE EndStart(p)
  BY <1>1, <1>5, Known, EndRests, RestingFits, CalmTrees DEF Rests, Idle
<1> QED BY <1>2, <1>3, <1>4, <1>5 DEF Preflight

\* A launch works on the recorded directory, and leaves no worker beside it.
LEMMA LaunchTrees ==
  ASSUME BuildTypes, TreesInv, NEW p \in Procs, OthersRest(p), Launch(p)
  PROVE  TreesInv'
<1> DEFINE d == proc[p].cfg.dir
<1>1. proc[p].at = "launch" /\ d \in Versions /\ proc[p].cfg = config /\ UNCHANGED cut
  BY Known DEF Launch, TaskFits, Starting, Configs, TreesInv, TreesFit
<1>2. \/ UNCHANGED server
      \/ server[d].sharp # "missing" /\ server' = [server EXCEPT ![d].sharp = "native"]
  BY DEF Launch
<1>3. \A w \in Versions : /\ server'[w].main = server[w].main
                          /\ Whole(server'[w]) <=> Whole(server[w])
  BY <1>1, <1>2, MadeNative
<1>4. UNCHANGED config
  BY <1>1 DEF Launch
<1>5. TreesFit(p)' /\ Others(p)
  <2>1. CASE Goto(p, "spawn") /\ worker' = NoVersion
    <3>1. Moves(p, "spawn")
      BY <2>1, Known, GotoMoves DEF Steps
    <3> QED BY <1>1, <1>4, <2>1, <3>1 DEF TreesFit, Moves, Fetching, Starting
  <2>2. CASE EndStart(p)
    BY <2>2, Known, EndRests, RestingFits DEF Rests, Idle
  <2> QED BY <2>1, <2>2 DEF Launch
<1> QED BY <1>1, <1>3, <1>4, <1>5, AsWholeAsBefore, TreesFitAll DEF TreesInv

\* The worker that is spawned is one of the recorded directory.
LEMMA SpawnTrees ==
  ASSUME BuildTypes, TreesInv, NEW p \in Procs, OthersRest(p), Spawn(p)
  PROVE  TreesInv'
<1>1. /\ proc[p].at = "spawn" /\ proc[p].cfg = config /\ UNCHANGED <<config, server, cut>>
  BY DEF Spawn, TreesInv, TreesFit, Starting
<1>2. TreesFit(p)' /\ Others(p)
  <2>1. CASE Goto(p, "prune") /\ worker' = proc[p].cfg.dir
    <3>1. Moves(p, "prune")
      BY <2>1, Known, GotoMoves DEF Steps
    <3> QED BY <1>1, <2>1, <3>1 DEF TreesFit, Moves, Fetching, Starting
  <2>2. CASE EndStart(p)
    BY <2>2, Known, EndRests, RestingFits DEF Rests, Idle
  <2> QED BY <2>1, <2>2 DEF Spawn
<1> QED BY <1>1, <1>2, CalmTrees

\* A tree of which part is left has no more than the whole.
LEMMA TornIsNoMore ==
  ASSUME NEW t \in Trees, NEW u \in Torn(t)
  PROVE  u \in Trees
BY DEF Torn

\* Pruning spares the recorded directory, and what it leaves half removed is known to be so.
LEMMA PruneTrees ==
  ASSUME BuildTypes, TreesInv, NEW p \in Procs, OthersRest(p), PruneOldServerVersions(p)
  PROVE  TreesInv'
<1> DEFINE d == proc[p].cfg.dir
<1>1. /\ proc[p].at = "prune" /\ proc[p].cfg = config /\ d \in Versions /\ UNCHANGED config
  BY Known DEF PruneOldServerVersions, TaskFits, Starting, Configs, TreesInv, TreesFit
<1>2. /\ server'[d] = server[d] /\ cut \subseteq cut'
      /\ \A w \in Versions \ {d} : server'[w] = Absent \/ w \in cut'
  BY <1>1 DEF PruneOldServerVersions
<1>3. ~Absent.main
  BY TreesAreTrees
<1>4. (\A w \in Versions : Sound(w))'
  BY <1>2, <1>3 DEF TreesInv, Sound
<1>5. RecordedIsThere'
  <2>1. config.dir \in cut \/ Whole(server[config.dir])
    BY <1>1, RecordedIsWhole
  <2> QED BY <1>1, <1>2, <2>1 DEF RecordedIsThere, Replaced
<1>6. TreesFit(p)' /\ Others(p)
  BY Known, EndRests, RestingFits DEF PruneOldServerVersions, Rests, Idle
<1> QED BY <1>4, <1>5, <1>6, TreesFitAll DEF TreesInv

\* A process that is killed leaves half done what is known to be so.
LEMMA KillTrees ==
  ASSUME BuildTypes, TreesInv, NEW p \in Procs, OthersRest(p), Kill(p)
  PROVE  TreesInv'
<1> DEFINE v == proc[p].want
<1>1. UNCHANGED config /\ Rests(p) /\ config.dir \in Versions
  BY Known, EndRests DEF Kill, Configs
<1>2. /\ cut \subseteq cut'
      /\ \A w \in Versions : server'[w] = server[w] \/ w \in cut'
      /\ proc[p].at = "rename" => v \in cut'
  <2>1. CASE UNCHANGED <<server, cut>> /\ proc[p].at # "rename"
    BY <2>1
  <2>2. CASE \E w, t : /\ server' = [server EXCEPT ![w] = t] /\ cut' = cut \cup {w}
                       /\ proc[p].at # "rename"
    BY <2>2, Known
  <2>3. CASE UNCHANGED server /\ cut' = cut \cup {v}
    BY <2>3
  <2> QED BY <2>1, <2>2, <2>3 DEF Kill
<1>3. (\A w \in Versions : Sound(w))'
  BY <1>2 DEF TreesInv, Sound
<1>4. RecordedIsThere'
  <2>1. \/ config.dir \in cut \/ Whole(server[config.dir])
        \/ proc[p].at = "rename" /\ v = config.dir
    BY DEF TreesInv, RecordedIsThere, Replaced, OthersRest, Resting
  <2> QED BY <1>1, <1>2, <2>1 DEF RecordedIsThere, Replaced
<1>5. TreesFit(p)' /\ Others(p)
  BY <1>1, RestingFits DEF Rests, Idle
<1> QED BY <1>3, <1>4, <1>5, TreesFitAll DEF TreesInv

-----------------------------------------------------------------------------
(* One process at work, what it has done to the build data, and what it    *)
(* has done to the directories: together they are kept by every step.      *)

AloneInv == Alone /\ (stray \/ DataInv) /\ TreesInv

BuildInv == BuildTypes /\ (~beside => AloneInv)

\* They hold at first.
LEMMA BuildStarts ==
  ASSUME Init
  PROVE  BuildInv
<1>1. BuildTypes
  BY TypesStart
<1>2. \A p \in Procs : proc[p] = Idle /\ Resting(p)
  BY DEF Init, Resting, Idle
<1>3. DataClean(data)
  <2>1. immich \in Versions /\ data = Finalized(Filled(Empty, immich), immich)
    BY DEF Init
  <2> QED BY <2>1, FilledIsClean, FinalizedIsClean
<1>4. /\ \A v \in Versions : Sound(v)
      /\ RecordedIsThere
  BY DEF Init, Sound, Whole, Absent, RecordedIsThere
<1>5. \A p \in Procs : DataFits(proc[p], data) /\ TreesFit(p)
  BY <1>2 DEF DataFits, TreesFit, Idle, Fetching, Starting
<1> QED BY <1>1, <1>2, <1>3, <1>4, <1>5 DEF BuildInv, AloneInv, Alone, DataInv, TreesInv

\* A process at work was not resting, and touches no other.
LEMMA WorksAlone ==
  ASSUME BuildTypes, NEW p \in Procs, Work(p) \/ Kill(p)
  PROVE  ~Resting(p) /\ Others(p) /\ beside' = beside
<1>1. ~Resting(p)
  BY DEF Work, Kill, Resting, Fetch, CopyServer, WipeBuildData, FillBuildData, RebuildSharp,
         RemoveOldServer, RenameStaging, FinalizeBuildData, SaveConfig, ImportServer,
         ImportSharp, ImportBuildData, AcquireStartLock, Preflight, Launch, Spawn,
         PruneOldServerVersions
<1>2. beside' = beside
  BY DEF world, Work, Kill, Fetch, CopyServer, WipeBuildData, FillBuildData, RebuildSharp,
         RemoveOldServer, RenameStaging, FinalizeBuildData, SaveConfig, ImportServer,
         ImportSharp, ImportBuildData, AcquireStartLock, Preflight, Launch, Spawn,
         PruneOldServerVersions
<1>3. Others(p)
  <2>1. CASE \E step \in Steps : Goto(p, step)
    BY <2>1, Known, GotoMoves DEF Moves
  <2>2. CASE Finish(p) \/ EndStart(p)
    BY <2>2, Known, FinishRests DEF EndStart, Rests
  <2>3. CASE BuildFails(p)
    BY <2>3, Known, FailsReroutes DEF Rests, Reroutes
  <2>4. CASE SaveConfig(p) \/ AcquireStartLock(p) \/ Preflight(p)
    BY <2>4, Known DEF SaveConfig, AcquireStartLock, Preflight, Goto, Finish, EndStart,
                       Others, ProcTypes
  <2> QED BY <2>1, <2>2, <2>3, <2>4
          DEF Work, Kill, Fetch, CopyServer, WipeBuildData, FillBuildData, RebuildSharp,
              RemoveOldServer, RenameStaging, FinalizeBuildData, ImportServer, ImportSharp,
              ImportBuildData, Launch, Spawn, PruneOldServerVersions, Steps
<1> QED BY <1>1, <1>2, <1>3

\* A process at work alone keeps them.
LEMMA WorkKeeps ==
  ASSUME BuildInv, NEW p \in Procs, Work(p) \/ Kill(p)
  PROVE  BuildInv'
<1>1. ~Resting(p) /\ Others(p) /\ beside' = beside
  BY WorksAlone DEF BuildInv
<1>2. BuildTypes /\ BuildTypes'
  BY TypesKept DEF BuildInv, Next
<1>3. ASSUME ~beside
      PROVE  AloneInv'
  <2>1. (stray \/ DataInv) /\ TreesInv /\ OthersRest(p)
    BY <1>1, <1>3, AtWorkAlone DEF BuildInv, AloneInv
  <2>2. (stray \/ DataInv)'
    <3>1. CASE ~stray /\ ~stray'
      BY <1>2, <2>1, <3>1, FetchClean, CopyServerClean, WipeBuildDataClean, FillBuildDataClean,
         ReplacingClean, FinalizeBuildDataClean, ImportBuildDataClean, StartingClean, KillClean
      DEF Work
    <3>2. CASE stray /\ ~stray'
      BY <1>2, <2>1, <3>2, StrayEnds
    <3> QED BY <3>1, <3>2
  <2>3. TreesInv'
    BY <1>2, <2>1, FetchingTrees, RebuildSharpTrees, RemoveOldServerTrees, RenameStagingTrees,
       FinalizeBuildDataTrees, SaveConfigTrees, ImportServerTrees, ImportSharpTrees,
       ImportBuildDataTrees, StartsTrees, LaunchTrees, SpawnTrees, PruneTrees, KillTrees
    DEF Work
  <2> QED BY <1>1, <2>1, <2>2, <2>3, StaysAlone DEF AloneInv
<1> QED BY <1>1, <1>2, <1>3 DEF BuildInv

\* With nobody beside it, what begins, begins while the other process rests.
LEMMA BeginsAlone ==
  ASSUME ~beside, WatchBegins \/ UserBegins
  PROVE  IF WatchBegins THEN Resting("watch") /\ OthersRest("watch")
                        ELSE Resting("user") /\ OthersRest("user")
BY DEF WatchBegins, UserBegins, FollowServerVersion, CrashCheck, UserStart, UserUpdate,
       UserSetupLocal, UserSetupRemote, UserImport, Undisturbed, OthersRest

\* A process that begins to fetch what is not recorded, or a setup, an import or a start, needs
\* no tree and relies on no data yet.
LEMMA BeginsKeep ==
  ASSUME BuildInv, WatchBegins \/ UserBegins
  PROVE  BuildInv'
<1>1. BuildTypes' /\ UNCHANGED <<config, server, staging, data, cut, stray, beside>>
  BY BeginsTypes DEF BuildInv, marks, world
<1>2. ASSUME ~beside
      PROVE  AloneInv'
  <2>1. PICK p \in Procs :
          /\ OthersRest(p) /\ Resting(p) /\ Others(p)
          /\ \/ proc'[p].at \in {"lock", "import"}
             \/ proc'[p].at = "fetch" /\ proc'[p].goal = "setup"
             \/ proc'[p].at = "fetch" /\ proc'[p].want # config.version
    <3>1. CASE WatchBegins
      BY <1>2, <3>1, BeginsAlone, WatcherBegins DEF BuildInv, Begins, Procs
    <3>2. CASE ~WatchBegins
      BY <1>2, <3>2, BeginsAlone, UserBeginsSo DEF BuildInv, Begins, Procs
    <3> QED BY <3>1, <3>2
  <2>2. stray \/ DataInv
    BY <1>2 DEF BuildInv, AloneInv
  <2>3. (stray \/ DataInv)'
    BY <1>1, <2>1, <2>2, CalmSteps DEF DataInv, Relying
  <2>4. TreesInv'
    <3>1. TreesFit(p)'
      BY <1>1, <2>1 DEF TreesFit, Fetching, Starting
    <3> QED BY <1>1, <1>2, <2>1, <3>1, CalmTrees DEF BuildInv, AloneInv, Resting
  <2> QED BY <2>1, <2>3, <2>4, StaysAlone DEF AloneInv
<1> QED BY <1>1, <1>2 DEF BuildInv

\* What happens around the processes leaves what they work on alone.
LEMMA ElsewhereKeeps ==
  ASSUME BuildInv, \/ Elsewhere
                   \/ UNCHANGED vars
  PROVE  BuildInv'
<1>1. /\ BuildTypes' /\ UNCHANGED <<config, server, staging, data, proc, cut, stray, beside>>
      /\ worker' \in {worker, NoVersion}
  <2>1. CASE Elsewhere
    BY <2>1, ElsewhereTypes DEF BuildInv, marks
  <2>2. CASE UNCHANGED vars
    BY <2>2, TypesKept DEF BuildInv, vars, marks, world
  <2> QED BY <2>1, <2>2
<1>2. AloneInv => Alone' /\ (stray \/ DataInv)'
  BY <1>1 DEF AloneInv, Alone, Resting, DataInv
<1>3. AloneInv => TreesInv'
  BY <1>1 DEF AloneInv, TreesInv, Sound, TreesFit, RecordedIsThere, Replaced
<1> QED BY <1>1, <1>2, <1>3 DEF BuildInv, AloneInv

\* While one process is at work at a time, it finds what it has left: cleared build data where
\* it fills it, a whole tree where it replaces one, the recorded configuration where it starts.
THEOREM BuildIsKept == Spec => []BuildInv
<1>1. Init => BuildInv
  BY BuildStarts
<1>2. BuildInv /\ [Next]_vars => BuildInv'
  <2> SUFFICES ASSUME BuildInv, [Next]_vars
               PROVE  BuildInv'
    OBVIOUS
  <2>1. CASE \E p \in Procs : Work(p) \/ Kill(p)
    BY <2>1, WorkKeeps
  <2>2. CASE WatchBegins \/ UserBegins
    BY <2>2, BeginsKeep
  <2>3. CASE Elsewhere \/ UNCHANGED vars
    BY <2>3, ElsewhereKeeps
  <2> QED BY <2>1, <2>2, <2>3, StepsAre
<1> QED BY <1>1, <1>2, PTL DEF Spec

\* With one process at work at a time, the directory that config.json names holds a whole build,
\* whatever was fetched, imported, pruned or killed before.
THEOREM RecordedBuildIsThere == Spec => []ConfigNamesABuild
<1>1. BuildInv => ConfigNamesABuild
  BY DEF BuildInv, AloneInv, TreesInv, ConfigNamesABuild
<1> QED BY <1>1, BuildIsKept, PTL

\* With one process at work at a time, build data that is taken for complete has the plugin of
\* the version it is taken for, in the layout that this version looks at, unless it was filled
\* with another release's than was wanted.
THEOREM BuildDataServesItsVersion == Spec => []CurrentHasItsPlugin
<1>1. BuildInv => CurrentHasItsPlugin
  <2> SUFFICES ASSUME BuildInv, ~beside, ~stray,
                      NEW v \in Versions, CachedServerIfCurrent(v), NeedsPlugin(v)
               PROVE  HasLayout(data, Layout[v])
    BY DEF CurrentHasItsPlugin
  <2>1. data \in Data /\ DataClean(data)
    BY Known DEF BuildInv, AloneInv, DataInv
  <2>2. Adopted(data, v).stamp = v /\ BuildHasCorePlugin(data)
    BY DEF CachedServerIfCurrent, BuildDataReady
  <2>3. DataClean(Adopted(data, v)) /\ Adopted(data, v).plugin = data.plugin
    BY <2>1, AdoptedIsClean, DataIsKept
  <2> QED BY <2>2, <2>3 DEF DataClean, HasLayout, BuildHasCorePlugin
<1> QED BY <1>1, BuildIsKept, PTL

-----------------------------------------------------------------------------
(***************************************************************************)
(* What the start lock keeps apart, with the watcher and a command at work *)
(* beside each other. From the moment it has loaded its configuration, a   *)
(* start holds the lock, through the fetch it may make of its own, or it    *)
(* went on without. So a worker that another start spawned between the     *)
(* spawn and the prune of this one tells that one of them had no lock.      *)
(***************************************************************************)
InStart(t) == \/ t.at \in Starting
              \/ t.goal = "start" /\ t.at \in Fetching \cup {"save"}

LockInv ==
  /\ \A p \in Procs : InStart(proc[p]) => lock = p \/ p \in unlocked
  /\ \A p \in Procs : proc[p].at = "prune" => unlocked # {} \/ worker \in {NoVersion, proc[p].cfg.dir}

\* The process neither takes the lock nor gives it up, and is in a start only if it was.
KeepsLock(p) == UNCHANGED <<lock, unlocked>> /\ (InStart(proc'[p]) => InStart(proc[p]))

\* The process is done, and the lock not its own any more.
LeavesLock(p) == /\ UNCHANGED unlocked /\ ~InStart(proc'[p])
                 /\ lock' = IF lock = p THEN "free" ELSE lock

\* A process at work that neither acquires the lock nor spawns a worker keeps or leaves the lock,
\* and comes to no prune.
Quiet(p) == /\ KeepsLock(p) \/ LeavesLock(p)
            /\ worker' \in {worker, NoVersion} /\ proc'[p].at # "prune"

\* Who ends its start leaves the lock.
LEMMA EndLeaves ==
  ASSUME BuildTypes, NEW p \in Procs, EndStart(p) \/ (Finish(p) /\ UNCHANGED lock), UNCHANGED unlocked
  PROVE  (KeepsLock(p) \/ LeavesLock(p)) /\ proc'[p].at # "prune"
<1>1. proc'[p] = Idle
  BY Known, FinishRests DEF EndStart, Rests
<1>2. ~InStart(proc'[p]) /\ proc'[p].at # "prune"
  BY <1>1 DEF InStart, Idle, Starting, Fetching
<1> QED BY <1>2 DEF EndStart, KeepsLock, LeavesLock

\* Who goes on within its fetch, its import or its start keeps it.
LEMMA StepKeeps ==
  ASSUME BuildTypes, NEW p \in Procs, NEW step \in Steps \ {"prune"}, Goto(p, step), UNCHANGED <<lock, unlocked>>,
         \/ proc[p].at \in Fetching /\ step \in Fetching \cup {"save"}
         \/ proc[p].at \in Importing /\ step \in Importing \cup {"save"}
         \/ proc[p].at \in Starting
  PROVE  KeepsLock(p) /\ proc'[p].at # "prune"
<1>1. Moves(p, step)
  BY Known, GotoMoves
<1>2. proc[p].at \in Importing => proc[p].goal # "start"
  BY Known DEF TaskFits
<1> QED BY <1>1, <1>2 DEF KeepsLock, InStart, Moves, Fetching, Importing, Starting

\* Who fails to fetch keeps the lock to fetch again, or leaves it.
LEMMA FailureKeeps ==
  ASSUME BuildTypes, NEW p \in Procs, proc[p].at \in Fetching, BuildFails(p), UNCHANGED unlocked
  PROVE  (KeepsLock(p) \/ LeavesLock(p)) /\ proc'[p].at # "prune"
<1>1. CASE ~FallsBack(p)
  BY <1>1, EndLeaves DEF BuildFails
<1>2. CASE FallsBack(p)
  <2>1. Rests(p) \/ Reroutes(p)
    BY Known, FailsReroutes
  <2>2. UNCHANGED lock
    BY <1>2 DEF BuildFails
  <2> QED BY <2>1, <2>2 DEF Rests, Reroutes, Idle, KeepsLock, InStart, Starting, Fetching
<1> QED BY <1>1, <1>2

\* The steps of a fetch are quiet.
LEMMA FetchIsQuiet ==
  ASSUME BuildTypes, NEW p \in Procs,
         \/ Fetch(p) \/ CopyServer(p) \/ WipeBuildData(p) \/ FillBuildData(p) \/ RebuildSharp(p)
         \/ RemoveOldServer(p) \/ RenameStaging(p) \/ FinalizeBuildData(p)
  PROVE  Quiet(p)
<1>1. proc[p].at \in Fetching /\ UNCHANGED <<worker, unlocked>>
  BY DEF Fetch, CopyServer, WipeBuildData, FillBuildData, RebuildSharp, RemoveOldServer,
         RenameStaging, FinalizeBuildData, Fetching, marks
<1>2. CASE \E step \in (Fetching \cup {"save"}) : Goto(p, step) /\ UNCHANGED lock
  BY <1>1, <1>2, StepKeeps DEF Quiet, Fetching, Steps
<1>3. CASE BuildFails(p)
  BY <1>1, <1>3, FailureKeeps DEF Quiet
<1> QED BY <1>2, <1>3 DEF Fetch, CopyServer, WipeBuildData, FillBuildData, RebuildSharp,
         RemoveOldServer, RenameStaging, FinalizeBuildData, Fetching

\* So is recording: a start that has fetched is in the start still.
LEMMA SaveIsQuiet ==
  ASSUME BuildTypes, NEW p \in Procs, SaveConfig(p)
  PROVE  Quiet(p)
<1>1. proc[p].at = "save" /\ proc[p].want \in Versions /\ UNCHANGED <<worker, lock, unlocked>>
  BY Known DEF SaveConfig, TaskFits, marks
<1>2. CASE Finish(p)
  BY <1>1, <1>2, EndLeaves DEF Quiet
<1>3. CASE proc' = [proc EXCEPT ![p] = [Idle EXCEPT !.at = "lock", !.force = TRUE]]
  <2>1. proc'[p].at = "lock" /\ proc'[p].goal = "none"
    BY <1>3, Known, IdleIsATask DEF ProcTypes, Steps
  <2> QED BY <1>1, <2>1 DEF Quiet, KeepsLock, InStart, Starting, Fetching
<1>4. CASE /\ proc[p].goal = "start"
           /\ proc' = [proc EXCEPT ![p].at = "launch",
                                   ![p].cfg = [version |-> proc[p].want, dir |-> proc[p].want]]
  <2>1. [version |-> proc[p].want, dir |-> proc[p].want] \in Configs
    BY <1>1 DEF Configs
  <2>2. proc'[p].at = "launch"
    BY <1>4, <2>1, LoadsConfig
  <2> QED BY <1>1, <1>4, <2>2 DEF Quiet, KeepsLock, InStart
<1> QED BY <1>2, <1>3, <1>4 DEF SaveConfig

\* So are the steps of an import.
LEMMA ImportIsQuiet ==
  ASSUME BuildTypes, NEW p \in Procs, ImportServer(p) \/ ImportSharp(p) \/ ImportBuildData(p)
  PROVE  Quiet(p)
<1>1. proc[p].at \in Importing /\ UNCHANGED <<worker, lock, unlocked>>
  BY DEF ImportServer, ImportSharp, ImportBuildData, Importing, marks
<1>2. CASE \E step \in {"isharp", "ibuild", "save"} : Goto(p, step)
  BY <1>1, <1>2, StepKeeps DEF Quiet, Importing, Steps
<1>3. CASE Finish(p)
  BY <1>1, <1>3, EndLeaves DEF Quiet
<1> QED BY <1>2, <1>3 DEF ImportServer, ImportSharp, ImportBuildData

\* So are the steps of a start, but for the lock it takes and the worker it spawns, and being
\* killed.
LEMMA StartIsQuiet ==
  ASSUME BuildTypes, NEW p \in Procs,
         Preflight(p) \/ Launch(p) \/ (Spawn(p) /\ EndStart(p)) \/ PruneOldServerVersions(p) \/ Kill(p)
  PROVE  Quiet(p)
<1>1. UNCHANGED unlocked
  BY DEF Preflight, Launch, Spawn, PruneOldServerVersions, Kill, marks
<1>2. CASE Goto(p, "launch") /\ Preflight(p) /\ UNCHANGED lock
  BY <1>1, <1>2, StepKeeps DEF Preflight, Quiet, Starting, Steps
<1>3. CASE /\ Preflight(p) /\ docker # NoVersion /\ UNCHANGED lock
           /\ proc' = [proc EXCEPT ![p].at = "fetch", ![p].goal = "start",
                                   ![p].want = docker, ![p].via = "docker"]
  <2>1. docker \in Versions /\ proc[p].at \in Starting
    BY <1>3 DEF BuildTypes, TypeOK, Preflight, Starting
  <2>2. Begins(p, "fetch", "start", docker)
    BY <1>3, <2>1, FetchesFirst
  <2> QED BY <1>1, <1>3, <2>1, <2>2 DEF Preflight, Quiet, KeepsLock, InStart, Begins
<1>4. CASE Goto(p, "spawn") /\ Launch(p) /\ UNCHANGED lock
  BY <1>1, <1>4, StepKeeps DEF Launch, Quiet, Starting, Steps
<1>5. CASE EndStart(p)
  <2>1. worker' \in {worker, NoVersion}
    <3>1. CASE Spawn(p) /\ Goto(p, "prune")
      <4>1. proc'[p].at = "prune" /\ proc'[p] = Idle
        BY <1>5, <3>1, Known, GotoMoves, EndRests DEF Moves, Rests, Steps
      <4> QED BY <4>1 DEF Idle
    <3> QED BY <1>5, <3>1 DEF Preflight, Launch, Spawn, PruneOldServerVersions, Kill
  <2> QED BY <1>1, <1>5, <2>1, EndLeaves DEF Quiet
<1> QED BY <1>2, <1>3, <1>4, <1>5 DEF Preflight, Launch, Spawn, PruneOldServerVersions, Kill

\* A quiet step keeps what the lock keeps apart.
LEMMA QuietKeepsLock ==
  ASSUME BuildTypes, LockInv, NEW p \in Procs, Others(p), Quiet(p)
  PROVE  LockInv'
<1>1. \A q \in Procs : InStart(proc'[q]) => lock' = q \/ q \in unlocked'
  BY DEF LockInv, Others, Quiet, KeepsLock, LeavesLock
<1>2. \A q \in Procs : proc'[q].at = "prune" =>
        unlocked' # {} \/ worker' \in {NoVersion, proc'[q].cfg.dir}
  BY DEF LockInv, Others, Quiet, KeepsLock, LeavesLock
<1> QED BY <1>1, <1>2 DEF LockInv

\* Whoever takes the lock finds no start at work that has it.
LEMMA AcquireKeepsLock ==
  ASSUME BuildTypes, LockInv, NEW p \in Procs, AcquireStartLock(p)
  PROVE  LockInv'
<1>1. proc'[p].at = "preflight" /\ Others(p) /\ worker' = worker
  BY Known, LoadsConfig DEF AcquireStartLock
<1>2. \A q \in Procs : InStart(proc[q]) /\ q # p => q \in unlocked' \/ (lock = q /\ lock' = lock)
  BY DEF LockInv, AcquireStartLock, Procs
<1>3. lock' = p \/ p \in unlocked'
  BY DEF AcquireStartLock
<1>4. \A q \in Procs : InStart(proc'[q]) => lock' = q \/ q \in unlocked'
  BY <1>1, <1>2, <1>3 DEF Others
<1>5. ASSUME NEW q \in Procs, proc'[q].at = "prune"
      PROVE  unlocked' # {} \/ worker' \in {NoVersion, proc'[q].cfg.dir}
  <2>1. q # p /\ proc'[q] = proc[q] /\ InStart(proc[q])
    BY <1>1, <1>5 DEF Others, InStart, Starting
  <2>2. CASE q \in unlocked'
    BY <2>2
  <2>3. CASE lock = q /\ lock' = lock
    <3>1. unlocked' = unlocked \cup {p}
      BY <2>3 DEF AcquireStartLock, Procs
    <3> QED BY <3>1
  <2> QED BY <1>2, <2>1, <2>2, <2>3
<1> QED BY <1>4, <1>5 DEF LockInv

\* A worker that is spawned is of the configuration of the start that spawned it; a prune that
\* another start has still to do is that of a start without the lock, or beside one.
LEMMA SpawnKeepsLock ==
  ASSUME BuildTypes, LockInv, NEW p \in Procs, Spawn(p), Goto(p, "prune")
  PROVE  LockInv'
<1>1. Moves(p, "prune") /\ UNCHANGED unlocked /\ proc[p].at = "spawn"
  BY Known, GotoMoves DEF Spawn, Steps, marks
<1>2. CASE EndStart(p)
  BY <1>1, <1>2, Known, EndRests DEF Rests, Idle, Moves
<1>3. CASE worker' = proc[p].cfg.dir /\ UNCHANGED lock
  <2>1. \A q \in Procs : InStart(proc'[q]) => lock' = q \/ q \in unlocked'
    BY <1>1, <1>3 DEF LockInv, Moves, Others, InStart, Starting
  <2>2. ASSUME NEW q \in Procs \ {p}, proc'[q].at = "prune"
        PROVE  unlocked' # {}
    <3>1. InStart(proc[q]) /\ InStart(proc[p])
      BY <1>1, <2>2 DEF Moves, Others, InStart, Starting
    <3> QED BY <1>1, <3>1 DEF LockInv
  <2>3. worker' = proc'[p].cfg.dir
    BY <1>1, <1>3 DEF Moves
  <2> QED BY <2>1, <2>2, <2>3 DEF LockInv
<1> QED BY <1>2, <1>3 DEF Spawn

\* Every step keeps it: what begins waits for the lock, or is no start.
LEMMA LockKept ==
  ASSUME BuildTypes, LockInv, [Next]_vars
  PROVE  LockInv'
<1>1. ASSUME NEW p \in Procs, Work(p) \/ Kill(p)
      PROVE  LockInv'
  <2>1. Others(p)
    BY <1>1, WorksAlone
  <2>2. CASE Spawn(p)
    BY <2>1, <2>2, SpawnKeepsLock, StartIsQuiet, QuietKeepsLock DEF Spawn
  <2>3. CASE AcquireStartLock(p)
    BY <2>3, AcquireKeepsLock
  <2> QED BY <1>1, <2>1, <2>2, <2>3, FetchIsQuiet, SaveIsQuiet, ImportIsQuiet, StartIsQuiet,
             QuietKeepsLock DEF Work
<1>2. CASE WatchBegins \/ UserBegins
  <2>1. UNCHANGED <<lock, unlocked>> /\ worker' \in {worker, NoVersion}
    BY <1>2, BeginsTypes DEF marks
  <2>2. PICK p \in Procs : Others(p) /\ ~InStart(proc'[p])
    <3>1. CASE WatchBegins
      BY <3>1, WatcherBegins DEF Begins, InStart, Starting, Fetching, Procs
    <3>2. CASE UserBegins
      BY <3>2, UserBeginsSo DEF Begins, InStart, Starting, Fetching, Procs
    <3> QED BY <1>2, <3>1, <3>2
  <2>3. proc'[p].at # "prune"
    BY <2>2 DEF InStart, Starting
  <2> QED BY <2>1, <2>2, <2>3, QuietKeepsLock DEF Quiet, KeepsLock
<1>3. CASE Elsewhere
  BY <1>3, ElsewhereTypes DEF LockInv, marks
<1>4. CASE UNCHANGED vars
  BY <1>4 DEF LockInv, vars, marks
<1> QED BY <1>1, <1>2, <1>3, <1>4, StepsAre

\* While no start goes on without the start lock, none takes the directory of the worker that
\* runs, whatever is fetched, recorded, started and stopped between its spawn and its prune.
THEOREM WorkerAndItsBuild == Spec => WorkerKeepsItsBuild
<1>1. Init => LockInv
  <2>1. Init => \A p \in Procs : proc[p] = Idle
    BY DEF Init
  <2> QED BY <2>1 DEF LockInv, InStart, Idle, Starting, Fetching
<1>2. ASSUME BuildTypes, LockInv, NEW p \in Procs, PruneOldServerVersions(p), worker # NoVersion
      PROVE  server'[worker] = server[worker] \/ unlocked # {}
  <2>1. proc[p].at = "prune" /\ proc[p].cfg.dir \in Versions
    BY <1>2, Known DEF PruneOldServerVersions, TaskFits, Starting, Configs
  <2>2. unlocked # {} \/ worker = proc[p].cfg.dir
    BY <1>2, <2>1 DEF LockInv
  <2> QED BY <1>2, <2>1, <2>2 DEF PruneOldServerVersions
<1>3. BuildTypes /\ LockInv /\ [Next]_vars =>
        [\A p \in Procs : PruneOldServerVersions(p) /\ worker # NoVersion
                            => server'[worker] = server[worker] \/ unlocked # {}]_vars
  BY <1>2
<1>4. BuildTypes /\ LockInv /\ [Next]_vars => LockInv'
  BY LockKept
<1> QED BY <1>1, <1>3, <1>4, BuildInvariant, PTL DEF Spec, WorkerKeepsItsBuild
===============================================================================
