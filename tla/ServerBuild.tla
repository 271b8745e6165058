------------------------------ MODULE ServerBuild ------------------------------
(***************************************************************************)
(* Where the worker's code comes from: server/<version>, fetched through a  *)
(* staging directory out of a container on this Mac or from the registry,   *)
(* the one build-data directory that all versions share, its stamp, and the *)
(* version config.json records.  The watcher follows the version of the     *)
(* authoritative Immich; start, update and setup do parts of the same from  *)
(* a process of their own.  Any of them may be killed at any step.          *)
(*                                                                         *)
(* All of it is in __main__.py.  A start is serialised with other starts by *)
(* the start lock, as long as it can be had; update, setup and the fetching *)
(* of a follow are not.                                                    *)
(***************************************************************************)
EXTENDS Naturals, FiniteSets

CONSTANTS
  Versions,      \* releases of Immich
  Layout,        \* Layout[v]: the directory of v's core plugin, or "none" (before 2.7)
  NoVersion,
  Commands,      \* which commands the user runs
  MaxMoves,      \* bound: how often the authoritative Immich changes version
  MaxFaults,     \* bound: steps that fail and processes that are killed
  MaxBeside,     \* bound: of moves, and of faults, where both processes may be at work
  MaxCommands    \* bound: commands the user runs

Layouts == {"corePlugin", "plugins"}

ASSUME VersionsAssumption == Versions # {} /\ NoVersion \notin Versions
ASSUME LayoutAssumption   == Layout \in [Versions -> Layouts \cup {"none"}]
ASSUME CommandsAssumption == Commands \subseteq {"start", "update", "setup", "import", "stop"}
ASSUME BoundsAssumption   == /\ {MaxMoves, MaxFaults, MaxBeside, MaxCommands} \subseteq Nat
                             /\ MaxBeside <= MaxMoves /\ MaxBeside <= MaxFaults

(***************************************************************************)
(* A server tree: whether dist/main.js is there, and which Sharp its        *)
(* node_modules hold.  A tree that is torn has one and not the other.  Which *)
(* release a tree is of, its directory says and nothing in it.              *)
(***************************************************************************)
Trees  == [main : BOOLEAN, sharp : {"missing", "linux", "native"}]
Absent == [main |-> FALSE, sharp |-> "missing"]
Linux  == [main |-> TRUE, sharp |-> "linux"]      \* as the image holds it
Whole(tree) == tree.main /\ tree.sharp # "missing"

\* build-data: the layouts in which it has a whole core plugin, and its stamp. Nothing looks at
\* the rest of it, nor at which release a plugin came with.
Data  == [plugin : SUBSET Layouts, stamp : Versions \cup {NoVersion}]
Empty == [plugin |-> {}, stamp |-> NoVersion]

Procs == {"watch", "user"}

VARIABLES
  immich,    \* the version the authoritative Immich runs
  split,     \* immich_url is set: that Immich is not the container on this Mac
  docker,    \* version of the Immich container on this Mac, or NoVersion
  beside,    \* whether a command may be run, or the watcher act, beside the other at work
  config,    \* what config.json records: [version, dir]
  server,    \* server/<version>
  staging,   \* server/<version>.staging
  data,      \* build-data
  worker,    \* whose server directory the running worker was started in, or NoVersion
  proc,      \* what each process is at
  lock,      \* which process holds the start lock
  backoff,   \* follow_retry_at has not passed
  cut,       \* history: versions whose directory was left half removed or half written
  stray,     \* history: build-data was filled with another release's than it is taken for
  unlocked,  \* history: which processes made their last start without the start lock
  left       \* what remains of the bounds

world == <<immich, split, docker, beside>>
marks == <<stray, unlocked>>
vars  == <<world, config, server, staging, data, worker, proc, lock, backoff, cut, marks, left>>

(***************************************************************************)
(* A process: the step it is at, why it fetches (to "follow", "update" or   *)
(* "setup", or from within a "start"), what it fetches and from where, the  *)
(* configuration it has loaded, and whether its start is forced.            *)
(***************************************************************************)
Steps == {"idle", "fetch", "copy", "wipe", "fill", "sharp", "swap", "rename",
          "stamp", "save", "lock", "preflight", "launch", "spawn", "prune", "import", "isharp", "ibuild"}
Goals == {"none", "follow", "update", "setup", "start", "import"}

NoConfig == [version |-> NoVersion, dir |-> NoVersion]
Configs  == [version : Versions, dir : Versions]

Idle == [at |-> "idle", goal |-> "none", want |-> NoVersion, via |-> "registry",
         cfg |-> NoConfig, force |-> FALSE]

TypeOK ==
  /\ immich \in Versions /\ split \in BOOLEAN /\ docker \in Versions \cup {NoVersion}
  /\ beside \in BOOLEAN
  /\ config \in Configs
  /\ server \in [Versions -> Trees] /\ staging \in [Versions -> Trees]
  /\ data \in Data
  /\ worker \in Versions \cup {NoVersion}
  /\ proc \in [Procs -> [at : Steps, goal : Goals, want : Versions \cup {NoVersion},
                         via : {"docker", "registry"}, cfg : Configs \cup {NoConfig},
                         force : BOOLEAN]]
  /\ lock \in Procs \cup {"free"}
  /\ backoff \in BOOLEAN /\ cut \subseteq Versions
  /\ stray \in BOOLEAN /\ unlocked \subseteq Procs
  /\ left \in [moves : 0..MaxMoves, faults : 0..MaxFaults, commands : 0..MaxCommands]

Fault   == left.faults > 0 /\ left' = [left EXCEPT !.faults = @ - 1]
NoFault == left' = left
Command(c) == /\ c \in Commands
              /\ left.commands > 0 /\ left' = [left EXCEPT !.commands = @ - 1]

Goto(p, step) == proc' = [proc EXCEPT ![p].at = step]
Finish(p)     == proc' = [proc EXCEPT ![p] = Idle]
EndStart(p)   == Finish(p) /\ lock' = (IF lock = p THEN "free" ELSE lock)

-----------------------------------------------------------------------------
(* Build data: what is complete, what is taken for complete.                *)

NeedsPlugin(v) == Layout[v] # "none"

HasLayout(d, l) == l \in d.plugin

BuildHasCorePlugin(d) == \E l \in Layouts : HasLayout(d, l)

\* Mutant of BuildHasCorePluginFor: the plugin of either layout will do.
BuildHasCorePluginOfAny(d, v) == BuildHasCorePlugin(d)

BuildHasCorePluginFor(d, v) ==
  HasLayout(d, IF Layout[v] = "plugins" THEN "plugins" ELSE "corePlugin")

\* _build_data_ready adopts data nobody stamped.
Adopted(d, v) ==
  IF NeedsPlugin(v) /\ d.stamp = NoVersion /\ BuildHasCorePluginFor(d, v)
  THEN [d EXCEPT !.stamp = v] ELSE d

BuildDataReady(d, v) == Adopted(d, v).stamp = v /\ BuildHasCorePlugin(d)

CachedServerIfCurrent(v) ==
  server[v].main /\ (NeedsPlugin(v) => BuildDataReady(data, v))

Finalized(d, v) ==
  IF NeedsPlugin(v) /\ ~BuildHasCorePlugin(d) THEN d ELSE [d EXCEPT !.stamp = v]

-----------------------------------------------------------------------------
(***************************************************************************)
(* Fetching a build.  From a container: staging, then build-data, then      *)
(* Sharp.  From the registry: both directories are cleared, then the layers *)
(* come in by size, and a layer that fails is skipped.                      *)
(***************************************************************************)
FallsBack(p) == /\ proc[p].via = "docker"
                /\ \/ proc[p].goal \in {"follow", "update"}
                   \/ proc[p].goal = "setup" /\ split

\* What an exception from the fetch does, by who called it.
BuildFails(p) ==
  \/ /\ FallsBack(p)
     /\ proc' = [proc EXCEPT ![p] = [@ EXCEPT !.at = "fetch", !.via = "registry"]]
     /\ UNCHANGED <<lock, backoff>>
  \/ /\ ~FallsBack(p) /\ EndStart(p)
     /\ backoff' = (backoff \/ proc[p].goal = "follow")

Fetch(p) ==
  LET v == proc[p].want IN
  /\ proc[p].at = "fetch"
  /\ data' = IF server[v].main THEN Adopted(data, v) ELSE data
  /\ \/ CachedServerIfCurrent(v) /\ Goto(p, "save") /\ NoFault /\ UNCHANGED <<lock, backoff>>
     \/ /\ ~CachedServerIfCurrent(v)
        /\ \/ /\ NoFault /\ UNCHANGED <<lock, backoff>>
              /\ Goto(p, IF proc[p].via = "docker" THEN "copy" ELSE "wipe")
           \/ Fault /\ BuildFails(p)
  /\ UNCHANGED <<world, config, server, staging, worker, cut, marks>>

\* The release that is copied: `docker cp` takes what the container of that name is by now,
\* a registry and an image pulled for setup what was asked for.
CopiedFrom(p) ==
  IF proc[p].via = "registry" \/ (split /\ proc[p].goal = "setup") THEN proc[p].want ELSE docker

\* docker cp of the server, or the layer that holds it.
CopyServer(p) ==
  LET v == proc[p].want
      docked == proc[p].via = "docker" IN
  /\ proc[p].at = "copy"
  /\ \/ /\ CopiedFrom(p) # NoVersion /\ NoFault
        /\ staging' = [staging EXCEPT ![v] = Linux]
        /\ Goto(p, IF docked THEN "wipe" ELSE "fill") /\ UNCHANGED <<lock, backoff>>
     \/ /\ docked /\ BuildFails(p)
        /\ \/ Fault
           \/ CopiedFrom(p) = NoVersion /\ NoFault
        /\ staging' = [staging EXCEPT ![v] = Absent]
     \/ /\ ~docked /\ Fault /\ Goto(p, "fill")
        /\ UNCHANGED <<staging, lock, backoff>>
  /\ UNCHANGED <<world, config, server, data, worker, cut, marks>>

\* What is left of build-data when its removal or its filling stops half way.
Remains(d) == [plugin : SUBSET d.plugin, stamp : {d.stamp, NoVersion}]

\* The registry path clears the staging directory in the same breath.
WipeBuildData(p) ==
  LET docked == proc[p].via = "docker" IN
  /\ proc[p].at = "wipe"
  /\ staging' = IF docked THEN staging ELSE [staging EXCEPT ![proc[p].want] = Absent]
  /\ \/ /\ data' = Empty /\ stray' = FALSE /\ NoFault
        /\ Goto(p, IF docked THEN "fill" ELSE "copy") /\ UNCHANGED <<lock, backoff>>
     \/ data' \in Remains(data) /\ UNCHANGED stray /\ Fault /\ BuildFails(p)
  /\ UNCHANGED <<world, config, server, worker, cut, unlocked>>

Filled(d, v) == [d EXCEPT !.plugin = @ \cup {l \in Layouts : l = Layout[v]}]

\* build/ of the image. A copy that failed, or a container that is gone, is a warning.
FillBuildData(p) ==
  LET w == CopiedFrom(p) IN
  /\ proc[p].at = "fill"
  /\ \/ /\ w # NoVersion /\ NoFault
        /\ data' = Filled(data, w) /\ stray' = (stray \/ w # proc[p].want)
     \/ /\ Fault \/ (w = NoVersion /\ NoFault)
        /\ UNCHANGED <<data, stray>>
  /\ Goto(p, "sharp")
  /\ UNCHANGED <<world, config, server, staging, worker, lock, backoff, cut, unlocked>>

\* dist/main.js is there, and npm gives the native Sharp; or there is no build.
RebuildSharp(p) ==
  LET v == proc[p].want IN
  /\ proc[p].at = "sharp"
  /\ \/ /\ staging[v].main /\ staging[v].sharp # "missing" /\ NoFault
        /\ staging' = [staging EXCEPT ![v].sharp = "native"]
        /\ Goto(p, "swap") /\ UNCHANGED <<lock, backoff>>
     \/ /\ staging[v].main /\ Fault /\ BuildFails(p) /\ UNCHANGED staging
     \/ /\ ~Whole(staging[v]) /\ NoFault /\ BuildFails(p)
        /\ staging' = [staging EXCEPT ![v] = Absent]
  /\ UNCHANGED <<world, config, server, data, worker, cut, marks>>

RemoveOldServer(p) ==
  /\ proc[p].at = "swap"
  /\ server' = [server EXCEPT ![proc[p].want] = Absent]
  /\ Goto(p, "rename")
  /\ UNCHANGED <<world, config, staging, data, worker, lock, backoff, cut, left, marks>>

RenameStaging(p) ==
  LET v == proc[p].want IN
  /\ proc[p].at = "rename"
  /\ \/ /\ staging[v] # Absent
        /\ server' = [server EXCEPT ![v] = staging[v]]
        /\ staging' = [staging EXCEPT ![v] = Absent]
        /\ cut' = cut \ {v}
        /\ Goto(p, "stamp") /\ UNCHANGED <<lock, backoff>>
     \/ staging[v] = Absent /\ BuildFails(p) /\ UNCHANGED <<server, staging, cut>>
  /\ UNCHANGED <<world, config, data, worker, left, marks>>

FinalizeBuildData(p) ==
  /\ proc[p].at = "stamp"
  /\ data' = Finalized(data, proc[p].want)
  /\ Goto(p, "save")
  /\ UNCHANGED <<world, config, server, staging, worker, lock, backoff, cut, left, marks>>

\* What each caller records once it has the build, and what it does next.
SaveConfig(p) ==
  LET v == proc[p].want IN
  /\ proc[p].at = "save"
  /\ \/ /\ proc[p].goal = "follow"
        /\ config' = [version |-> v, dir |-> v]
        /\ proc' = [proc EXCEPT ![p] = [Idle EXCEPT !.at = "lock", !.force = TRUE]]
     \/ /\ proc[p].goal = "update"
        /\ config' = [version |-> v, dir |-> v] /\ Finish(p)
     \/ /\ proc[p].goal = "setup"
        /\ config' = [version |-> IF split \/ docker = NoVersion THEN v ELSE docker, dir |-> v]
        /\ \/ Finish(p)          \* the offer to start is declined, or nobody is there to ask
           \/ proc' = [proc EXCEPT ![p] = [Idle EXCEPT !.at = "lock", !.force = TRUE]]
     \/ /\ proc[p].goal = "import"
        /\ config' = IF proc[p].cfg = NoConfig THEN [version |-> v, dir |-> v]
                     ELSE [proc[p].cfg EXCEPT !.dir = v]
        /\ Finish(p)
     \/ /\ proc[p].goal = "start"
        /\ config' = [version |-> v, dir |-> v]
        /\ proc' = [proc EXCEPT ![p].at = "launch", ![p].cfg = [version |-> v, dir |-> v]]
  /\ UNCHANGED <<world, server, staging, data, worker, lock, backoff, cut, left, marks>>

-----------------------------------------------------------------------------
(* setup --import-server: straight into place, then Sharp, then build-data. *)

\* Only dist/main.js is looked for before what was in place is removed.
ImportServer(p) ==
  LET v == proc[p].want IN
  /\ proc[p].at = "import"
  /\ \/ server' = [server EXCEPT ![v] = Linux] /\ cut' = cut \ {v}
     \/ server' = [server EXCEPT ![v] = [Linux EXCEPT !.sharp = "missing"]] /\ cut' = cut \cup {v}
  /\ Goto(p, "isharp")
  /\ UNCHANGED <<world, config, staging, data, worker, lock, backoff, left, marks>>

ImportSharp(p) ==
  LET v == proc[p].want IN
  /\ proc[p].at = "isharp"
  /\ \/ /\ server[v].sharp # "missing" /\ NoFault
        /\ server' = [server EXCEPT ![v].sharp = "native"] /\ Goto(p, "ibuild")
     \/ Fault /\ Finish(p) /\ UNCHANGED server
     \/ server[v].sharp = "missing" /\ NoFault /\ Finish(p) /\ UNCHANGED server
  /\ UNCHANGED <<world, config, staging, data, worker, lock, backoff, cut, marks>>

\* A build tarball beside the server's, of whatever release, replaces build-data; without one
\* it stays.
ImportBuildData(p) ==
  LET v == proc[p].want IN
  /\ proc[p].at = "ibuild"
  /\ \/ UNCHANGED <<data, stray>>
     \/ \E w \in Versions :
          /\ data' \in {Finalized(Filled(Empty, w), v), Finalized(Empty, v)}
          /\ stray' = (w # v)
  /\ Goto(p, "save")
  /\ UNCHANGED <<world, config, server, staging, worker, lock, backoff, cut, left, unlocked>>

-----------------------------------------------------------------------------
(* A start, from the lock to the pruning of what it does not run.           *)

\* The configuration is read with the lock held, or without it: where its file cannot be
\* opened, or another start has it for three minutes, this one goes on all the same.
AcquireStartLock(p) ==
  /\ proc[p].at = "lock"
  /\ \/ lock = "free" /\ lock' = p /\ unlocked' = unlocked \ {p} /\ NoFault
     \/ lock' = lock /\ unlocked' = unlocked \cup {p} /\ Fault
  /\ proc' = [proc EXCEPT ![p].at = "preflight", ![p].cfg = config]
  /\ UNCHANGED <<world, config, server, staging, data, worker, backoff, cut, stray>>

\* A local install follows its container from here too, before anything is stopped.
Preflight(p) ==
  /\ proc[p].at = "preflight"
  /\ \/ /\ \/ split
           \/ docker = proc[p].cfg.version
        /\ Goto(p, "launch") /\ NoFault /\ UNCHANGED lock
     \/ /\ ~split /\ docker \notin {NoVersion, proc[p].cfg.version}
        /\ proc' = [proc EXCEPT ![p].at = "fetch", ![p].goal = "start",
                                ![p].want = docker, ![p].via = "docker"]
        /\ NoFault /\ UNCHANGED lock
     \/ ~split /\ docker = NoVersion /\ EndStart(p) /\ NoFault
     \/ split /\ Fault /\ EndStart(p)
  /\ UNCHANGED <<world, config, server, staging, data, worker, backoff, cut, marks>>

\* Already running, the node path, the Sharp preflight with its repair.
Launch(p) ==
  LET cfg == proc[p].cfg IN
  /\ proc[p].at = "launch"
  /\ \/ /\ worker # NoVersion /\ ~proc[p].force
        /\ EndStart(p) /\ NoFault /\ UNCHANGED <<config, server, worker>>
     \/ /\ worker = NoVersion \/ proc[p].force
        /\ worker' = NoVersion
        /\ \/ config' = config
           \/ config' = cfg           \* a node path that moved is saved with all the rest
        /\ \/ /\ server[cfg.dir].sharp # "missing" /\ NoFault
              /\ server' = [server EXCEPT ![cfg.dir].sharp = "native"]
              /\ Goto(p, "spawn") /\ UNCHANGED lock
           \/ /\ server[cfg.dir].sharp = "missing" /\ NoFault
              /\ EndStart(p) /\ UNCHANGED server
           \/ /\ server[cfg.dir].sharp = "linux" /\ Fault
              /\ EndStart(p) /\ UNCHANGED server
  /\ UNCHANGED <<world, staging, data, backoff, cut, marks>>

\* Mutant of Spawn: the lock is given up as soon as the worker runs.
SpawnReleasing(p) ==
  LET dir == proc[p].cfg.dir IN
  /\ proc[p].at = "spawn"
  /\ \/ /\ server[dir].main /\ worker' = dir /\ Goto(p, "prune")
        /\ lock' = IF lock = p THEN "free" ELSE lock
     \/ ~server[dir].main /\ EndStart(p) /\ UNCHANGED worker
  /\ UNCHANGED <<world, config, server, staging, data, backoff, cut, left, marks>>

Spawn(p) ==
  LET dir == proc[p].cfg.dir IN
  /\ proc[p].at = "spawn"
  /\ \/ server[dir].main /\ worker' = dir /\ Goto(p, "prune") /\ UNCHANGED lock
     \/ ~server[dir].main /\ EndStart(p) /\ UNCHANGED worker
  /\ UNCHANGED <<world, config, server, staging, data, backoff, cut, left, marks>>

Torn(tree) == {t \in Trees : (t.main => tree.main) /\ t.sharp \in {tree.sharp, "missing"}}

\* Everything under server/ but the directory this start runs; a failed removal is logged.
PruneOldServerVersions(p) ==
  LET dir == proc[p].cfg.dir IN
  /\ proc[p].at = "prune"
  /\ staging' = [v \in Versions |-> Absent]
  /\ \/ /\ server' = [v \in Versions |-> IF v = dir THEN server[v] ELSE Absent]
        /\ NoFault /\ UNCHANGED cut
     \/ /\ \E v \in Versions \ {dir} : \E t \in Torn(server[v]) :
             server' = [w \in Versions |-> IF w = dir THEN server[w]
                                           ELSE IF w = v THEN t ELSE Absent]
             /\ cut' = cut \cup {v}
        /\ Fault
  /\ EndStart(p)
  /\ UNCHANGED <<world, config, data, worker, backoff, marks>>

-----------------------------------------------------------------------------
(* What begins them: the watcher's cycle, and the user.                     *)

Resting(p) == proc[p].at = "idle"

\* Otherwise nobody runs a command while the watcher is in the middle of something.
Undisturbed(p) == beside \/ \A q \in Procs \ {p} : Resting(q)

\* A split install asks its Immich, a local one its container.
AuthoritativeVersionKnown == split \/ docker # NoVersion

Source(v) == IF docker = v THEN "docker" ELSE "registry"

\* Mutant of FollowServerVersion: the version is recorded before its build is there.
FollowServerVersionRecorded ==
  /\ Resting("watch") /\ Undisturbed("watch") /\ ~backoff
  /\ AuthoritativeVersionKnown
  /\ immich # config.version
  /\ worker' = NoVersion
  /\ config' = [version |-> immich, dir |-> immich]
  /\ proc' = [proc EXCEPT !["watch"] = [Idle EXCEPT !.at = "fetch", !.goal = "follow",
                                          !.want = immich, !.via = Source(immich)]]
  /\ UNCHANGED <<world, server, staging, data, lock, backoff, cut, left, marks>>

\* The services are stopped before the build is fetched.
FollowServerVersion ==
  /\ Resting("watch") /\ Undisturbed("watch") /\ ~backoff
  /\ AuthoritativeVersionKnown
  /\ immich # config.version
  /\ worker' = NoVersion
  /\ proc' = [proc EXCEPT !["watch"] = [Idle EXCEPT !.at = "fetch", !.goal = "follow",
                                          !.want = immich, !.via = Source(immich)]]
  /\ UNCHANGED <<world, config, server, staging, data, lock, backoff, cut, left, marks>>

\* The crash check knows nothing of a follow that failed.
CrashCheck ==
  /\ Resting("watch") /\ Undisturbed("watch")
  /\ worker = NoVersion
  /\ proc' = [proc EXCEPT !["watch"] = [Idle EXCEPT !.at = "lock", !.force = TRUE]]
  /\ UNCHANGED <<world, config, server, staging, data, worker, lock, backoff, cut, left, marks>>

\* Mutant of FollowRetry: every cycle that finds a retry pending puts it off again.
FollowRetryPutOff ==
  /\ backoff /\ backoff' = backoff
  /\ UNCHANGED <<world, config, server, staging, data, worker, proc, lock, cut, left, marks>>

FollowRetry ==
  /\ backoff /\ backoff' = FALSE
  /\ UNCHANGED <<world, config, server, staging, data, worker, proc, lock, cut, left, marks>>

UserStart ==
  /\ Resting("user") /\ Undisturbed("user") /\ Command("start")
  /\ \E f \in BOOLEAN :
       proc' = [proc EXCEPT !["user"] = [Idle EXCEPT !.at = "lock", !.force = f]]
  /\ UNCHANGED <<world, config, server, staging, data, worker, lock, backoff, cut, marks>>

UserUpdate ==
  /\ Resting("user") /\ Undisturbed("user") /\ Command("update")
  /\ AuthoritativeVersionKnown
  /\ immich # config.version
  /\ worker' = NoVersion
  /\ proc' = [proc EXCEPT !["user"] = [Idle EXCEPT !.at = "fetch", !.goal = "update",
                                         !.want = immich, !.via = Source(immich)]]
  /\ UNCHANGED <<world, config, server, staging, data, lock, backoff, cut, marks>>

\* setup stops nothing.  On a local install the build comes from the container or not at all.
UserSetupLocal ==
  /\ Resting("user") /\ Undisturbed("user") /\ Command("setup")
  /\ ~split /\ docker # NoVersion
  /\ proc' = [proc EXCEPT !["user"] = [Idle EXCEPT !.at = "fetch", !.goal = "setup",
                                         !.want = immich, !.via = "docker"]]
  /\ UNCHANGED <<world, config, server, staging, data, worker, lock, backoff, cut, marks>>

\* With a URL the image is pulled where there is a Docker, and downloaded where not.
UserSetupRemote ==
  /\ Resting("user") /\ Undisturbed("user") /\ Command("setup")
  /\ split
  /\ proc' = [proc EXCEPT !["user"] = [Idle EXCEPT !.at = "fetch", !.goal = "setup",
                 !.want = immich, !.via = IF docker = NoVersion THEN "registry" ELSE "docker"]]
  /\ UNCHANGED <<world, config, server, staging, data, worker, lock, backoff, cut, marks>>

\* With a URL the version is the server's; alone it is the one recorded.
UserImport ==
  /\ Resting("user") /\ Undisturbed("user") /\ Command("import")
  /\ \/ /\ split
        /\ proc' = [proc EXCEPT !["user"] = [Idle EXCEPT !.at = "import", !.goal = "import",
                                               !.want = immich]]
     \/ proc' = [proc EXCEPT !["user"] = [Idle EXCEPT !.at = "import", !.goal = "import",
                                            !.want = config.version, !.cfg = config]]
  /\ UNCHANGED <<world, config, server, staging, data, worker, lock, backoff, cut, marks>>

UserStop ==
  /\ Resting("user") /\ Undisturbed("user") /\ Command("stop")
  /\ worker # NoVersion /\ worker' = NoVersion
  /\ UNCHANGED <<world, config, server, staging, data, proc, lock, backoff, cut, marks>>

-----------------------------------------------------------------------------
(* The world: Immich moves, containers come and go, processes are killed.   *)

\* On a local install the authoritative Immich is the container.
ImmichMoves ==
  /\ left.moves > 0 /\ left' = [left EXCEPT !.moves = @ - 1]
  /\ \E v \in Versions \ {immich} :
       /\ immich' = v
       /\ docker' = IF split \/ docker = NoVersion THEN docker ELSE v
  /\ UNCHANGED <<split, beside, config, server, staging, data, worker, proc, lock, backoff, cut, marks>>

\* A container on a split install's Mac is a different server.
OtherContainerMoves ==
  /\ split /\ left.moves > 0 /\ left' = [left EXCEPT !.moves = @ - 1]
  /\ docker' \in (Versions \cup {NoVersion}) \ {docker}
  /\ UNCHANGED <<immich, split, beside, config, server, staging, data, worker, proc, lock, backoff, cut, marks>>

\* On a local install nobody can be asked while the stack is down.
ContainerStops ==
  /\ ~split /\ docker # NoVersion /\ Fault /\ docker' = NoVersion
  /\ UNCHANGED <<immich, split, beside, config, server, staging, data, worker, proc, lock, backoff, cut, marks>>

ContainerReturns ==
  /\ ~split /\ docker = NoVersion /\ docker' = immich
  /\ UNCHANGED <<immich, split, beside, config, server, staging, data, worker, proc, lock, backoff, cut, left, marks>>

\* Killed with a directory half removed, half filled or half renamed.
Kill(p) ==
  LET v == proc[p].want IN
  /\ ~Resting(p) /\ Fault
  /\ EndStart(p)
  /\ backoff' = (backoff /\ p # "watch")
  /\ \/ /\ proc[p].at \in {"swap", "import"}
        /\ \E t \in Torn(server[v]) \cup (IF proc[p].at = "import" THEN Torn(Linux) ELSE {}) :
             server' = [server EXCEPT ![v] = t]
        /\ cut' = cut \cup {v} /\ UNCHANGED data
     \/ /\ proc[p].at = "rename" /\ cut' = cut \cup {v} /\ UNCHANGED <<server, data>>
     \/ /\ proc[p].at = "prune"
        /\ \E w \in Versions \ {proc[p].cfg.dir} : \E t \in Torn(server[w]) :
             server' = [server EXCEPT ![w] = t] /\ cut' = cut \cup {w}
        /\ UNCHANGED data
     \/ /\ proc[p].at \in {"wipe", "fill", "ibuild"} /\ data' \in Remains(data)
        /\ UNCHANGED <<server, cut>>
     \/ /\ proc[p].at = "fill" /\ CopiedFrom(p) # NoVersion
        /\ data' \in Remains(Filled(data, CopiedFrom(p)))
        /\ UNCHANGED <<server, cut>>
     \/ /\ proc[p].at = "ibuild"
        /\ \E w \in Versions : data' \in Remains(Filled(Empty, w))
        /\ UNCHANGED <<server, cut>>
     \/ /\ proc[p].at \notin {"swap", "rename", "import", "prune", "wipe", "ibuild", "fill"}
        /\ UNCHANGED <<server, data, cut>>
  /\ UNCHANGED <<world, config, staging, worker, marks>>

WorkerExit ==
  /\ worker # NoVersion /\ Fault /\ worker' = NoVersion
  /\ UNCHANGED <<world, config, server, staging, data, proc, lock, backoff, cut, marks>>

Init ==
  /\ immich \in Versions /\ split \in BOOLEAN
  /\ docker \in IF split THEN Versions \cup {NoVersion} ELSE {immich}
  /\ beside \in BOOLEAN
  /\ config = [version |-> immich, dir |-> immich]
  /\ server = [v \in Versions |-> IF v = immich THEN [main |-> TRUE, sharp |-> "native"]
                                  ELSE Absent]
  /\ staging = [v \in Versions |-> Absent]
  /\ data = Finalized(Filled(Empty, immich), immich)
  /\ worker = immich
  /\ proc = [p \in Procs |-> Idle]
  /\ lock = "free" /\ backoff = FALSE
  /\ cut = {} /\ stray = FALSE /\ unlocked = {}
  /\ left = [moves    |-> IF beside THEN MaxBeside ELSE MaxMoves,
             faults   |-> IF beside THEN MaxBeside ELSE MaxFaults,
             commands |-> MaxCommands]

Work(p) ==
  \/ Fetch(p) \/ CopyServer(p) \/ WipeBuildData(p) \/ FillBuildData(p) \/ RebuildSharp(p)
  \/ RemoveOldServer(p) \/ RenameStaging(p) \/ FinalizeBuildData(p) \/ SaveConfig(p)
  \/ ImportServer(p) \/ ImportSharp(p) \/ ImportBuildData(p)
  \/ AcquireStartLock(p) \/ Preflight(p) \/ Launch(p) \/ Spawn(p) \/ PruneOldServerVersions(p)

Next ==
  \/ \E p \in Procs : Work(p) \/ Kill(p)
  \/ FollowServerVersion \/ CrashCheck \/ FollowRetry
  \/ UserStart \/ UserUpdate \/ UserSetupLocal \/ UserSetupRemote \/ UserImport \/ UserStop
  \/ ImmichMoves \/ OtherContainerMoves \/ ContainerStops \/ ContainerReturns \/ WorkerExit

Spec == Init /\ [][Next]_vars

(***************************************************************************)
(* A process that runs takes its next step; a backoff ends; the stack comes *)
(* back.  The version check comes in the same cycle as the crash check and  *)
(* after it, so a start that is refused in every cycle does not keep it from *)
(* its turn.  Users, faults and releases owe nothing.                       *)
(***************************************************************************)
Fairness ==
  /\ \A p \in Procs : WF_vars(Work(p))
  /\ SF_vars(FollowServerVersion) /\ WF_vars(CrashCheck) /\ WF_vars(FollowRetry)
  /\ WF_vars(ContainerReturns)

FairSpec == Spec /\ Fairness

-----------------------------------------------------------------------------
(* Properties *)

Replaced(v) ==
  \/ v \in cut
  \/ \E p \in Procs : /\ proc[p].want = v /\ proc[p].at = "rename"
                      /\ proc[p].goal = "setup" \/ config.dir # config.version

\* The directory config.json names holds a whole build. Left out is a directory whose own
\* removal was cut short or which was imported without its Sharp, and the moment in which the
\* one in use is replaced: by setup, or by anybody where setup recorded a version that is not
\* the directory's and Immich went back to the latter. This is what the prune's docstring and
\* the start rely on; beside an `update` it does not hold.
RecordedIsThere == Replaced(config.dir) \/ Whole(server[config.dir])

\* With one process at work at a time, the directory config.json names holds a whole build: not
\* one that was pruned, not one whose fetch failed or was killed.
ConfigNamesABuild == beside \/ RecordedIsThere

\* Build data that serves a version has a plugin in the layout of that version: what an earlier
\* version of the other layout left behind is never taken for it, whoever stamped it and
\* wherever the clearing, filling or stamping of it was cut short. This is said of one process
\* at work, and of data that was filled with what it was filled for: a tarball of another
\* release, or a container that was replaced during the copy, is stamped without a look at
\* which of the two plugins came.
CurrentHasItsPlugin ==
  beside \/ stray \/
    \A v \in Versions : CachedServerIfCurrent(v) /\ NeedsPlugin(v) => HasLayout(data, Layout[v])

\* Pruning comes tens of seconds after the spawn, and beside it the other process may stop the
\* worker, fetch, record and prune; still the directory of the worker that runs by then is not
\* taken, for whoever spawned it had the start lock, which the start that prunes has kept. Left
\* out are starts of which one went on without the lock.
WorkerKeepsItsBuild ==
  [][\A p \in Procs : PruneOldServerVersions(p) /\ worker # NoVersion
                        => server'[worker] = server[worker] \/ unlocked # {}]_vars

\* Once Immich stays on a version, and whatever failed or was killed before, that version is
\* recorded and a worker runs, unless the directory it needs is one that was cut short. This is
\* said of one process at work at a time.
FollowSettles ==
  <>[](beside \/ (config.version = immich /\ (worker # NoVersion \/ config.dir \in cut)))

=============================================================================
