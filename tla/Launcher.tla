------------------------------ MODULE Launcher ------------------------------
(***************************************************************************)
(* The Homebrew service: launchd keeps one job alive, which is the watcher   *)
(* itself or, since a release that brought it, a signed launcher above the  *)
(* watcher (src/service/main.swift).  The worker, the ML engine and the      *)
(* dashboard run in sessions of their own and outlive both; macOS asks for   *)
(* permissions on behalf of whatever launchd started when they were started. *)
(*                                                                         *)
(* A watcher that finds the launcher installed and not above it has brew     *)
(* restart the job it runs in (__main__.py, _move_onto_launcher).           *)
(***************************************************************************)
EXTENDS Integers

CONSTANTS
  MaxUpgrades,   \* bound: `brew upgrade`
  MaxOrders,     \* bound: `brew services` by the user
  MaxFaults      \* bound: kills, and calls that fail

Assumption == {MaxUpgrades, MaxOrders, MaxFaults} \subseteq Nat

\* Releases by number; all but the first bring the launcher.
Versions == 0..MaxUpgrades
HasLauncher(v) == v > 0

VARIABLES
  version,   \* the release that is installed
  plist,     \* what the job's plist starts: "python" or the "launcher"
  job,       \* "on", "stopping", or "off"
  main,      \* what launchd started: "none", "python", a launcher "spawning", or "launcher"
  held,      \* a SIGTERM the launcher has and the watcher has not
  watcher,   \* where the watcher is
  running,   \* the release it runs
  services,  \* on whose behalf the services run, and of which release
  mark,      \* launcher-move: the release for which the move was tried
  moving,    \* the release it asks the move for
  brew,      \* `brew services`: "idle", "stop", "stopped", "start" or "failed", and the order
  wanted,    \* history: the user wants the service, and brew did not fail to start it
  unheard,   \* history: a watcher died since the last start without its handler's stop
  tries,     \* history: how often each release asked for the move
  left       \* what remains of the bounds

vars == <<version, plist, job, main, held, watcher, running, services, mark, moving, brew,
          wanted, unheard, tries, left>>

installed == <<version, plist>>
move      == <<mark, moving>>
history   == <<wanted, unheard, tries>>

NoServices == [by |-> "none", version |-> 0]
NoOrder    == [at |-> "idle", order |-> "none"]

\* Up to "ready" SIGTERM has its default action.
Deaf == {"boot", "mark", "ask", "wait", "ready"}

TypeOK ==
  /\ version \in Versions /\ running \in Versions /\ mark \in Versions \cup {-1}
  /\ moving \in Versions
  /\ plist \in {"python", "launcher"} /\ job \in {"on", "stopping", "off"}
  /\ main \in {"none", "python", "spawning", "launcher"} /\ held \in BOOLEAN
  /\ watcher \in Deaf \cup {"none", "serving", "stopping", "dead"}
  /\ watcher # "none" => main \in {"python", "launcher"}
  /\ services \in [by : {"python", "launcher"}, version : Versions] \cup {NoServices}
  /\ brew \in [at : {"idle", "stop", "stopped", "failed"}, order : {"none", "stop", "restart"}]
  /\ wanted \in BOOLEAN /\ unheard \in BOOLEAN
  /\ tries \in [Versions -> Nat]
  /\ left \in [upgrades : 0..MaxUpgrades, orders : 0..MaxOrders, faults : 0..MaxFaults]

Spend(bound) == left[bound] > 0 /\ left' = [left EXCEPT ![bound] = @ - 1]

-----------------------------------------------------------------------------
(* launchd and the launcher. *)

\* KeepAlive, and the start of a job that was loaded.
LaunchdStarts ==
  /\ job = "on" /\ main = "none"
  /\ IF plist = "launcher" THEN main' = "spawning" /\ UNCHANGED <<watcher, running>>
     ELSE main' = "python" /\ watcher' = "boot" /\ running' = version
  /\ held' = FALSE
  /\ UNCHANGED <<installed, job, services, move, brew, history, left>>

\* Mutant of LauncherSpawns: a stop that came before the watcher is lost.
LauncherSpawnsAnew ==
  /\ main = "spawning" /\ main' = "launcher"
  /\ watcher' = "boot" /\ running' = version /\ held' = FALSE
  /\ UNCHANGED <<installed, job, services, move, brew, history, left>>

\* The signal sources are there before; their handlers run after.
LauncherSpawns ==
  /\ main = "spawning" /\ main' = "launcher"
  /\ watcher' = "boot" /\ running' = version
  /\ UNCHANGED <<installed, job, held, services, move, brew, history, left>>

\* SIGTERM reaches the watcher.
Hears(signal) ==
  /\ watcher' = IF ~signal THEN watcher ELSE IF watcher \in Deaf THEN "dead"
                ELSE IF watcher = "serving" THEN "stopping" ELSE watcher
  /\ unheard' = (unheard \/ (signal /\ watcher \in Deaf))

LauncherForwards ==
  /\ main = "launcher" /\ held /\ held' = FALSE
  /\ Hears(TRUE)
  /\ UNCHANGED <<installed, job, main, running, services, move, brew, wanted, tries, left>>

\* Our parent's waitpid, or launchd's.
Reaped ==
  /\ watcher = "dead" /\ watcher' = "none" /\ main' = "none"
  /\ UNCHANGED <<installed, job, held, running, services, move, brew, history, left>>

LaunchdStopped ==
  /\ job = "stopping" /\ main = "none" /\ job' = "off"
  /\ UNCHANGED <<installed, main, held, watcher, running, services, move, brew, history,
                 left>>

\* A few seconds after its SIGTERM; the process group of the job goes along.  The launcher
\* is taken to pass a signal on within that time.
LaunchdKills ==
  /\ job = "stopping" /\ main # "none" /\ (main = "launcher" => ~held)
  /\ main' = "none" /\ watcher' = "none"
  /\ unheard' = (unheard \/ watcher = "stopping")
  /\ Spend("faults")
  /\ UNCHANGED <<installed, job, held, running, services, move, brew, wanted, tries>>

-----------------------------------------------------------------------------
(* The watcher. *)

\* _move_onto_launcher, up to its stop_all_fast.
MoveOntoLauncher ==
  /\ watcher = "boot"
  /\ IF main = "launcher" \/ ~HasLauncher(version) \/ mark = version
     THEN watcher' = "ready" /\ UNCHANGED <<services, moving>>
     ELSE watcher' = "mark" /\ services' = NoServices /\ moving' = version
  /\ UNCHANGED <<installed, job, main, held, running, mark, brew, history, left>>

MarkTried ==
  /\ watcher = "mark"
  /\ \/ watcher' = "ask" /\ mark' = moving /\ UNCHANGED left
     \/ watcher' = "ready" /\ UNCHANGED mark /\ Spend("faults")
  /\ UNCHANGED <<installed, job, main, held, running, services, moving, brew, history>>

\* `brew services restart` in a session of its own.
AskBrew ==
  /\ watcher = "ask" /\ brew.at \in {"idle", "failed"}
  /\ \/ /\ watcher' = "wait" /\ brew' = [at |-> "stop", order |-> "restart"]
        /\ tries' = [tries EXCEPT ![moving] = @ + 1]
        /\ UNCHANGED left
     \/ watcher' = "ready" /\ UNCHANGED <<brew, tries>> /\ Spend("faults")
  /\ UNCHANGED <<installed, job, main, held, running, services, move, wanted, unheard>>

\* Mutant of WaitForStop: a brew that failed is waited for.
WaitForBrew ==
  /\ watcher = "wait" /\ brew.at = "idle" /\ watcher' = "ready"
  /\ UNCHANGED <<installed, job, main, held, running, services, move, brew, history, left>>

\* Until brew fails, or for a minute, in which it may not have come to stop us.
WaitForStop ==
  /\ watcher = "wait" /\ watcher' = "ready"
  /\ UNCHANGED <<installed, job, main, held, running, services, move, brew, history, left>>

\* A loop begins: its handlers; services that are left are adopted, unless they are of
\* another release.
BeginLoop ==
  /\ watcher = "ready" /\ watcher' = "serving"
  /\ services' = IF services.version # running THEN NoServices ELSE services
  /\ UNCHANGED <<installed, job, main, held, running, move, brew, history, left>>

StartServices ==
  /\ watcher = "serving" /\ services = NoServices
  /\ services' = [by |-> main, version |-> running]
  /\ unheard' = FALSE
  /\ UNCHANGED <<installed, job, main, held, watcher, running, move, brew, wanted, tries,
                 left>>

UpgradedOnDisk ==
  /\ watcher = "serving" /\ running # version
  /\ watcher' = "dead" /\ services' = NoServices
  /\ UNCHANGED <<installed, job, main, held, running, move, brew, history, left>>

GracefulStop ==
  /\ watcher = "stopping"
  /\ watcher' = "dead" /\ services' = NoServices
  /\ UNCHANGED <<installed, job, main, held, running, move, brew, history, left>>

-----------------------------------------------------------------------------
(* brew, the user, and faults. *)

\* bootout: SIGTERM to the job's main process.
BrewStops ==
  /\ brew.at = "stop"
  /\ \/ /\ brew' = [brew EXCEPT !.at = "stopped"]
        /\ job' = IF job = "off" THEN "off" ELSE "stopping"
        /\ held' = (held \/ main \in {"spawning", "launcher"})
        /\ Hears(main = "python")
        /\ UNCHANGED <<wanted, left>>
     \/ /\ brew' = [brew EXCEPT !.at = "failed"] /\ Spend("faults")
        /\ wanted' = (wanted /\ job = "on")
        /\ UNCHANGED <<job, held, watcher, unheard>>
  /\ UNCHANGED <<installed, main, running, services, move, tries>>

\* The plist is written anew, and the job loaded.
BrewStarts ==
  /\ brew.at = "stopped" /\ job = "off"
  /\ brew' = NoOrder
  /\ IF brew.order = "stop" THEN UNCHANGED <<plist, job>>
     ELSE plist' = (IF HasLauncher(version) THEN "launcher" ELSE "python") /\ job' = "on"
  /\ UNCHANGED <<version, main, held, watcher, running, services, move, history, left>>

\* brew itself is killed between the two, or its start fails.
BrewCutShort ==
  /\ brew.at = "stopped" /\ Spend("faults")
  /\ brew' = [brew EXCEPT !.at = "failed"] /\ wanted' = FALSE
  /\ UNCHANGED <<installed, job, main, held, watcher, running, services, move, unheard,
                 tries>>

\* `brew services stop`, `start` and `restart`.
UserOrders ==
  /\ brew.at \in {"idle", "failed"} /\ Spend("orders")
  /\ \E order \in {"stop", "restart"} :
       /\ brew' = [at |-> "stop", order |-> order]
       /\ wanted' = (order = "restart")
  /\ UNCHANGED <<installed, job, main, held, watcher, running, services, move, unheard,
                 tries>>

BrewUpgrade ==
  /\ Spend("upgrades") /\ version' = version + 1
  /\ UNCHANGED <<plist, job, main, held, watcher, running, services, move, brew, history>>

WatcherCrashes ==
  /\ watcher \notin {"none", "dead"} /\ watcher' = "dead"
  /\ unheard' = TRUE
  /\ Spend("faults")
  /\ UNCHANGED <<installed, job, main, held, running, services, move, brew, wanted, tries>>

Init ==
  /\ version = 0 /\ plist = "python" /\ job \in {"on", "off"}
  /\ main = "none" /\ held = FALSE /\ watcher = "none" /\ running = 0
  /\ services = NoServices /\ mark = -1 /\ moving = 0 /\ brew = NoOrder
  /\ wanted = (job = "on") /\ unheard = FALSE /\ tries = [v \in Versions |-> 0]
  /\ left = [upgrades |-> MaxUpgrades, orders |-> MaxOrders, faults |-> MaxFaults]

System ==
  \/ LaunchdStarts \/ LauncherSpawns \/ LauncherForwards \/ Reaped \/ LaunchdStopped
  \/ MoveOntoLauncher \/ MarkTried \/ AskBrew \/ WaitForStop
  \/ BeginLoop \/ StartServices \/ UpgradedOnDisk \/ GracefulStop
  \/ BrewStops \/ BrewStarts

Next ==
  \/ System
  \/ LaunchdKills \/ BrewCutShort \/ UserOrders \/ BrewUpgrade \/ WatcherCrashes

\* Processes that run take their steps, launchd and brew among them.
Spec == Init /\ [][Next]_vars /\ WF_vars(System)

-----------------------------------------------------------------------------
(* Properties *)

\* After a stop nothing runs (#81), be it that the SIGTERM came while the launcher was still
\* starting the watcher.  Not so where a watcher had died without stopping what it ran, or
\* was killed in the middle of its handler.
StopEndsServices == job = "off" /\ ~unheard => services = NoServices

\* A release asks once for the move, whatever comes of it.
TriedOnce == \A v \in Versions : tries[v] <= 1

\* What runs under the launcher is attributed to it.
RunsUnderTheLauncher ==
  main = "launcher" /\ watcher = "serving" /\ ~unheard => services.by # "python"

HandOverIsClean == StopEndsServices /\ TriedOnce /\ RunsUnderTheLauncher

\* A move that fails anywhere, or is cut off by a crash, leaves the service supervised: while
\* the user wants it the services come up, of the release installed, unless brew itself ended
\* before its start of a job that was off.
ServicesReturn ==
  <>[]wanted => <>[](watcher = "serving" /\ services # NoServices /\ services.version = version)

=============================================================================
