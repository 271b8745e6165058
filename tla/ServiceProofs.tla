---------------------------- MODULE ServiceProofs ----------------------------
(***************************************************************************)
(* Theorems about the two components below the watch loop: Launcher, the   *)
(* Homebrew service that keeps the watcher running, and Supervisor, which  *)
(* keeps track of the worker. They share no state, and each theorem is     *)
(* about one of them but the last, which joins them and PauseWatch to      *)
(* Worker.                                                                 *)
(***************************************************************************)
EXTENDS Worker, PauseWatchProofs, FiniteSetTheorems, WellFoundedInduction

-----------------------------------------------------------------------------
(***************************************************************************)
(* Launcher. A stop leaves nothing behind because its SIGTERM is either in *)
(* the watcher or still held by a launcher that will pass it on, and       *)
(* because services run only below a watcher that will stop them.          *)
(***************************************************************************)
\* A watcher is there when what starts it is.
JobProcesses ==
  /\ main \in {"none", "spawning"} => watcher = "none"
  /\ main = "launcher" => watcher # "none"
  /\ job = "off" => main = "none"

\* The SIGTERM of a stop is not lost.
JobStop ==
  job = "stopping" =>
    /\ watcher \in {"none", "dead", "stopping"} \/ (main = "launcher" /\ held)
    /\ main = "spawning" => held

\* Services that nobody abandoned are those of the watcher.
JobServices ==
  services # Job!NoServices /\ ~unheard =>
    watcher \in {"serving", "stopping"} /\ services.by = main

\* A release writes its mark before it asks.
JobMove ==
  /\ version + left.upgrades = MaxUpgrades
  /\ mark <= version /\ moving <= version
  /\ \A v \in Job!Versions : tries[v] <= 1 /\ (tries[v] > 0 => v <= mark)
  /\ watcher = "mark" => moving > mark
  /\ watcher = "ask" => moving = mark /\ tries[moving] = 0

JobInv == Job!TypeOK /\ JobProcesses /\ JobStop /\ JobServices /\ JobMove

\* What is spent of a bound was left of it.
LEMMA JobSpends ==
  ASSUME Job!Assumption, Job!TypeOK, NEW bound \in {"upgrades", "orders", "faults"}, Job!Spend(bound)
  PROVE  left' \in [upgrades : 0..MaxUpgrades, orders : 0..MaxOrders, faults : 0..MaxJobFaults]
BY DEF Job!Assumption, Job!TypeOK, Job!Spend

\* The job, its launcher and its watcher are sound at first.
LEMMA JobStarts == Job!Assumption /\ Job!Init => JobInv
<1> SUFFICES ASSUME Job!Assumption, Job!Init PROVE JobInv
  OBVIOUS
<1>1. left \in [upgrades : 0..MaxUpgrades, orders : 0..MaxOrders, faults : 0..MaxJobFaults]
      /\ 0 \in Job!Versions
  BY DEF Job!Assumption, Job!Init, Job!Versions
<1>2. tries \in [Job!Versions -> Nat]
  BY DEF Job!Init
<1>3. wanted \in BOOLEAN
  BY DEF Job!Init
<1>4. Job!TypeOK
  BY <1>1, <1>2, <1>3 DEF Job!TypeOK, Job!Init, Job!NoServices, Job!NoOrder, Job!Deaf
<1>5. JobProcesses /\ JobStop /\ JobServices
  BY DEF Job!Init, JobProcesses, JobStop, JobServices
<1>6. JobMove
  BY DEF Job!Init, JobMove, Job!Versions, Job!Assumption
<1> QED BY <1>4, <1>5, <1>6 DEF JobInv

\* Every step of brew, launchd, a launcher or a watcher keeps the types.
LEMMA JobTypesKept ==
  ASSUME Job!Assumption, JobInv, [Job!Next]_(Job!vars)
  PROVE  Job!TypeOK'
<1>0. /\ \A b \in {"upgrades", "orders", "faults"} : Job!Spend(b) =>
           left' \in [upgrades : 0..MaxUpgrades, orders : 0..MaxOrders, faults : 0..MaxJobFaults]
      /\ Job!Versions \subseteq Nat
      /\ Job!NoOrder \in [at : {"idle", "stop", "stopped", "failed"}, order : {"none", "stop", "restart"}]
  BY JobSpends DEF JobInv, Job!Versions, Job!NoOrder
<1> USE DEF JobInv, Job!TypeOK, Job!Deaf, Job!installed, Job!move, Job!history
<1>1. CASE Job!LaunchdStarts
  BY <1>0, <1>1 DEF Job!LaunchdStarts
<1>2. CASE Job!LauncherSpawns
  BY <1>0, <1>2 DEF Job!LauncherSpawns
<1>3. CASE Job!LauncherForwards
  <2>1. /\ watcher' \in Job!Deaf \cup {"none", "serving", "stopping", "dead"}
        /\ watcher' # "none" => watcher # "none"
    BY <1>3 DEF Job!LauncherForwards, Job!Hears
  <2>2. held' \in BOOLEAN /\ unheard' \in BOOLEAN
    BY <1>3 DEF Job!LauncherForwards, Job!Hears
  <2> QED BY <1>0, <1>3, <2>1, <2>2 DEF Job!LauncherForwards
<1>4. CASE Job!Reaped
  BY <1>0, <1>4 DEF Job!Reaped
<1>5. CASE Job!LaunchdStopped
  BY <1>0, <1>5 DEF Job!LaunchdStopped
<1>6. CASE Job!LaunchdKills
  BY <1>0, <1>6 DEF Job!LaunchdKills
<1>7. CASE Job!MoveOntoLauncher
  BY <1>0, <1>7 DEF Job!MoveOntoLauncher
<1>8. CASE Job!MarkTried
  BY <1>0, <1>8 DEF Job!MarkTried
<1>9. CASE Job!AskBrew
  BY <1>0, <1>9 DEF Job!AskBrew
<1>10. CASE Job!WaitForStop
  BY <1>0, <1>10 DEF Job!WaitForStop
<1>11. CASE Job!BeginLoop
  BY <1>0, <1>11 DEF Job!BeginLoop
<1>12. CASE Job!StartServices
  BY <1>0, <1>12 DEF Job!StartServices
<1>13. CASE Job!UpgradedOnDisk
  BY <1>0, <1>13 DEF Job!UpgradedOnDisk
<1>14. CASE Job!GracefulStop
  BY <1>0, <1>14 DEF Job!GracefulStop
<1>15. CASE Job!BrewStops
  <2>1. /\ brew' \in [at : {"idle", "stop", "stopped", "failed"}, order : {"none", "stop", "restart"}]
        /\ job' \in {"on", "stopping", "off"}
    BY <1>15 DEF Job!BrewStops
  <2>2. held' \in BOOLEAN /\ wanted' \in BOOLEAN /\ unheard' \in BOOLEAN
    BY <1>15 DEF Job!BrewStops, Job!Hears
  <2>3. /\ watcher' \in Job!Deaf \cup {"none", "serving", "stopping", "dead"}
        /\ watcher' # "none" => watcher # "none"
    BY <1>15 DEF Job!BrewStops, Job!Hears
  <2> QED BY <1>0, <1>15, <2>1, <2>2, <2>3 DEF Job!BrewStops
<1>16. CASE Job!BrewStarts
  BY <1>0, <1>16 DEF Job!BrewStarts
<1>17. CASE Job!BrewCutShort
  <2>1. brew' \in [at : {"idle", "stop", "stopped", "failed"}, order : {"none", "stop", "restart"}]
    BY <1>17 DEF Job!BrewCutShort
  <2> QED BY <1>0, <1>17, <2>1 DEF Job!BrewCutShort
<1>18. CASE Job!UserOrders
  BY <1>0, <1>18 DEF Job!UserOrders
<1>19. CASE Job!BrewUpgrade
  <2>1. version' \in Job!Versions
    BY <1>19 DEF Job!BrewUpgrade, JobMove, Job!Spend, Job!Versions, Job!Assumption
  <2> QED BY <1>0, <1>19, <2>1 DEF Job!BrewUpgrade
<1>20. CASE Job!WatcherCrashes
  BY <1>0, <1>20 DEF Job!WatcherCrashes
<1>21. CASE UNCHANGED Job!vars
  BY <1>0, <1>21 DEF Job!vars
<1> QED BY <1>1, <1>2, <1>3, <1>4, <1>5, <1>6, <1>7, <1>8, <1>9, <1>10, <1>11, <1>12, <1>13, <1>14,
  <1>15, <1>16, <1>17, <1>18, <1>19, <1>20, <1>21 DEF Job!Next, Job!System

\* Every step leaves a launcher with the watcher it started.
LEMMA JobProcessesKept ==
  ASSUME Job!Assumption, JobInv, [Job!Next]_(Job!vars)
  PROVE  JobProcesses'
<1> USE DEF JobInv, JobProcesses, Job!installed, Job!move, Job!history
<1>1. CASE Job!LaunchdStarts
  BY <1>1 DEF Job!LaunchdStarts
<1>2. CASE Job!LauncherSpawns
  BY <1>2 DEF Job!LauncherSpawns
<1>3. CASE Job!LauncherForwards
  BY <1>3 DEF Job!LauncherForwards, Job!Hears
<1>4. CASE Job!Reaped
  BY <1>4 DEF Job!Reaped
<1>5. CASE Job!LaunchdStopped
  BY <1>5 DEF Job!LaunchdStopped
<1>6. CASE Job!LaunchdKills
  BY <1>6 DEF Job!LaunchdKills
<1>7. CASE Job!MoveOntoLauncher
  BY <1>7 DEF Job!MoveOntoLauncher
<1>8. CASE Job!MarkTried
  BY <1>8 DEF Job!MarkTried
<1>9. CASE Job!AskBrew
  BY <1>9 DEF Job!AskBrew
<1>10. CASE Job!WaitForStop
  BY <1>10 DEF Job!WaitForStop
<1>11. CASE Job!BeginLoop
  BY <1>11 DEF Job!BeginLoop
<1>12. CASE Job!StartServices
  BY <1>12 DEF Job!StartServices
<1>13. CASE Job!UpgradedOnDisk
  BY <1>13 DEF Job!UpgradedOnDisk
<1>14. CASE Job!GracefulStop
  BY <1>14 DEF Job!GracefulStop
<1>15. CASE Job!BrewStops
  BY <1>15 DEF Job!BrewStops, Job!Hears
<1>16. CASE Job!BrewStarts
  BY <1>16 DEF Job!BrewStarts
<1>17. CASE Job!BrewCutShort
  BY <1>17 DEF Job!BrewCutShort
<1>18. CASE Job!UserOrders
  BY <1>18 DEF Job!UserOrders
<1>19. CASE Job!BrewUpgrade
  BY <1>19 DEF Job!BrewUpgrade
<1>20. CASE Job!WatcherCrashes
  BY <1>20 DEF Job!WatcherCrashes
<1>21. CASE UNCHANGED Job!vars
  BY <1>21 DEF Job!vars
<1> QED BY <1>1, <1>2, <1>3, <1>4, <1>5, <1>6, <1>7, <1>8, <1>9, <1>10, <1>11, <1>12, <1>13, <1>14,
  <1>15, <1>16, <1>17, <1>18, <1>19, <1>20, <1>21 DEF Job!Next, Job!System

\* No step loses the SIGTERM of a stop.
LEMMA JobStopKept ==
  ASSUME Job!Assumption, JobInv, [Job!Next]_(Job!vars)
  PROVE  JobStop'
<1>0. /\ held \in BOOLEAN /\ unheard \in BOOLEAN
      /\ main \in {"none", "python", "spawning", "launcher"}
      /\ watcher \in Job!Deaf \cup {"none", "serving", "stopping", "dead"}
      /\ watcher # "none" => main \in {"python", "launcher"}
  BY DEF JobInv, Job!TypeOK
<1> USE DEF JobInv, JobStop, JobProcesses, Job!Deaf, Job!installed, Job!move, Job!history
<1>1. CASE Job!LaunchdStarts
  BY <1>0, <1>1 DEF Job!LaunchdStarts
<1>2. CASE Job!LauncherSpawns
  BY <1>0, <1>2 DEF Job!LauncherSpawns
<1>3. CASE Job!LauncherForwards
  BY <1>0, <1>3 DEF Job!LauncherForwards, Job!Hears
<1>4. CASE Job!Reaped
  BY <1>0, <1>4 DEF Job!Reaped
<1>5. CASE Job!LaunchdStopped
  BY <1>0, <1>5 DEF Job!LaunchdStopped
<1>6. CASE Job!LaunchdKills
  BY <1>0, <1>6 DEF Job!LaunchdKills
<1>7. CASE Job!MoveOntoLauncher
  BY <1>0, <1>7 DEF Job!MoveOntoLauncher
<1>8. CASE Job!MarkTried
  BY <1>0, <1>8 DEF Job!MarkTried
<1>9. CASE Job!AskBrew
  BY <1>0, <1>9 DEF Job!AskBrew
<1>10. CASE Job!WaitForStop
  BY <1>0, <1>10 DEF Job!WaitForStop
<1>11. CASE Job!BeginLoop
  BY <1>0, <1>11 DEF Job!BeginLoop
<1>12. CASE Job!StartServices
  BY <1>0, <1>12 DEF Job!StartServices
<1>13. CASE Job!UpgradedOnDisk
  BY <1>0, <1>13 DEF Job!UpgradedOnDisk
<1>14. CASE Job!GracefulStop
  BY <1>0, <1>14 DEF Job!GracefulStop
<1>15. CASE Job!BrewStops
  BY <1>0, <1>15 DEF Job!BrewStops, Job!Hears
<1>16. CASE Job!BrewStarts
  BY <1>0, <1>16 DEF Job!BrewStarts
<1>17. CASE Job!BrewCutShort
  BY <1>0, <1>17 DEF Job!BrewCutShort
<1>18. CASE Job!UserOrders
  BY <1>0, <1>18 DEF Job!UserOrders
<1>19. CASE Job!BrewUpgrade
  BY <1>0, <1>19 DEF Job!BrewUpgrade
<1>20. CASE Job!WatcherCrashes
  BY <1>0, <1>20 DEF Job!WatcherCrashes
<1>21. CASE UNCHANGED Job!vars
  BY <1>0, <1>21 DEF Job!vars
<1> QED BY <1>1, <1>2, <1>3, <1>4, <1>5, <1>6, <1>7, <1>8, <1>9, <1>10, <1>11, <1>12, <1>13, <1>14,
  <1>15, <1>16, <1>17, <1>18, <1>19, <1>20, <1>21 DEF Job!Next, Job!System

\* No step leaves services without their watcher, unless it died without its handler's stop.
LEMMA JobServicesKept ==
  ASSUME Job!Assumption, JobInv, [Job!Next]_(Job!vars)
  PROVE  JobServices'
<1>0. /\ held \in BOOLEAN /\ unheard \in BOOLEAN
      /\ main \in {"none", "python", "spawning", "launcher"}
      /\ watcher \in Job!Deaf \cup {"none", "serving", "stopping", "dead"}
      /\ watcher # "none" => main \in {"python", "launcher"}
  BY DEF JobInv, Job!TypeOK
<1> USE DEF JobInv, JobServices, JobProcesses, JobStop, Job!Deaf, Job!installed, Job!move, Job!history
<1>1. CASE Job!LaunchdStarts
  BY <1>0, <1>1 DEF Job!LaunchdStarts
<1>2. CASE Job!LauncherSpawns
  BY <1>0, <1>2 DEF Job!LauncherSpawns
<1>3. CASE Job!LauncherForwards
  BY <1>0, <1>3 DEF Job!LauncherForwards, Job!Hears
<1>4. CASE Job!Reaped
  BY <1>0, <1>4 DEF Job!Reaped
<1>5. CASE Job!LaunchdStopped
  BY <1>0, <1>5 DEF Job!LaunchdStopped
<1>6. CASE Job!LaunchdKills
  BY <1>0, <1>6 DEF Job!LaunchdKills
<1>7. CASE Job!MoveOntoLauncher
  BY <1>0, <1>7 DEF Job!MoveOntoLauncher
<1>8. CASE Job!MarkTried
  BY <1>0, <1>8 DEF Job!MarkTried
<1>9. CASE Job!AskBrew
  BY <1>0, <1>9 DEF Job!AskBrew
<1>10. CASE Job!WaitForStop
  BY <1>0, <1>10 DEF Job!WaitForStop
<1>11. CASE Job!BeginLoop
  BY <1>0, <1>11 DEF Job!BeginLoop
<1>12. CASE Job!StartServices
  BY <1>0, <1>12 DEF Job!StartServices
<1>13. CASE Job!UpgradedOnDisk
  BY <1>0, <1>13 DEF Job!UpgradedOnDisk
<1>14. CASE Job!GracefulStop
  BY <1>0, <1>14 DEF Job!GracefulStop
<1>15. CASE Job!BrewStops
  BY <1>0, <1>15 DEF Job!BrewStops, Job!Hears
<1>16. CASE Job!BrewStarts
  BY <1>0, <1>16 DEF Job!BrewStarts
<1>17. CASE Job!BrewCutShort
  BY <1>0, <1>17 DEF Job!BrewCutShort
<1>18. CASE Job!UserOrders
  BY <1>0, <1>18 DEF Job!UserOrders
<1>19. CASE Job!BrewUpgrade
  BY <1>0, <1>19 DEF Job!BrewUpgrade
<1>20. CASE Job!WatcherCrashes
  BY <1>0, <1>20 DEF Job!WatcherCrashes
<1>21. CASE UNCHANGED Job!vars
  BY <1>0, <1>21 DEF Job!vars
<1> QED BY <1>1, <1>2, <1>3, <1>4, <1>5, <1>6, <1>7, <1>8, <1>9, <1>10, <1>11, <1>12, <1>13, <1>14,
  <1>15, <1>16, <1>17, <1>18, <1>19, <1>20, <1>21 DEF Job!Next, Job!System

\* Every step leaves a release that asks for its restart with its mark written.
LEMMA JobMoveKept ==
  ASSUME Job!Assumption, JobInv, [Job!Next]_(Job!vars)
  PROVE  JobMove'
<1>0. /\ mark \in Int /\ moving \in Nat /\ version \in Nat /\ moving \in Job!Versions
      /\ tries \in [Job!Versions -> Nat] /\ version \in Job!Versions
      /\ \A v \in Job!Versions : v \in Nat
      /\ left.upgrades \in Nat /\ MaxUpgrades \in Nat
      /\ left \in [upgrades : 0..MaxUpgrades, orders : 0..MaxOrders, faults : 0..MaxJobFaults]
      /\ \A b \in {"orders", "faults"} : Job!Spend(b) => left'.upgrades = left.upgrades
      /\ Job!Spend("upgrades") => left'.upgrades = left.upgrades - 1
  BY DEF JobInv, Job!TypeOK, Job!Versions, Job!Spend, Job!Assumption
<1> USE DEF JobInv, JobMove, Job!installed, Job!move, Job!history
<1>1. CASE Job!LaunchdStarts
  BY <1>0, <1>1 DEF Job!LaunchdStarts
<1>2. CASE Job!LauncherSpawns
  BY <1>0, <1>2 DEF Job!LauncherSpawns
<1>3. CASE Job!LauncherForwards
  BY <1>0, <1>3 DEF Job!LauncherForwards, Job!Hears
<1>4. CASE Job!Reaped
  BY <1>0, <1>4 DEF Job!Reaped
<1>5. CASE Job!LaunchdStopped
  BY <1>0, <1>5 DEF Job!LaunchdStopped
<1>6. CASE Job!LaunchdKills
  BY <1>0, <1>6 DEF Job!LaunchdKills
<1>7. CASE Job!MoveOntoLauncher
  BY <1>0, <1>7 DEF Job!MoveOntoLauncher
<1>8. CASE Job!MarkTried
  BY <1>0, <1>8 DEF Job!MarkTried
<1>9. CASE Job!AskBrew
  BY <1>0, <1>9 DEF Job!AskBrew
<1>10. CASE Job!WaitForStop
  BY <1>0, <1>10 DEF Job!WaitForStop
<1>11. CASE Job!BeginLoop
  BY <1>0, <1>11 DEF Job!BeginLoop
<1>12. CASE Job!StartServices
  BY <1>0, <1>12 DEF Job!StartServices
<1>13. CASE Job!UpgradedOnDisk
  BY <1>0, <1>13 DEF Job!UpgradedOnDisk
<1>14. CASE Job!GracefulStop
  BY <1>0, <1>14 DEF Job!GracefulStop
<1>15. CASE Job!BrewStops
  BY <1>0, <1>15 DEF Job!BrewStops, Job!Hears
<1>16. CASE Job!BrewStarts
  BY <1>0, <1>16 DEF Job!BrewStarts
<1>17. CASE Job!BrewCutShort
  BY <1>0, <1>17 DEF Job!BrewCutShort
<1>18. CASE Job!UserOrders
  BY <1>0, <1>18 DEF Job!UserOrders
<1>19. CASE Job!BrewUpgrade
  BY <1>0, <1>19 DEF Job!BrewUpgrade
<1>20. CASE Job!WatcherCrashes
  BY <1>0, <1>20 DEF Job!WatcherCrashes
<1>21. CASE UNCHANGED Job!vars
  BY <1>0, <1>21 DEF Job!vars
<1> QED BY <1>1, <1>2, <1>3, <1>4, <1>5, <1>6, <1>7, <1>8, <1>9, <1>10, <1>11, <1>12, <1>13, <1>14,
  <1>15, <1>16, <1>17, <1>18, <1>19, <1>20, <1>21 DEF Job!Next, Job!System

\* At every moment the SIGTERM of a stop is in the watcher or held for it, services are those of
\* the watcher, and a release has asked for a restart once at most, after its mark was written.
THEOREM JobInvariant == Job!Spec => []JobInv
<1>1. JobInv /\ [Job!Next]_(Job!vars) => JobInv'
  BY JobTypesKept, JobProcessesKept, JobStopKept, JobServicesKept, JobMoveKept,
    WorkerAssumption DEF JobInv
<1> QED BY <1>1, JobStarts, WorkerAssumption, PTL DEF Job!Spec

\* What the model says launchd, the launcher, the watcher and brew are, they are.
THEOREM JobTypesCorrect == Job!Spec => []Job!TypeOK
<1>1. JobInv => Job!TypeOK
  BY DEF JobInv
<1> QED BY <1>1, JobInvariant, PTL

\* Through any number of upgrades, orders and faults: a stop ends what the watcher ran, a release
\* asks once for the move onto the launcher, and below the launcher nothing runs for another.
THEOREM HandOversAreClean == Job!Spec => []HandOverIsClean
<1>1. JobInv => HandOverIsClean
  <2> SUFFICES ASSUME JobInv PROVE Job!HandOverIsClean
    BY DEF HandOverIsClean
  <2>1. Job!StopEndsServices
    BY DEF JobInv, JobProcesses, JobServices, Job!StopEndsServices
  <2>2. Job!TriedOnce
    BY DEF JobInv, JobMove, Job!TriedOnce
  <2>3. Job!RunsUnderTheLauncher
    BY DEF JobInv, JobServices, Job!RunsUnderTheLauncher, Job!NoServices
  <2> QED BY <2>1, <2>2, <2>3 DEF Job!HandOverIsClean
<1> QED BY <1>1, JobInvariant, PTL

-----------------------------------------------------------------------------
(***************************************************************************)
(* Supervisor. One worker at a time needs that who has seen none still     *)
(* holds the lock when it starts one. Sparing strangers needs that a time  *)
(* of birth in the pid file is never that of a stranger: what is born      *)
(* later is younger, and a pid is not used again while its starter holds   *)
(* it.                                                                     *)
(***************************************************************************)
Working(p) == Pid!WorkerShaped(p) /\ ~proc[p].doomed

\* What the kinds of processes are, and the starters that hold a child.
PidProcesses ==
  /\ \A p \in Pids :
       /\ proc[p].is = "stranger" => proc[p].grp = p
       /\ proc[p].is \in {"stranger", "helper"} => ~proc[p].hung
       /\ proc[p].born <= clock
  /\ \A s \in Starters :
       /\ at[s] \in {"stamp", "settle"} => spawned[s] \in Pids
       /\ spawned[s] \in Pids => proc[spawned[s]].is # "stranger"

\* What the pid file says.
PidRecorded ==
  /\ pidfile.pid = NoPid => pidfile = Pid!NoFile
  /\ pidfile.stamp <= clock \/ pidfile.stamp = Pid!Locale
  /\ ~blind /\ ~onTrust /\ pidfile.pid \in Pids /\ pidfile.stamp \in 1..MaxBorn
       /\ proc[pidfile.pid].born = pidfile.stamp => proc[pidfile.pid].is # "stranger"

\* One start at a time, and one session.
PidOne ==
  ~unlocked /\ ~blind =>
    /\ \A s \in Starters : at[s] \notin {"idle", "lock"} => lock = s
    /\ \A s \in Starters : at[s] = "spawn" => \A p \in Pids : ~Working(p)
    /\ \A p, q \in Pids : Working(p) /\ Working(q) => proc[p].grp = proc[q].grp

PidInv == Pid!TypeOK /\ PidProcesses /\ PidRecorded /\ PidOne

\* The smallest of some pids is one of them.
LEMMA SmallestIsOne ==
  ASSUME Pid!Assumption, NEW S \in SUBSET Pids, S # {}
  PROVE  Pid!SmallestOf(S) \in S
<1>1. S \subseteq Nat
  BY DEF Pid!Assumption
<1>2. PICK p \in S : \A q \in S : <<q, p>> \notin OpToRel(<, Nat)
  BY <1>1, NatLessThanWellFounded, WFMin
<1>3. \A q \in S : ~(q < p)
  BY <1>1, <1>2, Zenon DEF OpToRel
<1>4. \A q \in S : p <= q
  BY <1>1, <1>3
<1> QED BY <1>4 DEF Pid!SmallestOf

ProcState == [is : Pid!Kinds, grp : Pids \cup {NoPid}, born : 0..MaxBorn,
              hung : BOOLEAN, doomed : BOOLEAN]

\* Which process read_pid settles on: a worker that is seen, with its time of birth, or the one
\* in the file.
SettlesOn(file, answers) ==
  /\ file \in [pid : Pids \cup {NoPid}, stamp : Pid!Stamps]
  /\ file = Pid!NoFile <=> file.pid = NoPid
  /\ \/ file = Pid!NoFile /\ (answers => Pid!ScanWorkerPids = {})
     \/ /\ file.pid \in Pid!ScanWorkerPids /\ answers
        /\ file.stamp = proc[file.pid].born
     \/ /\ file.pid \in Pids /\ file.pid = pidfile.pid /\ Pid!Alive(file.pid)
        /\ \/ file = pidfile /\ (pidfile.stamp = Pid!Untold \/ ~answers)
           \/ /\ answers /\ file.stamp = proc[file.pid].born
              /\ pidfile.stamp \in {file.stamp, Pid!Locale}

\* What read_pid answers is a worker that is seen, with its time of birth, or the process that
\* the pid file names, as far as it could be asked.
LEMMA WhatReadPidSays ==
  ASSUME Pid!Assumption, PidInv, NEW answers \in BOOLEAN
  PROVE  SettlesOn(Pid!ReadPid(answers), answers)
<1> DEFINE file == Pid!ReadPid(answers)
<1>1. /\ proc \in [Pids -> ProcState] /\ pidfile \in [pid : Pids \cup {NoPid}, stamp : Pid!Stamps]
      /\ NoPid \notin Pids /\ 0..MaxBorn \subseteq Pid!Stamps
      /\ Pid!NoFile \in [pid : Pids \cup {NoPid}, stamp : Pid!Stamps]
  BY DEF PidInv, Pid!TypeOK, Pid!Assumption, Pid!Stamps, Pid!Locale, Pid!NoFile, Pid!Untold, ProcState
<1>2. ASSUME answers, Pid!ScanWorkerPids # {}
      PROVE  /\ Pid!Adopted(answers) \in [pid : Pids \cup {NoPid}, stamp : Pid!Stamps]
             /\ Pid!Adopted(answers).pid \in Pid!ScanWorkerPids
             /\ Pid!Adopted(answers).stamp = proc[Pid!Adopted(answers).pid].born
  <2> DEFINE p == Pid!SmallestOf(Pid!ScanWorkerPids)
  <2>1. p \in Pid!ScanWorkerPids /\ p \in Pids
    BY <1>2, SmallestIsOne DEF Pid!ScanWorkerPids
  <2>2. Pid!Adopted(answers) = [pid |-> p, stamp |-> proc[p].born]
    BY <1>2 DEF Pid!Adopted
  <2> HIDE DEF p
  <2>3. proc[p].born \in Pid!Stamps
    BY <1>1, <2>1 DEF ProcState
  <2> QED BY <2>1, <2>2, <2>3
<1>3. ~answers \/ Pid!ScanWorkerPids = {} => Pid!Adopted(answers) = Pid!NoFile
  BY DEF Pid!Adopted
<1>4. Pid!ScanWorkerPids \subseteq Pids
  BY DEF Pid!ScanWorkerPids
<1>5. Pid!NoFile.pid = NoPid
  BY DEF Pid!NoFile
<1>6. CASE file = Pid!Adopted(answers)
  BY <1>1, <1>2, <1>3, <1>4, <1>5, <1>6 DEF SettlesOn
<1>7. CASE file # Pid!Adopted(answers)
  <2>1. pidfile.pid \in Pids /\ Pid!Alive(pidfile.pid) /\ proc[pidfile.pid] \in ProcState
    BY <1>1, <1>7 DEF Pid!ReadPid
  <2>2. CASE file = pidfile /\ (pidfile.stamp = Pid!Untold \/ ~answers)
    BY <1>1, <1>5, <2>1, <2>2 DEF SettlesOn
  <2>3. CASE ~(pidfile.stamp = Pid!Untold \/ ~answers)
    <3>1. file = [pid |-> pidfile.pid, stamp |-> proc[pidfile.pid].born]
          /\ pidfile.stamp \in {proc[pidfile.pid].born, Pid!Locale}
      BY <1>7, <2>1, <2>3 DEF Pid!ReadPid, Pid!SameStartTime
    <3>2. proc[pidfile.pid].born \in Pid!Stamps
      BY <1>1, <2>1 DEF ProcState
    <3> QED BY <1>1, <1>5, <2>1, <2>3, <3>1, <3>2 DEF SettlesOn
  <2> QED BY <1>7, <2>1, <2>2, <2>3 DEF Pid!ReadPid
<1> QED BY <1>6, <1>7

\* Whether ps answered, and what that leaves in the history.
LEMMA PidPs ==
  ASSUME Pid!Assumption, PidInv, NEW answers \in BOOLEAN, Pid!Ps(answers)
  PROVE  /\ faults' \in 0..MaxPidFaults /\ blind' \in BOOLEAN /\ onTrust' \in BOOLEAN
         /\ ~blind' => ~blind /\ answers
         /\ ~onTrust' => ~onTrust
         /\ ~onTrust' /\ pidfile # Pid!NoFile => pidfile.stamp \notin {Pid!Untold, Pid!Locale}
<1>1. blind \in BOOLEAN /\ onTrust \in BOOLEAN /\ faults \in 0..MaxPidFaults
  BY DEF PidInv, Pid!TypeOK
<1>2. faults' \in 0..MaxPidFaults
  BY <1>1 DEF Pid!Ps, Pid!Fault, Pid!NoFault, Pid!Assumption
<1>3. /\ blind' = (blind \/ ~answers)
      /\ onTrust' = (onTrust \/ (pidfile # Pid!NoFile /\ pidfile.stamp \in {Pid!Untold, Pid!Locale}))
  BY DEF Pid!Ps
<1> QED BY <1>1, <1>2, <1>3, Zenon

\* What becomes of processes when nobody is born: they are gone, or what they were.
Fades(new) ==
  /\ new \in [Pids -> ProcState]
  /\ \A p \in Pids :
       \/ new[p] = Pid!Free
       \/ /\ new[p].is = proc[p].is /\ new[p].grp = proc[p].grp /\ new[p].born = proc[p].born
          /\ proc[p].doomed => new[p].doomed
          /\ new[p].hung => proc[p].hung \/ proc[p].is \in {"leader", "child"}

\* A pid that is free names no process.
LEMMA FreeIsFree ==
  Pid!Assumption => /\ Pid!Free \in ProcState /\ Pid!Free.is = "free" /\ Pid!Free.born = 0
                    /\ ~Pid!Free.hung /\ ~Pid!Free.doomed
BY DEF Pid!Assumption, Pid!Free, ProcState, Pid!Kinds

\* What a signal takes away is gone or doomed, a helper at once, and nobody else is touched.
LEMMA WhatDies ==
  ASSUME Pid!Assumption, PidInv, NEW S \in SUBSET Pids
  PROVE  /\ Fades(Pid!Dead(S))
         /\ \A p \in S : Pid!Dead(S)[p].is = "free" \/ Pid!Dead(S)[p].doomed
         /\ \A p \in S : proc[p].is = "helper" => Pid!Dead(S)[p].is = "free"
         /\ \A p \in Pids \ S : Pid!Dead(S)[p] = proc[p]
<1> DEFINE new == Pid!Dead(S)
<1>1. proc \in [Pids -> ProcState]
  BY DEF PidInv, Pid!TypeOK, ProcState
<1>2. \A p \in Pids : new[p] = IF p \notin S \/ proc[p].is = "free" THEN proc[p]
                               ELSE IF proc[p].hung THEN [proc[p] EXCEPT !.doomed = TRUE]
                               ELSE Pid!Free
  BY DEF Pid!Dead
<1>3. \A p \in Pids : [proc[p] EXCEPT !.doomed = TRUE] \in ProcState
  BY <1>1 DEF ProcState
<1>4. new \in [Pids -> ProcState]
  BY <1>1, <1>3, FreeIsFree DEF Pid!Dead
<1> HIDE DEF new
<1>5. \A p \in Pids : proc[p].is = "helper" => ~proc[p].hung
  BY DEF PidInv, PidProcesses
<1>6. Fades(new)
  <2> SUFFICES ASSUME NEW p \in Pids, new[p] # Pid!Free
               PROVE  /\ new[p].is = proc[p].is /\ new[p].grp = proc[p].grp /\ new[p].born = proc[p].born
                      /\ proc[p].doomed => new[p].doomed
                      /\ new[p].hung => proc[p].hung \/ proc[p].is \in {"leader", "child"}
    BY <1>4 DEF Fades
  <2>1. proc[p] \in ProcState
    BY <1>1
  <2> QED BY <1>2, <2>1 DEF ProcState
<1>7. \A p \in S : new[p].is = "free" \/ new[p].doomed
  <2> SUFFICES ASSUME NEW p \in S PROVE new[p].is = "free" \/ new[p].doomed
    OBVIOUS
  <2>1. proc[p] \in ProcState
    BY <1>1
  <2> QED BY <1>2, <2>1, FreeIsFree DEF ProcState
<1>8. \A p \in S : proc[p].is = "helper" => new[p].is = "free"
  BY <1>2, <1>5, FreeIsFree
<1>9. \A p \in Pids \ S : new[p] = proc[p]
  BY <1>2
<1> QED BY <1>6, <1>7, <1>8, <1>9 DEF new

\* kill_pid, of a process that is not the stranger that it may be taken for.
LEMMA WhatKillPidKills ==
  ASSUME Pid!Assumption, PidInv, NEW answers \in BOOLEAN, NEW file, SettlesOn(file, answers),
         file # Pid!NoFile
  PROVE  /\ Fades(Pid!Killed(file, answers))
         /\ answers => \A p \in Pids : Pid!WorkerShaped(p) =>
              Pid!Killed(file, answers)[p].is = "free" \/ Pid!Killed(file, answers)[p].doomed
         /\ \A p \in Pids : proc[p].is = "stranger" /\ Pid!Killed(file, answers)[p] # proc[p]
              => file.pid = p
         /\ LET session == proc[file.pid].grp IN
            session # NoPid /\ proc[session].is = "leader" =>
              \A q \in Pids : proc[q].grp = session => Pid!Killed(file, answers)[q].is # "helper"
<1> DEFINE S == Pid!Group(file.pid) \cup (IF answers THEN Pid!ScanWorkerPids ELSE {})
           new == Pid!Killed(file, answers)
           session == proc[file.pid].grp
<1>1. file.pid \in Pids /\ session \in Pids \cup {NoPid} /\ proc \in [Pids -> ProcState]
  <2>1. file.pid \in Pids
    BY DEF SettlesOn, Pid!ScanWorkerPids
  <2> QED BY <2>1 DEF PidInv, Pid!TypeOK, ProcState
<1>2. S \in SUBSET Pids /\ new = Pid!Dead(S)
  BY <1>1 DEF Pid!Group, Pid!ScanWorkerPids, Pid!Killed
<1> HIDE DEF new
<1>3. /\ Fades(new)
      /\ \A p \in S : new[p].is = "free" \/ new[p].doomed
      /\ \A p \in S : proc[p].is = "helper" => new[p].is = "free"
      /\ \A p \in Pids \ S : new[p] = proc[p]
  BY <1>2, WhatDies
<1>4. answers => \A p \in Pids : Pid!WorkerShaped(p) => new[p].is = "free" \/ new[p].doomed
  BY <1>3 DEF Pid!ScanWorkerPids
<1>5. ASSUME NEW p \in Pids, proc[p].is = "stranger", new[p] # proc[p] PROVE file.pid = p
  <2>1. p \in S /\ p \notin Pid!ScanWorkerPids
    BY <1>3, <1>5 DEF Pid!ScanWorkerPids, Pid!WorkerShaped
  <2>2. proc[p].grp = p
    BY <1>5 DEF PidInv, PidProcesses
  <2>3. Pid!OwnGroup(file.pid) => proc[p].grp # session
    BY <1>5, <2>2 DEF Pid!OwnGroup
  <2> QED BY <2>1, <2>3 DEF Pid!Group
<1>6. ASSUME session # NoPid, proc[session].is = "leader", NEW q \in Pids, proc[q].grp = session
      PROVE  new[q].is # "helper"
  <2>1. q \in S
    BY <1>6 DEF Pid!Group, Pid!OwnGroup
  <2>2. new[q] = Pid!Free \/ new[q].is = proc[q].is
    BY <1>3 DEF Fades
  <2> QED BY <1>3, <2>1, <2>2, FreeIsFree
<1> QED BY <1>3, <1>4, <1>5, <1>6 DEF new

\* It holds where no process runs, and where one worker does that the pid file names or does not.
LEMMA PidStarts == Pid!Assumption /\ Pid!Init => PidInv
<1> SUFFICES ASSUME Pid!Assumption, Pid!Init PROVE PidInv
  OBVIOUS
<1>1. /\ Pid!Free \in ProcState /\ NoPid \notin Pids /\ "free" \notin Starters
      /\ MaxBorn \in Nat \ {0} /\ MaxPidFaults \in Nat
  BY FreeIsFree DEF Pid!Assumption
<1>2. /\ at \in [Starters -> {"idle"}] /\ spawned \in [Starters -> {NoPid}]
      /\ lock = "free" /\ unlocked = FALSE /\ blind = FALSE /\ onTrust = FALSE
      /\ faults = MaxPidFaults
  BY DEF Pid!Init
<1>2a. /\ at \in [Starters -> {"idle", "lock", "check", "kill", "spawn", "stamp", "settle"}]
       /\ spawned \in [Starters -> Pids \cup {NoPid}] /\ lock \in Starters \cup {"free"}
       /\ unlocked \in BOOLEAN /\ blind \in BOOLEAN /\ onTrust \in BOOLEAN
       /\ faults \in 0..MaxPidFaults
  <2>1. at = [s \in Starters |-> "idle"] /\ spawned = [s \in Starters |-> NoPid]
    BY DEF Pid!Init
  <2>2. unlocked \in BOOLEAN /\ blind \in BOOLEAN /\ onTrust \in BOOLEAN
    BY <1>2, Zenon
  <2> QED BY <1>1, <1>2, <2>1, <2>2
<1>3. CASE proc = [p \in Pids |-> Pid!Free] /\ pidfile = Pid!NoFile /\ clock = 0
  <2>1. Pid!TypeOK
    <3>1. proc \in [Pids -> ProcState]
      BY <1>1, <1>3
    <3>2. pidfile \in [pid : Pids \cup {NoPid}, stamp : Pid!Stamps] /\ 0 \in 0..MaxBorn
      BY <1>1, <1>3 DEF Pid!NoFile, Pid!Stamps, Pid!Locale, Pid!Untold
    <3> QED BY <1>2a, <1>3, <3>1, <3>2 DEF Pid!TypeOK, ProcState
  <2>2. PidProcesses /\ PidRecorded
    BY <1>1, <1>2, <1>3, FreeIsFree DEF PidProcesses, PidRecorded, Pid!NoFile, Pid!Untold
  <2>3. PidOne
    BY <1>2, <1>3, FreeIsFree DEF PidOne, Working, Pid!WorkerShaped
  <2> QED BY <2>1, <2>2, <2>3 DEF PidInv
<1>4. CASE ~(proc = [p \in Pids |-> Pid!Free] /\ pidfile = Pid!NoFile /\ clock = 0)
  <2> DEFINE lead(p) == [Pid!Free EXCEPT !.is = "leader", !.grp = p, !.born = 1]
  <2>1. PICK p \in Pids :
          /\ clock = 1
          /\ proc = [q \in Pids |-> IF q = p THEN lead(p) ELSE Pid!Free]
          /\ pidfile \in {Pid!NoFile, [pid |-> p, stamp |-> 1], [pid |-> p, stamp |-> Pid!Locale]}
    BY <1>4 DEF Pid!Init
  <2>2. 1 \in 0..MaxBorn
    BY <1>1
  <2>3. [Pid!Free EXCEPT !.is = "leader"] \in ProcState
    BY <1>1 DEF ProcState, Pid!Kinds
  <2>4. /\ lead(p) \in ProcState
        /\ lead(p).is = "leader" /\ lead(p).grp = p /\ lead(p).born = 1
        /\ ~lead(p).hung /\ ~lead(p).doomed
    BY <1>1, <2>2, <2>3, FreeIsFree DEF ProcState, Pid!Kinds
  <2> HIDE DEF lead
  <2>5. Pid!TypeOK
    <3>1. proc \in [Pids -> ProcState]
      BY <1>1, <2>1, <2>4
    <3>2. pidfile \in [pid : Pids \cup {NoPid}, stamp : Pid!Stamps]
      BY <1>1, <2>1, <2>2 DEF Pid!NoFile, Pid!Stamps, Pid!Locale, Pid!Untold
    <3> QED BY <1>2a, <2>1, <2>2, <3>1, <3>2 DEF Pid!TypeOK, ProcState
  <2>6. PidProcesses
    BY <1>1, <1>2, <2>1, <2>4, FreeIsFree DEF PidProcesses
  <2>7. PidRecorded
    BY <1>1, <2>1, <2>4 DEF PidRecorded, Pid!NoFile, Pid!Untold
  <2>8. PidOne
    BY <1>2, <2>1, <2>4, FreeIsFree DEF PidOne, Working, Pid!WorkerShaped
  <2> QED BY <2>5, <2>6, <2>7, <2>8 DEF PidInv
<1> QED BY <1>3, <1>4

\* A birth: one more process, younger than all, where there was none.
LEMMA WhatIsBorn ==
  ASSUME Pid!Assumption, PidInv, NEW p \in Pids, NEW kind \in Pid!Kinds,
         NEW grp \in Pids \cup {NoPid}, Pid!Born(p, kind, grp)
  PROVE  /\ clock' = clock + 1 /\ clock' \in 0..MaxBorn
         /\ proc' \in [Pids -> ProcState]
         /\ proc[p] = Pid!Free
         /\ proc'[p] = [is |-> kind, grp |-> grp, born |-> clock + 1, hung |-> FALSE, doomed |-> FALSE]
         /\ \A q \in Pids \ {p} : proc'[q] = proc[q]
<1>1. proc \in [Pids -> ProcState] /\ clock \in 0..MaxBorn /\ MaxBorn \in Nat
  BY DEF PidInv, Pid!TypeOK, Pid!Assumption, ProcState
<1>2. clock' = clock + 1 /\ clock' \in 0..MaxBorn
  BY <1>1 DEF Pid!Born
<1>3. [is |-> kind, grp |-> grp, born |-> clock', hung |-> FALSE, doomed |-> FALSE] \in ProcState
  BY <1>2 DEF ProcState
<1> QED BY <1>1, <1>2, <1>3 DEF Pid!Born

\* The other steps: processes die, hang and come back, and nobody is born.
Fading == Fades(proc') /\ clock' = clock

\* Processes that stay as they are do not come to be anything else.
LEMMA SameFades == ASSUME Pid!Assumption, PidInv PROVE Fades(proc)
BY DEF PidInv, Pid!TypeOK, Fades, ProcState

\* Stopping, killing, hanging, recovering and exiting give birth to nobody.
LEMMA WhoFades ==
  ASSUME Pid!Assumption, PidInv,
         \/ UNCHANGED <<proc, clock>>
         \/ \E s \in Starters : Pid!KillStaleProcesses(s) \/ Pid!Restart(s)
         \/ Pid!KillPid \/ Pid!Hangs \/ Pid!ComesBack \/ Pid!Exits
  PROVE  Fading
<1>1. proc \in [Pids -> ProcState]
  BY DEF PidInv, Pid!TypeOK, ProcState
<1>2. CASE UNCHANGED <<proc, clock>>
  BY <1>2, SameFades DEF Fading
<1>3. ASSUME NEW s \in Starters, Pid!KillStaleProcesses(s) PROVE Fading
  <2>1. PICK answers \in BOOLEAN :
          proc' = IF answers THEN Pid!Dead(Pid!ScanWorkerPids \ {Pid!ReadPid(answers).pid}) ELSE proc
    BY <1>3 DEF Pid!KillStaleProcesses
  <2>2. Pid!ScanWorkerPids \ {Pid!ReadPid(answers).pid} \in SUBSET Pids
    BY DEF Pid!ScanWorkerPids
  <2> QED BY <1>3, <2>1, <2>2, WhatDies, SameFades DEF Fading, Pid!KillStaleProcesses
<1>4. ASSUME NEW s \in Starters, Pid!Restart(s) PROVE Fading
  <2>1. PICK answers \in BOOLEAN :
          proc' = IF Pid!ReadPid(answers) = Pid!NoFile THEN proc
                  ELSE Pid!Killed(Pid!ReadPid(answers), answers)
    BY <1>4 DEF Pid!Restart
  <2> QED BY <1>4, <2>1, WhatReadPidSays, WhatKillPidKills, SameFades DEF Fading, Pid!Restart
<1>5. CASE Pid!KillPid
  <2>1. PICK answers \in BOOLEAN :
          /\ Pid!ReadPid(answers) # Pid!NoFile
          /\ proc' = Pid!Killed(Pid!ReadPid(answers), answers)
    BY <1>5 DEF Pid!KillPid
  <2> QED BY <1>5, <2>1, WhatReadPidSays, WhatKillPidKills DEF Fading, Pid!KillPid
<1>6. CASE Pid!Hangs
  <2>1. PICK p \in Pids : /\ proc[p].is \in {"leader", "child"}
                          /\ proc' = [proc EXCEPT ![p].hung = TRUE]
    BY <1>6 DEF Pid!Hangs
  <2>2. proc[p] \in ProcState
    BY <1>1
  <2>3. proc' \in [Pids -> ProcState] /\ \A q \in Pids \ {p} : proc'[q] = proc[q]
    BY <1>1, <2>1, <2>2 DEF ProcState
  <2>4. proc'[p] = [proc[p] EXCEPT !.hung = TRUE]
    BY <1>1, <2>1
  <2>5. \A q \in Pids : /\ proc'[q].is = proc[q].is /\ proc'[q].grp = proc[q].grp
                        /\ proc'[q].born = proc[q].born
                        /\ proc[q].doomed => proc'[q].doomed
                        /\ proc'[q].hung => proc[q].hung \/ proc[q].is \in {"leader", "child"}
    BY <2>1, <2>2, <2>3, <2>4 DEF ProcState
  <2> QED BY <1>6, <2>3, <2>5 DEF Fading, Fades, Pid!Hangs
<1>7. CASE Pid!ComesBack
  <2>1. PICK p \in Pids : proc' = [proc EXCEPT ![p] = IF proc[p].doomed THEN Pid!Free
                                                      ELSE [proc[p] EXCEPT !.hung = FALSE]]
    BY <1>7 DEF Pid!ComesBack
  <2>2. proc[p] \in ProcState
    BY <1>1
  <2>3. [proc[p] EXCEPT !.hung = FALSE] \in ProcState
    BY <2>2 DEF ProcState
  <2>4. proc' \in [Pids -> ProcState] /\ \A q \in Pids \ {p} : proc'[q] = proc[q]
    BY <1>1, <2>1, <2>3, FreeIsFree
  <2>5. proc'[p] = Pid!Free \/ (proc'[p] = [proc[p] EXCEPT !.hung = FALSE] /\ ~proc[p].doomed)
    BY <1>1, <2>1
  <2>6. \A q \in Pids : \/ proc'[q] = Pid!Free
                        \/ /\ proc'[q].is = proc[q].is /\ proc'[q].grp = proc[q].grp
                           /\ proc'[q].born = proc[q].born
                           /\ proc[q].doomed => proc'[q].doomed
                           /\ proc'[q].hung => proc[q].hung \/ proc[q].is \in {"leader", "child"}
    BY <2>2, <2>4, <2>5 DEF ProcState
  <2> QED BY <1>7, <2>4, <2>6 DEF Fading, Fades, Pid!ComesBack
<1>8. CASE Pid!Exits
  <2>1. PICK p \in Pids : proc' = [proc EXCEPT ![p] = Pid!Free]
    BY <1>8 DEF Pid!Exits
  <2>2. proc' \in [Pids -> ProcState]
    BY <1>1, <2>1, FreeIsFree
  <2>3. \A q \in Pids : proc'[q] = Pid!Free \/ proc'[q] = proc[q]
    BY <1>1, <2>1
  <2> QED BY <1>8, <2>2, <2>3 DEF Fading, Fades, Pid!Exits
<1> QED BY <1>2, <1>3, <1>4, <1>5, <1>6, <1>7, <1>8

\* Where each starter is, what it holds, and what the others see of it.
LEMMA PidTypesKept ==
  ASSUME Pid!Assumption, PidInv, [Pid!Next]_(Pid!vars)
  PROVE  Pid!TypeOK'
<1> DEFINE File  == [pid : Pids \cup {NoPid}, stamp : Pid!Stamps]
           Steps == {"idle", "lock", "check", "kill", "spawn", "stamp", "settle"}
<1>1. /\ proc \in [Pids -> ProcState] /\ pidfile \in File
      /\ at \in [Starters -> Steps] /\ spawned \in [Starters -> Pids \cup {NoPid}]
      /\ lock \in Starters \cup {"free"} /\ clock \in 0..MaxBorn /\ faults \in 0..MaxPidFaults
  BY DEF PidInv, Pid!TypeOK, ProcState
<1>2. unlocked \in BOOLEAN /\ blind \in BOOLEAN /\ onTrust \in BOOLEAN
  BY DEF PidInv, Pid!TypeOK
<1>3. Pid!NoFile \in File /\ 0..MaxBorn \subseteq Pid!Stamps
  BY DEF Pid!NoFile, Pid!Stamps, Pid!Untold, Pid!Locale, Pid!Assumption
<1>4. /\ \A answers \in BOOLEAN : Pid!ReadPid(answers) \in File
      /\ \A answers \in BOOLEAN : Pid!Ps(answers) =>
           faults' \in 0..MaxPidFaults /\ blind' \in BOOLEAN /\ onTrust' \in BOOLEAN
      /\ Pid!Fault \/ UNCHANGED faults => faults' \in 0..MaxPidFaults
  <2>1. \A answers \in BOOLEAN : Pid!ReadPid(answers) \in File
    BY WhatReadPidSays DEF SettlesOn
  <2>2. Pid!Fault \/ UNCHANGED faults => faults' \in 0..MaxPidFaults
    BY <1>1 DEF Pid!Fault, Pid!Assumption
  <2> QED BY <2>1, <2>2, PidPs
<1>5. /\ \A s \in Starters, step \in Steps : Pid!Goto(s, step) => at' \in [Starters -> Steps]
      /\ \A s \in Starters : Pid!Ends(s) =>
           /\ at' \in [Starters -> Steps] /\ lock' \in Starters \cup {"free"}
           /\ spawned' \in [Starters -> Pids \cup {NoPid}]
  BY <1>1 DEF Pid!Goto, Pid!Ends
<1>6. Fading => proc' \in [Pids -> ProcState] /\ clock' \in 0..MaxBorn
  BY <1>1 DEF Fading, Fades
<1> DEFINE Rest == /\ at' \in [Starters -> Steps] /\ spawned' \in [Starters -> Pids \cup {NoPid}]
                   /\ lock' \in Starters \cup {"free"} /\ pidfile' \in File
                   /\ faults' \in 0..MaxPidFaults
                   /\ unlocked' \in BOOLEAN /\ blind' \in BOOLEAN /\ onTrust' \in BOOLEAN
           Goal == Rest /\ proc' \in [Pids -> ProcState] /\ clock' \in 0..MaxBorn
<1>7. SUFFICES Goal
  BY DEF Pid!TypeOK, ProcState
<1> HIDE DEF File, Steps
<1>8. {"idle", "lock", "check", "kill", "spawn", "stamp", "settle"} \subseteq Steps
  BY DEF Steps
<1>11. ASSUME NEW s \in Starters, Pid!CmdStart(s) PROVE Goal
  BY <1>1, <1>2, <1>5, <1>8, <1>11 DEF Pid!CmdStart
<1>12. ASSUME NEW s \in Starters, Pid!StartLock(s) PROVE Goal
  <2>1. unlocked' \in BOOLEAN
    BY <1>2, <1>12 DEF Pid!StartLock
  <2>2. lock' \in Starters \cup {"free"} /\ faults' \in 0..MaxPidFaults
    BY <1>1, <1>4, <1>12 DEF Pid!StartLock, Pid!NoFault
  <2> QED BY <1>1, <1>2, <1>5, <1>8, <1>12, <2>1, <2>2 DEF Pid!StartLock
<1>13. ASSUME NEW s \in Starters, Pid!KillStaleProcesses(s) PROVE Goal
  <2>1. Fading
    BY <1>13, WhoFades
  <2>2. pidfile' \in File /\ faults' \in 0..MaxPidFaults /\ blind' \in BOOLEAN /\ onTrust' \in BOOLEAN
    BY <1>4, <1>13 DEF Pid!KillStaleProcesses
  <2>3. /\ at' \in [Starters -> Steps] /\ lock' \in Starters \cup {"free"}
        /\ spawned' \in [Starters -> Pids \cup {NoPid}]
    BY <1>1, <1>5, <1>8, <1>13 DEF Pid!KillStaleProcesses
  <2> QED BY <1>2, <1>6, <1>13, <2>1, <2>2, <2>3 DEF Pid!KillStaleProcesses
<1>14. ASSUME NEW s \in Starters, Pid!Restart(s) PROVE Goal
  <2>1. Fading
    BY <1>14, WhoFades
  <2>2. pidfile' \in File /\ faults' \in 0..MaxPidFaults /\ blind' \in BOOLEAN /\ onTrust' \in BOOLEAN
    BY <1>3, <1>4, <1>14 DEF Pid!Restart
  <2> QED BY <1>1, <1>2, <1>5, <1>6, <1>8, <1>14, <2>1, <2>2 DEF Pid!Restart
<1>15. ASSUME NEW s \in Starters, Pid!StartService(s) PROVE Goal
  <2>1. PICK p \in Pids : Pid!Born(p, "leader", p) /\ spawned' = [spawned EXCEPT ![s] = p]
    BY <1>15 DEF Pid!StartService
  <2>2. proc' \in [Pids -> ProcState] /\ clock' \in 0..MaxBorn
    BY <2>1, WhatIsBorn DEF Pid!Kinds
  <2>3. spawned' \in [Starters -> Pids \cup {NoPid}]
    BY <1>1, <2>1
  <2> QED BY <1>1, <1>2, <1>5, <1>8, <1>15, <2>2, <2>3 DEF Pid!StartService
<1>16. ASSUME NEW s \in Starters, Pid!WritePid(s) PROVE Goal
  <2>1. PICK answers \in BOOLEAN :
          /\ Pid!Ps(answers)
          /\ pidfile' = [pid |-> spawned[s],
                         stamp |-> IF answers /\ Pid!Alive(spawned[s]) THEN proc[spawned[s]].born
                                   ELSE Pid!Untold]
    BY <1>16 DEF Pid!WritePid
  <2>2. spawned[s] \in Pids /\ proc[spawned[s]] \in ProcState
    BY <1>1, <1>16 DEF PidInv, PidProcesses, Pid!WritePid
  <2>3. proc[spawned[s]].born \in Pid!Stamps /\ Pid!Untold \in Pid!Stamps
    BY <1>3, <2>2 DEF ProcState, Pid!Untold, Pid!Stamps, Pid!Locale, Pid!Assumption
  <2>4. pidfile' \in File
    BY <2>1, <2>2, <2>3 DEF File
  <2> QED BY <1>1, <1>2, <1>4, <1>5, <1>8, <1>16, <2>1, <2>4 DEF Pid!WritePid
<1>17. ASSUME NEW s \in Starters, Pid!Settle(s) PROVE Goal
  BY <1>1, <1>2, <1>3, <1>5, <1>17 DEF Pid!Settle
<1>18. CASE Pid!Status
  BY <1>1, <1>2, <1>4, <1>18 DEF Pid!Status
<1>19. CASE Pid!KillPid
  <2>1. Fading
    BY <1>19, WhoFades
  <2>2. pidfile' \in File /\ faults' \in 0..MaxPidFaults /\ blind' \in BOOLEAN /\ onTrust' \in BOOLEAN
    BY <1>3, <1>4, <1>19 DEF Pid!KillPid
  <2> QED BY <1>1, <1>2, <1>6, <1>19, <2>1, <2>2 DEF Pid!KillPid
<1>20. CASE Pid!Forks
  <2>1. PICK p, q \in Pids, kind \in {"child", "helper"} : Pid!Born(q, kind, proc[p].grp)
    BY <1>20 DEF Pid!Forks
  <2>2. proc[p].grp \in Pids \cup {NoPid} /\ kind \in Pid!Kinds
    BY <1>1 DEF ProcState, Pid!Kinds
  <2>3. proc' \in [Pids -> ProcState] /\ clock' \in 0..MaxBorn
    BY <2>1, <2>2, WhatIsBorn
  <2> QED BY <1>1, <1>2, <1>20, <2>3 DEF Pid!Forks
<1>21. CASE Pid!Hangs
  BY <1>1, <1>2, <1>4, <1>6, <1>21, WhoFades DEF Pid!Hangs
<1>22. CASE Pid!ComesBack
  BY <1>1, <1>2, <1>4, <1>6, <1>22, WhoFades DEF Pid!ComesBack
<1>23. CASE Pid!Exits
  BY <1>1, <1>2, <1>4, <1>6, <1>23, WhoFades DEF Pid!Exits
<1>24. CASE Pid!Stranger
  <2>1. PICK p \in Pids : Pid!Born(p, "stranger", p)
    BY <1>24 DEF Pid!Stranger
  <2>2. proc' \in [Pids -> ProcState] /\ clock' \in 0..MaxBorn
    BY <2>1, WhatIsBorn DEF Pid!Kinds
  <2> QED BY <1>1, <1>2, <1>24, <2>2 DEF Pid!Stranger
<1>25. CASE UNCHANGED Pid!vars
  BY <1>1, <1>2, <1>25 DEF Pid!vars
<1> QED BY <1>11, <1>12, <1>13, <1>14, <1>15, <1>16, <1>17, <1>18, <1>19, <1>20, <1>21, <1>22,
  <1>23, <1>24, <1>25 DEF Pid!Next, Pid!Start

\* No stranger comes to hold the pid of a child whose starter still waits for it.
LEMMA PidProcessesKept ==
  ASSUME Pid!Assumption, PidInv, [Pid!Next]_(Pid!vars)
  PROVE  PidProcesses'
<1> DEFINE Steps == {"idle", "lock", "check", "kill", "spawn", "stamp", "settle"}
<1>1. /\ proc \in [Pids -> ProcState] /\ at \in [Starters -> Steps] /\ clock \in Nat
      /\ spawned \in [Starters -> Pids \cup {NoPid}] /\ NoPid \notin Pids
  BY DEF PidInv, Pid!TypeOK, ProcState, Pid!Assumption
<1>2. /\ \A p \in Pids : /\ proc[p].is = "stranger" => proc[p].grp = p
                         /\ proc[p].is \in {"stranger", "helper"} => ~proc[p].hung
                         /\ proc[p].born <= clock
      /\ \A s \in Starters : at[s] \in {"stamp", "settle"} => spawned[s] \in Pids
      /\ \A s \in Starters : spawned[s] \in Pids => proc[spawned[s]].is # "stranger"
  BY DEF PidInv, PidProcesses
<1> DEFINE Keeps(s) == /\ at'[s] \in {"stamp", "settle"} =>
                            at[s] \in {"stamp", "settle"} /\ spawned'[s] = spawned[s]
                       /\ spawned'[s] \in {spawned[s], NoPid}
<1>3. ASSUME Fading, \A s \in Starters : Keeps(s) PROVE PidProcesses'
  <2>1. ASSUME NEW p \in Pids
        PROVE  /\ proc'[p].is = "stranger" => proc'[p].grp = p /\ proc[p].is = "stranger"
               /\ proc'[p].is \in {"stranger", "helper"} => ~proc'[p].hung
               /\ proc'[p].born <= clock'
    BY <1>1, <1>2, <1>3, <2>1, FreeIsFree DEF Fading, Fades
  <2>2. ASSUME NEW s \in Starters
        PROVE  /\ at'[s] \in {"stamp", "settle"} => spawned'[s] \in Pids
               /\ spawned'[s] \in Pids => proc'[spawned'[s]].is # "stranger"
    BY <1>1, <1>2, <1>3, <2>1, <2>2
  <2> QED BY <2>1, <2>2 DEF PidProcesses
<1>4. ASSUME NEW p \in Pids, NEW kind \in Pid!Kinds, NEW grp \in Pids \cup {NoPid}, Pid!Born(p, kind, grp),
             kind = "stranger" => grp = p /\ \A s \in Starters : spawned'[s] # p,
             \A s \in Starters : at'[s] \in {"stamp", "settle"} => spawned'[s] \in Pids,
             \A s \in Starters : spawned'[s] \in {spawned[s], p}
      PROVE  PidProcesses'
  <2>1. /\ clock' = clock + 1
        /\ proc'[p] = [is |-> kind, grp |-> grp, born |-> clock + 1, hung |-> FALSE, doomed |-> FALSE]
        /\ \A q \in Pids \ {p} : proc'[q] = proc[q]
    BY <1>4, WhatIsBorn
  <2>2. proc'[p].is = kind /\ proc'[p].grp = grp /\ proc'[p].born = clock + 1 /\ ~proc'[p].hung
    BY <2>1
  <2>3. ASSUME NEW q \in Pids
        PROVE  /\ proc'[q].is = "stranger" => proc'[q].grp = q
               /\ proc'[q].is \in {"stranger", "helper"} => ~proc'[q].hung
               /\ proc'[q].born <= clock'
    <3>1. proc[q].born \in Nat
      BY <1>1 DEF ProcState
    <3> QED BY <1>1, <1>2, <1>4, <2>1, <2>2, <2>3, <3>1
  <2>4. ASSUME NEW s \in Starters, spawned'[s] \in Pids PROVE proc'[spawned'[s]].is # "stranger"
    BY <1>1, <1>2, <1>4, <2>1, <2>2, <2>4
  <2> QED BY <1>4, <2>3, <2>4 DEF PidProcesses
<1> HIDE DEF Keeps
<1>5. /\ \A s \in Starters, step \in Steps : Pid!Goto(s, step) =>
           \A t \in Starters : at'[t] = IF t = s THEN step ELSE at[t]
      /\ \A s \in Starters : Pid!Ends(s) => \A t \in Starters : Keeps(t)
      /\ \A s \in Starters, step \in Steps \ {"stamp", "settle"} :
           Pid!Goto(s, step) /\ UNCHANGED spawned => \A t \in Starters : Keeps(t)
      /\ UNCHANGED <<at, spawned>> => \A t \in Starters : Keeps(t)
  BY <1>1 DEF Pid!Goto, Pid!Ends, Keeps
<1>11. ASSUME NEW s \in Starters, Pid!CmdStart(s) PROVE PidProcesses'
  BY <1>3, <1>5, <1>11, WhoFades DEF Pid!CmdStart
<1>12. ASSUME NEW s \in Starters, Pid!StartLock(s) PROVE PidProcesses'
  BY <1>3, <1>5, <1>12, WhoFades DEF Pid!StartLock
<1>13. ASSUME NEW s \in Starters, Pid!KillStaleProcesses(s) PROVE PidProcesses'
  BY <1>3, <1>5, <1>13, WhoFades DEF Pid!KillStaleProcesses
<1>14. ASSUME NEW s \in Starters, Pid!Restart(s) PROVE PidProcesses'
  BY <1>3, <1>5, <1>14, WhoFades DEF Pid!Restart
<1>15. ASSUME NEW s \in Starters, Pid!StartService(s) PROVE PidProcesses'
  <2>1. PICK p \in Pids : Pid!Born(p, "leader", p) /\ spawned' = [spawned EXCEPT ![s] = p]
    BY <1>15 DEF Pid!StartService
  <2>2. \A t \in Starters : spawned'[t] = IF t = s THEN p ELSE spawned[t]
    BY <1>1, <2>1
  <2>3. \A t \in Starters : at'[t] = IF t = s THEN "stamp" ELSE at[t]
    BY <1>1, <1>15 DEF Pid!StartService, Pid!Goto
  <2> QED BY <1>2, <1>4, <2>1, <2>2, <2>3 DEF Pid!Kinds
<1>16. ASSUME NEW s \in Starters, Pid!WritePid(s) PROVE PidProcesses'
  <2>1. \A t \in Starters : Keeps(t)
    BY <1>1, <1>16 DEF Pid!WritePid, Pid!Goto, Keeps
  <2> QED BY <1>3, <1>16, <2>1, WhoFades DEF Pid!WritePid
<1>17. ASSUME NEW s \in Starters, Pid!Settle(s) PROVE PidProcesses'
  BY <1>3, <1>5, <1>17, WhoFades DEF Pid!Settle
<1>18. CASE Pid!Status
  BY <1>3, <1>5, <1>18, WhoFades DEF Pid!Status
<1>19. CASE Pid!KillPid
  BY <1>3, <1>5, <1>19, WhoFades DEF Pid!KillPid
<1>20. CASE Pid!Forks
  <2>1. PICK p, q \in Pids, kind \in {"child", "helper"} : Pid!Born(q, kind, proc[p].grp)
    BY <1>20 DEF Pid!Forks
  <2>2. proc[p].grp \in Pids \cup {NoPid} /\ kind \in Pid!Kinds /\ kind # "stranger"
    BY <1>1 DEF ProcState, Pid!Kinds
  <2> QED BY <1>2, <1>4, <1>20, <2>1, <2>2 DEF Pid!Forks
<1>21. CASE Pid!Hangs
  BY <1>3, <1>5, <1>21, WhoFades DEF Pid!Hangs
<1>22. CASE Pid!ComesBack
  BY <1>3, <1>5, <1>22, WhoFades DEF Pid!ComesBack
<1>23. CASE Pid!Exits
  BY <1>3, <1>5, <1>23, WhoFades DEF Pid!Exits
<1>24. CASE Pid!Stranger
  BY <1>2, <1>4, <1>24 DEF Pid!Stranger, Pid!Kinds
<1>25. CASE UNCHANGED Pid!vars
  BY <1>3, <1>5, <1>25, WhoFades DEF Pid!vars
<1> QED BY <1>11, <1>12, <1>13, <1>14, <1>15, <1>16, <1>17, <1>18, <1>19, <1>20, <1>21, <1>22,
  <1>23, <1>24, <1>25 DEF Pid!Next, Pid!Start

\* A stamp that can be compared stays the time of birth of the worker that it was taken from.
LEMMA PidRecordedKept ==
  ASSUME Pid!Assumption, PidInv, [Pid!Next]_(Pid!vars)
  PROVE  PidRecorded'
<1>1. /\ proc \in [Pids -> ProcState] /\ clock \in Nat /\ MaxBorn \in Nat /\ NoPid \notin Pids
      /\ pidfile.stamp \in Nat /\ pidfile.pid \in Pids \cup {NoPid}
      /\ \A p \in Pids : proc[p].born \in Nat /\ proc[p].born <= clock
      /\ Pid!NoFile.pid = NoPid /\ Pid!NoFile.stamp = 0 /\ Pid!Untold = 0 /\ Pid!Locale = MaxBorn + 1
  BY DEF PidInv, Pid!TypeOK, PidProcesses, ProcState, Pid!Assumption, Pid!Stamps, Pid!NoFile,
         Pid!Untold, Pid!Locale
<1>2. /\ pidfile.pid = NoPid => pidfile = Pid!NoFile
      /\ pidfile.stamp <= clock \/ pidfile.stamp = Pid!Locale
      /\ ~blind /\ ~onTrust /\ pidfile.pid \in Pids /\ pidfile.stamp \in 1..MaxBorn
           /\ proc[pidfile.pid].born = pidfile.stamp => proc[pidfile.pid].is # "stranger"
  BY DEF PidInv, PidRecorded
<1> DEFINE Sure == blind' \/ onTrust' \/ (~blind /\ ~onTrust)
<1>3. /\ \A answers \in BOOLEAN : Pid!Ps(answers) => Sure
      /\ UNCHANGED <<blind, onTrust>> => Sure
  <2>1. ASSUME NEW answers \in BOOLEAN, Pid!Ps(answers) PROVE Sure
    BY <2>1, PidPs, Zenon
  <2>2. ASSUME UNCHANGED <<blind, onTrust>> PROVE Sure
    <3>1. blind' = blind /\ onTrust' = onTrust
      BY <2>2
    <3> QED BY <3>1, Zenon
  <2> HIDE DEF Sure
  <2> QED BY <2>1, <2>2
<1> HIDE DEF Sure
\* Where nobody is born, a pid has the time of birth that it had, or none.
<1>4. ASSUME Fading
      PROVE  /\ clock' = clock
             /\ \A p \in Pids : proc'[p].is = "stranger" =>
                  proc[p].is = "stranger" /\ proc'[p].born = proc[p].born
  BY <1>4, FreeIsFree DEF Fading, Fades
<1>5. ASSUME Fading, pidfile' \in {pidfile, Pid!NoFile}, Sure PROVE PidRecorded'
  <2>1. CASE pidfile' = Pid!NoFile
    BY <1>1, <1>4, <1>5, <2>1 DEF PidRecorded
  <2>2. CASE pidfile' = pidfile
    BY <1>1, <1>2, <1>4, <1>5, <2>2 DEF PidRecorded, Sure
  <2> QED BY <1>5, <2>1, <2>2
<1>6. ASSUME Fading, NEW answers \in BOOLEAN, Pid!Ps(answers), pidfile' = Pid!ReadPid(answers)
      PROVE  PidRecorded'
  <2>1. SettlesOn(pidfile', answers)
    BY <1>6, WhatReadPidSays
  <2>2. CASE pidfile' \in {pidfile, Pid!NoFile}
    BY <1>3, <1>5, <1>6, <2>2
  <2>3. CASE pidfile' \notin {pidfile, Pid!NoFile}
    <3>1. /\ pidfile'.pid \in Pids /\ pidfile'.stamp = proc[pidfile'.pid].born
          /\ \/ Pid!WorkerShaped(pidfile'.pid)
             \/ pidfile'.pid = pidfile.pid /\ pidfile.stamp \in {pidfile'.stamp, Pid!Locale}
      BY <2>1, <2>3 DEF SettlesOn, Pid!ScanWorkerPids
    <3>2. pidfile'.stamp <= clock' /\ pidfile'.pid # NoPid
      BY <1>1, <1>4, <1>6, <3>1
    <3>3. ASSUME ~blind', ~onTrust', proc'[pidfile'.pid].is = "stranger", pidfile'.stamp \in 1..MaxBorn
          PROVE  FALSE
      <4>1. proc[pidfile'.pid].is = "stranger"
        BY <1>4, <1>6, <3>1, <3>3
      <4>2. pidfile'.pid = pidfile.pid /\ pidfile.stamp \in {pidfile'.stamp, Pid!Locale}
        BY <3>1, <4>1 DEF Pid!WorkerShaped
      <4>3. pidfile # Pid!NoFile
        BY <1>1, <3>1, <4>2
      <4>4. pidfile.stamp # Pid!Locale
        BY <1>6, <3>3, <4>3, PidPs
      <4>5. ~blind /\ ~onTrust
        BY <1>6, <3>3, PidPs
      <4> QED BY <1>2, <3>1, <3>3, <4>1, <4>2, <4>4, <4>5
    <3> QED BY <3>1, <3>2, <3>3 DEF PidRecorded
  <2> QED BY <2>2, <2>3
\* Who is born is younger than any stamp.
<1>7. ASSUME NEW p \in Pids, NEW kind \in Pid!Kinds, NEW grp \in Pids \cup {NoPid}, Pid!Born(p, kind, grp),
             UNCHANGED <<pidfile, blind, onTrust>>
      PROVE  PidRecorded'
  <2>1. /\ clock' = clock + 1
        /\ proc'[p] = [is |-> kind, grp |-> grp, born |-> clock + 1, hung |-> FALSE, doomed |-> FALSE]
        /\ \A q \in Pids \ {p} : proc'[q] = proc[q]
    BY <1>7, WhatIsBorn
  <2>2. proc'[p].born = clock + 1
    BY <2>1
  <2>3. pidfile.stamp \in 1..MaxBorn => pidfile.stamp <= clock
    BY <1>1, <1>2
  <2> QED BY <1>1, <1>2, <1>7, <2>1, <2>2, <2>3 DEF PidRecorded
<1>11. ASSUME NEW s \in Starters, Pid!CmdStart(s) PROVE PidRecorded'
  BY <1>3, <1>5, <1>11, WhoFades DEF Pid!CmdStart
<1>12. ASSUME NEW s \in Starters, Pid!StartLock(s) PROVE PidRecorded'
  BY <1>3, <1>5, <1>12, WhoFades DEF Pid!StartLock
<1>13. ASSUME NEW s \in Starters, Pid!KillStaleProcesses(s) PROVE PidRecorded'
  BY <1>6, <1>13, WhoFades DEF Pid!KillStaleProcesses
<1>14. ASSUME NEW s \in Starters, Pid!Restart(s) PROVE PidRecorded'
  BY <1>3, <1>5, <1>14, WhoFades DEF Pid!Restart
<1>15. ASSUME NEW s \in Starters, Pid!StartService(s) PROVE PidRecorded'
  BY <1>7, <1>15 DEF Pid!StartService, Pid!Kinds
<1>16. ASSUME NEW s \in Starters, Pid!WritePid(s) PROVE PidRecorded'
  <2>1. PICK answers \in BOOLEAN :
          /\ Pid!Ps(answers)
          /\ pidfile' = [pid |-> spawned[s],
                         stamp |-> IF answers /\ Pid!Alive(spawned[s]) THEN proc[spawned[s]].born
                                   ELSE Pid!Untold]
    BY <1>16 DEF Pid!WritePid
  <2>2. spawned[s] \in Pids /\ proc[spawned[s]].is # "stranger"
    BY <1>16 DEF PidInv, PidProcesses, Pid!WritePid
  <2>3. UNCHANGED <<proc, clock>>
    BY <1>16 DEF Pid!WritePid
  <2>4. pidfile'.pid = spawned[s] /\ pidfile'.stamp \in {proc[spawned[s]].born, 0}
    BY <1>1, <2>1
  <2> QED BY <1>1, <2>2, <2>3, <2>4 DEF PidRecorded
<1>17. ASSUME NEW s \in Starters, Pid!Settle(s) PROVE PidRecorded'
  BY <1>3, <1>5, <1>17, WhoFades DEF Pid!Settle
<1>18. CASE Pid!Status
  BY <1>6, <1>18, WhoFades DEF Pid!Status
<1>19. CASE Pid!KillPid
  BY <1>3, <1>5, <1>19, WhoFades DEF Pid!KillPid
<1>20. CASE Pid!Forks
  <2>1. PICK p, q \in Pids, kind \in {"child", "helper"} : Pid!Born(q, kind, proc[p].grp)
    BY <1>20 DEF Pid!Forks
  <2>2. proc[p].grp \in Pids \cup {NoPid} /\ kind \in Pid!Kinds
    BY <1>1 DEF ProcState, Pid!Kinds
  <2> QED BY <1>7, <1>20, <2>1, <2>2 DEF Pid!Forks
<1>21. CASE Pid!Hangs
  BY <1>3, <1>5, <1>21, WhoFades DEF Pid!Hangs
<1>22. CASE Pid!ComesBack
  BY <1>3, <1>5, <1>22, WhoFades DEF Pid!ComesBack
<1>23. CASE Pid!Exits
  BY <1>3, <1>5, <1>23, WhoFades DEF Pid!Exits
<1>24. CASE Pid!Stranger
  BY <1>7, <1>24 DEF Pid!Stranger, Pid!Kinds
<1>25. CASE UNCHANGED Pid!vars
  BY <1>3, <1>5, <1>25, WhoFades DEF Pid!vars
<1> QED BY <1>11, <1>12, <1>13, <1>14, <1>15, <1>16, <1>17, <1>18, <1>19, <1>20, <1>21, <1>22,
  <1>23, <1>24, <1>25 DEF Pid!Next, Pid!Start

\* Who starts a worker has looked, with the lock, and seen none.
LEMMA PidOneKept ==
  ASSUME Pid!Assumption, PidInv, [Pid!Next]_(Pid!vars)
  PROVE  PidOne'
<1> DEFINE Steps == {"idle", "lock", "check", "kill", "spawn", "stamp", "settle"}
           Sure  == ~unlocked' /\ ~blind' => ~unlocked /\ ~blind
<1>1. /\ proc \in [Pids -> ProcState] /\ at \in [Starters -> Steps] /\ "free" \notin Starters
      /\ lock \in Starters \cup {"free"}
  BY DEF PidInv, Pid!TypeOK, ProcState, Pid!Assumption
<1>2. ASSUME ~unlocked, ~blind
      PROVE  /\ \A s \in Starters : at[s] \notin {"idle", "lock"} => lock = s
             /\ \A s \in Starters : at[s] = "spawn" => \A p \in Pids : ~Working(p)
             /\ \A p, q \in Pids : Working(p) /\ Working(q) => proc[p].grp = proc[q].grp
  BY <1>2 DEF PidInv, PidOne
<1>3. /\ \A answers \in BOOLEAN : Pid!Ps(answers) /\ ~blind' => ~blind /\ answers
      /\ UNCHANGED blind /\ ~blind' => ~blind
  BY PidPs, Zenon
\* Nobody comes to the start of a worker but one that saw none; the lock is kept by its holder.
<1> DEFINE Waits == \A s \in Starters : at'[s] = "spawn" => at[s] = "spawn"
           Locks == ~unlocked' /\ ~blind' => \A s \in Starters : at'[s] \notin {"idle", "lock"} => lock' = s
<1>4. ASSUME Fading
      PROVE  \A p \in Pids : Working(p)' => Working(p) /\ proc'[p].grp = proc[p].grp
  BY <1>4, FreeIsFree DEF Fading, Fades, Working, Pid!WorkerShaped
<1>5. ASSUME Fading, Sure, Locks, Waits \/ (~blind' => \A p \in Pids : ~Working(p)')
      PROVE  PidOne'
  <2> SUFFICES ASSUME ~unlocked', ~blind'
               PROVE  /\ \A s \in Starters : at'[s] = "spawn" => \A p \in Pids : ~Working(p)'
                      /\ \A p, q \in Pids : Working(p)' /\ Working(q)' => proc'[p].grp = proc'[q].grp
    BY <1>5 DEF PidOne
  <2>1. ~unlocked /\ ~blind
    BY <1>5
  <2> QED BY <1>2, <1>4, <1>5, <2>1
<1>6. ASSUME NEW p \in Pids, NEW kind \in Pid!Kinds, NEW grp \in Pids \cup {NoPid}, Pid!Born(p, kind, grp)
      PROVE  /\ proc'[p].is = kind /\ proc'[p].grp = grp
             /\ \A q \in Pids \ {p} : (Working(q)' <=> Working(q)) /\ proc'[q].grp = proc[q].grp
  <2>1. /\ proc'[p] = [is |-> kind, grp |-> grp, born |-> clock + 1, hung |-> FALSE, doomed |-> FALSE]
        /\ \A q \in Pids \ {p} : proc'[q] = proc[q]
    BY <1>6, WhatIsBorn
  <2> QED BY <2>1 DEF Working, Pid!WorkerShaped
<1>7. /\ \A s \in Starters, step \in Steps : Pid!Goto(s, step) =>
           \A t \in Starters : at'[t] = IF t = s THEN step ELSE at[t]
      /\ \A s \in Starters : Pid!Ends(s) =>
           /\ \A t \in Starters : at'[t] = IF t = s THEN "idle" ELSE at[t]
           /\ lock' = IF lock = s THEN "free" ELSE lock
  BY <1>1 DEF Pid!Goto, Pid!Ends
<1>8. /\ UNCHANGED <<at, lock>> /\ Sure => Locks /\ Waits
      /\ \A s \in Starters : at[s] \notin {"idle", "lock"} /\ Pid!Ends(s) /\ Sure => Locks /\ Waits
      /\ \A s \in Starters, step \in Steps :
           at[s] \notin {"idle", "lock"} /\ Pid!Goto(s, step) /\ UNCHANGED lock /\ Sure => Locks
  BY <1>1, <1>2, <1>7
<1>11. ASSUME NEW s \in Starters, Pid!CmdStart(s) PROVE PidOne'
  <2>1. Sure /\ Fading /\ UNCHANGED lock
    BY <1>11, WhoFades DEF Pid!CmdStart
  <2>2. \A t \in Starters : at'[t] = IF t = s THEN "lock" ELSE at[t]
    BY <1>7, <1>11 DEF Pid!CmdStart
  <2> QED BY <1>2, <1>5, <2>1, <2>2
<1>12. ASSUME NEW s \in Starters, Pid!StartLock(s) PROVE PidOne'
  <2>1. Fading /\ UNCHANGED blind
    BY <1>12, WhoFades DEF Pid!StartLock
  <2>2. \A t \in Starters : at'[t] = IF t = s THEN "check" ELSE at[t]
    BY <1>7, <1>12 DEF Pid!StartLock
  <2>3. ~unlocked' => lock = "free" /\ lock' = s /\ ~unlocked
    BY <1>12, Zenon DEF Pid!StartLock
  <2>4. Sure /\ Waits
    BY <2>1, <2>2, <2>3
  <2>5. Locks
    BY <1>1, <1>2, <2>1, <2>2, <2>3, <2>4
  <2> QED BY <1>5, <2>1, <2>4, <2>5
<1>13. ASSUME NEW s \in Starters, Pid!KillStaleProcesses(s) PROVE PidOne'
  <2>1. PICK answers \in BOOLEAN :
          /\ Pid!Ps(answers)
          /\ proc' = IF answers THEN Pid!Dead(Pid!ScanWorkerPids \ {Pid!ReadPid(answers).pid}) ELSE proc
          /\ \/ Pid!ReadPid(answers) = Pid!NoFile /\ Pid!Goto(s, "spawn") /\ UNCHANGED lock
             \/ Pid!ReadPid(answers) # Pid!NoFile /\ Pid!Goto(s, "kill") /\ UNCHANGED lock
             \/ Pid!Ends(s)
    BY <1>13 DEF Pid!KillStaleProcesses
  <2>2. Fading /\ Sure /\ at[s] = "check"
    BY <1>3, <1>13, <2>1, WhoFades DEF Pid!KillStaleProcesses
  <2>3. Locks
    BY <1>8, <2>1, <2>2
  <2>4. CASE Pid!ReadPid(answers) = Pid!NoFile
    <3>1. ~blind' => Pid!ScanWorkerPids = {}
      BY <1>3, <2>1, <2>4, WhatReadPidSays DEF SettlesOn, Pid!ScanWorkerPids, Pid!Assumption, Pid!NoFile
    <3>2. ~blind' => \A p \in Pids : ~Working(p)'
      BY <1>4, <2>2, <3>1 DEF Working, Pid!ScanWorkerPids
    <3> QED BY <1>5, <2>2, <2>3, <3>2
  <2>5. CASE Pid!ReadPid(answers) # Pid!NoFile
    <3>1. Waits
      BY <1>7, <2>1, <2>2, <2>5
    <3> QED BY <1>5, <2>2, <2>3, <3>1
  <2> QED BY <2>4, <2>5
<1>14. ASSUME NEW s \in Starters, Pid!Restart(s) PROVE PidOne'
  <2>1. PICK answers \in BOOLEAN :
          /\ Pid!Ps(answers)
          /\ proc' = IF Pid!ReadPid(answers) = Pid!NoFile THEN proc
                     ELSE Pid!Killed(Pid!ReadPid(answers), answers)
    BY <1>14 DEF Pid!Restart
  <2>2. Fading /\ Sure
    BY <1>3, <1>14, <2>1, WhoFades DEF Pid!Restart
  <2>3. Locks
    BY <1>8, <1>14, <2>2 DEF Pid!Restart
  <2>4. ASSUME ~blind', NEW p \in Pids, Working(p)' PROVE FALSE
    <3>1. answers /\ Pid!WorkerShaped(p) /\ ~proc'[p].doomed /\ proc'[p].is # "free"
      BY <1>3, <1>4, <2>1, <2>2, <2>4 DEF Working, Pid!WorkerShaped
    <3>2. Pid!ReadPid(answers) # Pid!NoFile
      BY <3>1, WhatReadPidSays DEF SettlesOn, Pid!ScanWorkerPids, Pid!NoFile, Pid!Assumption
    <3> QED BY <2>1, <3>1, <3>2, WhatReadPidSays, WhatKillPidKills
  <2> QED BY <1>5, <2>2, <2>3, <2>4
<1>15. ASSUME NEW s \in Starters, Pid!StartService(s) PROVE PidOne'
  <2>1. PICK p \in Pids : Pid!Born(p, "leader", p)
    BY <1>15 DEF Pid!StartService
  <2>2. \A t \in Starters : at'[t] = IF t = s THEN "stamp" ELSE at[t]
    BY <1>7, <1>15 DEF Pid!StartService
  <2>3. UNCHANGED <<unlocked, blind>> /\ at[s] = "spawn" /\ UNCHANGED lock
    BY <1>15 DEF Pid!StartService
  <2>4. \A q \in Pids \ {p} : (Working(q)' <=> Working(q))
    BY <1>6, <2>1 DEF Pid!Kinds
  <2> SUFFICES ASSUME ~unlocked', ~blind'
               PROVE  /\ \A t \in Starters : at'[t] \notin {"idle", "lock"} => lock' = t
                      /\ \A t \in Starters : at'[t] = "spawn" => \A q \in Pids : ~Working(q)'
                      /\ \A q, r \in Pids : Working(q)' /\ Working(r)' => proc'[q].grp = proc'[r].grp
    BY DEF PidOne
  <2>5. ~unlocked /\ ~blind
    BY <2>3
  <2>6. \A q \in Pids : Working(q)' => q = p
    BY <1>2, <2>3, <2>4, <2>5
  <2> QED BY <1>2, <2>2, <2>3, <2>5, <2>6
<1>16. ASSUME NEW s \in Starters, Pid!WritePid(s) PROVE PidOne'
  <2>1. Fading /\ Sure
    BY <1>3, <1>16, WhoFades DEF Pid!WritePid
  <2>2. Locks
    BY <1>8, <1>16, <2>1 DEF Pid!WritePid
  <2>3. Waits
    BY <1>7, <1>16 DEF Pid!WritePid
  <2> QED BY <1>5, <2>1, <2>2, <2>3
<1>17. ASSUME NEW s \in Starters, Pid!Settle(s) PROVE PidOne'
  <2>1. Fading /\ Sure
    BY <1>17, WhoFades DEF Pid!Settle
  <2>2. Locks /\ Waits
    BY <1>8, <1>17, <2>1 DEF Pid!Settle
  <2> QED BY <1>5, <2>1, <2>2
<1>18. CASE Pid!Status
  <2>1. Fading /\ Sure
    BY <1>3, <1>18, WhoFades DEF Pid!Status
  <2> QED BY <1>5, <1>8, <1>18, <2>1 DEF Pid!Status
<1>19. CASE Pid!KillPid
  <2>1. Fading /\ Sure
    BY <1>3, <1>19, WhoFades DEF Pid!KillPid
  <2> QED BY <1>5, <1>8, <1>19, <2>1 DEF Pid!KillPid
<1>20. CASE Pid!Forks
  <2>1. PICK p, q \in Pids, kind \in {"child", "helper"} :
          proc[p].is = "leader" /\ ~proc[p].doomed /\ Pid!Born(q, kind, proc[p].grp)
    BY <1>20 DEF Pid!Forks
  <2>2. proc[p].grp \in Pids \cup {NoPid} /\ kind \in Pid!Kinds /\ Working(p)
    BY <1>1, <2>1 DEF ProcState, Pid!Kinds, Working, Pid!WorkerShaped
  <2>3. /\ proc'[q].grp = proc[p].grp
        /\ \A r \in Pids \ {q} : (Working(r)' <=> Working(r)) /\ proc'[r].grp = proc[r].grp
    BY <1>6, <2>1, <2>2
  <2>4. \A r \in Pids : Working(r)' =>
          \E o \in Pids : Working(o) /\ proc'[r].grp = proc[o].grp
    BY <2>2, <2>3
  <2> QED BY <1>2, <1>20, <2>2, <2>4 DEF PidOne, Pid!Forks
<1>21. CASE Pid!Hangs
  BY <1>5, <1>8, <1>21, WhoFades DEF Pid!Hangs
<1>22. CASE Pid!ComesBack
  BY <1>5, <1>8, <1>22, WhoFades DEF Pid!ComesBack
<1>23. CASE Pid!Exits
  BY <1>5, <1>8, <1>23, WhoFades DEF Pid!Exits
<1>24. CASE Pid!Stranger
  <2>1. PICK p \in Pids : Pid!Born(p, "stranger", p)
    BY <1>24 DEF Pid!Stranger
  <2>2. /\ proc'[p].is = "stranger"
        /\ \A r \in Pids \ {p} : (Working(r)' <=> Working(r)) /\ proc'[r].grp = proc[r].grp
    BY <1>6, <2>1 DEF Pid!Kinds
  <2>3. \A r \in Pids : Working(r)' => Working(r) /\ proc'[r].grp = proc[r].grp
    BY <2>2 DEF Working, Pid!WorkerShaped
  <2> QED BY <1>2, <1>24, <2>3 DEF PidOne, Pid!Stranger
<1>25. CASE UNCHANGED Pid!vars
  BY <1>5, <1>8, <1>25, WhoFades DEF Pid!vars
<1> QED BY <1>11, <1>12, <1>13, <1>14, <1>15, <1>16, <1>17, <1>18, <1>19, <1>20, <1>21, <1>22,
  <1>23, <1>24, <1>25 DEF Pid!Next, Pid!Start

\* From a start onwards the processes, the pid file, and the starters that wait for each other
\* agree on who the worker is.
THEOREM PidInvariant == Pid!Spec => []PidInv
<1>1. PidInv /\ [Pid!Next]_(Pid!vars) => PidInv'
  BY PidTypesKept, PidProcessesKept, PidRecordedKept, PidOneKept, WorkerAssumption DEF PidInv
<1> QED BY <1>1, PidStarts, WorkerAssumption, PTL DEF Pid!Spec

\* What the model says the process table, the pid file and the starters are, they are.
THEOREM PidTypesCorrect == Pid!Spec => []Pid!TypeOK
<1>1. PidInv => Pid!TypeOK
  BY DEF PidInv
<1> QED BY <1>1, PidInvariant, PTL

\* However many starts, stops and adoptions run beside each other, there is one worker at most,
\* unless a start did not wait for the lock or ps told nothing.
THEOREM OneWorkerAtMost == Pid!Spec => []OneWorker
<1>1. PidInv => OneWorker
  <2> SUFFICES ASSUME PidInv PROVE Pid!OneWorker
    BY DEF OneWorker
  <2>1. unlocked \in BOOLEAN /\ blind \in BOOLEAN
    BY DEF PidInv, Pid!TypeOK
  <2>2. ASSUME ~unlocked, ~blind PROVE Cardinality(Pid!Groups) <= 1
    <3>1. \A p, q \in Pids : Working(p) /\ Working(q) => proc[p].grp = proc[q].grp
      BY <2>2 DEF PidInv, PidOne
    <3>2. CASE Pid!Groups = {}
      BY <3>2, FS_EmptySet
    <3>3. CASE Pid!Groups # {}
      <4>1. PICK g \in Pid!Groups : TRUE
        BY <3>3
      <4>2. Pid!Groups = {g}
        BY <3>1, <4>1 DEF Pid!Groups, Working
      <4> QED BY <4>2, FS_Singleton
    <3> QED BY <3>2, <3>3
  <2>3. Pid!Cardinality(Pid!Groups) = Cardinality(Pid!Groups)
    BY DEF Pid!Cardinality, Cardinality
  <2> QED BY <2>1, <2>2, <2>3 DEF Pid!OneWorker
<1> QED BY <1>1, PidInvariant, PTL

\* No step kills a process that only has the pid of a worker that is gone, unless there was no
\* time of birth to compare; and a stop that sees the process table leaves no worker that goes on.
THEOREM SignalsHitTheirOwn == Pid!Spec => SignalsAreAimed
<1> USE WorkerAssumption
<1>1. PidInv /\ [Pid!Next]_(Pid!vars) => [Pid!StrangersSpared /\ Pid!StopTakesAll]_(Pid!vars)
  <2> SUFFICES ASSUME PidInv, Pid!Next PROVE Pid!StrangersSpared /\ Pid!StopTakesAll
    OBVIOUS
  <2>1. /\ proc \in [Pids -> ProcState] /\ pidfile.pid \in Pids \cup {NoPid} /\ pidfile.stamp \in 0..(MaxBorn + 1)
        /\ NoPid \notin Pids /\ MaxBorn \in Nat /\ Pid!Untold = 0 /\ Pid!Locale = MaxBorn + 1
    BY DEF PidInv, Pid!TypeOK, ProcState, Pid!Assumption, Pid!Stamps, Pid!Locale, Pid!Untold
  \* read_pid settles on no stranger.
  <2>2. ASSUME NEW answers \in BOOLEAN, Pid!Ps(answers), ~blind', ~onTrust', Pid!ReadPid(answers) # Pid!NoFile
        PROVE  proc[Pid!ReadPid(answers).pid].is # "stranger"
    <3> DEFINE file == Pid!ReadPid(answers)
    <3>1. SettlesOn(file, answers) /\ answers /\ ~blind /\ ~onTrust /\ file # Pid!NoFile
      BY <2>2, WhatReadPidSays, PidPs
    <3> SUFFICES proc[file.pid].is # "stranger"
      OBVIOUS
    <3> HIDE DEF file
    <3>2. CASE file.pid \in Pid!ScanWorkerPids
      BY <3>2 DEF Pid!ScanWorkerPids, Pid!WorkerShaped
    <3>3. CASE file.pid \notin Pid!ScanWorkerPids
      <4>1. /\ file.pid \in Pids /\ file.pid = pidfile.pid
            /\ \/ pidfile.stamp = 0
               \/ proc[file.pid].born = file.stamp /\ pidfile.stamp \in {file.stamp, Pid!Locale}
        BY <2>1, <3>1, <3>3 DEF SettlesOn
      <4>2. pidfile # Pid!NoFile
        BY <2>1, <4>1 DEF Pid!NoFile
      <4>3. pidfile.stamp # 0 /\ pidfile.stamp # Pid!Locale
        BY <2>1, <2>2, <4>2, PidPs
      <4>4. pidfile.stamp \in 1..MaxBorn /\ proc[pidfile.pid].born = pidfile.stamp
        BY <2>1, <4>1, <4>3
      <4> QED BY <3>1, <4>1, <4>4 DEF PidInv, PidRecorded
    <3> QED BY <3>2, <3>3
  \* What kill_pid kills of it is no stranger either.
  <2>3. ASSUME NEW answers \in BOOLEAN, Pid!Ps(answers), Pid!ReadPid(answers) # Pid!NoFile,
               proc' = Pid!Killed(Pid!ReadPid(answers), answers)
        PROVE  Pid!StrangersSpared
    BY <2>2, <2>3, WhatReadPidSays, WhatKillPidKills DEF Pid!StrangersSpared
  <2>4. ASSUME \A p \in Pids : proc[p].is = "stranger" => proc'[p].is = proc[p].is
        PROVE  Pid!StrangersSpared
    BY <2>4 DEF Pid!StrangersSpared
  <2>5. UNCHANGED proc => Pid!StrangersSpared
    BY <2>4
  <2>6. ASSUME NEW p \in Pids, NEW kind \in Pid!Kinds, NEW grp \in Pids \cup {NoPid}, Pid!Born(p, kind, grp)
        PROVE  Pid!StrangersSpared
    BY <2>4, <2>6, WhatIsBorn, FreeIsFree
  <2>7. Pid!StrangersSpared
    <3>1. ASSUME NEW s \in Starters, Pid!Start(s) PROVE Pid!StrangersSpared
      <4>1. CASE Pid!KillStaleProcesses(s)
        <5>1. PICK answers \in BOOLEAN :
                proc' = IF answers THEN Pid!Dead(Pid!ScanWorkerPids \ {Pid!ReadPid(answers).pid}) ELSE proc
          BY <4>1 DEF Pid!KillStaleProcesses
        <5>2. /\ Pid!ScanWorkerPids \ {Pid!ReadPid(answers).pid} \in SUBSET Pids
              /\ \A p \in Pids : proc[p].is = "stranger" => p \notin Pid!ScanWorkerPids
          BY DEF Pid!ScanWorkerPids, Pid!WorkerShaped
        <5> QED BY <2>4, <5>1, <5>2, WhatDies
      <4>2. CASE Pid!Restart(s)
        <5>1. PICK answers \in BOOLEAN :
                /\ Pid!Ps(answers)
                /\ proc' = IF Pid!ReadPid(answers) = Pid!NoFile THEN proc
                           ELSE Pid!Killed(Pid!ReadPid(answers), answers)
          BY <4>2 DEF Pid!Restart
        <5> QED BY <2>3, <2>5, <5>1
      <4>3. CASE Pid!StartService(s)
        BY <2>6, <4>3 DEF Pid!StartService, Pid!Kinds
      <4>4. CASE Pid!CmdStart(s) \/ Pid!StartLock(s) \/ Pid!WritePid(s) \/ Pid!Settle(s)
        BY <2>5, <4>4 DEF Pid!CmdStart, Pid!StartLock, Pid!WritePid, Pid!Settle
      <4> QED BY <3>1, <4>1, <4>2, <4>3, <4>4 DEF Pid!Start
    <3>2. CASE Pid!Status
      BY <2>5, <3>2 DEF Pid!Status
    <3>3. CASE Pid!KillPid
      BY <2>3, <3>3 DEF Pid!KillPid
    <3>4. CASE Pid!Forks
      <4>1. PICK p, q \in Pids, kind \in {"child", "helper"} : Pid!Born(q, kind, proc[p].grp)
        BY <3>4 DEF Pid!Forks
      <4>2. proc[p].grp \in Pids \cup {NoPid} /\ kind \in Pid!Kinds
        BY <2>1 DEF ProcState, Pid!Kinds
      <4> QED BY <2>6, <4>1, <4>2
    <3>5. CASE Pid!Hangs
      BY <2>1, <2>4, <3>5 DEF Pid!Hangs, ProcState
    <3>6. CASE Pid!ComesBack
      <4>1. PICK p \in Pids : /\ proc[p].hung
                              /\ \A q \in Pids \ {p} : proc'[q] = proc[q]
        BY <2>1, <3>6 DEF Pid!ComesBack
      <4>2. proc[p].is # "stranger"
        BY <4>1 DEF PidInv, PidProcesses
      <4> QED BY <2>4, <4>1, <4>2
    <3>7. CASE Pid!Exits
      BY <2>1, <2>4, <3>7 DEF Pid!Exits
    <3>8. CASE Pid!Stranger
      BY <2>6, <3>8 DEF Pid!Stranger, Pid!Kinds
    <3> QED BY <3>1, <3>2, <3>3, <3>4, <3>5, <3>6, <3>7, <3>8 DEF Pid!Next
  <2>8. Pid!StopTakesAll
    <3> SUFFICES ASSUME Pid!KillPid, ~blind'
                 PROVE  /\ \A p \in Pids : Pid!WorkerShaped(p)' => proc'[p].doomed
                        /\ LET session == proc[Pid!ReadPid(TRUE).pid].grp IN
                           session # NoPid /\ proc[session].is = "leader" =>
                             \A q \in Pids : proc[q].grp = session => proc'[q].is # "helper"
      BY DEF Pid!StopTakesAll
    <3>1. PICK answers \in BOOLEAN :
            /\ Pid!Ps(answers) /\ Pid!ReadPid(answers) # Pid!NoFile
            /\ proc' = Pid!Killed(Pid!ReadPid(answers), answers)
      BY DEF Pid!KillPid
    <3>2. answers = TRUE
      BY <3>1, PidPs
    <3>3. /\ Fades(proc')
          /\ \A p \in Pids : Pid!WorkerShaped(p) => proc'[p].is = "free" \/ proc'[p].doomed
          /\ LET session == proc[Pid!ReadPid(TRUE).pid].grp IN
             session # NoPid /\ proc[session].is = "leader" =>
               \A q \in Pids : proc[q].grp = session => proc'[q].is # "helper"
      BY <3>1, <3>2, WhatReadPidSays, WhatKillPidKills
    <3>4. ASSUME NEW p \in Pids, Pid!WorkerShaped(p)' PROVE proc'[p].doomed
      <4>1. Pid!WorkerShaped(p) /\ proc'[p].is # "free"
        BY <3>3, <3>4, FreeIsFree DEF Fades, Pid!WorkerShaped
      <4> QED BY <3>3, <4>1
    <3> QED BY <3>3, <3>4
  <2> QED BY <2>7, <2>8
<1> QED BY <1>1, PidInvariant, PTL DEF Pid!Spec, Pid!SignalsAreAimed, SignalsAreAimed

-----------------------------------------------------------------------------
(* Worker: what is proved of a component holds of the sum of them. *)

\* What the three modules say their variables are, they are, whichever component runs: a
\* behaviour of the sum is one of each component, since a step of one leaves the others alone.
THEOREM WorkerTypesCorrect == WorkerSpec => []WorkerTypeOK
<1>1. WorkerInit => Init /\ Pid!Init /\ JobInv
  BY JobStarts, WorkerAssumption DEF WorkerInit
<1>2. [WorkerNext]_allVars => [Next]_vars /\ [Pid!Next]_(Pid!vars) /\ [Job!Next]_(Job!vars)
  BY DEF WorkerNext, PauseRuns, PidRuns, JobRuns, allVars, pidVars, jobVars, Pid!vars, Job!vars
<1>3. JobInv /\ [Job!Next]_(Job!vars) => JobInv'
  BY JobTypesKept, JobProcessesKept, JobStopKept, JobServicesKept, JobMoveKept, WorkerAssumption
    DEF JobInv
<1>4. WorkerSpec => Spec /\ Pid!Spec /\ []JobInv
  BY <1>1, <1>2, <1>3, PTL DEF WorkerSpec, Spec, Pid!Spec
<1>5. JobInv => Job!TypeOK
  BY DEF JobInv
<1>6. TypeOK /\ Pid!TypeOK /\ Job!TypeOK => WorkerTypeOK
  BY DEF WorkerTypeOK
<1> QED BY <1>4, <1>5, <1>6, TypeCorrect, PidTypesCorrect, PTL
===============================================================================
