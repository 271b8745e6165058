------------------------------- MODULE Worker -------------------------------
(***************************************************************************)
(* The worker, in three components that share no state: when the watch loop *)
(* holds it down (PauseWatch), which processes it is (Supervisor), and the  *)
(* service it runs in (Launcher).  A behaviour is one of them, and the      *)
(* state of the others stays what it is.                                   *)
(***************************************************************************)
EXTENDS PauseWatch

CONSTANTS
  Pids, NoPid, Starters, MaxBorn, MaxPidFaults,                       \* Supervisor
  MaxUpgrades, MaxOrders, MaxJobFaults                                \* Launcher

VARIABLES
  part,                                                               \* which one runs
  proc, pidfile, at, spawned, lock, clock, unlocked, blind, onTrust, faults,
  version, plist, job, main, held, watcher, running, services, mark, moving, brew, wanted,
  unheard, tries, left

pidVars == <<proc, pidfile, at, spawned, lock, clock, unlocked, blind, onTrust, faults>>
jobVars == <<version, plist, job, main, held, watcher, running, services, mark, moving, brew,
             wanted, unheard, tries, left>>
allVars == <<part, vars, pidVars, jobVars>>

Pid == INSTANCE Supervisor WITH MaxFaults <- MaxPidFaults
Job == INSTANCE Launcher WITH MaxFaults <- MaxJobFaults

ASSUME WorkerAssumption == Pid!Assumption /\ Job!Assumption

\* The one state a component that does not run is in: no watcher, no worker, none wanted.
PauseRests == ~backendsUp /\ ~mounted /\ ~startable /\ ~requireMedia /\ ~workerOn
PidRests   == clock = 0
JobRests   == job = "off"

WorkerInit ==
  /\ part \in {"pause", "pid", "job"}
  /\ Init     /\ (part # "pause" => PauseRests)
  /\ Pid!Init /\ (part # "pid" => PidRests)
  /\ Job!Init /\ (part # "job" => JobRests)

PauseRuns(A) == part = "pause" /\ A /\ UNCHANGED <<part, pidVars, jobVars>>
PidRuns(A)   == part = "pid" /\ A /\ UNCHANGED <<part, vars, jobVars>>
JobRuns(A)   == part = "job" /\ A /\ UNCHANGED <<part, vars, pidVars>>

WorkerNext == PauseRuns(Next) \/ PidRuns(Pid!Next) \/ JobRuns(Job!Next)

\* The fairness of PauseWatch and Launcher; Supervisor states none.
WorkerSpec ==
  /\ WorkerInit /\ [][WorkerNext]_allVars
  /\ WF_allVars(PauseRuns(Cycle /\ Remember))
  /\ WF_allVars(PauseRuns(WatcherLaunch /\ Remember))
  /\ WF_allVars(PauseRuns((SwitchOn \/ SwitchOff) /\ Remember))
  /\ WF_allVars(JobRuns(Job!System))

\* The three type invariants.
WorkerTypeOK == TypeOK /\ Pid!TypeOK /\ Job!TypeOK

-----------------------------------------------------------------------------
(* The properties of Supervisor and Launcher, as they state them. *)

OneWorker == Pid!OneWorker
SignalsAreAimed == Pid!SignalsAreAimed

HandOverIsClean == Job!HandOverIsClean
ServicesReturn == Job!ServicesReturn
=============================================================================
