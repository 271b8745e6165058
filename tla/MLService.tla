----------------------------- MODULE MLService -----------------------------
(***************************************************************************)
(* The ML engine of a Mac without a worker (immich_accelerator/__main__.py): *)
(* its pid file, the watcher's reconcile_ml and its start and stop, the     *)
(* commands a user runs beside it (start, stop, component ml on/off), and   *)
(* the readers of the pid file (status, the menu bar).                      *)
(*                                                                         *)
(* Nothing here holds a lock across the watcher and the commands, so every  *)
(* look at the pid file, the port or a process, and every effect, is a step *)
(* of its own.  `step` says where an actor is; a call of read_pid continues *)
(* at `ret`, one of kill_pid at `then`.                                     *)
(*                                                                         *)
(* A process is its pid with its start time, which is how read_pid tells a  *)
(* reused pid; a number nothing refers to any more is used again.  Time is  *)
(* counted in cycles of the watcher's 30 second sleep.                      *)
(***************************************************************************)
EXTENDS Integers, FiniteSets

CONSTANTS
  Pids,         \* the processes that can be told apart at one time
  Grace,        \* ML_UNRESPONSIVE_GRACE, in cycles of the loop
  Bounds        \* how often each event of Budgeted may happen: one of these

Budgeted == {"slow", "silence", "crash", "visit", "command", "sigterm", "look",
             "blind"}
None     == 0
Foreign  == -1

ASSUME PidsAssumption == Pids \subseteq Nat \ {0} /\ IsFiniteSet(Pids)
ASSUME GraceAssumption == Grace \in Nat \ {0}
ASSUME BoundsAssumption == Bounds \subseteq [Budgeted -> Nat]

Actors  == {"watch", "user", "status"}
Engines == {"native", "venv"}

VARIABLES
  enabled,      \* config.json: is the ml component on
  pidFile,      \* the process ml.pid names
  proc,         \* the engines of ours
  port,         \* who holds the ML port
  timer,        \* _ml_unresponsive_since of the watcher
  at,           \* where each actor is
  left          \* what remains of Bounds

vars == <<enabled, pidFile, proc, port, timer, at, left>>

\* A process runs, or is a zombie its parent has not reaped.  `by` is the actor
\* that spawned it, while that actor lives; a silent one neither answers nor
\* acts on a SIGTERM; an asked one was sent SIGTERM; age is up to Grace.
NoProcess == [life |-> "none", engine |-> "native", by |-> "none",
              silent |-> FALSE, asked |-> FALSE, age |-> 0]
NoTimer   == [pid |-> None, age |-> 0]
Idle      == [step |-> "idle", ret |-> "idle", then |-> "idle", pid |-> None,
              start |-> "native", on |-> FALSE, force |-> FALSE, verify |-> FALSE]

Steps == {"idle", "awake", "off", "done", "read", "check", "kill", "killWait",
          "disable", "judge", "portWait", "adopt", "adoptWrite", "stale",
          "startGo", "attempt", "stamp", "settle", "healthy", "fallback", "boot",
          "fastStop", "fastWait"}

Named == Pids \cup {None, Foreign}

ProcessState == [life : {"none", "runs", "zombie"}, engine : Engines,
                 by : Actors \cup {"none"}, silent : BOOLEAN, asked : BOOLEAN,
                 age : 0..Grace]
ActorState == [step : Steps, ret : Steps, then : Steps, pid : Named,
               start : Engines, on : BOOLEAN, force : BOOLEAN, verify : BOOLEAN]

TypeOK ==
  /\ enabled \in BOOLEAN
  /\ pidFile \in Named /\ port \in Named
  /\ proc \in [Pids -> ProcessState]
  /\ timer \in [pid : Named, age : 0..Grace]
  /\ at \in [Actors -> ActorState]
  /\ left \in [Budgeted -> Nat]

Init ==
  /\ enabled = TRUE
  /\ pidFile = None /\ port = None
  /\ proc = [p \in Pids |-> NoProcess]
  /\ timer = NoTimer
  /\ at = [a \in Actors |-> IF a = "watch" THEN [Idle EXCEPT !.step = "off"] ELSE Idle]
  /\ left \in Bounds

-----------------------------------------------------------------------------
(* What the code can ask the system.                                        *)

Alive   == {p \in Pids : proc[p].life = "runs"}
Silent  == {p \in Alive : proc[p].silent}
Zombies == {p \in Pids : proc[p].life = "zombie"}

\* One /ping probe: whoever holds the port answers for it.
Answers == port = Foreign \/ port \in Alive \ Silent

\* os.kill(pid, 0): a process that has exited counts until it is reaped.
Signalable(p) == p \in Alive \cup Zombies

Spend(what) == left[what] > 0 /\ left' = [left EXCEPT ![what] = @ - 1]

\* ml_port_state, or the ps of adopt_live_ml, does not tell.
CannotTell == Spend("blind")

At(a, step) == at[a].step = step
Go(a, step) == at' = [at EXCEPT ![a].step = step]

\* read_pid("ml"), continuing at `ret`.
ReadThen(a, ret) == at' = [at EXCEPT ![a].step = "read", ![a].ret = ret]

\* kill_pid("ml"), continuing at `then`.
KillThen(a, then) ==
  at' = [at EXCEPT ![a].step = "read", ![a].ret = "kill", ![a].then = then]

\* The actor goes to `step`, and of its locals only those given are read again.
Afresh(a, step, pid, start) ==
  at' = [at EXCEPT ![a] = [Idle EXCEPT !.step = step, !.pid = pid, !.start = start,
                                       !.verify = at[a].verify]]

\* The command ends, or the watcher sleeps until its next cycle.
Done(a) == Afresh(a, IF a = "user" THEN "done" ELSE "idle", None, "native")

\* Try an engine: first the native one, and the venv where that has failed.
Try(a, which) == Afresh(a, "attempt", None, which)

\* What is left of a process that has died.
Remains(p) ==
  IF proc[p].by = "none" THEN NoProcess
  ELSE [NoProcess EXCEPT !.life = "zombie", !.by = proc[p].by, !.age = proc[p].age]

\* The processes after those of `gone` have died and those of `sent` were sent
\* SIGTERM.
Dead(gone)  == [p \in Pids |-> IF p \in gone \cap Alive THEN Remains(p) ELSE proc[p]]
Asked(sent) == [p \in Pids |-> IF p \in sent \cap Alive
                               THEN [proc[p] EXCEPT !.asked = TRUE] ELSE proc[p]]

\* The processes `f` after the actor has run another command: subprocess reaps
\* every child that has exited whenever it starts one.
Reaped(a, f) ==
  [p \in Pids |-> IF f[p].life = "zombie" /\ f[p].by = a THEN NoProcess ELSE f[p]]

\* The processes after the actor's own has ended: launchd takes its children.
Orphaned(a) ==
  [p \in Pids |-> IF proc[p].by # a THEN proc[p]
                  ELSE IF proc[p].life = "zombie" THEN NoProcess
                  ELSE [proc[p] EXCEPT !.by = "none"]]

-----------------------------------------------------------------------------
(* Pid files.                                                               *)

ReadFile(a) ==
  /\ At(a, "read")
  /\ at' = [at EXCEPT ![a].pid = pidFile,
                      ![a].step = IF pidFile = None THEN at[a].ret ELSE "check"]
  /\ UNCHANGED <<enabled, pidFile, proc, port, timer, left>>

\* A process that is gone has its file removed, whatever the file says by now.
CheckPid(a) ==
  /\ At(a, "check")
  /\ \/ /\ Signalable(at[a].pid)
        /\ proc' = Reaped(a, proc)
        /\ at' = [at EXCEPT ![a].step = at[a].ret]
        /\ UNCHANGED pidFile
     \/ /\ ~Signalable(at[a].pid)
        /\ pidFile' = None
        /\ at' = [at EXCEPT ![a].pid = None, ![a].step = at[a].ret]
        /\ UNCHANGED proc
  /\ UNCHANGED <<enabled, port, timer, left>>

Kill(a) ==
  /\ At(a, "kill")
  /\ proc' = IF at[a].pid = None THEN proc ELSE Reaped(a, Asked({at[a].pid}))
  /\ Go(a, IF at[a].pid = None THEN at[a].then ELSE "killWait")
  /\ UNCHANGED <<enabled, pidFile, port, timer, left>>

\* The process exited within five seconds, or is sent SIGKILL.  The last
\* statement of kill_pid removes the file, whoever it names by then.
KillWait(a) ==
  /\ At(a, "killWait")
  /\ proc' = Dead({at[a].pid})
  /\ pidFile' = None
  /\ Go(a, at[a].then)
  /\ UNCHANGED <<enabled, port, timer, left>>

\* status and the menu bar read the file as well.
Status ==
  /\ At("status", "idle") /\ pidFile # None
  /\ Spend("look")
  /\ at' = [at EXCEPT !["status"] = [Idle EXCEPT !.step = "check", !.pid = pidFile]]
  /\ UNCHANGED <<enabled, pidFile, proc, port, timer>>

StatusEnds ==
  /\ At("status", "check")
  /\ pidFile' = IF Signalable(at["status"].pid) THEN pidFile ELSE None
  /\ at' = [at EXCEPT !["status"] = Idle]
  /\ UNCHANGED <<enabled, proc, port, timer, left>>

-----------------------------------------------------------------------------
(* Starting an engine.                                                      *)

Known == Alive \cup Zombies \cup {pidFile, port, timer.pid} \cup {at[a].pid : a \in Actors}

\* Popen.
Spawn(a, which) ==
  LET p == CHOOSE q \in Pids \ Known : TRUE
  IN  /\ Pids \ Known # {}
      /\ proc' = [Reaped(a, proc) EXCEPT
                    ![p] = [NoProcess EXCEPT !.life = "runs", !.engine = which, !.by = a]]
      /\ Afresh(a, "stamp", p, which)

\* _start_ml_preferred looks at the port before each attempt, and starts nothing
\* where lsof leaves it unknown.  Who binds after the look could as well bind after
\* the spawn.
Attempt(a) ==
  /\ At(a, "attempt") \/ (At(a, "startGo") /\ at[a].pid = None)
  /\ \/ port = None /\ Spawn(a, at[a].start) /\ UNCHANGED left
     \/ port = None /\ CannotTell /\ Done(a) /\ proc' = Reaped(a, proc)
     \/ port # None /\ Done(a) /\ UNCHANGED <<proc, left>>
  /\ UNCHANGED <<enabled, pidFile, port, timer>>

\* write_pid, after ps was asked for the start time.
Stamp(a) ==
  /\ At(a, "stamp")
  /\ pidFile' = at[a].pid
  /\ Go(a, "settle")
  /\ UNCHANGED <<enabled, proc, port, timer, left>>

\* The look start_service takes after two seconds.  A native engine that lives
\* is waited for; one that does not hands over to the venv.
Settle(a) ==
  /\ At(a, "settle")
  /\ \/ /\ at[a].pid \in Alive
        /\ IF at[a].start = "native" THEN Go(a, "healthy") ELSE Done(a)
        /\ UNCHANGED <<pidFile, proc>>
     \/ /\ at[a].pid \notin Alive
        /\ proc' = [proc EXCEPT ![at[a].pid] = NoProcess]
        /\ pidFile' = None
        /\ IF at[a].start = "native" THEN Try(a, "venv") ELSE Done(a)
  /\ UNCHANGED <<enabled, port, timer, left>>

\* _ml_healthy asks after the process, then after the service, for 90 seconds.
Healthy(a) ==
  /\ At(a, "healthy")
  /\ Signalable(at[a].pid) /\ Answers
  /\ Done(a)
  /\ UNCHANGED <<enabled, pidFile, proc, port, timer, left>>

\* Mutant of GiveUp: the native engine is given up but not stopped.
GiveUpWithoutKill(a) == Go(a, "fallback")

\* An engine that does not answer is stopped before the venv is tried.
GiveUp(a) == KillThen(a, "fallback")

\* The process is gone, or the time is up.  (It is never seen to be gone: it is
\* a child of the actor, which reaps nothing while it waits.)
TimedOut(a) == Signalable(at[a].pid) /\ ~Answers /\ proc[at[a].pid].age > 0
WaitIsOver(a) == ~Signalable(at[a].pid) \/ TimedOut(a)

\* An engine that works may still be too slow.
HealthyFails(a) ==
  /\ At(a, "healthy") /\ WaitIsOver(a)
  /\ IF at[a].pid \in Alive \ Silent THEN Spend("slow") ELSE UNCHANGED left
  /\ GiveUp(a)
  /\ UNCHANGED <<enabled, pidFile, proc, port, timer>>

\* wait_for_port_free of _ml_verify_or_fallback, and the venv.
Fallback(a) ==
  /\ At(a, "fallback")
  /\ IF port = None THEN Spawn(a, "venv") ELSE Done(a) /\ UNCHANGED proc
  /\ UNCHANGED <<enabled, pidFile, port, timer, left>>

-----------------------------------------------------------------------------
(* reconcile_ml, in the watcher's cycle and in `component ml`.              *)

\* Only the watcher lives long enough to see its timer again.
TimerOf(a) == IF a = "watch" THEN timer ELSE NoTimer
SetTimer(a, t) == timer' = IF a = "watch" THEN t ELSE timer

Cycle ==
  /\ At("watch", "awake")
  /\ ReadThen("watch", IF enabled THEN "judge" ELSE "disable")
  /\ proc' \in {proc, Reaped("watch", proc)}     \* the dashboard came first
  /\ UNCHANGED <<enabled, pidFile, port, timer, left>>

Disable(a) ==
  /\ At(a, "disable")
  /\ SetTimer(a, NoTimer)
  /\ IF at[a].pid = None THEN Done(a) ELSE KillThen(a, "done")
  /\ UNCHANGED <<enabled, pidFile, proc, port, left>>

\* Mutants of SilenceOf: a timer that belongs to no particular process, and one
\* that every cycle starts again.
SilenceOfAnyone(a) == TimerOf(a).pid # None
SilenceForgotten(a) == FALSE

\* The timer that runs is this process's own.
SilenceOf(a) == TimerOf(a).pid = at[a].pid

Ping(a) ==
  /\ At(a, "judge") /\ at[a].pid # None
  /\ \/ /\ Answers
        /\ SetTimer(a, NoTimer)
        /\ Done(a)
     \/ /\ ~Answers /\ ~SilenceOf(a)
        /\ SetTimer(a, [pid |-> at[a].pid, age |-> 0])
        /\ Done(a)
     \/ /\ ~Answers /\ SilenceOf(a)
        /\ UNCHANGED timer
        /\ IF TimerOf(a).age < Grace THEN Done(a) ELSE KillThen(a, "portWait")
  /\ UNCHANGED <<enabled, pidFile, proc, port, left>>

PortWait(a) ==
  /\ At(a, "portWait")
  /\ SetTimer(a, NoTimer)
  /\ IF port = None THEN Try(a, "native") ELSE Done(a)
  /\ UNCHANGED <<enabled, pidFile, proc, port, left>>

\* No pid file: somebody who answers is taken back or left alone.
Occupied(a) ==
  /\ At(a, "judge") /\ at[a].pid = None
  /\ SetTimer(a, NoTimer)
  /\ IF Answers THEN Go(a, "adopt") ELSE Try(a, "native")
  /\ UNCHANGED <<enabled, pidFile, proc, port, left>>

\* An engine of ours for this port, from the process table: not only the one
\* that holds the port.
Adoptable == IF port = None THEN {} ELSE Alive

\* adopt_live_ml; at the watcher's launch a start follows when it finds nothing.
\* A ps that fails finds nothing either.
Adopt(a) ==
  /\ At(a, "adopt") \/ (At(a, "boot") /\ at[a].pid = None /\ at[a].on)
  /\ \/ \E p \in Adoptable :
          /\ at' = [at EXCEPT ![a].step = "adoptWrite", ![a].pid = p]
          /\ UNCHANGED left
     \/ /\ IF Adoptable = {} THEN UNCHANGED left ELSE CannotTell
        /\ IF At(a, "boot") THEN ReadThen(a, "stale") ELSE Done(a)
  /\ proc' = Reaped(a, proc)
  /\ UNCHANGED <<enabled, pidFile, port, timer>>

AdoptWrite(a) ==
  /\ At(a, "adoptWrite")
  /\ pidFile' = at[a].pid
  /\ Done(a)
  /\ UNCHANGED <<enabled, proc, port, timer, left>>

-----------------------------------------------------------------------------
(* _start_without_worker, the watcher's life, and the commands.             *)

\* _kill_stale_processes: every venv engine the pid file did not name.
KillStale(a) ==
  /\ At(a, "stale")
  /\ proc' = Reaped(a, Asked({p \in Pids \ {at[a].pid} : proc[p].engine = "venv"}))
  /\ ReadThen(a, IF at[a].on THEN "startGo" ELSE "disable")
  /\ UNCHANGED <<enabled, pidFile, port, timer, left>>

\* --force stops everything first; without it a running engine is left alone.
StartGo(a) ==
  /\ At(a, "startGo") /\ at[a].pid # None
  /\ IF at[a].force THEN KillThen(a, "attempt") ELSE Done(a)
  /\ UNCHANGED <<enabled, pidFile, proc, port, timer, left>>

WatcherLaunch ==
  /\ At("watch", "off")
  /\ at' = [at EXCEPT !["watch"] = [Idle EXCEPT !.step = "read", !.ret = "boot",
                                                !.on = enabled, !.force = TRUE]]
  /\ UNCHANGED <<enabled, pidFile, proc, port, timer, left>>

Boot ==
  /\ At("watch", "boot")
  /\ at["watch"].pid # None \/ ~at["watch"].on
  /\ IF at["watch"].pid # None THEN Done("watch") ELSE ReadThen("watch", "stale")
  /\ UNCHANGED <<enabled, pidFile, proc, port, timer, left>>

\* The handler runs wherever the loop is, and the loop does not go on.
Stopping == at["watch"].ret = "fastStop"

WatcherSigterm ==
  /\ ~At("watch", "off") /\ ~Stopping
  /\ Spend("sigterm")
  /\ at' = [at EXCEPT !["watch"] = [Idle EXCEPT !.step = "read", !.ret = "fastStop"]]
  /\ UNCHANGED <<enabled, pidFile, proc, port, timer>>

\* The watcher exits, and launchd ends what is left of its process group.
Exit(stopped) ==
  /\ proc' = [p \in Pids |-> IF proc[p].by = "watch" THEN NoProcess ELSE Dead(stopped)[p]]
  /\ timer' = NoTimer
  /\ at' = [at EXCEPT !["watch"] = [Idle EXCEPT !.step = "off"]]

FastStop ==
  /\ At("watch", "fastStop")
  /\ IF at["watch"].pid = None
     THEN Exit({})
     ELSE proc' = Asked({at["watch"].pid}) /\ Go("watch", "fastWait") /\ UNCHANGED timer
  /\ UNCHANGED <<enabled, pidFile, port, left>>

FastWait ==
  /\ At("watch", "fastWait")
  /\ pidFile' = None
  /\ Exit({at["watch"].pid})
  /\ UNCHANGED <<enabled, port, left>>

UserCommand ==
  /\ At("user", "idle")
  /\ Spend("command")
  /\ \/ KillThen("user", "done") /\ UNCHANGED enabled                \* stop
     \/ /\ \E force \in BOOLEAN :                                    \* start
             at' = [at EXCEPT !["user"] = [Idle EXCEPT !.step = "read", !.ret = "stale",
                                                       !.on = enabled, !.force = force]]
        /\ UNCHANGED enabled
     \/ /\ enabled' = ~enabled                                       \* component ml
        /\ at' = [at EXCEPT !["user"] = [Idle EXCEPT
                     !.step = "read", !.ret = IF enabled' THEN "judge" ELSE "disable",
                     !.verify = TRUE]]
  /\ UNCHANGED <<pidFile, proc, port, timer>>

\* component ml reads the pid file once more, to report what came of it.
CommandEnds(a) ==
  /\ At(a, "done")
  /\ \/ /\ at[a].verify
        /\ at' = [at EXCEPT ![a] = [Idle EXCEPT !.step = "read", !.ret = "done"]]
        /\ UNCHANGED proc
     \/ /\ ~at[a].verify
        /\ at' = [at EXCEPT ![a] = Idle]
        /\ proc' = IF a = "user" THEN Orphaned(a) ELSE proc
  /\ UNCHANGED <<enabled, pidFile, port, timer, left>>

-----------------------------------------------------------------------------
(* The processes, the port and the clock.                                   *)

\* An engine that has loaded takes the port, or exits because it is taken.
Bind(p) ==
  /\ p \in Alive \ Silent /\ port # p
  /\ IF port = None
     THEN port' = p /\ UNCHANGED proc
     ELSE proc' = Dead({p}) /\ UNCHANGED port
  /\ UNCHANGED <<enabled, pidFile, timer, at, left>>

\* SIGTERM works, at once or late; on a silent process it need not.
Exits(p) ==
  /\ p \in Alive /\ proc[p].asked
  /\ proc' = Dead({p})
  /\ UNCHANGED <<enabled, pidFile, port, timer, at, left>>

Crash(p) ==
  /\ p \in Alive
  /\ Spend("crash")
  /\ proc' = Dead({p})
  /\ UNCHANGED <<enabled, pidFile, port, timer, at>>

GoSilent(p) ==
  /\ p \in Alive \ Silent
  /\ Spend("silence")
  /\ proc' = [proc EXCEPT ![p].silent = TRUE]
  /\ UNCHANGED <<enabled, pidFile, port, timer, at>>

SpeakAgain(p) ==
  /\ p \in Silent
  /\ proc' = [proc EXCEPT ![p].silent = FALSE]
  /\ UNCHANGED <<enabled, pidFile, port, timer, at, left>>

\* Process exit and socket release are not the same instant.
Release ==
  /\ port \in Pids \ Alive
  /\ port' = None
  /\ UNCHANGED <<enabled, pidFile, proc, timer, at, left>>

Visit ==
  /\ port = None /\ Spend("visit") /\ port' = Foreign
  /\ UNCHANGED <<enabled, pidFile, proc, timer, at>>

Leave ==
  /\ port = Foreign /\ port' = None
  /\ UNCHANGED <<enabled, pidFile, proc, timer, at, left>>

\* Mutant of Older: the cap is off by one.
OlderPast(n) == IF n <= Grace THEN n + 1 ELSE n

Older(n) == IF n < Grace THEN n + 1 ELSE n

\* 30 seconds pass, and a watcher that sleeps wakes up.  Only _ml_healthy waits
\* that long, and it gives up within the grace; a socket is released sooner, and
\* an engine that is not silent binds within the grace.
Tick ==
  /\ \A a \in Actors :
       \/ At(a, "idle")
       \/ At(a, "healthy") /\ Signalable(at[a].pid) /\ proc[at[a].pid].age = 0
  /\ port \notin Pids \ Alive
  /\ \A p \in Alive \ Silent : port # p => proc[p].age + 1 < Grace
  /\ proc' = [p \in Pids |-> IF proc[p].life # "none" THEN [proc[p] EXCEPT !.age = Older(@)] ELSE proc[p]]
  /\ timer' = IF timer = NoTimer THEN timer ELSE [timer EXCEPT !.age = Older(@)]
  /\ at' = IF At("watch", "idle") THEN [at EXCEPT !["watch"].step = "awake"] ELSE at
  /\ UNCHANGED <<enabled, pidFile, port, left>>

-----------------------------------------------------------------------------
\* One step of the code, whoever runs it.
Step(a) ==
  \/ ReadFile(a) \/ CheckPid(a) \/ Kill(a) \/ KillWait(a)
  \/ Attempt(a) \/ Stamp(a) \/ Settle(a)
  \/ Healthy(a) \/ HealthyFails(a) \/ Fallback(a)
  \/ Disable(a) \/ Ping(a) \/ PortWait(a)
  \/ Occupied(a) \/ Adopt(a) \/ AdoptWrite(a)
  \/ KillStale(a) \/ StartGo(a) \/ CommandEnds(a)

Watcher == Cycle \/ WatcherLaunch \/ Boot \/ FastStop \/ FastWait \/ Step("watch")

Process(p) == Bind(p) \/ Exits(p) \/ Crash(p) \/ GoSilent(p) \/ SpeakAgain(p)

Next ==
  \/ Watcher \/ WatcherSigterm
  \/ UserCommand \/ Step("user")
  \/ Status \/ StatusEnds
  \/ \E p \in Pids : Process(p)
  \/ Release \/ Visit \/ Leave \/ Tick

Spec == Init /\ [][Next]_vars

\* Scheduled processes take their steps, an engine that works gets to serve,
\* SIGTERM ends one that is not silent, and time passes.
Fairness ==
  /\ WF_vars(Watcher) /\ WF_vars(Step("user")) /\ WF_vars(StatusEnds)
  /\ \A p \in Pids : /\ WF_vars(Bind(p)) /\ WF_vars(p \notin Silent /\ Exits(p))
  /\ WF_vars(Release) /\ SF_vars(Tick)

FairSpec == Spec /\ Fairness

-----------------------------------------------------------------------------
(* Properties.                                                              *)

\* An engine is only found to have been silent for too long when it has existed
\* for the whole grace: not for the silence of the one before it, whoever replaced
\* that, and not while it loads (reconcile_ml, __main__.py:5821-5849).
JudgedOnItsOwnSilence ==
  \A a \in Actors :
    At(a, "read") /\ at[a].ret = "kill" /\ at[a].then = "portWait" /\ at[a].pid \in Alive
      => proc[at[a].pid].age = Grace

\* Every engine that runs and was not told to stop is the one ml.pid names, or is
\* about to be, or the watcher is stopping.
Tracked ==
  \A p \in Alive : \/ proc[p].asked
                   \/ pidFile = p
                   \/ At("watch", "stamp") /\ at["watch"].pid = p
                   \/ Stopping

\* As long as no command and no reader touches the pid file beside it, the watcher
\* loses sight of no engine: the fallback, the restart of a silent engine and a new
\* watcher after a stop leave no second one behind (_ml_verify_or_fallback,
\* reconcile_ml, stop_all_fast).
Unshared == left["look"] = 0 /\ left["command"] = 0
NothingRunsUntracked == Unshared => []Tracked

\* In the end the node is as config.json says, whatever crashed, hung, came late
\* or raced before: somebody answers for an ml that is on, and no engine is
\* tracked for one that is off (reconcile_ml's docstring, __main__.py:5802).  The
\* code has no way out of one corner: an engine that wedges while no pid file
\* names it holds the port, and only an engine that answers is adopted.
ConfigIsReached ==
  <>[](IF enabled THEN Answers \/ (pidFile = None /\ port \in Silent)
       ELSE pidFile = None)

\* "if pid is given and the process dies, bail immediately so a genuinely broken
\* native falls back to the venv fast instead of waiting out the timeout"
\* (_ml_healthy, __main__.py:5458-5460).
DeathEndsTheWait ==
  [][\A a \in Actors : HealthyFails(a) /\ TimedOut(a) => at[a].pid \in Alive]_vars
=============================================================================
