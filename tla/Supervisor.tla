----------------------------- MODULE Supervisor -----------------------------
(***************************************************************************)
(* How the worker is kept track of: a pid file that outlives it, a scan of  *)
(* the process table for one that no file names, and a stop that has to     *)
(* take its children along and nobody else's.  The worker leads a session   *)
(* of its own; below it run more processes titled immich, and helpers       *)
(* (ffmpeg, exiftool) that no scan finds.                                  *)
(*                                                                         *)
(* The interleavings inside a read of a pid file are in MLService; here a   *)
(* read is one step, and what matters is which process it settles on.       *)
(***************************************************************************)
EXTENDS Naturals, FiniteSets

CONSTANTS
  Pids,         \* process ids, which are used again
  Starters,     \* processes that run cmd_start: the watcher, and commands
  NoPid,
  MaxBorn,      \* bound: processes created
  MaxFaults     \* bound: processes that hang, ps that fails, locks not waited for

Assumption ==
  /\ Pids \subseteq Nat /\ Pids # {} /\ NoPid \notin Pids
  /\ "free" \notin Starters /\ MaxBorn \in Nat \ {0} /\ MaxFaults \in Nat

(***************************************************************************)
(* A process: what it is, the group it is in (that of its session leader),  *)
(* when it was born; hung in the kernel on a dead mount, and killed there,  *)
(* which it notices when the kernel lets it go.                            *)
(***************************************************************************)
Kinds == {"free", "leader", "child", "helper", "stranger"}
Free  == [is |-> "free", grp |-> NoPid, born |-> 0, hung |-> FALSE, doomed |-> FALSE]

\* A stamp in the pid file: a time of birth, none where ps told none, or one in a format
\* that is not ours, which a locale made.
Untold == 0
Locale == MaxBorn + 1
Stamps == 0..Locale
NoFile == [pid |-> NoPid, stamp |-> Untold]

VARIABLES
  proc,      \* the process table
  pidfile,   \* worker.pid
  at,        \* where each starter is
  spawned,   \* the process it has started
  lock,      \* who holds the start lock, or "free"
  clock,     \* when the last process was born
  unlocked,  \* history: a start went on without the lock
  blind,     \* history: ps told nothing where it was asked
  onTrust,   \* history: a stamp was accepted that could not be compared
  faults

vars == <<proc, pidfile, at, spawned, lock, clock, unlocked, blind, onTrust, faults>>

TypeOK ==
  /\ proc \in [Pids -> [is : Kinds, grp : Pids \cup {NoPid}, born : 0..MaxBorn,
                        hung : BOOLEAN, doomed : BOOLEAN]]
  /\ pidfile \in [pid : Pids \cup {NoPid}, stamp : Stamps]
  /\ at \in [Starters -> {"idle", "lock", "check", "kill", "spawn", "stamp", "settle"}]
  /\ spawned \in [Starters -> Pids \cup {NoPid}]
  /\ lock \in Starters \cup {"free"}
  /\ clock \in 0..MaxBorn
  /\ unlocked \in BOOLEAN /\ blind \in BOOLEAN /\ onTrust \in BOOLEAN
  /\ faults \in 0..MaxFaults

Fault   == faults > 0 /\ faults' = faults - 1
NoFault == faults' = faults

\* ps answers, or it does not and the caller goes on without.
Ps(answers) ==
  /\ IF answers THEN NoFault ELSE Fault
  /\ blind' = (blind \/ ~answers)
  /\ onTrust' = (onTrust \/ (pidfile # NoFile /\ pidfile.stamp \in {Untold, Locale}))

-----------------------------------------------------------------------------
(* Finding the worker. *)

Alive(p)        == proc[p].is # "free"
WorkerShaped(p) == proc[p].is \in {"leader", "child"}

ScanWorkerPids == {p \in Pids : WorkerShaped(p)}

SmallestOf(pids) == CHOOSE p \in pids : \A q \in pids : p <= q

\* _adopt_live_worker: the first one the scan shows, written down.
Adopted(answers) ==
  IF ~answers \/ ScanWorkerPids = {} THEN NoFile
  ELSE LET p == SmallestOf(ScanWorkerPids) IN [pid |-> p, stamp |-> proc[p].born]

\* A stamp that is not in our format is accepted.
SameStartTime(current, stored) == current = stored \/ stored = Locale

\* What read_pid leaves in the file, which is also what it answers.
ReadPid(answers) ==
  LET p == pidfile.pid IN
  IF p = NoPid \/ ~Alive(p) THEN Adopted(answers)
  ELSE IF pidfile.stamp = Untold \/ ~answers THEN pidfile
  ELSE IF ~SameStartTime(proc[p].born, pidfile.stamp) THEN Adopted(answers)
  ELSE [pid |-> p, stamp |-> proc[p].born]

-----------------------------------------------------------------------------
(* Signals. *)

\* Mutant of OwnGroup: the pid must be the session leader itself.
OwnGroupOfLeader(p) == proc[p].is = "leader"

\* _group_leader_is_ours, and the leader is the session leader.
OwnGroup(p) == proc[p].grp # NoPid /\ proc[proc[p].grp].is = "leader"

Group(p) == IF OwnGroup(p) THEN {q \in Pids : proc[q].grp = proc[p].grp} ELSE {p}

\* One that hangs in the kernel dies when it comes out.
Dead(pids) ==
  [p \in Pids |-> IF p \notin pids \/ proc[p].is = "free" THEN proc[p]
                  ELSE IF proc[p].hung THEN [proc[p] EXCEPT !.doomed = TRUE]
                  ELSE Free]

\* kill_pid of what read_pid said: its group, every worker a scan finds, and the file.
Killed(file, answers) ==
  Dead(Group(file.pid) \cup (IF answers THEN ScanWorkerPids ELSE {}))

-----------------------------------------------------------------------------
(* A start. *)

Goto(s, step) == at' = [at EXCEPT ![s] = step]

Ends(s) == /\ Goto(s, "idle") /\ lock' = (IF lock = s THEN "free" ELSE lock)
           /\ spawned' = [spawned EXCEPT ![s] = NoPid]

CmdStart(s) ==
  /\ at[s] = "idle" /\ Goto(s, "lock")
  /\ UNCHANGED <<proc, pidfile, spawned, lock, clock, unlocked, blind, onTrust, faults>>

\* Mutant of StartLock: nobody waits for anybody.
StartLockless(s) ==
  /\ at[s] = "lock" /\ Goto(s, "check")
  /\ UNCHANGED <<proc, pidfile, spawned, lock, clock, unlocked, blind, onTrust, faults>>

\* After 180 s it goes on without.
StartLock(s) ==
  /\ at[s] = "lock"
  /\ \/ lock = "free" /\ lock' = s /\ NoFault /\ UNCHANGED unlocked
     \/ lock # "free" /\ Fault /\ unlocked' = TRUE /\ UNCHANGED lock
  /\ Goto(s, "check")
  /\ UNCHANGED <<proc, pidfile, spawned, clock, blind, onTrust>>

\* Untracked workers are killed, then the tracked one decides.
KillStaleProcesses(s) ==
  /\ at[s] = "check"
  /\ \E answers, force \in BOOLEAN :
       LET file == ReadPid(answers) IN
       /\ Ps(answers)
       /\ pidfile' = file
       /\ proc' = IF answers THEN Dead(ScanWorkerPids \ {file.pid}) ELSE proc
       /\ IF file = NoFile THEN Goto(s, "spawn") /\ UNCHANGED <<lock, spawned>>
          ELSE IF force THEN Goto(s, "kill") /\ UNCHANGED <<lock, spawned>>
          ELSE Ends(s)
  /\ UNCHANGED <<clock, unlocked>>

Restart(s) ==
  /\ at[s] = "kill"
  /\ \E answers \in BOOLEAN :
       LET file == ReadPid(answers) IN
       /\ Ps(answers)
       /\ proc' = IF file = NoFile THEN proc ELSE Killed(file, answers)
  /\ pidfile' = NoFile
  /\ Goto(s, "spawn")
  /\ UNCHANGED <<spawned, lock, clock, unlocked>>

Born(p, kind, grp) ==
  /\ clock < MaxBorn /\ clock' = clock + 1
  /\ proc[p] = Free
  /\ proc' = [proc EXCEPT ![p] = [is |-> kind, grp |-> grp, born |-> clock',
                                  hung |-> FALSE, doomed |-> FALSE]]

StartService(s) ==
  /\ at[s] = "spawn"
  /\ \E p \in Pids : Born(p, "leader", p) /\ spawned' = [spawned EXCEPT ![s] = p]
  /\ Goto(s, "stamp")
  /\ UNCHANGED <<pidfile, lock, unlocked, blind, onTrust, faults>>

WritePid(s) ==
  LET p == spawned[s] IN
  /\ at[s] = "stamp"
  /\ \E answers \in BOOLEAN :
       /\ Ps(answers)
       /\ pidfile' = [pid |-> p, stamp |-> IF answers /\ Alive(p) THEN proc[p].born ELSE Untold]
  /\ Goto(s, "settle")
  /\ UNCHANGED <<proc, spawned, lock, clock, unlocked>>

\* Two seconds later: one that exited takes the file along.  It is not reaped before.
Settle(s) ==
  /\ at[s] = "settle"
  /\ pidfile' = IF Alive(spawned[s]) THEN pidfile ELSE NoFile
  /\ Ends(s)
  /\ UNCHANGED <<proc, clock, unlocked, blind, onTrust, faults>>

-----------------------------------------------------------------------------
(* Everybody else. *)

\* status, the menu bar, and every cycle of the loop.
Status ==
  /\ \E answers \in BOOLEAN : Ps(answers) /\ pidfile' = ReadPid(answers)
  /\ UNCHANGED <<proc, at, spawned, lock, clock, unlocked>>

\* stop, a pause, and a component that is switched off: no lock is taken.
KillPid ==
  /\ \E answers \in BOOLEAN :
       LET file == ReadPid(answers) IN
       /\ Ps(answers) /\ file # NoFile
       /\ proc' = Killed(file, answers)
  /\ pidfile' = NoFile
  /\ UNCHANGED <<at, spawned, lock, clock, unlocked>>

\* The worker and its processes fork, hang, and exit.
Forks ==
  /\ \E p, q \in Pids, kind \in {"child", "helper"} :
       /\ proc[p].is = "leader" /\ ~proc[p].hung /\ ~proc[p].doomed
       /\ \A o \in Pids : ~(proc[o].grp = proc[p].grp /\ proc[o].is = kind)
       /\ Born(q, kind, proc[p].grp)
  /\ UNCHANGED <<pidfile, at, spawned, lock, unlocked, blind, onTrust, faults>>

Hangs ==
  /\ \E p \in Pids : /\ proc[p].is \in {"leader", "child"} /\ ~proc[p].hung
                     /\ proc' = [proc EXCEPT ![p].hung = TRUE]
  /\ Fault
  /\ UNCHANGED <<pidfile, at, spawned, lock, clock, unlocked, blind, onTrust>>

ComesBack ==
  /\ \E p \in Pids : /\ proc[p].hung
                     /\ proc' = [proc EXCEPT ![p] = IF @.doomed THEN Free
                                                   ELSE [@ EXCEPT !.hung = FALSE]]
  /\ UNCHANGED <<pidfile, at, spawned, lock, clock, unlocked, blind, onTrust, faults>>

\* The pid of a child that was spawned is not used again while its starter has it.
Exits ==
  /\ \E p \in Pids : /\ Alive(p) /\ ~proc[p].hung /\ proc[p].is # "stranger"
                     /\ proc' = [proc EXCEPT ![p] = Free]
  /\ Fault
  /\ UNCHANGED <<pidfile, at, spawned, lock, clock, unlocked, blind, onTrust>>

Stranger ==
  /\ \E p \in Pids : /\ \A s \in Starters : spawned[s] # p
                     /\ \A q \in Pids : proc[q].grp # p
                     /\ Born(p, "stranger", p)
  /\ UNCHANGED <<pidfile, at, spawned, lock, unlocked, blind, onTrust, faults>>

\* Nothing runs; or a worker, of which the file tells rightly, in a locale's words, or not.
Init ==
  /\ at = [s \in Starters |-> "idle"] /\ spawned = [s \in Starters |-> NoPid]
  /\ lock = "free" /\ unlocked = FALSE /\ blind = FALSE /\ onTrust = FALSE
  /\ faults = MaxFaults
  /\ \/ proc = [p \in Pids |-> Free] /\ pidfile = NoFile /\ clock = 0
     \/ \E p \in Pids :
          /\ clock = 1
          /\ proc = [q \in Pids |-> IF q = p THEN [Free EXCEPT !.is = "leader", !.grp = p, !.born = 1]
                                    ELSE Free]
          /\ pidfile \in {NoFile, [pid |-> p, stamp |-> 1], [pid |-> p, stamp |-> Locale]}

Start(s) ==
  \/ CmdStart(s) \/ StartLock(s) \/ KillStaleProcesses(s) \/ Restart(s)
  \/ StartService(s) \/ WritePid(s) \/ Settle(s)

Next ==
  \/ \E s \in Starters : Start(s)
  \/ Status \/ KillPid
  \/ Forks \/ Hangs \/ ComesBack \/ Exits \/ Stranger

Spec == Init /\ [][Next]_vars

-----------------------------------------------------------------------------
(* Properties *)

Groups == {proc[p].grp : p \in {q \in Pids : WorkerShaped(q) /\ ~proc[q].doomed}}

\* Two workers never compete for the queue, whoever starts, stops or adopts beside a start,
\* unless a start did not wait for another or ps told nothing.
OneWorker == unlocked \/ blind \/ Cardinality(Groups) <= 1

\* A process that got the pid of a worker that is gone is not killed for it, unless the
\* file had no time of birth that could be compared.
StrangersSpared ==
  \A p \in Pids : proc[p].is = "stranger" /\ proc'[p].is # "stranger" => blind' \/ onTrust'

\* After a stop no worker is left that is not about to die, tracked or not, and where the
\* leader lived no helper of its session writes into the library any more, though the pid
\* that was known is that of a child.
StopTakesAll ==
  KillPid => blind' \/
    /\ \A p \in Pids : WorkerShaped(p)' => proc'[p].doomed
    /\ LET session == proc[ReadPid(TRUE).pid].grp IN
       session # NoPid /\ proc[session].is = "leader" =>
         \A q \in Pids : proc[q].grp = session => proc'[q].is # "helper"

\* A signal that is meant for a worker hits all of it and nobody else.
SignalsAreAimed == [][StrangersSpared /\ StopTakesAll]_vars

=============================================================================
