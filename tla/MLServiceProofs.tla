-------------------------- MODULE MLServiceProofs --------------------------
(***************************************************************************)
(* Proofs about MLService, for any set of processes, any grace and any       *)
(* budgets: its types, that an engine is only judged on its own silence, and *)
(* that a watcher alone with the pid file loses sight of no engine.          *)
(***************************************************************************)
EXTENDS MLService, TLAPS

\* The watcher's timer has never run for longer than its process has existed.
TimerInv == timer.pid \in Alive => timer.age <= proc[timer.pid].age

IInv == TypeOK /\ TimerInv /\ JudgedOnItsOwnSilence

\* The actor has decided to restart a silent engine and is about to kill it.
Condemns(a) == At(a, "read") /\ at[a].ret = "kill" /\ at[a].then = "portWait"

\* A step of the actor that ends elsewhere than in such a decision.
Moves(a) ==
  /\ at' \in [Actors -> ActorState]
  /\ \A b \in Actors \ {a} : at'[b] = at[b]
  /\ ~Condemns(a)'

\* A step that starts none of the processes anybody knows of, and ages none.
Tame ==
  /\ proc' \in [Pids -> ProcessState]
  /\ \A p \in Pids \cap Known :
       proc'[p].life = "runs" => proc[p].life = "runs" /\ proc'[p].age = proc[p].age

TimerMoves(a) == timer' \in {timer, NoTimer, [pid |-> at[a].pid, age |-> 0]}

Others ==
  /\ enabled' \in BOOLEAN /\ pidFile' \in Named /\ port' \in Named
  /\ left' \in [Budgeted -> Nat]

LEMMA Initially == Init => IInv
<1> SUFFICES ASSUME Init PROVE IInv
  OBVIOUS
<1>1. NoProcess \in ProcessState
  BY GraceAssumption DEF NoProcess, ProcessState, Engines
<1>2. Idle \in ActorState /\ [Idle EXCEPT !.step = "off"] \in ActorState
  BY DEF Idle, ActorState, Steps, Named, Engines
<1>3. NoTimer \in [pid : Named, age : 0..Grace]
  BY GraceAssumption DEF NoTimer, Named
<1>4. TypeOK
  BY <1>1, <1>2, <1>3, BoundsAssumption DEF Init, TypeOK, Named
<1>5. Alive = {}
  BY DEF Init, Alive, NoProcess
<1> QED BY <1>4, <1>5 DEF IInv, TimerInv, JudgedOnItsOwnSilence

-----------------------------------------------------------------------------
(* Where an actor goes.                                                     *)

LEMMA RecordMoves ==
  ASSUME TypeOK, NEW a \in Actors, NEW r \in ActorState, at' = [at EXCEPT ![a] = r],
         r.step # "read" \/ r.ret # "kill" \/ r.then # "portWait"
  PROVE  Moves(a)
BY DEF TypeOK, Moves, Condemns, At

LEMMA GoMoves ==
  ASSUME TypeOK, NEW a \in Actors, NEW s \in Steps \ {"read"}, Go(a, s)
  PROVE  Moves(a)
<1> DEFINE r == [at[a] EXCEPT !.step = s]
<1>1. at[a] \in ActorState
  BY DEF TypeOK
<1>2. r \in ActorState /\ r.step = s
  BY <1>1 DEF ActorState
<1>3. at' = [at EXCEPT ![a] = r]
  BY DEF Go
<1> QED BY <1>2, <1>3, RecordMoves

LEMMA ReadMoves ==
  ASSUME TypeOK, NEW a \in Actors, NEW ret \in Steps \ {"kill"}, ReadThen(a, ret)
  PROVE  Moves(a)
<1> DEFINE r == [at[a] EXCEPT !.step = "read", !.ret = ret]
<1>1. at[a] \in ActorState
  BY DEF TypeOK
<1>2. r \in ActorState /\ r.ret = ret
  BY <1>1 DEF ActorState, Steps
<1>3. at' = [at EXCEPT ![a] = r]
  BY DEF ReadThen
<1> QED BY <1>2, <1>3, RecordMoves

LEMMA KillMoves ==
  ASSUME TypeOK, NEW a \in Actors, NEW then \in Steps \ {"portWait"}, KillThen(a, then)
  PROVE  Moves(a)
<1> DEFINE r == [at[a] EXCEPT !.step = "read", !.ret = "kill", !.then = then]
<1>1. at[a] \in ActorState
  BY DEF TypeOK
<1>2. r \in ActorState /\ r.then = then
  BY <1>1 DEF ActorState, Steps
<1>3. at' = [at EXCEPT ![a] = r]
  BY DEF KillThen
<1> QED BY <1>2, <1>3, RecordMoves

LEMMA IdleState == Idle \in ActorState /\ Idle.ret = "idle"
BY DEF Idle, ActorState, Steps, Named, Engines

LEMMA AfreshMoves ==
  ASSUME TypeOK, NEW a \in Actors, NEW s \in Steps, NEW pid \in Named,
         NEW which \in Engines, Afresh(a, s, pid, which)
  PROVE  Moves(a)
<1> DEFINE r == [Idle EXCEPT !.step = s, !.pid = pid, !.start = which,
                             !.verify = at[a].verify]
<1>1. at[a].verify \in BOOLEAN
  BY DEF TypeOK, ActorState
<1>2. r \in ActorState /\ r.ret = "idle"
  BY <1>1, IdleState DEF ActorState
<1>3. at' = [at EXCEPT ![a] = r]
  BY DEF Afresh
<1> QED BY <1>2, <1>3, RecordMoves

LEMMA DoneMoves ==
  ASSUME TypeOK, NEW a \in Actors, Done(a)
  PROVE  Moves(a)
BY AfreshMoves DEF Done, Steps, Named, Engines

LEMMA TryMoves ==
  ASSUME TypeOK, NEW a \in Actors, NEW which \in Engines, Try(a, which)
  PROVE  Moves(a)
BY AfreshMoves DEF Try, Steps, Named

-----------------------------------------------------------------------------
(* What becomes of the processes.                                           *)

Calm(f) ==
  /\ f \in [Pids -> ProcessState]
  /\ \A p \in Pids : f[p].life = "runs" => proc[p].life = "runs" /\ f[p].age = proc[p].age

LEMMA NoProcessState == NoProcess \in ProcessState /\ NoProcess.life = "none"
BY GraceAssumption DEF NoProcess, ProcessState, Engines

LEMMA UnchangedCalm == TypeOK => Calm(proc)
BY DEF TypeOK, Calm

LEMMA CalmIsTame ==
  ASSUME Calm(proc')
  PROVE  Tame
BY DEF Calm, Tame

LEMMA DeadCalm ==
  ASSUME TypeOK, NEW S
  PROVE  Calm(Dead(S))
<1>1. ASSUME NEW p \in Pids
      PROVE  Remains(p) \in ProcessState /\ Remains(p).life # "runs"
  <2> DEFINE z == [NoProcess EXCEPT !.life = "zombie", !.by = proc[p].by, !.age = proc[p].age]
  <2>1. proc[p] \in ProcessState
    BY DEF TypeOK
  <2>2. z \in ProcessState /\ z.life = "zombie"
    BY <2>1, NoProcessState DEF ProcessState
  <2> QED BY <2>2, NoProcessState DEF Remains
<1>2. Dead(S) \in [Pids -> ProcessState]
  BY <1>1 DEF Dead, TypeOK
<1> QED BY <1>1, <1>2 DEF Calm, Dead

LEMMA AskedCalm ==
  ASSUME TypeOK, NEW S
  PROVE  Calm(Asked(S))
<1>1. ASSUME NEW p \in Pids
      PROVE  /\ [proc[p] EXCEPT !.asked = TRUE] \in ProcessState
             /\ [proc[p] EXCEPT !.asked = TRUE].life = proc[p].life
             /\ [proc[p] EXCEPT !.asked = TRUE].age = proc[p].age
  <2>1. proc[p] \in ProcessState
    BY DEF TypeOK
  <2> QED BY <2>1 DEF ProcessState
<1>2. Asked(S) \in [Pids -> ProcessState]
  BY <1>1 DEF Asked, TypeOK
<1> QED BY <1>1, <1>2 DEF Calm, Asked

LEMMA ReapedCalm ==
  ASSUME NEW f, Calm(f), NEW a
  PROVE  Calm(Reaped(a, f))
BY NoProcessState DEF Calm, Reaped

LEMMA OrphanedCalm ==
  ASSUME TypeOK, NEW a
  PROVE  Calm(Orphaned(a))
<1>1. ASSUME NEW p \in Pids
      PROVE  /\ [proc[p] EXCEPT !.by = "none"] \in ProcessState
             /\ [proc[p] EXCEPT !.by = "none"].life = proc[p].life
             /\ [proc[p] EXCEPT !.by = "none"].age = proc[p].age
  <2>1. proc[p] \in ProcessState
    BY DEF TypeOK
  <2> QED BY <2>1 DEF ProcessState
<1>2. Orphaned(a) \in [Pids -> ProcessState]
  BY <1>1, NoProcessState DEF Orphaned, TypeOK
<1> QED BY <1>1, <1>2, NoProcessState DEF Calm, Orphaned

\* A process that is spawned has a number nobody knows.
LEMMA SpawnStep ==
  ASSUME TypeOK, NEW a \in Actors, NEW which \in Engines, Spawn(a, which)
  PROVE  Tame /\ Moves(a)
<1> DEFINE p == CHOOSE q \in Pids \ Known : TRUE
           n == [NoProcess EXCEPT !.life = "runs", !.engine = which, !.by = a]
<1>1. p \in Pids /\ p \notin Known
  BY DEF Spawn
<1>2. n \in ProcessState
  BY NoProcessState DEF ProcessState
<1>3. Calm(Reaped(a, proc))
  BY ReapedCalm, UnchangedCalm
<1>4. proc' = [Reaped(a, proc) EXCEPT ![p] = n]
  BY DEF Spawn
<1>5. Tame
  <2> HIDE DEF p, n
  <2> QED BY <1>1, <1>2, <1>3, <1>4 DEF Calm, Tame
<1>6. Afresh(a, "stamp", p, which)
  BY DEF Spawn
<1>7. Moves(a)
  <2> HIDE DEF p
  <2> QED BY <1>1, <1>6, AfreshMoves DEF Steps, Named
<1> QED BY <1>5, <1>7

-----------------------------------------------------------------------------
(* Steps that keep the invariant.                                           *)

LEMMA ActorStep ==
  ASSUME IInv, NEW a \in Actors, Moves(a), Tame, TimerMoves(a), Others
  PROVE  IInv'
<1>1. TypeOK'
  BY GraceAssumption DEF IInv, TypeOK, Moves, Tame, TimerMoves, Others, NoTimer, Named, ActorState
<1>2. TimerInv'
  BY <1>1, GraceAssumption
     DEF IInv, TypeOK, TimerInv, Tame, TimerMoves, Known, Alive, NoTimer, None, ProcessState
<1>3. ASSUME NEW b \in Actors, Condemns(b)', at'[b].pid \in Alive'
      PROVE  proc'[at'[b].pid].age = Grace
  <2>1. b # a
    BY <1>3 DEF Moves
  <2>2. at'[b] = at[b]
    BY <2>1 DEF Moves
  <2>3. at[b].pid \in Pids \cap Known /\ proc'[at[b].pid].life = "runs"
    BY <1>3, <2>2 DEF Alive, Known
  <2>4. at[b].pid \in Alive /\ proc'[at[b].pid].age = proc[at[b].pid].age
    BY <2>3 DEF Tame, Alive
  <2> QED BY <1>3, <2>2, <2>4 DEF IInv, JudgedOnItsOwnSilence, Condemns, At
<1> QED BY <1>1, <1>2, <1>3 DEF IInv, JudgedOnItsOwnSilence, Condemns, At

LEMMA WorldStep ==
  ASSUME IInv, at' = at, timer' = timer, Tame, Others
  PROVE  IInv'
<1>1. TypeOK'
  BY DEF IInv, TypeOK, Tame, Others
<1>2. TimerInv'
  BY DEF IInv, TimerInv, Tame, Known, Alive
<1>3. ASSUME NEW b \in Actors, Condemns(b)', at'[b].pid \in Alive'
      PROVE  proc'[at'[b].pid].age = Grace
  <2>1. at[b].pid \in Pids \cap Known /\ proc'[at[b].pid].life = "runs"
    BY <1>3 DEF Alive, Known
  <2>2. at[b].pid \in Alive /\ proc'[at[b].pid].age = proc[at[b].pid].age
    BY <2>1 DEF Tame, Alive
  <2> QED BY <1>3, <2>2 DEF IInv, JudgedOnItsOwnSilence, Condemns, At
<1> QED BY <1>1, <1>2, <1>3 DEF IInv, JudgedOnItsOwnSilence, Condemns, At

LEMMA SpendType ==
  ASSUME TypeOK, NEW what \in Budgeted, Spend(what)
  PROVE  left' \in [Budgeted -> Nat]
BY DEF TypeOK, Spend

\* Pid files.
LEMMA FileSteps ==
  ASSUME IInv, NEW a \in Actors, ReadFile(a) \/ CheckPid(a) \/ Kill(a) \/ KillWait(a)
  PROVE  IInv'
<1>1. TypeOK /\ Calm(proc) /\ at[a] \in ActorState
  BY UnchangedCalm DEF IInv, TypeOK
<1>2. CASE ReadFile(a)
  <2> DEFINE r == [at[a] EXCEPT !.pid = pidFile,
                                !.step = IF pidFile = None THEN at[a].ret ELSE "check"]
  <2>1. r \in ActorState /\ (r.step # "read" \/ r.ret # "kill")
    BY <1>1 DEF ActorState, TypeOK, Steps
  <2>2. at' = [at EXCEPT ![a] = r]
    BY <1>2 DEF ReadFile
  <2>3. Moves(a)
    BY <1>1, <2>1, <2>2, RecordMoves
  <2>4. Tame
    BY <1>1, <1>2, CalmIsTame DEF ReadFile
  <2> QED BY <1>1, <1>2, <2>3, <2>4, ActorStep DEF ReadFile, TimerMoves, Others, TypeOK
<1>3. CASE CheckPid(a)
  <2> DEFINE r == [at[a] EXCEPT !.step = at[a].ret]
             d == [at[a] EXCEPT !.pid = None, !.step = at[a].ret]
  <2>0. None \in Named /\ at[a].ret \in Steps
    BY <1>1 DEF ActorState, Named
  <2>1. r \in ActorState /\ (r.step # "read" \/ r.ret # "kill")
    BY <1>1, <2>0 DEF ActorState
  <2>d. d \in ActorState /\ (d.step # "read" \/ d.ret # "kill")
    BY <1>1, <2>0 DEF ActorState
  <2>2. at' = [at EXCEPT ![a] = r] \/ at' = [at EXCEPT ![a] = d]
    BY <1>3 DEF CheckPid
  <2>3. Moves(a)
    BY <1>1, <2>1, <2>d, <2>2, RecordMoves
  <2>4. Tame
    BY <1>1, <1>3, CalmIsTame, ReapedCalm DEF CheckPid
  <2> QED BY <1>1, <1>3, <2>3, <2>4, ActorStep DEF CheckPid, TimerMoves, Others, TypeOK, Named
<1>4. CASE Kill(a)
  <2>1. (IF at[a].pid = None THEN at[a].then ELSE "killWait") \in Steps
    BY <1>1 DEF ActorState, Steps
  <2> DEFINE s == IF at[a].pid = None THEN at[a].then ELSE "killWait"
             r == [at[a] EXCEPT !.step = s]
  <2>2. r \in ActorState /\ (r.step # "read" \/ r.then # "portWait")
    BY <1>1, <2>1 DEF ActorState
  <2>3. at' = [at EXCEPT ![a] = r]
    BY <1>4 DEF Kill, Go
  <2>4. Moves(a)
    BY <1>1, <2>2, <2>3, RecordMoves
  <2>5. Tame
    BY <1>1, <1>4, CalmIsTame, AskedCalm, ReapedCalm DEF Kill
  <2> QED BY <1>1, <1>4, <2>4, <2>5, ActorStep DEF Kill, TimerMoves, Others, TypeOK
<1>5. CASE KillWait(a)
  <2> DEFINE r == [at[a] EXCEPT !.step = at[a].then]
  <2>1. r \in ActorState /\ (r.step # "read" \/ r.then # "portWait")
    BY <1>1 DEF ActorState
  <2>2. at' = [at EXCEPT ![a] = r]
    BY <1>5 DEF KillWait, Go
  <2>3. Moves(a)
    BY <1>1, <2>1, <2>2, RecordMoves
  <2>4. Tame
    BY <1>1, <1>5, CalmIsTame, DeadCalm DEF KillWait
  <2> QED BY <1>1, <1>5, <2>3, <2>4, ActorStep DEF KillWait, TimerMoves, Others, TypeOK, Named
<1> QED BY <1>2, <1>3, <1>4, <1>5

\* Starting an engine.
LEMMA StartSteps ==
  ASSUME IInv, NEW a \in Actors,
         \/ Attempt(a) \/ Stamp(a) \/ Settle(a)
         \/ Healthy(a) \/ HealthyFails(a) \/ Fallback(a)
  PROVE  IInv'
<1>1. TypeOK /\ Calm(proc) /\ at[a] \in ActorState
  BY UnchangedCalm DEF IInv, TypeOK
<1>2. CASE Attempt(a)
  <2>1. at[a].start \in Engines
    BY <1>1 DEF ActorState
  <2>2. Moves(a) /\ Tame
    BY <1>1, <1>2, <2>1, SpawnStep, DoneMoves, ReapedCalm, CalmIsTame DEF Attempt
  <2>3. left' \in [Budgeted -> Nat]
    BY <1>1, <1>2, SpendType DEF Attempt, CannotTell, Budgeted, TypeOK
  <2> QED BY <1>1, <1>2, <2>2, <2>3, ActorStep DEF Attempt, TimerMoves, Others, TypeOK
<1>3. CASE Stamp(a)
  <2>1. Moves(a)
    BY <1>1, <1>3, GoMoves DEF Stamp, Steps
  <2>2. at[a].pid \in Named
    BY <1>1 DEF ActorState
  <2>3. Tame
    BY <1>1, <1>3, CalmIsTame DEF Stamp
  <2> QED BY <1>1, <1>3, <2>1, <2>2, <2>3, ActorStep DEF Stamp, TimerMoves, Others, TypeOK
<1>4. CASE Settle(a)
  <2>1. Moves(a)
    BY <1>1, <1>4, GoMoves, DoneMoves, TryMoves DEF Settle, Steps, Engines
  <2>2. Calm([proc EXCEPT ![at[a].pid] = NoProcess])
    BY <1>1, NoProcessState DEF Calm
  <2>3. Tame
    BY <1>1, <1>4, <2>2, CalmIsTame DEF Settle
  <2> QED BY <1>1, <1>4, <2>1, <2>3, ActorStep DEF Settle, TimerMoves, Others, TypeOK, Named
<1>5. CASE Healthy(a)
  <2>1. Moves(a) /\ Tame
    BY <1>1, <1>5, DoneMoves, CalmIsTame DEF Healthy
  <2> QED BY <1>1, <1>5, <2>1, ActorStep DEF Healthy, TimerMoves, Others, TypeOK
<1>6. CASE HealthyFails(a)
  <2>1. Moves(a) /\ Tame
    BY <1>1, <1>6, KillMoves, CalmIsTame DEF HealthyFails, GiveUp, Steps
  <2>2. left' \in [Budgeted -> Nat]
    BY <1>1, <1>6, SpendType DEF HealthyFails, Budgeted, TypeOK
  <2> QED BY <1>1, <1>6, <2>1, <2>2, ActorStep DEF HealthyFails, TimerMoves, Others, TypeOK
<1>7. CASE Fallback(a)
  <2>1. Moves(a) /\ Tame
    BY <1>1, <1>7, SpawnStep, DoneMoves, CalmIsTame DEF Fallback, Engines
  <2> QED BY <1>1, <1>7, <2>1, ActorStep DEF Fallback, TimerMoves, Others, TypeOK
<1> QED BY <1>2, <1>3, <1>4, <1>5, <1>6, <1>7

\* reconcile_ml.
LEMMA ReconcileSteps ==
  ASSUME IInv, NEW a \in Actors,
         Disable(a) \/ PortWait(a) \/ Occupied(a) \/ Adopt(a) \/ AdoptWrite(a)
  PROVE  IInv'
<1>1. TypeOK /\ Calm(proc) /\ at[a] \in ActorState
  BY UnchangedCalm DEF IInv, TypeOK
<1>2. CASE Disable(a)
  <2>1. Moves(a) /\ Tame
    BY <1>1, <1>2, KillMoves, DoneMoves, CalmIsTame DEF Disable, Steps
  <2> QED BY <1>1, <1>2, <2>1, ActorStep DEF Disable, SetTimer, TimerMoves, Others, TypeOK
<1>3. CASE PortWait(a)
  <2>1. Moves(a) /\ Tame
    BY <1>1, <1>3, TryMoves, DoneMoves, CalmIsTame DEF PortWait, Engines
  <2> QED BY <1>1, <1>3, <2>1, ActorStep DEF PortWait, SetTimer, TimerMoves, Others, TypeOK
<1>4. CASE Occupied(a)
  <2>1. Moves(a) /\ Tame
    BY <1>1, <1>4, TryMoves, GoMoves, CalmIsTame DEF Occupied, Engines, Steps
  <2> QED BY <1>1, <1>4, <2>1, ActorStep DEF Occupied, SetTimer, TimerMoves, Others, TypeOK
<1>5. CASE Adopt(a)
  <2>1. ASSUME \E p \in Adoptable :
                 at' = [at EXCEPT ![a].step = "adoptWrite", ![a].pid = p]
        PROVE  Moves(a)
    <3>1. PICK p \in Adoptable :
            at' = [at EXCEPT ![a].step = "adoptWrite", ![a].pid = p]
      BY <2>1
    <3> DEFINE r == [at[a] EXCEPT !.step = "adoptWrite", !.pid = p]
    <3>2. p \in Named
      BY DEF Adoptable, Alive, Named
    <3>3. "adoptWrite" \in Steps
      BY DEF Steps
    <3>4. r \in ActorState /\ r.step # "read"
      BY <1>1, <3>2, <3>3 DEF ActorState
    <3>5. at' = [at EXCEPT ![a] = r]
      BY <3>1
    <3> QED BY <1>1, <3>4, <3>5, RecordMoves
  <2>2. ASSUME IF At(a, "boot") THEN ReadThen(a, "stale") ELSE Done(a)
        PROVE  Moves(a)
    BY <1>1, <2>2, ReadMoves, DoneMoves DEF Steps
  <2>3. Moves(a) /\ Tame
    BY <1>1, <1>5, <2>1, <2>2, ReapedCalm, CalmIsTame DEF Adopt
  <2>4. left' \in [Budgeted -> Nat]
    BY <1>1, <1>5, SpendType DEF Adopt, CannotTell, Budgeted, TypeOK
  <2> QED BY <1>1, <1>5, <2>3, <2>4, ActorStep DEF Adopt, TimerMoves, Others, TypeOK
<1>6. CASE AdoptWrite(a)
  <2>1. Moves(a) /\ Tame
    BY <1>1, <1>6, DoneMoves, CalmIsTame DEF AdoptWrite
  <2>2. at[a].pid \in Named
    BY <1>1 DEF ActorState
  <2> QED BY <1>1, <1>6, <2>1, <2>2, ActorStep DEF AdoptWrite, TimerMoves, Others, TypeOK
<1> QED BY <1>2, <1>3, <1>4, <1>5, <1>6

\* The look at a process that should answer: the one step that condemns.
LEMMA PingStep ==
  ASSUME IInv, NEW a \in Actors, Ping(a)
  PROVE  IInv'
<1>1. TypeOK /\ Calm(proc) /\ at[a] \in ActorState /\ TimerInv
  BY UnchangedCalm DEF IInv, TypeOK
<1>2. Tame
  BY <1>1, CalmIsTame DEF Ping
<1>3. CASE Done(a)
  <2>1. Moves(a)
    BY <1>1, <1>3, DoneMoves
  <2> QED BY <1>1, <1>2, <2>1, ActorStep DEF Ping, SetTimer, TimerMoves, Others, TypeOK
<1>4. CASE SilenceOf(a) /\ UNCHANGED timer /\ TimerOf(a).age >= Grace /\ KillThen(a, "portWait")
  <2> DEFINE r == [at[a] EXCEPT !.step = "read", !.ret = "kill", !.then = "portWait"]
  <2>1. r \in ActorState /\ r.pid = at[a].pid
    BY <1>1 DEF ActorState, Steps
  <2>2. at' = [at EXCEPT ![a] = r]
    BY <1>4 DEF KillThen
  <2>3. /\ at' \in [Actors -> ActorState]
        /\ \A b \in Actors \ {a} : at'[b] = at[b]
        /\ at'[a].pid = at[a].pid
    BY <1>1, <2>1, <2>2 DEF TypeOK
  <2>4. TypeOK'
    BY <1>1, <1>4, <2>3 DEF Ping, TypeOK
  <2>5. TimerInv'
    BY <1>1, <1>4 DEF Ping, TimerInv, Alive
  <2>6. TimerOf(a) = timer
    BY <1>4 DEF Ping, SilenceOf, TimerOf, NoTimer
  <2>7. timer.pid = at[a].pid /\ timer.age = Grace
    BY <1>1, <1>4, <2>6, GraceAssumption DEF SilenceOf, TypeOK
  <2>8. ASSUME at[a].pid \in Alive
        PROVE  proc[at[a].pid].age = Grace
    BY <1>1, <2>7, <2>8, GraceAssumption DEF TimerInv, TypeOK, ProcessState, Alive
  <2>9. proc' = proc /\ Alive' = Alive
    BY DEF Ping, Alive
  <2> QED BY <2>3, <2>4, <2>5, <2>8, <2>9 DEF IInv, JudgedOnItsOwnSilence, At
<1> QED BY <1>1, <1>3, <1>4, GraceAssumption DEF Ping, TimerOf, NoTimer, TypeOK

\* A start over a running engine, and the end of a command.
LEMMA CommandSteps ==
  ASSUME IInv, NEW a \in Actors, KillStale(a) \/ StartGo(a) \/ CommandEnds(a)
  PROVE  IInv'
<1>1. TypeOK /\ Calm(proc) /\ at[a] \in ActorState
  BY UnchangedCalm DEF IInv, TypeOK
<1>2. CASE KillStale(a)
  <2>1. Moves(a)
    BY <1>1, <1>2, ReadMoves DEF KillStale, Steps
  <2>2. Tame
    BY <1>1, <1>2, AskedCalm, ReapedCalm, CalmIsTame DEF KillStale
  <2> QED BY <1>1, <1>2, <2>1, <2>2, ActorStep DEF KillStale, TimerMoves, Others, TypeOK
<1>3. CASE StartGo(a)
  <2>1. Moves(a) /\ Tame
    BY <1>1, <1>3, KillMoves, DoneMoves, CalmIsTame DEF StartGo, Steps
  <2> QED BY <1>1, <1>3, <2>1, ActorStep DEF StartGo, TimerMoves, Others, TypeOK
<1>4. CASE CommandEnds(a)
  <2> DEFINE r == [Idle EXCEPT !.step = "read", !.ret = "done"]
  <2>1. r \in ActorState /\ r.ret = "done"
    BY IdleState DEF ActorState, Steps
  <2>2. Idle.ret # "kill"
    BY IdleState
  <2>3. at' = [at EXCEPT ![a] = r] \/ at' = [at EXCEPT ![a] = Idle]
    BY <1>4 DEF CommandEnds
  <2>4. Moves(a)
    BY <1>1, <2>1, <2>2, <2>3, IdleState, RecordMoves
  <2>5. Tame
    BY <1>1, <1>4, OrphanedCalm, CalmIsTame DEF CommandEnds
  <2> QED BY <1>1, <1>4, <2>4, <2>5, ActorStep DEF CommandEnds, TimerMoves, Others, TypeOK
<1> QED BY <1>2, <1>3, <1>4

\* The watcher's launch, its cycle and its signal handler.
LEMMA WatcherSteps ==
  ASSUME IInv, Cycle \/ WatcherLaunch \/ Boot \/ WatcherSigterm
  PROVE  IInv'
<1>1. TypeOK /\ Calm(proc) /\ "watch" \in Actors
  BY UnchangedCalm DEF IInv, Actors
<1>2. CASE Cycle
  <2>1. Moves("watch")
    BY <1>1, <1>2, ReadMoves DEF Cycle, Steps
  <2>2. Tame
    BY <1>1, <1>2, ReapedCalm, CalmIsTame DEF Cycle
  <2> QED BY <1>1, <1>2, <2>1, <2>2, ActorStep DEF Cycle, TimerMoves, Others, TypeOK
<1>3. CASE WatcherLaunch
  <2> DEFINE r == [Idle EXCEPT !.step = "read", !.ret = "boot", !.on = enabled, !.force = TRUE]
  <2>1. enabled \in BOOLEAN
    BY <1>1 DEF TypeOK
  <2>2. r \in ActorState /\ r.ret = "boot"
    BY <2>1, IdleState DEF ActorState, Steps
  <2>3. Moves("watch")
    BY <1>1, <1>3, <2>2, RecordMoves DEF WatcherLaunch
  <2>4. Tame
    BY <1>1, <1>3, CalmIsTame DEF WatcherLaunch
  <2> QED BY <1>1, <1>3, <2>3, <2>4, ActorStep DEF WatcherLaunch, TimerMoves, Others, TypeOK
<1>4. CASE Boot
  <2>1. Moves("watch") /\ Tame
    BY <1>1, <1>4, ReadMoves, DoneMoves, CalmIsTame DEF Boot, Steps
  <2> QED BY <1>1, <1>4, <2>1, ActorStep DEF Boot, TimerMoves, Others, TypeOK
<1>5. CASE WatcherSigterm
  <2> DEFINE r == [Idle EXCEPT !.step = "read", !.ret = "fastStop"]
  <2>1. r \in ActorState /\ r.ret = "fastStop"
    BY IdleState DEF ActorState, Steps
  <2>2. Moves("watch")
    BY <1>1, <1>5, <2>1, RecordMoves DEF WatcherSigterm
  <2>3. Tame
    BY <1>1, <1>5, CalmIsTame DEF WatcherSigterm
  <2>4. left' \in [Budgeted -> Nat]
    BY <1>1, <1>5, SpendType DEF WatcherSigterm, Budgeted
  <2> QED BY <1>1, <1>5, <2>2, <2>3, <2>4, ActorStep DEF WatcherSigterm, TimerMoves, Others, TypeOK
<1> QED BY <1>2, <1>3, <1>4, <1>5

\* The watcher's fast stop, to its exit.
LEMMA ExitMoves ==
  ASSUME TypeOK, NEW S, Exit(S)
  PROVE  Moves("watch") /\ Tame /\ timer' = NoTimer
<1>1. Calm(Dead(S)) /\ "watch" \in Actors
  BY DeadCalm DEF Actors
<1>2. Calm(proc')
  BY <1>1, NoProcessState DEF Calm, Exit
<1> DEFINE r == [Idle EXCEPT !.step = "off"]
<1>3. r \in ActorState /\ r.step # "read"
  BY IdleState DEF ActorState, Steps
<1> QED BY <1>1, <1>2, <1>3, CalmIsTame, RecordMoves DEF Exit

LEMMA StopSteps ==
  ASSUME IInv, FastStop \/ FastWait
  PROVE  IInv'
<1>1. TypeOK /\ Calm(proc) /\ "watch" \in Actors
  BY UnchangedCalm DEF IInv, Actors
<1>2. CASE FastStop
  <2>1. ASSUME proc' = Asked({at["watch"].pid}), Go("watch", "fastWait")
        PROVE  Moves("watch") /\ Tame
    BY <1>1, <2>1, GoMoves, AskedCalm, CalmIsTame DEF Steps
  <2>2. Moves("watch") /\ Tame /\ (timer' = NoTimer \/ timer' = timer)
    BY <1>1, <1>2, <2>1, ExitMoves DEF FastStop
  <2> QED BY <1>1, <1>2, <2>2, ActorStep DEF FastStop, TimerMoves, Others, TypeOK
<1>3. CASE FastWait
  <2>1. Moves("watch") /\ Tame /\ timer' = NoTimer
    BY <1>1, <1>3, ExitMoves DEF FastWait
  <2> QED BY <1>1, <1>3, <2>1, ActorStep DEF FastWait, TimerMoves, Others, TypeOK, Named
<1> QED BY <1>2, <1>3

\* What a user runs beside the watcher.
LEMMA UserSteps ==
  ASSUME IInv, UserCommand
  PROVE  IInv'
<1>1. TypeOK /\ Calm(proc) /\ "user" \in Actors /\ enabled \in BOOLEAN
  BY UnchangedCalm DEF IInv, Actors, TypeOK
<1>2. enabled' \in BOOLEAN
  BY <1>1 DEF UserCommand
<1>3. ASSUME NEW force \in BOOLEAN,
             at' = [at EXCEPT !["user"] = [Idle EXCEPT !.step = "read", !.ret = "stale",
                                                       !.on = enabled, !.force = force]]
      PROVE  Moves("user")
  <2> DEFINE r == [Idle EXCEPT !.step = "read", !.ret = "stale", !.on = enabled, !.force = force]
  <2>1. r \in ActorState /\ r.ret = "stale"
    BY <1>1, IdleState DEF ActorState, Steps
  <2> QED BY <1>1, <1>3, <2>1, RecordMoves
<1>4. ASSUME at' = [at EXCEPT !["user"] = [Idle EXCEPT
                      !.step = "read", !.ret = IF enabled' THEN "judge" ELSE "disable",
                      !.verify = TRUE]]
      PROVE  Moves("user")
  <2> DEFINE r == [Idle EXCEPT !.step = "read",
                               !.ret = IF enabled' THEN "judge" ELSE "disable", !.verify = TRUE]
  <2>1. r \in ActorState /\ r.ret # "kill"
    BY IdleState DEF ActorState, Steps
  <2> QED BY <1>1, <1>4, <2>1, RecordMoves
<1>5. Moves("user")
  BY <1>1, <1>3, <1>4, KillMoves DEF UserCommand, Steps
<1>6. Tame
  BY <1>1, CalmIsTame DEF UserCommand
<1>7. left' \in [Budgeted -> Nat]
  BY <1>1, SpendType DEF UserCommand, Budgeted
<1> QED BY <1>1, <1>2, <1>5, <1>6, <1>7, ActorStep DEF UserCommand, TimerMoves, Others, TypeOK

LEMMA StatusSteps ==
  ASSUME IInv, Status \/ StatusEnds
  PROVE  IInv'
<1>1. TypeOK /\ Calm(proc) /\ "status" \in Actors /\ pidFile \in Named
  BY UnchangedCalm DEF IInv, Actors, TypeOK
<1>2. CASE Status
  <2> DEFINE r == [Idle EXCEPT !.step = "check", !.pid = pidFile]
  <2>1. r \in ActorState /\ r.step # "read"
    BY <1>1, IdleState DEF ActorState, Steps
  <2>2. Moves("status")
    BY <1>1, <1>2, <2>1, RecordMoves DEF Status
  <2>3. Tame
    BY <1>1, <1>2, CalmIsTame DEF Status
  <2>4. left' \in [Budgeted -> Nat]
    BY <1>1, <1>2, SpendType DEF Status, Budgeted
  <2> QED BY <1>1, <1>2, <2>2, <2>3, <2>4, ActorStep DEF Status, TimerMoves, Others, TypeOK
<1>3. CASE StatusEnds
  <2>1. Moves("status")
    BY <1>1, <1>3, IdleState, RecordMoves DEF StatusEnds
  <2>2. Tame
    BY <1>1, <1>3, CalmIsTame DEF StatusEnds
  <2> QED BY <1>1, <1>3, <2>1, <2>2, ActorStep DEF StatusEnds, TimerMoves, Others, TypeOK, Named
<1> QED BY <1>2, <1>3

-----------------------------------------------------------------------------
(* The processes, the port and the clock.                                   *)

LEMMA ProcessSteps ==
  ASSUME IInv, NEW p \in Pids, Process(p)
  PROVE  IInv'
<1>1. TypeOK /\ Calm(proc) /\ proc[p] \in ProcessState
  BY UnchangedCalm DEF IInv, TypeOK
<1>2. CASE Bind(p) \/ Exits(p) \/ Crash(p)
  <2>1. Tame
    BY <1>1, <1>2, DeadCalm, CalmIsTame DEF Bind, Exits, Crash
  <2>2. left' \in [Budgeted -> Nat]
    BY <1>1, <1>2, SpendType DEF Bind, Exits, Crash, Budgeted, TypeOK
  <2> QED BY <1>1, <1>2, <2>1, <2>2, WorldStep DEF Bind, Exits, Crash, Others, TypeOK, Named
<1>3. CASE GoSilent(p) \/ SpeakAgain(p)
  <2>1. ASSUME NEW b \in BOOLEAN
        PROVE  Calm([proc EXCEPT ![p].silent = b])
    <3> DEFINE r == [proc[p] EXCEPT !.silent = b]
    <3>1. r \in ProcessState /\ r.life = proc[p].life /\ r.age = proc[p].age
      BY <1>1 DEF ProcessState
    <3>2. [proc EXCEPT ![p].silent = b] = [proc EXCEPT ![p] = r]
      OBVIOUS
    <3> HIDE DEF r
    <3> QED BY <1>1, <3>1, <3>2 DEF Calm
  <2>2. Tame
    BY <1>3, <2>1, CalmIsTame DEF GoSilent, SpeakAgain
  <2>3. left' \in [Budgeted -> Nat]
    BY <1>1, <1>3, SpendType DEF GoSilent, SpeakAgain, Budgeted, TypeOK
  <2> QED BY <1>1, <1>3, <2>2, <2>3, WorldStep DEF GoSilent, SpeakAgain, Others, TypeOK
<1> QED BY <1>2, <1>3 DEF Process

LEMMA PortSteps ==
  ASSUME IInv, Release \/ Visit \/ Leave
  PROVE  IInv'
<1>1. TypeOK /\ Calm(proc)
  BY UnchangedCalm DEF IInv
<1>2. Tame
  BY <1>1, CalmIsTame DEF Release, Visit, Leave
<1>3. left' \in [Budgeted -> Nat]
  BY <1>1, SpendType DEF Release, Visit, Leave, Budgeted, TypeOK
<1> QED BY <1>1, <1>2, <1>3, WorldStep DEF Release, Visit, Leave, Others, TypeOK, Named

\* A cycle of the watcher's sleep ages the timer and every process alike, and
\* finds no actor between its decision and the kill.
LEMMA TickStep ==
  ASSUME IInv, Tick
  PROVE  IInv'
<1>1. TypeOK /\ TimerInv
  BY DEF IInv
<1>2. \A n \in 0..Grace : Older(n) \in 0..Grace
  BY GraceAssumption DEF Older
<1>3. \A m, n \in 0..Grace : m <= n => Older(m) <= Older(n)
  BY GraceAssumption DEF Older
<1>4. ASSUME NEW p \in Pids
      PROVE  /\ proc'[p] \in ProcessState
             /\ proc'[p].life = proc[p].life
             /\ proc[p].life = "runs" => proc'[p].age = Older(proc[p].age)
  <2> DEFINE r == [proc[p] EXCEPT !.age = Older(proc[p].age)]
  <2>1. proc[p] \in ProcessState /\ proc[p].age \in 0..Grace
    BY <1>1 DEF TypeOK, ProcessState
  <2>2. r \in ProcessState /\ r.life = proc[p].life /\ r.age = Older(proc[p].age)
    BY <1>2, <2>1 DEF ProcessState
  <2>3. proc'[p] = IF proc[p].life # "none" THEN r ELSE proc[p]
    BY DEF Tick
  <2> QED BY <2>1, <2>2, <2>3
<1>5. proc' \in [Pids -> ProcessState] /\ Alive' = Alive
  <2>1. proc' \in [Pids -> ProcessState]
    BY <1>4 DEF Tick
  <2> QED BY <1>4, <2>1 DEF Alive
<1>6. timer' \in [pid : Named, age : 0..Grace]
  BY <1>1, <1>2 DEF Tick, TypeOK
<1>7. /\ at' \in [Actors -> ActorState]
      /\ \A a \in Actors : at'[a].step # "read"
  <2> DEFINE r == [at["watch"] EXCEPT !.step = "awake"]
  <2>1. at["watch"] \in ActorState /\ "watch" \in Actors
    BY <1>1 DEF TypeOK, Actors
  <2>2. "awake" \in Steps
    BY DEF Steps
  <2>3. r \in ActorState /\ r.step = "awake"
    BY <2>1, <2>2 DEF ActorState
  <2>4. at' = [at EXCEPT !["watch"] = r] \/ at' = at
    BY DEF Tick
  <2>5. \A a \in Actors : at[a].step # "read"
    BY DEF Tick, At
  <2> HIDE DEF r
  <2> QED BY <1>1, <2>1, <2>3, <2>4, <2>5 DEF TypeOK
<1>8. TypeOK'
  BY <1>1, <1>5, <1>6, <1>7 DEF Tick, TypeOK
<1>9. TimerInv'
  <2> SUFFICES ASSUME timer'.pid \in Alive
               PROVE  timer'.age <= proc'[timer'.pid].age
    BY <1>5 DEF TimerInv
  <2>1. None \notin Alive
    BY PidsAssumption DEF Alive, None
  <2>2. timer # NoTimer /\ timer' = [timer EXCEPT !.age = Older(timer.age)]
    BY <2>1 DEF Tick, NoTimer
  <2>3. timer'.pid = timer.pid /\ timer'.age = Older(timer.age)
    BY <1>1, <2>2 DEF TypeOK
  <2>4. timer.pid \in Pids /\ proc[timer.pid].life = "runs" /\ timer.pid \in Alive
    BY <2>3 DEF Alive
  <2>5. timer.age <= proc[timer.pid].age
    BY <1>1, <2>4 DEF TimerInv
  <2>6. timer.age \in 0..Grace /\ proc[timer.pid].age \in 0..Grace
    BY <1>1, <2>4 DEF TypeOK, ProcessState
  <2> QED BY <1>3, <1>4, <2>3, <2>4, <2>5, <2>6
<1>10. JudgedOnItsOwnSilence'
  BY <1>7 DEF JudgedOnItsOwnSilence, At
<1> QED BY <1>8, <1>9, <1>10 DEF IInv

-----------------------------------------------------------------------------
(* The theorems.                                                            *)

LEMMA Inductive == IInv /\ [Next]_vars => IInv'
<1> SUFFICES ASSUME IInv, [Next]_vars PROVE IInv'
  OBVIOUS
<1>1. ASSUME NEW a \in Actors, Step(a) PROVE IInv'
  BY <1>1, FileSteps, StartSteps, ReconcileSteps, PingStep, CommandSteps DEF Step
<1>2. CASE Watcher
  BY <1>1, <1>2, WatcherSteps, StopSteps DEF Watcher, Actors
<1>3. CASE WatcherSigterm
  BY <1>3, WatcherSteps
<1>4. CASE UserCommand \/ Step("user")
  BY <1>1, <1>4, UserSteps DEF Actors
<1>5. CASE Status \/ StatusEnds
  BY <1>5, StatusSteps
<1>6. CASE \E p \in Pids : Process(p)
  BY <1>6, ProcessSteps
<1>7. CASE Release \/ Visit \/ Leave
  BY <1>7, PortSteps
<1>8. CASE Tick
  BY <1>8, TickStep
<1>9. CASE UNCHANGED vars
  BY <1>9 DEF vars, IInv, TypeOK, TimerInv, JudgedOnItsOwnSilence, Alive, At
<1> QED BY <1>2, <1>3, <1>4, <1>5, <1>6, <1>7, <1>8, <1>9 DEF Next

\* Whatever the pids, the grace and the budgets: the pid file and the port name
\* nobody, a process of ours or a foreign one, and every actor, wherever the
\* watcher's signal handler or another actor interrupted the work it did on the
\* same file, is at a step of the code with locals of its types.
THEOREM TypeCorrect == Spec => []TypeOK
<1>1. IInv => TypeOK
  BY DEF IInv
<1> QED BY <1>1, Initially, Inductive, PTL DEF Spec

\* Whatever the pids, the grace and the budgets: reconcile_ml decides to kill an
\* engine as unresponsive only when that engine has existed for the whole of
\* ML_UNRESPONSIVE_GRACE, although the timer outlives the process it was started
\* for and its number is used again.
THEOREM JudgedTheorem == Spec => []JudgedOnItsOwnSilence
<1>1. IInv => JudgedOnItsOwnSilence
  BY DEF IInv
<1> QED BY <1>1, Initially, Inductive, PTL DEF Spec

-----------------------------------------------------------------------------
(* The watcher alone: what ml.pid names wherever it is.                     *)

\* Where read_pid and kill_pid continue.
Returns   == {"boot", "judge", "disable", "stale", "startGo", "kill", "fastStop", "done"}
Continues == {"done", "portWait", "attempt", "fallback"}

\* The steps at which the file names the watcher's pid, and those at which it
\* is gone: nothing is spawned or adopted at another.
Holding == {"check", "boot", "judge", "disable", "stale", "startGo", "kill", "killWait",
            "settle", "healthy"}
Cleared == {"portWait", "adopt", "adoptWrite", "attempt", "stamp", "fallback"}

\* The watcher's locals `r` fit the pid file.
Placed(r, file) ==
  /\ r.step \in {"read", "check"} => r.ret \in Returns
  /\ r.step \in {"read", "check"} /\ r.ret = "kill" => r.then \in Continues
  /\ r.step \in {"kill", "killWait"} => r.then \in Continues
  /\ r.step \in Holding => file = r.pid
  /\ r.step \in Cleared => file = None
  /\ r.ret = "fastStop" => r.step \in {"read", "check", "fastStop", "fastWait"}

\* Nobody runs beside the watcher, and every engine is its child.
Alone ==
  /\ Unshared
  /\ At("user", "idle") /\ At("status", "idle")
  /\ \A p \in Alive : proc[p].by = "watch"

Solo == Alone /\ Placed(at["watch"], pidFile) /\ Tracked

\* Whatever still runs ran before, has the parent it had, and if it was told to
\* stop it still is.
Kept(f) ==
  \A p \in Pids : f[p].life = "runs" => /\ proc[p].life = "runs"
                                        /\ f[p].by = proc[p].by
                                        /\ proc[p].asked => f[p].asked

\* A step that starts nothing and takes the name of nobody alive from the file.
Quiet ==
  /\ Kept(proc') /\ Unshared'
  /\ ~At("watch", "stamp")
  /\ \A p \in Pids : proc'[p].life = "runs" /\ pidFile = p => pidFile' = p

LEMMA SoloInit == Init /\ Unshared => Solo
<1> SUFFICES ASSUME Init, Unshared PROVE Solo
  OBVIOUS
<1>1. Alive = {}
  BY DEF Init, Alive, NoProcess
<1>2. at["user"].step = "idle" /\ at["status"].step = "idle"
  BY DEF Init, Actors, Idle
<1>3. at["watch"].step = "off" /\ at["watch"].ret = "idle"
  BY DEF Init, Actors, Idle
<1> QED BY <1>1, <1>2, <1>3 DEF Solo, Alone, At, Placed, Holding, Cleared, Tracked

LEMMA KeptDead == \A S : Kept(Dead(S))
BY NoProcessState DEF Kept, Dead, Remains

LEMMA KeptAsked ==
  ASSUME TypeOK, NEW S
  PROVE  Kept(Asked(S))
<1>1. ASSUME NEW p \in Pids
      PROVE  /\ [proc[p] EXCEPT !.asked = TRUE].life = proc[p].life
             /\ [proc[p] EXCEPT !.asked = TRUE].by = proc[p].by
             /\ [proc[p] EXCEPT !.asked = TRUE].asked
  BY DEF TypeOK, ProcessState
<1> QED BY <1>1 DEF Kept, Asked

LEMMA KeptReaped ==
  ASSUME NEW f, Kept(f), NEW a
  PROVE  Kept(Reaped(a, f))
BY NoProcessState DEF Kept, Reaped

LEMMA KeptSame == Kept(proc)
BY DEF Kept

\* The watcher's next step, whatever it is, once its locals fit the file again.
LEMMA RecordSolo ==
  ASSUME TypeOK, Solo, Quiet, NEW r \in ActorState, at' = [at EXCEPT !["watch"] = r],
         Stopping => r.ret = "fastStop", Placed(r, pidFile')
  PROVE  Solo'
<1>1. /\ at'["watch"] = r
      /\ at'["user"] = at["user"] /\ at'["status"] = at["status"]
  BY DEF TypeOK, Actors
<1>2. Alone'
  BY <1>1 DEF Solo, Alone, Quiet, Kept, Alive, At
<1>3. Tracked'
  BY <1>1 DEF Solo, Tracked, Quiet, Kept, Alive, At, Stopping
<1> QED BY <1>1, <1>2, <1>3 DEF Solo

LEMMA AfreshSolo ==
  ASSUME TypeOK, Solo, Quiet, ~Stopping,
         NEW s \in Steps \ {"read", "check", "kill", "killWait"},
         NEW pid \in Named, NEW which \in Engines, Afresh("watch", s, pid, which),
         s \in Holding => pidFile' = pid, s \in Cleared => pidFile' = None
  PROVE  Solo'
<1> DEFINE r == [Idle EXCEPT !.step = s, !.pid = pid, !.start = which,
                             !.verify = at["watch"].verify]
<1>1. at["watch"].verify \in BOOLEAN
  BY DEF TypeOK, ActorState, Actors
<1>2. r \in ActorState /\ r.step = s /\ r.ret = "idle" /\ r.pid = pid
  BY <1>1, IdleState DEF ActorState
<1>3. at' = [at EXCEPT !["watch"] = r]
  BY DEF Afresh
<1>4. Placed(r, pidFile')
  BY <1>2 DEF Placed
<1> QED BY <1>2, <1>3, <1>4, RecordSolo

LEMMA DoneSolo ==
  ASSUME TypeOK, Solo, Quiet, ~Stopping, Done("watch")
  PROVE  Solo'
<1>1. Afresh("watch", "idle", None, "native")
  BY DEF Done
<1> QED BY <1>1, AfreshSolo DEF Steps, Named, Engines, Holding, Cleared

LEMMA TrySolo ==
  ASSUME TypeOK, Solo, Quiet, ~Stopping, NEW which \in Engines, Try("watch", which),
         pidFile' = None
  PROVE  Solo'
<1>1. Afresh("watch", "attempt", None, which)
  BY DEF Try
<1> QED BY <1>1, AfreshSolo DEF Steps, Named, Holding

LEMMA GoSolo ==
  ASSUME TypeOK, Solo, Quiet, ~Stopping,
         NEW s \in Steps \ {"read", "check", "kill", "killWait"}, Go("watch", s),
         s \in Holding => pidFile' = at["watch"].pid, s \in Cleared => pidFile' = None
  PROVE  Solo'
<1> DEFINE r == [at["watch"] EXCEPT !.step = s]
<1>1. at["watch"] \in ActorState
  BY DEF TypeOK, Actors
<1>2. r \in ActorState /\ r.step = s /\ r.ret # "fastStop" /\ r.pid = at["watch"].pid
  BY <1>1 DEF ActorState, Stopping
<1>3. at' = [at EXCEPT !["watch"] = r]
  BY DEF Go
<1>4. Placed(r, pidFile')
  BY <1>2 DEF Placed
<1> QED BY <1>2, <1>3, <1>4, RecordSolo

LEMMA ReadSolo ==
  ASSUME TypeOK, Solo, Quiet, ~Stopping, NEW ret \in Returns \ {"kill", "fastStop"},
         ReadThen("watch", ret)
  PROVE  Solo'
<1> DEFINE r == [at["watch"] EXCEPT !.step = "read", !.ret = ret]
<1>1. at["watch"] \in ActorState /\ ret \in Steps
  BY DEF TypeOK, Actors, Returns, Steps
<1>2. r \in ActorState /\ r.step = "read" /\ r.ret = ret
  BY <1>1 DEF ActorState, Steps
<1>3. at' = [at EXCEPT !["watch"] = r]
  BY DEF ReadThen
<1>4. Placed(r, pidFile')
  BY <1>2 DEF Placed, Holding, Cleared
<1> QED BY <1>2, <1>3, <1>4, RecordSolo

LEMMA KillSolo ==
  ASSUME TypeOK, Solo, Quiet, ~Stopping, NEW then \in Continues, KillThen("watch", then)
  PROVE  Solo'
<1> DEFINE r == [at["watch"] EXCEPT !.step = "read", !.ret = "kill", !.then = then]
<1>1. at["watch"] \in ActorState /\ then \in Steps
  BY DEF TypeOK, Actors, Continues, Steps
<1>2. r \in ActorState /\ r.step = "read" /\ r.ret = "kill" /\ r.then = then
  BY <1>1 DEF ActorState, Steps
<1>3. at' = [at EXCEPT !["watch"] = r]
  BY DEF KillThen
<1>4. Placed(r, pidFile')
  BY <1>2 DEF Placed, Holding, Cleared, Returns
<1> QED BY <1>2, <1>3, <1>4, RecordSolo

\* Its next engine is the only one that was not told to stop.
LEMMA SpawnSolo ==
  ASSUME TypeOK, Solo, ~Stopping, ~At("watch", "stamp"), Unshared',
         NEW which \in Engines, Spawn("watch", which), pidFile = None, pidFile' = None
  PROVE  Solo'
<1> DEFINE p == CHOOSE q \in Pids \ Known : TRUE
           n == [NoProcess EXCEPT !.life = "runs", !.engine = which, !.by = "watch"]
           r == [Idle EXCEPT !.step = "stamp", !.pid = p, !.start = which,
                             !.verify = at["watch"].verify]
<1>1. p \in Pids
  BY DEF Spawn
<1>2. n.by = "watch"
  BY NoProcessState DEF ProcessState
<1>3. Kept(Reaped("watch", proc))
  BY KeptSame, KeptReaped
<1>4. proc' = [Reaped("watch", proc) EXCEPT ![p] = n] /\ at' = [at EXCEPT !["watch"] = r]
  BY DEF Spawn, Afresh
<1>5. at["watch"].verify \in BOOLEAN
  BY DEF TypeOK, ActorState, Actors
<1>6. r.step = "stamp" /\ r.pid = p /\ r.ret = "idle"
  BY IdleState DEF ActorState
<1>7. /\ at'["watch"] = r
      /\ at'["user"] = at["user"] /\ at'["status"] = at["status"]
  BY <1>4 DEF TypeOK, Actors
<1>8. \A q \in Pids \ {p} : proc'[q] = Reaped("watch", proc)[q]
  BY <1>4 DEF Reaped
<1>9. proc'[p] = n
  BY <1>1, <1>4 DEF Reaped
<1> HIDE DEF p, n, r
<1>10. \A q \in Alive' \ {p} : q \in Alive /\ proc'[q].by = proc[q].by
                               /\ (proc[q].asked => proc'[q].asked)
  BY <1>3, <1>8 DEF Kept, Alive
<1>11. Alone'
  BY <1>2, <1>7, <1>9, <1>10 DEF Solo, Alone, At
<1>12. \A q \in Alive : proc[q].asked
  BY PidsAssumption DEF Solo, Tracked, Alive, None
<1>13. Tracked'
  BY <1>6, <1>7, <1>10, <1>12 DEF Tracked, At
<1>14. Placed(r, None)
  BY <1>6 DEF Placed, Holding
<1> QED BY <1>7, <1>11, <1>13, <1>14 DEF Solo

\* Wherever the watcher is in its own work, it is not stopping.
LEMMA NotStopping ==
  ASSUME Solo, NEW s \in Steps \ {"read", "check", "fastStop", "fastWait"}, At("watch", s)
  PROVE  ~Stopping
BY DEF Solo, Placed, Stopping, At

\* Pid files.
LEMMA FileSolo ==
  ASSUME TypeOK, Solo,
         ReadFile("watch") \/ CheckPid("watch") \/ Kill("watch") \/ KillWait("watch")
  PROVE  Solo'
<1> DEFINE w == at["watch"]
<1>1. w \in ActorState /\ Kept(proc) /\ Unshared /\ Placed(w, pidFile)
  BY KeptSame DEF TypeOK, Actors, Solo, Alone
<1>2. CASE ReadFile("watch")
  <2> DEFINE r == [w EXCEPT !.pid = pidFile,
                            !.step = IF pidFile = None THEN w.ret ELSE "check"]
  <2>1. w.step = "read"
    BY <1>2 DEF ReadFile, At
  <2>2. /\ r \in ActorState /\ r.pid = pidFile /\ r.ret = w.ret /\ r.then = w.then
        /\ r.step = IF pidFile = None THEN w.ret ELSE "check"
    BY <1>1 DEF ActorState, TypeOK, Steps
  <2>3. at' = [at EXCEPT !["watch"] = r]
    BY <1>2 DEF ReadFile
  <2>4. Placed(r, pidFile)
    <3> HIDE DEF r
    <3> QED BY <1>1, <2>1, <2>2 DEF Placed, Returns, Cleared
  <2>5. Quiet
    BY <1>1, <1>2, <2>1 DEF ReadFile, Quiet, Unshared, At
  <2> HIDE DEF r
  <2> QED BY <1>2, <2>2, <2>3, <2>4, <2>5, RecordSolo DEF ReadFile, Stopping
<1>3. CASE CheckPid("watch")
  <2>1. w.step = "check" /\ pidFile = w.pid
    BY <1>1, <1>3 DEF CheckPid, At, Placed, Holding
  <2>2. CASE Signalable(w.pid)
    <3> DEFINE r == [w EXCEPT !.step = w.ret]
    <3>1. /\ r \in ActorState /\ r.pid = w.pid /\ r.ret = w.ret /\ r.then = w.then
          /\ r.step = w.ret
      BY <1>1 DEF ActorState
    <3>2. at' = [at EXCEPT !["watch"] = r] /\ pidFile' = pidFile
      BY <1>3, <2>2 DEF CheckPid
    <3>3. Placed(r, pidFile)
      <4> HIDE DEF r
      <4> QED BY <1>1, <2>1, <3>1 DEF Placed, Returns, Cleared
    <3>4. Quiet
      BY <1>1, <1>3, <2>1, <2>2, KeptReaped DEF CheckPid, Quiet, Unshared, At
    <3> HIDE DEF r
    <3> QED BY <3>1, <3>2, <3>3, <3>4, RecordSolo DEF Stopping
  <2>3. CASE ~Signalable(w.pid)
    <3> DEFINE r == [w EXCEPT !.pid = None, !.step = w.ret]
    <3>1. /\ r \in ActorState /\ r.pid = None /\ r.ret = w.ret /\ r.then = w.then
          /\ r.step = w.ret
      BY <1>1 DEF ActorState, Named
    <3>2. at' = [at EXCEPT !["watch"] = r] /\ pidFile' = None
      BY <1>3, <2>3 DEF CheckPid
    <3>3. Placed(r, None)
      <4> HIDE DEF r
      <4> QED BY <1>1, <2>1, <3>1 DEF Placed, Returns, Cleared
    <3>4. Quiet
      BY <1>1, <1>3, <2>1, <2>3 DEF CheckPid, Quiet, Unshared, At, Signalable, Alive
    <3> HIDE DEF r
    <3> QED BY <3>1, <3>2, <3>3, <3>4, RecordSolo DEF Stopping
  <2> QED BY <2>2, <2>3
<1>4. CASE Kill("watch")
  <2>1. w.step = "kill" /\ pidFile = w.pid /\ w.then \in Continues /\ ~Stopping
    BY <1>1, <1>4 DEF Kill, At, Placed, Holding, Stopping
  <2> DEFINE s == IF w.pid = None THEN w.then ELSE "killWait"
             r == [w EXCEPT !.step = s]
  <2>2. s \in Steps
    BY <1>1 DEF ActorState, Steps
  <2>3. r \in ActorState /\ r.pid = w.pid /\ r.ret = w.ret /\ r.then = w.then /\ r.step = s
    BY <1>1, <2>2 DEF ActorState
  <2>4. at' = [at EXCEPT !["watch"] = r] /\ pidFile' = pidFile
    BY <1>4 DEF Kill, Go
  <2>5. Placed(r, pidFile)
    <3> HIDE DEF r
    <3> QED BY <1>1, <2>1, <2>3 DEF Placed, Continues, Cleared, Holding, Stopping
  <2>6. Quiet
    BY <1>1, <1>4, <2>1, KeptAsked, KeptReaped DEF Kill, Quiet, Unshared, At
  <2> HIDE DEF r
  <2> QED BY <2>1, <2>3, <2>4, <2>5, <2>6, RecordSolo
<1>5. CASE KillWait("watch")
  <2>1. w.step = "killWait" /\ pidFile = w.pid /\ w.then \in Continues /\ ~Stopping
    BY <1>1, <1>5 DEF KillWait, At, Placed, Holding, Stopping
  <2> DEFINE r == [w EXCEPT !.step = w.then]
  <2>2. r \in ActorState /\ r.pid = w.pid /\ r.ret = w.ret /\ r.step = w.then
    BY <1>1 DEF ActorState
  <2>3. at' = [at EXCEPT !["watch"] = r] /\ pidFile' = None
    BY <1>5 DEF KillWait, Go
  <2>4. Placed(r, None)
    <3> HIDE DEF r
    <3> QED BY <2>1, <2>2 DEF Placed, Continues, Holding, Stopping
  <2>5. ASSUME NEW p \in Pids, pidFile = p
        PROVE  Dead({w.pid})[p].life # "runs"
    BY <2>1, <2>5, NoProcessState DEF Dead, Remains, Alive
  <2>6. Quiet
    BY <1>1, <1>5, <2>1, <2>5, KeptDead DEF KillWait, Quiet, Unshared, At
  <2> HIDE DEF r
  <2> QED BY <2>1, <2>2, <2>3, <2>4, <2>6, RecordSolo
<1> QED BY <1>2, <1>3, <1>4, <1>5

\* Starting an engine.
LEMMA StartSolo ==
  ASSUME TypeOK, Solo,
         \/ Attempt("watch") \/ Stamp("watch") \/ Settle("watch")
         \/ Healthy("watch") \/ HealthyFails("watch") \/ Fallback("watch")
  PROVE  Solo'
<1> DEFINE w == at["watch"]
<1>1. w \in ActorState /\ Kept(proc) /\ Unshared /\ Placed(w, pidFile)
  BY KeptSame DEF TypeOK, Actors, Solo, Alone
<1>2. CASE Attempt("watch")
  <2>1. w.step \in {"attempt", "startGo"} /\ pidFile = None
    BY <1>1, <1>2 DEF Attempt, At, Placed, Holding, Cleared
  <2>2. ~Stopping /\ ~At("watch", "stamp")
    BY <1>1, <2>1 DEF Placed, Stopping, At
  <2>3. Unshared' /\ pidFile' = None
    BY <1>1, <1>2, <2>1 DEF Attempt, CannotTell, Spend, Unshared, TypeOK, Budgeted
  <2>4. CASE Spawn("watch", w.start)
    <3>1. w.start \in Engines
      BY <1>1 DEF ActorState
    <3> QED BY <2>1, <2>2, <2>3, <2>4, <3>1, SpawnSolo
  <2>5. CASE Done("watch") /\ proc' \in {proc, Reaped("watch", proc)}
    <3>1. Quiet
      BY <1>1, <2>1, <2>2, <2>3, <2>5, KeptReaped DEF Quiet
    <3> QED BY <2>2, <2>5, <3>1, DoneSolo
  <2> QED BY <1>2, <2>4, <2>5 DEF Attempt
<1>3. CASE Stamp("watch")
  <2>1. w.step = "stamp" /\ pidFile = None /\ ~Stopping
    BY <1>1, <1>3 DEF Stamp, At, Placed, Cleared, Stopping
  <2> DEFINE r == [w EXCEPT !.step = "settle"]
  <2>2. r.step = "settle" /\ r.pid = w.pid /\ r.ret = w.ret
    BY <1>1 DEF ActorState
  <2>3. /\ at'["watch"] = r
        /\ at'["user"] = at["user"] /\ at'["status"] = at["status"]
    BY <1>3 DEF Stamp, Go, TypeOK, Actors
  <2> HIDE DEF r
  <2>4. pidFile' = w.pid /\ proc' = proc /\ Alive' = Alive /\ left' = left
    BY <1>3 DEF Stamp, Alive
  <2>5. Placed(r, w.pid)
    BY <2>1, <2>2 DEF Placed, Cleared, Stopping
  <2>6. Tracked'
    BY <2>1, <2>4, PidsAssumption DEF Solo, Tracked, Alive, None
  <2> QED BY <2>3, <2>4, <2>5, <2>6 DEF Solo, Alone, At, Unshared
<1>4. CASE Settle("watch")
  <2>1. w.step = "settle" /\ pidFile = w.pid /\ ~Stopping
    BY <1>1, <1>4 DEF Settle, At, Placed, Holding, Stopping
  <2>2. CASE /\ pidFile' = pidFile /\ proc' = proc
             /\ Go("watch", "healthy") \/ Done("watch")
    <3>1. Quiet
      BY <1>1, <1>4, <2>1, <2>2 DEF Settle, Quiet, Unshared, At
    <3> QED BY <2>1, <2>2, <3>1, GoSolo, DoneSolo DEF Steps, Cleared
  <2>3. CASE /\ w.pid \notin Alive
             /\ proc' = [proc EXCEPT ![w.pid] = NoProcess] /\ pidFile' = None
             /\ Try("watch", "venv") \/ Done("watch")
    <3>1. Kept(proc')
      BY <2>3, NoProcessState DEF Kept, TypeOK
    <3>2. \A p \in Pids : proc'[p].life = "runs" => pidFile # p
      BY <2>1, <2>3, <3>1 DEF Kept, Alive
    <3>3. Quiet
      BY <1>1, <1>4, <2>1, <3>1, <3>2 DEF Settle, Quiet, Unshared, At
    <3> QED BY <2>1, <2>3, <3>3, TrySolo, DoneSolo DEF Engines
  <2> QED BY <1>4, <2>2, <2>3 DEF Settle
<1>5. CASE Healthy("watch") \/ HealthyFails("watch")
  <2>1. w.step = "healthy" /\ ~Stopping
    BY <1>1, <1>5 DEF Healthy, HealthyFails, At, Placed, Stopping
  <2>2. Unshared'
    BY <1>1, <1>5 DEF Healthy, HealthyFails, Spend, Unshared, TypeOK, Budgeted
  <2>3. Quiet
    BY <1>1, <1>5, <2>1, <2>2 DEF Healthy, HealthyFails, Quiet, At
  <2> QED BY <1>5, <2>1, <2>3, DoneSolo, KillSolo DEF Healthy, HealthyFails, GiveUp, Continues
<1>6. CASE Fallback("watch")
  <2>1. w.step = "fallback" /\ pidFile = None
    BY <1>1, <1>6 DEF Fallback, At, Placed, Cleared
  <2>2. ~Stopping /\ ~At("watch", "stamp")
    BY <1>1, <2>1 DEF Placed, Stopping, At
  <2>3. Unshared' /\ pidFile' = None
    BY <1>1, <1>6, <2>1 DEF Fallback, Unshared
  <2>4. CASE Spawn("watch", "venv")
    BY <2>1, <2>2, <2>3, <2>4, SpawnSolo DEF Engines
  <2>5. CASE Done("watch") /\ proc' = proc
    <3>1. Quiet
      BY <1>1, <2>1, <2>2, <2>3, <2>5 DEF Quiet
    <3> QED BY <2>2, <2>5, <3>1, DoneSolo
  <2> QED BY <1>6, <2>4, <2>5 DEF Fallback
<1> QED BY <1>2, <1>3, <1>4, <1>5, <1>6

\* reconcile_ml, and a start over a running engine.
LEMMA ReconcileSolo ==
  ASSUME TypeOK, Solo,
         \/ Disable("watch") \/ Ping("watch") \/ PortWait("watch") \/ Occupied("watch")
         \/ KillStale("watch") \/ StartGo("watch")
  PROVE  Solo'
<1> DEFINE w == at["watch"]
<1>1. w \in ActorState /\ Kept(proc) /\ Unshared /\ Placed(w, pidFile)
  BY KeptSame DEF TypeOK, Actors, Solo, Alone
<1>2. /\ w.step \in {"disable", "judge", "portWait", "stale", "startGo"}
      /\ pidFile' = pidFile /\ left' = left
  BY DEF Disable, Ping, PortWait, Occupied, KillStale, StartGo, At
<1>3. ~Stopping /\ ~At("watch", "stamp")
  BY <1>1, <1>2 DEF Placed, Stopping, At
<1>4. Kept(proc')
  BY <1>1, KeptAsked, KeptReaped
     DEF Disable, Ping, PortWait, Occupied, KillStale, StartGo
<1>5. Quiet
  BY <1>1, <1>2, <1>3, <1>4 DEF Quiet, Unshared
<1>6. CASE Disable("watch") \/ StartGo("watch")
  BY <1>3, <1>5, <1>6, DoneSolo, KillSolo DEF Disable, StartGo, Continues
<1>7. CASE Ping("watch")
  BY <1>3, <1>5, <1>7, DoneSolo, KillSolo DEF Ping, Continues
<1>8. CASE PortWait("watch")
  <2>1. pidFile' = None
    BY <1>1, <1>2, <1>8 DEF PortWait, At, Placed, Cleared
  <2> QED BY <1>3, <1>5, <1>8, <2>1, DoneSolo, TrySolo DEF PortWait, Engines
<1>9. CASE Occupied("watch")
  <2>1. pidFile' = None
    BY <1>1, <1>2, <1>9 DEF Occupied, At, Placed, Holding
  <2> QED BY <1>3, <1>5, <1>9, <2>1, GoSolo, TrySolo DEF Occupied, Engines, Steps, Holding
<1>10. CASE KillStale("watch")
  <2>1. \E ret \in Returns \ {"kill", "fastStop"} : ReadThen("watch", ret)
    BY <1>10 DEF KillStale, Returns
  <2> QED BY <1>3, <1>5, <2>1, ReadSolo
<1> QED BY <1>6, <1>7, <1>8, <1>9, <1>10

\* An engine is taken back only where the file is gone, and then everything that
\* runs was told to stop.
LEMMA AdoptSolo ==
  ASSUME TypeOK, Solo, Adopt("watch") \/ AdoptWrite("watch")
  PROVE  Solo'
<1> DEFINE w == at["watch"]
<1>1. w \in ActorState /\ Kept(proc) /\ Unshared /\ Placed(w, pidFile)
  BY KeptSame DEF TypeOK, Actors, Solo, Alone
<1>2. w.step \in {"adopt", "boot", "adoptWrite"} /\ pidFile = None
  BY <1>1 DEF Adopt, AdoptWrite, At, Placed, Cleared, Holding
<1>3. ~Stopping /\ ~At("watch", "stamp")
  BY <1>1, <1>2 DEF Placed, Stopping, At
<1>4. Unshared'
  BY <1>1 DEF Adopt, AdoptWrite, CannotTell, Spend, Unshared, TypeOK, Budgeted
<1>5. Quiet
  BY <1>1, <1>2, <1>3, <1>4, KeptReaped, PidsAssumption DEF Adopt, AdoptWrite, Quiet, None
<1>6. CASE Adopt("watch")
  <2>1. pidFile' = None
    BY <1>2, <1>6 DEF Adopt
  <2>2. ASSUME NEW p \in Adoptable,
               at' = [at EXCEPT !["watch"].step = "adoptWrite", !["watch"].pid = p]
        PROVE  Solo'
    <3> DEFINE r == [w EXCEPT !.step = "adoptWrite", !.pid = p]
    <3>1. p \in Named /\ "adoptWrite" \in Steps
      BY DEF Adoptable, Alive, Named, Steps
    <3>2. r \in ActorState /\ r.step = "adoptWrite" /\ r.ret = w.ret
      BY <1>1, <3>1 DEF ActorState
    <3>3. at' = [at EXCEPT !["watch"] = r]
      BY <2>2
    <3>4. Placed(r, None)
      BY <1>3, <3>2 DEF Placed, Holding, Stopping
    <3> HIDE DEF r
    <3> QED BY <1>3, <1>5, <2>1, <3>2, <3>3, <3>4, RecordSolo
  <2>3. CASE IF At("watch", "boot") THEN ReadThen("watch", "stale") ELSE Done("watch")
    <3>1. "stale" \in Returns \ {"kill", "fastStop"}
      BY DEF Returns
    <3> QED BY <1>3, <1>5, <2>3, <3>1, ReadSolo, DoneSolo
  <2> QED BY <1>6, <2>2, <2>3 DEF Adopt
<1>7. CASE AdoptWrite("watch")
  BY <1>3, <1>5, <1>7, DoneSolo DEF AdoptWrite
<1> QED BY <1>6, <1>7

\* The watcher's launch, its cycle, and the end of its commands.
LEMMA LoopSolo ==
  ASSUME TypeOK, Solo, Cycle \/ WatcherLaunch \/ Boot \/ CommandEnds("watch")
  PROVE  Solo'
<1> DEFINE w == at["watch"]
<1>1. w \in ActorState /\ Kept(proc) /\ Unshared /\ Placed(w, pidFile)
  BY KeptSame DEF TypeOK, Actors, Solo, Alone
<1>2. /\ w.step \in {"awake", "off", "boot", "done"}
      /\ pidFile' = pidFile /\ left' = left
  BY DEF Cycle, WatcherLaunch, Boot, CommandEnds, At
<1>3. ~Stopping /\ ~At("watch", "stamp")
  BY <1>1, <1>2 DEF Placed, Stopping, At
<1>4. Kept(proc')
  BY <1>1, KeptReaped DEF Cycle, WatcherLaunch, Boot, CommandEnds
<1>5. Quiet
  BY <1>1, <1>2, <1>3, <1>4 DEF Quiet, Unshared
<1>6. {"judge", "disable", "stale"} \subseteq Returns \ {"kill", "fastStop"}
  BY DEF Returns
<1>7. CASE Cycle
  BY <1>3, <1>5, <1>6, <1>7, ReadSolo DEF Cycle
<1>8. CASE Boot
  BY <1>3, <1>5, <1>6, <1>8, ReadSolo, DoneSolo DEF Boot
<1>9. CASE WatcherLaunch
  <2> DEFINE r == [Idle EXCEPT !.step = "read", !.ret = "boot", !.on = enabled, !.force = TRUE]
  <2>1. r \in ActorState /\ r.step = "read" /\ r.ret = "boot"
    BY IdleState DEF ActorState, Steps, TypeOK
  <2>2. Placed(r, pidFile')
    BY <2>1 DEF Placed, Returns, Holding, Cleared
  <2> QED BY <1>3, <1>5, <1>9, <2>1, <2>2, RecordSolo DEF WatcherLaunch
<1>10. CASE CommandEnds("watch")
  <2> DEFINE r == [Idle EXCEPT !.step = "read", !.ret = "done"]
  <2>1. r \in ActorState /\ r.step = "read" /\ r.ret = "done"
    BY IdleState DEF ActorState, Steps
  <2>2. Placed(r, pidFile')
    BY <2>1 DEF Placed, Returns, Holding, Cleared
  <2>3. Idle.step = "idle"
    BY DEF Idle
  <2>4. Placed(Idle, pidFile')
    BY <2>3, IdleState DEF Placed, Holding, Cleared
  <2>5. at' = [at EXCEPT !["watch"] = r] \/ at' = [at EXCEPT !["watch"] = Idle]
    BY <1>10 DEF CommandEnds
  <2> QED BY <1>3, <1>5, <2>1, <2>2, <2>4, <2>5, IdleState, RecordSolo
<1> QED BY <1>7, <1>8, <1>9, <1>10

\* The watcher exits, and every engine with it.
LEMMA ExitSolo ==
  ASSUME TypeOK, Solo, NEW S, Exit(S), Unshared'
  PROVE  Solo'
<1>1. Kept(Dead(S))
  BY KeptDead
<1>2. Alive' = {}
  BY <1>1, NoProcessState DEF Exit, Kept, Alive, Solo, Alone
<1> DEFINE r == [Idle EXCEPT !.step = "off"]
<1>3. r.step = "off" /\ r.ret = "idle"
  BY DEF Idle
<1>4. /\ at'["watch"] = r
      /\ at'["user"] = at["user"] /\ at'["status"] = at["status"]
  BY DEF Exit, TypeOK, Actors
<1> HIDE DEF r
<1>5. Placed(r, pidFile')
  BY <1>3 DEF Placed, Holding, Cleared
<1> QED BY <1>2, <1>4, <1>5 DEF Solo, Alone, At, Tracked

LEMMA StopSolo ==
  ASSUME TypeOK, Solo, WatcherSigterm \/ FastStop \/ FastWait
  PROVE  Solo'
<1> DEFINE w == at["watch"]
<1>1. w \in ActorState /\ Kept(proc) /\ Unshared /\ Placed(w, pidFile)
  BY KeptSame DEF TypeOK, Actors, Solo, Alone
<1>2. Unshared'
  BY <1>1 DEF WatcherSigterm, FastStop, FastWait, Spend, Unshared, TypeOK, Budgeted
<1>3. CASE WatcherSigterm
  <2> DEFINE r == [Idle EXCEPT !.step = "read", !.ret = "fastStop"]
  <2>1. r.step = "read" /\ r.ret = "fastStop"
    BY DEF Idle
  <2>2. /\ at'["watch"] = r
        /\ at'["user"] = at["user"] /\ at'["status"] = at["status"]
    BY <1>3 DEF WatcherSigterm, TypeOK, Actors
  <2> HIDE DEF r
  <2>3. Placed(r, pidFile')
    BY <2>1 DEF Placed, Holding, Cleared, Returns
  <2>4. Stopping'
    BY <2>1, <2>2 DEF Stopping
  <2>5. proc' = proc /\ Alive' = Alive
    BY <1>3 DEF WatcherSigterm, Alive
  <2> QED BY <1>2, <2>2, <2>3, <2>4, <2>5 DEF Solo, Alone, At, Tracked
<1>4. CASE FastStop
  <2>1. CASE Exit({})
    BY <1>2, <2>1, ExitSolo
  <2>2. CASE proc' = Asked({w.pid}) /\ Go("watch", "fastWait")
    <3> DEFINE r == [w EXCEPT !.step = "fastWait"]
    <3>1. r \in ActorState /\ r.step = "fastWait" /\ r.ret = w.ret
      BY <1>1 DEF ActorState, Steps
    <3>2. at' = [at EXCEPT !["watch"] = r] /\ pidFile' = pidFile
      BY <1>4, <2>2 DEF Go, FastStop
    <3>3. Placed(r, pidFile')
      BY <3>1 DEF Placed, Holding, Cleared
    <3>4. Quiet
      BY <1>2, <1>4, <2>2, <3>2, KeptAsked DEF FastStop, Quiet, At
    <3> HIDE DEF r
    <3> QED BY <3>1, <3>2, <3>3, <3>4, RecordSolo DEF Stopping
  <2> QED BY <1>4, <2>1, <2>2 DEF FastStop
<1>5. CASE FastWait
  BY <1>2, <1>5, ExitSolo DEF FastWait
<1> QED BY <1>3, <1>4, <1>5

-----------------------------------------------------------------------------
(* What happens around a watcher that is alone.                             *)

LEMMA WorldSolo ==
  ASSUME Solo, Kept(proc'), Unshared', pidFile' = pidFile, at' = at
  PROVE  Solo'
BY DEF Solo, Alone, Tracked, Kept, Alive, At, Stopping

LEMMA SpendKeeps ==
  ASSUME TypeOK, Unshared, NEW what \in Budgeted \ {"look", "command"}, Spend(what)
  PROVE  Unshared'
BY DEF TypeOK, Unshared, Spend, Budgeted

LEMMA ProcessSolo ==
  ASSUME TypeOK, Solo, NEW p \in Pids, Process(p)
  PROVE  Solo'
<1>1. Kept(proc) /\ Unshared /\ proc[p] \in ProcessState
  BY KeptSame DEF TypeOK, Solo, Alone
<1>2. CASE Bind(p) \/ Exits(p) \/ Crash(p)
  <2>1. Kept(proc')
    BY <1>1, <1>2, KeptDead DEF Bind, Exits, Crash
  <2>2. Unshared'
    BY <1>1, <1>2, SpendKeeps DEF Bind, Exits, Crash, Budgeted, Unshared
  <2> QED BY <1>2, <2>1, <2>2, WorldSolo DEF Bind, Exits, Crash
<1>3. CASE GoSilent(p) \/ SpeakAgain(p)
  <2>1. ASSUME NEW b \in BOOLEAN
        PROVE  Kept([proc EXCEPT ![p].silent = b])
    <3> DEFINE r == [proc[p] EXCEPT !.silent = b]
    <3>1. r.life = proc[p].life /\ r.by = proc[p].by /\ r.asked = proc[p].asked
      BY <1>1 DEF ProcessState
    <3>2. [proc EXCEPT ![p].silent = b] = [proc EXCEPT ![p] = r]
      OBVIOUS
    <3> HIDE DEF r
    <3> QED BY <1>1, <3>1, <3>2 DEF Kept, TypeOK
  <2>2. Kept(proc')
    BY <1>3, <2>1 DEF GoSilent, SpeakAgain
  <2>3. Unshared'
    BY <1>1, <1>3, SpendKeeps DEF GoSilent, SpeakAgain, Budgeted, Unshared
  <2> QED BY <1>3, <2>2, <2>3, WorldSolo DEF GoSilent, SpeakAgain
<1> QED BY <1>2, <1>3 DEF Process

LEMMA PortSolo ==
  ASSUME TypeOK, Solo, Release \/ Visit \/ Leave
  PROVE  Solo'
<1>1. Kept(proc) /\ Unshared
  BY KeptSame DEF Solo, Alone
<1>2. Unshared'
  BY <1>1, SpendKeeps DEF Release, Visit, Leave, Budgeted, Unshared
<1> QED BY <1>1, <1>2, WorldSolo DEF Release, Visit, Leave

LEMMA TickSolo ==
  ASSUME TypeOK, Solo, Tick
  PROVE  Solo'
<1>1. ASSUME NEW p \in Pids
      PROVE  /\ proc'[p].life = proc[p].life /\ proc'[p].by = proc[p].by
             /\ proc'[p].asked = proc[p].asked
  BY DEF Tick, TypeOK, ProcessState
<1>2. Kept(proc') /\ Unshared'
  BY <1>1 DEF Tick, Kept, Solo, Alone, Unshared
<1>3. CASE at' = at
  BY <1>2, <1>3, WorldSolo DEF Tick
<1>4. CASE At("watch", "idle") /\ at' = [at EXCEPT !["watch"].step = "awake"]
  <2>1. Go("watch", "awake") /\ "awake" \in Steps
    BY <1>4 DEF Go, Steps
  <2>2. ~Stopping
    BY <1>4, NotStopping DEF Steps
  <2>3. Quiet
    BY <1>2, <1>4 DEF Tick, Quiet, At
  <2> QED BY <2>1, <2>2, <2>3, GoSolo DEF Holding, Cleared
<1> QED BY <1>3, <1>4 DEF Tick

\* Without a command, the user and the readers do nothing.
LEMMA OthersRest ==
  ASSUME Solo
  PROVE  ~(UserCommand \/ Step("user") \/ Status \/ StatusEnds)
<1>1. at["user"].step = "idle" /\ at["status"].step = "idle" /\ Unshared
  BY DEF Solo, Alone, At
<1>2. ~(ReadFile("user") \/ CheckPid("user") \/ Kill("user") \/ KillWait("user"))
  BY <1>1 DEF ReadFile, CheckPid, Kill, KillWait, At
<1>3. ~(Attempt("user") \/ Stamp("user") \/ Settle("user"))
  BY <1>1 DEF Attempt, Stamp, Settle, At
<1>4. ~(Healthy("user") \/ HealthyFails("user") \/ Fallback("user"))
  BY <1>1 DEF Healthy, HealthyFails, Fallback, At
<1>5. ~(Disable("user") \/ Ping("user") \/ PortWait("user") \/ Occupied("user"))
  BY <1>1 DEF Disable, Ping, PortWait, Occupied, At
<1>6. ~(Adopt("user") \/ AdoptWrite("user"))
  BY <1>1 DEF Adopt, AdoptWrite, At
<1>7. ~(KillStale("user") \/ StartGo("user") \/ CommandEnds("user"))
  BY <1>1 DEF KillStale, StartGo, CommandEnds, At
<1>8. ~(UserCommand \/ Status \/ StatusEnds)
  BY <1>1 DEF UserCommand, Status, StatusEnds, Spend, Unshared, At
<1> QED BY <1>2, <1>3, <1>4, <1>5, <1>6, <1>7, <1>8 DEF Step

LEMMA SoloInductive == TypeOK /\ Solo /\ [Next]_vars => Solo'
<1> SUFFICES ASSUME TypeOK, Solo, [Next]_vars PROVE Solo'
  OBVIOUS
<1>1. CASE Step("watch")
  BY <1>1, FileSolo, StartSolo, ReconcileSolo, AdoptSolo, LoopSolo DEF Step
<1>2. CASE Watcher \/ WatcherSigterm
  BY <1>1, <1>2, LoopSolo, StopSolo DEF Watcher
<1>3. CASE UserCommand \/ Step("user") \/ Status \/ StatusEnds
  BY <1>3, OthersRest
<1>4. CASE \E p \in Pids : Process(p)
  BY <1>4, ProcessSolo
<1>5. CASE Release \/ Visit \/ Leave
  BY <1>5, PortSolo
<1>6. CASE Tick
  BY <1>6, TickSolo
<1>7. CASE UNCHANGED vars
  BY <1>7, KeptSame, WorldSolo DEF vars, Solo, Alone, Unshared
<1> QED BY <1>2, <1>3, <1>4, <1>5, <1>6, <1>7 DEF Next

\* Whatever the pids, the grace and the budgets, blind looks at the port and the
\* process table included: as long as no command and no reader runs beside the
\* watcher, every engine that runs and was not told to stop is the one ml.pid
\* names, through _ml_verify_or_fallback's hand-over to the venv, reconcile_ml's
\* restart of a silent engine, adoption, and the watcher's own stop and relaunch.
THEOREM UntrackedTheorem == Spec => NothingRunsUntracked
<1>1. Solo => Tracked
  BY DEF Solo
<1> QED BY <1>1, SoloInit, SoloInductive, TypeCorrect, PTL DEF Spec, NothingRunsUntracked
=============================================================================
