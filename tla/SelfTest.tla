------------------------------ MODULE SelfTest ------------------------------
(***************************************************************************)
(* The self-test: a start spawns one, detached, when the last result does   *)
(* not speak for the versions installed; a person runs one by hand, and CI  *)
(* for a release that need not be installed.  One file holds the result,    *)
(* one lock admits one run at a time, and a look at whether a test is       *)
(* running takes that lock for a moment.                                    *)
(*                                                                         *)
(* A version stands for the pair of the Immich release and ours, which are  *)
(* compared together.                                                      *)
(***************************************************************************)
EXTENDS Naturals

CONSTANTS
  Versions,
  NoVersion,
  Askers,       \* who asks for self-tests: a "start", a person by "hand", the "canary"
  Runs,         \* processes that may be running a self-test
  MaxMoves,     \* bound: how often the installed version changes
  MaxRuns,      \* bound: self-tests begun
  MaxFaults     \* bound: runs that are killed or run out of time

Assumption ==
  /\ Askers \subseteq {"start", "hand", "canary"}
  /\ NoVersion \notin Versions /\ Runs \cap {"free", "status"} = {}
  /\ {MaxMoves, MaxRuns, MaxFaults} \subseteq Nat

VARIABLES
  version,   \* what config.json says is installed
  broken,    \* versions whose work really is broken
  file,      \* selftest.json
  run,       \* each run: where it is, who asked, and the result it has in memory
  lock,      \* who holds selftest.lock: a run, "status", or "free"
  passed,    \* history: versions whose node checks ran and passed
  mlDone,    \* history: versions whose ML checks were all answered
  halved,    \* history: versions of which a run made its first save and not its second
  left       \* what remains of the bounds: [moves, runs, faults]

vars == <<version, broken, file, run, lock, passed, mlDone, halved, left>>

Results  == [version : Versions, ok : BOOLEAN, inconclusive : BOOLEAN, pending : BOOLEAN]
NoResult == [version |-> NoVersion, ok |-> FALSE, inconclusive |-> FALSE, pending |-> FALSE]
MlHalf   == {"wait", "ml"}        \* between the two saves
Off      == [at |-> "off", by |-> "start", result |-> NoResult]

TypeOK ==
  /\ version \in Versions /\ broken \subseteq Versions
  /\ file \in Results \cup {NoResult}
  /\ run \in [Runs -> [at : {"off", "begin", "node", "wait", "ml"},
                       by : {"start", "hand", "canary"}, result : Results \cup {NoResult}]]
  /\ lock \in Runs \cup {"free", "status"}
  /\ \A r \in Runs : run[r].at \in MlHalf =>
       run[r].result \in Results /\ ~run[r].result.inconclusive /\ ~run[r].result.pending
  /\ passed \subseteq Versions /\ mlDone \subseteq Versions /\ halved \subseteq Versions
  /\ left \in [moves : 0..MaxMoves, runs : 0..MaxRuns, faults : 0..MaxFaults]

Spend(bound) == left[bound] > 0 /\ left' = [left EXCEPT ![bound] = @ - 1]

\* selftest_due: the last result speaks for v, and for all that applies to it.
SelftestDue(v) ==
  ~ (file.ok /\ ~file.pending /\ ~file.inconclusive /\ file.version = v)

Ends(r) == run' = [run EXCEPT ![r] = Off] /\ lock' = (IF lock = r THEN "free" ELSE lock)

-----------------------------------------------------------------------------
(* Who begins a self-test. *)

Begin(by) ==
  /\ by \in Askers /\ Spend("runs")
  /\ \E r \in Runs : run[r] = Off /\ run' = [run EXCEPT ![r].at = "begin", ![r].by = by]
  /\ UNCHANGED <<version, broken, file, lock, passed, mlDone, halved>>

SpawnSelftest   == SelftestDue(version) /\ Begin("start")
UserSelftest    == Begin("hand")
CanarySelftest  == Begin("canary")

\* The lock first; whoever does not get it is done.  A canary brings its version with it.
TakeLock(r) ==
  /\ run[r].at = "begin"
  /\ \/ /\ lock = "free" /\ lock' = r
        /\ \E v \in IF run[r].by = "canary" THEN Versions ELSE {version} :
             run' = [run EXCEPT ![r].at = "node", ![r].result.version = v]
     \/ lock # "free" /\ Ends(r)
  /\ UNCHANGED <<version, broken, file, passed, mlDone, halved, left>>

Judged(v)   == [version |-> v, ok |-> v \notin broken, inconclusive |-> FALSE, pending |-> FALSE]
TimedOut(v) == [version |-> v, ok |-> FALSE, inconclusive |-> TRUE, pending |-> FALSE]

Goes(r, result, next) ==
  /\ file' = result
  /\ IF next = "off" THEN Ends(r)
     ELSE /\ run' = [run EXCEPT ![r].at = next, ![r].result = result]
          /\ UNCHANGED lock

\* run_selftest, which saves what it found.  A canary is done; where a URL of an ML service
\* is configured, which is assumed here, the others go on to it.
RunSelftest(r) ==
  LET v == run[r].result.version IN
  /\ run[r].at = "node"
  /\ \/ /\ Goes(r, Judged(v), IF run[r].by = "canary" THEN "off" ELSE "wait")
        /\ passed' = IF Judged(v).ok THEN passed \cup {v} ELSE passed
        /\ halved' = IF run[r].by = "canary" THEN halved \cup {v} ELSE halved
        /\ UNCHANGED left
     \/ Goes(r, TimedOut(v), "off") /\ Spend("faults") /\ UNCHANGED <<passed, halved>>
  /\ UNCHANGED <<version, broken, mlDone>>

\* Only a run from a start waits, and no longer than a quarter of an hour.
WaitForMl(r) ==
  /\ run[r].at = "wait"
  /\ run' = [run EXCEPT ![r].at = "ml"]
  /\ UNCHANGED <<version, broken, file, lock, passed, mlDone, halved, left>>

\* What the ML checks came to: each was answered, some timed out, or nobody answers.
Found == {"all", "some", "none"}

\* Mutant of AddedTo: where nobody answers, no check is missing.
AddedToAnswered(result, found, ok) ==
  [result EXCEPT !.ok = @ /\ ok, !.pending = found = "some"]

AddedTo(result, found, ok) ==
  [result EXCEPT !.ok = @ /\ ok, !.pending = found # "all"]

AddMlSelftest(r) ==
  LET result == run[r].result IN
  /\ run[r].at = "ml"
  /\ \E found \in Found, ok \in BOOLEAN :
       /\ found = "none" => ok
       /\ file' = AddedTo(result, found, ok)
       /\ mlDone' = IF found = "all" THEN mlDone \cup {result.version} ELSE mlDone
  /\ Ends(r)
  /\ UNCHANGED <<version, broken, passed, halved, left>>

-----------------------------------------------------------------------------
(* status, upgrades, and the end of a run. *)

\* selftest_running.
StatusProbes ==
  /\ lock = "free" /\ lock' = "status"
  /\ UNCHANGED <<version, broken, file, run, passed, mlDone, halved, left>>

StatusAnswers ==
  /\ lock = "status" /\ lock' = "free"
  /\ UNCHANGED <<version, broken, file, run, passed, mlDone, halved, left>>

VersionMoves ==
  /\ Spend("moves")
  /\ version' \in Versions \ {version}
  /\ UNCHANGED <<broken, file, run, lock, passed, mlDone, halved>>

\* A reboot, or a crash; in the middle of a save the file is torn and reads as none.
Killed(r) ==
  /\ run[r].at # "off" /\ Spend("faults")
  /\ Ends(r)
  /\ halved' = IF run[r].at \in MlHalf THEN halved \cup {run[r].result.version} ELSE halved
  /\ file' \in IF run[r].at \in {"node", "ml"} THEN {file, NoResult} ELSE {file}
  /\ UNCHANGED <<version, broken, passed, mlDone>>

Init ==
  /\ version \in Versions /\ broken \in SUBSET Versions
  /\ file = NoResult
  /\ run = [r \in Runs |-> Off] /\ lock = "free"
  /\ passed = {} /\ mlDone = {} /\ halved = {}
  /\ left = [moves |-> MaxMoves, runs |-> MaxRuns, faults |-> MaxFaults]

Step(r) == TakeLock(r) \/ RunSelftest(r) \/ WaitForMl(r) \/ AddMlSelftest(r)

Next ==
  \/ SpawnSelftest \/ UserSelftest \/ CanarySelftest
  \/ \E r \in Runs : Step(r) \/ Killed(r)
  \/ StatusProbes \/ StatusAnswers \/ VersionMoves

Spec == Init /\ [][Next]_vars

-----------------------------------------------------------------------------
(* Properties *)

\* No start is told that a version is fine whose node checks did not all run and pass: not by a
\* result of another version, a run that timed out, or one that was killed in its save. Of ML
\* this says nothing.
PassedMeansRun == \A v \in Versions : SelftestDue(v) \/ v \in passed

\* What a run adds its ML checks to is still what the file holds, though a quarter of an
\* hour may have gone by: no other run saved in between.
NobodySavedMeanwhile ==
  \A r \in Runs : run[r].at \in MlHalf => file = run[r].result

AwaitsMl(v) == \E r \in Runs : run[r].at \in MlHalf /\ run[r].result.version = v

\* The next start tests every version again whose ML checks were not all answered, unless a run
\* is at them. This is what add_ml_selftest promises of a result that lacks an answer; it does
\* not hold, for what is saved first says nothing of the half that is to come.
NotDueMeansAnswered ==
  \A v \in Versions : SelftestDue(v) \/ v \in mlDone \/ AwaitsMl(v)

\* It does hold, whatever timed out, went without an answer or was killed, but for versions of
\* which a run was killed between its two saves, or a canary made the only one it makes.
UnansweredIsDue ==
  \A v \in Versions \ halved : SelftestDue(v) \/ v \in mlDone \/ AwaitsMl(v)

\* A result that makes no start test again is one of node checks that ran and passed, and of ML
\* checks that were answered, are awaited, or were cut off between the two saves; and nobody
\* else saves between those.
ResultIsTrue == PassedMeansRun /\ NobodySavedMeanwhile /\ UnansweredIsDue

=============================================================================
