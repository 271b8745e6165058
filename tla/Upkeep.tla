------------------------------- MODULE Upkeep -------------------------------
(***************************************************************************)
(* Five components that share no state, in one run: a behaviour is one of   *)
(* ServerBuild, ConfigFile, Remount, BuildLink or SelfTest, and the state   *)
(* of the others stays what it is.                                         *)
(***************************************************************************)
EXTENDS ServerBuild, Integers, Sequences

CONSTANTS
  Users, MaxFileCommands, MaxFileMoves, MaxFileFaults,                \* ConfigFile
  Backoff, MaxMounts, MaxMountFaults,                                 \* Remount
  Foreign, MaxEdits, MaxLinkFaults,                                   \* BuildLink
  TestVersions, Askers, Runs, MaxTestMoves, MaxRuns, MaxTestFaults    \* SelfTest

VARIABLES
  part,                                                               \* which one runs
  json, temp, writers, now, asked, mishaps, fileLeft,
  library, mounts, parent, share, loop, loaded, state, cache, refused, excuse, mountFaults,
  conf, legacy, searchable, link, step, content, kept, clean, undone, edits, linkFaults,
  version, broken, file, run, testLock, passed, mlDone, halved, testLeft

fileVars  == <<json, temp, writers, now, asked, mishaps, fileLeft>>
mountVars == <<library, mounts, parent, share, loop, loaded, state, cache, refused, excuse, mountFaults>>
linkVars  == <<conf, legacy, searchable, link, step, content, kept, clean, undone, edits, linkFaults>>
testVars  == <<version, broken, file, run, testLock, passed, mlDone, halved, testLeft>>
allVars   == <<part, vars, fileVars, mountVars, linkVars, testVars>>

File == INSTANCE ConfigFile
  WITH MaxCommands <- MaxFileCommands, MaxMoves <- MaxFileMoves, MaxFaults <- MaxFileFaults,
       proc <- writers, left <- fileLeft

Mount == INSTANCE Remount
  WITH MaxFaults <- MaxMountFaults,
       config <- library, server <- share, at <- loop, faults <- mountFaults

Link == INSTANCE BuildLink WITH MaxFaults <- MaxLinkFaults, faults <- linkFaults

Test == INSTANCE SelfTest
  WITH Versions <- TestVersions, MaxMoves <- MaxTestMoves, MaxFaults <- MaxTestFaults,
       lock <- testLock, left <- testLeft

ASSUME UpkeepAssumption ==
  File!Assumption /\ Mount!Assumption /\ Link!Assumption /\ Test!Assumption

\* The one state a component that does not run is in.
BuildRests == immich = (CHOOSE v \in Versions : TRUE) /\ ~split /\ ~beside
FileRests  == json.ml = "on" /\ json.hasWorker
MountRests == library = [path |-> "share", recipe |-> "own"] /\ mounts = 1 /\ parent
LinkRests  == conf = {} /\ legacy = {} /\ searchable /\ link = "none"
TestRests  == version = (CHOOSE v \in TestVersions : TRUE) /\ broken = {}

UpkeepInit ==
  /\ part \in {"build", "file", "mount", "link", "test"}
  /\ Init       /\ (part # "build" => BuildRests)
  /\ File!Init  /\ (part # "file" => FileRests)
  /\ Mount!Init /\ (part # "mount" => MountRests)
  /\ Link!Init  /\ (part # "link" => LinkRests)
  /\ Test!Init  /\ (part # "test" => TestRests)

BuildRuns(A) ==
  part = "build" /\ A /\ UNCHANGED <<part, fileVars, mountVars, linkVars, testVars>>
FileRuns(A) ==
  part = "file" /\ A /\ UNCHANGED <<part, vars, mountVars, linkVars, testVars>>
MountRuns(A) ==
  part = "mount" /\ A /\ UNCHANGED <<part, vars, fileVars, linkVars, testVars>>
LinkRuns(A) ==
  part = "link" /\ A /\ UNCHANGED <<part, vars, fileVars, mountVars, testVars>>
TestRuns(A) ==
  part = "test" /\ A /\ UNCHANGED <<part, vars, fileVars, mountVars, linkVars>>

UpkeepNext ==
  \/ BuildRuns(Next)
  \/ FileRuns(File!Next)
  \/ MountRuns(Mount!Next)
  \/ LinkRuns(Link!Next)
  \/ TestRuns(Test!Next)

\* The fairness of ServerBuild, ConfigFile and Remount; the others state none. Of ServerBuild it
\* is asked where one process is at work at a time, which FollowSettles is about.
UpkeepSpec ==
  /\ UpkeepInit /\ [][UpkeepNext]_allVars
  /\ \A p \in Procs : WF_allVars(BuildRuns(~beside /\ Work(p)))
  /\ SF_allVars(BuildRuns(~beside /\ FollowServerVersion))
  /\ WF_allVars(BuildRuns(~beside /\ CrashCheck))
  /\ WF_allVars(BuildRuns(~beside /\ FollowRetry))
  /\ WF_allVars(BuildRuns(~beside /\ ContainerReturns))
  /\ WF_allVars(FileRuns(File!Loop))
  /\ WF_allVars(MountRuns(Mount!Loop))

-----------------------------------------------------------------------------
(* The properties, as the modules state them. *)

\* The five type invariants.
UpkeepTypeOK == TypeOK /\ File!TypeOK /\ Mount!TypeOK /\ Link!TypeOK /\ Test!TypeOK

InterruptedSaveIsHarmless == File!InterruptedSaveIsHarmless
EnabledAsAsked == File!EnabledAsAsked
FactsReturn == File!FactsReturn

AttemptsAreSafe == Mount!AttemptsAreSafe
LibraryServed == Mount!LibraryServed

EntriesKeptOrGone == Link!EntriesKeptOrGone

ResultIsTrue == Test!ResultIsTrue
=============================================================================
