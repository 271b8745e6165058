SPECIFICATION UpkeepSpec
CONSTANTS
  v27 = v27
  v30 = v30
  Versions = {v27, v30}
  Layout <- MCLayout
  NoVersion = NoVersion
  Commands = {"start", "update", "setup", "import", "stop"}
  MaxMoves = 2
  MaxFaults = 2
  MaxBeside = 1
  MaxCommands = 1
  Users = {"cli"}
  MaxFileCommands = 2
  MaxFileMoves = 1
  MaxFileFaults = 1
  Backoff <- MCBackoff
  MaxMounts = 2
  MaxMountFaults = 3
  Foreign = {"data"}
  MaxEdits = 2
  MaxLinkFaults = 2
  TestVersions = {"v1", "v2"}
  Askers = {"start", "hand", "canary"}
  Runs = {"t1", "t2"}
  MaxTestMoves = 1
  MaxRuns = 3
  MaxTestFaults = 2
INVARIANTS
  UpkeepTypeOK
  ConfigNamesABuild CurrentHasItsPlugin
  InterruptedSaveIsHarmless EnabledAsAsked
  ResultIsTrue
PROPERTIES
  WorkerKeepsItsBuild FollowSettles
  FactsReturn
  AttemptsAreSafe LibraryServed
  EntriesKeptOrGone
CHECK_DEADLOCK FALSE
