SPECIFICATION FairSpec
CONSTANTS
  v27 = v27
  v30 = v30
  Versions = {v27, v30}
  Layout <- MCLayout
  NoVersion = NoVersion
  Commands = {"update"}
  MaxMoves = 1
  MaxFaults = 1
  MaxBeside = 1
  MaxCommands = 1
INVARIANT RecordedIsThere
CHECK_DEADLOCK FALSE
