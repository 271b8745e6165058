SPECIFICATION FairSpec
CONSTANTS
  Pids = {1, 2, 3, 4}
  Grace = 2
  Bounds <- MCBounds
INVARIANTS TypeOK JudgedOnItsOwnSilence
PROPERTIES NothingRunsUntracked ConfigIsReached
