SPECIFICATION Spec
CONSTANTS
  Versions = {"v1", "v2"}
  NoVersion = "none"
  Askers = {"start"}
  Runs = {"t1"}
  MaxMoves = 0
  MaxRuns = 2
  MaxFaults = 1
INVARIANT NotDueMeansAnswered
CHECK_DEADLOCK FALSE
