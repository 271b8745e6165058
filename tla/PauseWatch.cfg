SPECIFICATION WorkerSpec
CONSTANTS
  Grace = 4
  ParentShare = FALSE
  Pids = {1, 2, 3}
  NoPid = 0
  Starters = {"watch", "cmd"}
  MaxBorn = 4
  MaxPidFaults = 1
  MaxUpgrades = 2
  MaxOrders = 2
  MaxJobFaults = 2
INVARIANTS WorkerTypeOK FilesTellTheTruth ExposureBounded OneWorker HandOverIsClean
PROPERTIES PauseStaysExplained LoopKeepsWorkerPaused PauseOutlastsGrace WorkerFollowsTheWorld
  SignalsAreAimed ServicesReturn
CHECK_DEADLOCK FALSE
