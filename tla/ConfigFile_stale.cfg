SPECIFICATION Spec
CONSTANTS
  Users = {"cli"}
  MaxCommands = 1
  MaxMoves = 1
  MaxFaults = 0
PROPERTY SwitchPersists
CHECK_DEADLOCK FALSE
