SPECIFICATION Spec
CONSTANTS
  Pids = {1, 2, 3, 4}
  Grace = 2
  Bounds <- MCCrash
PROPERTY DeathEndsTheWait
