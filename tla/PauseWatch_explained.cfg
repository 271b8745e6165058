SPECIFICATION Spec
CONSTANTS
  Grace = 1
  ParentShare = FALSE
PROPERTY LoopStopsExplained
