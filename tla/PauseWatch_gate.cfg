SPECIFICATION Spec
CONSTANTS
  Grace = 1
  ParentShare = TRUE
PROPERTY StartsOnTheLibrary
