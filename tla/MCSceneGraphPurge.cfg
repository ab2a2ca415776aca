CONSTANTS
  MaxNodes = 2
  MaxScenes = 1
SPECIFICATION Spec
INVARIANTS
  PurgeToleratesMissingParent
CHECK_DEADLOCK FALSE
