CONSTANTS
  MaxNodes = 3
  MaxScenes = 1
  Movable <- OneMovable
  Probed <- OneProbed
SPECIFICATION FairPlacedSpec
INVARIANTS
  ListsOwnTheirNodes
  PictureIsRight
  DrawnInPlace
PROPERTIES
  FamiliesGoTogether
  FramesComplete
CHECK_DEADLOCK FALSE
