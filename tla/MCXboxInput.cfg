CONSTANTS
  Places <- MCPlaces
  Keys = {"a", "b"}
  QueueSize = 2
  Width = 1
  Height = 1
  Motions <- MCMotions
  Positions <- MCPositions
  MaxEvents = 5
SPECIFICATION FairInputSpec
INVARIANTS
  HandlesFollowDevices
  KeysFollowTheKeyboard
  ScriptIsTold
PROPERTY
  StrokesAreTaken
