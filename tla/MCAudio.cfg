CONSTANTS
  MaxSounds = 2
  Lengths = {1, 2, 3}
  Loops = {FALSE, TRUE}
  BufferFrames = 2
SPECIFICATION FairSpec
INVARIANTS
  DecodersAreSafe
  HeardInFull
PROPERTIES
  OneShotsLeave
  CloseReturns
CHECK_DEADLOCK FALSE
