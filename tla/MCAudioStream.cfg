CONSTANTS
  MaxSounds = 2
  Packets = 2
  FilePackets = 3
SPECIFICATION FairSpec
INVARIANTS
  FileIsHeard
  ThreadHasContainer
PROPERTY SoundsLeave
CHECK_DEADLOCK FALSE
