CONSTANTS
  root = root
  sub = sub
  script = script
  image = image
  gone = gone
  lost = lost
  Old = Old
  Directory = Directory
  Root = root
  Dirs <- MCDirs
  Files <- MCFiles
  Parent <- MCParent
  Size <- MCSize
  OldDisks <- MCOldDisks
  MaxFaults = 3
  MaxStarts = 3
SPECIFICATION InstallSpec
INVARIANTS
  FailuresAreNoticed
  InstallIsExact
CHECK_DEADLOCK FALSE
