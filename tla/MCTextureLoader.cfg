CONSTANTS
  a = a
  b = b
  c = c
  Textures = {a, b, c}
  Doubtful = {b}
  NoTexture = NoTexture
SPECIFICATION FairSpec
PROPERTIES
  ImplementsLoadQueue
  LoadedOrMarkLost
  QueueDrains
  CloseReturns
