CONSTANTS
  s1 = s1
  s2 = s2
  t1 = t1
  good = good
  word = word
  Empty = Empty
  NoKey = NoKey
  Sprites = {s1, s2}
  Texts = {t1}
  Paths = {Empty, good}
  Words = {Empty, word}
  Loadable = {good}
  MaxIds = 2
SPECIFICATION FairSpec
INVARIANTS
  RefCountsAreHolders
  HeldTexturesStay
  PendingIsQueued
  DrawnMeshIsFitted
PROPERTY PreloadsFinish
CHECK_DEADLOCK FALSE
