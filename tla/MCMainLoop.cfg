CONSTANT
  MaxWindows = 3
SPECIFICATION Spec
INVARIANTS
  WindowIsReal
  GlObjectsMeetTheirContext
  ThreadsEndFirst
CHECK_DEADLOCK FALSE
