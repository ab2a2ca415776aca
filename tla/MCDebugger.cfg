CONSTANTS
  main = main
  f = f
  mainFile = mainFile
  fFile = fFile
  NoFunction = NoFunction
  Funcs <- MCFunctions
  File <- MCFile
  Declared <- MCDeclared
  Code <- MCCode
  BreakLines = {2, 3}
  MaxDepth = 2
  MaxBreakPoints = 2
SPECIFICATION DebugSpec
PROPERTIES
  NoBreakPointIsPassed
  StepsStopWhereAsked
