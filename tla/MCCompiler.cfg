\* Pairs of pieces of source in functions, methods, loops and scripts.
SPECIFICATION Spec
CONSTANTS
  Programs <- Programs1
  MaxLocals = 8
  MaxUpvalues = 3
  MaxJumps = 2
  MaxLoops = 3
  MaxReach = 90
  StackSize = 24
  FramesMax = 5
  TriesMax = 3
CHECK_DEADLOCK FALSE
INVARIANTS StackDiscipline SourceMeaning
