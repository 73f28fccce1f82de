\* Three addresses and a task beside the main script's, a handler or not, again and
\* again; everything that lives is on a stack or in a global.
SPECIFICATION Spec
CONSTANTS
  Objects = {o1, o2, o3}
  Tasks = {m, t1}
  Main = m
  MaxFields = 1
  Uses = {}
  None = None
SYMMETRY Symmetry
CHECK_DEADLOCK FALSE
INVARIANTS HeapInv
PROPERTIES GarbageIsFreed
