\* Two tasks, and an inbox of one, so that a second call finds it full.
SPECIFICATION FairSpec
CONSTANTS
  a1 = a1
  a2 = a2
  Callers = {m, c1}
  Main = m
  Actors = {a1, a2}
  Programs <- Programs1
  InboxCap = 1
  Junk = Junk
  None = None
CHECK_DEADLOCK FALSE
INVARIANTS ActorsInv
PROPERTIES CallsAreSynchronous CallReturns
