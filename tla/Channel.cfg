\* Three tasks, a buffer of two values that wraps; nil is one of the values that the
\* programs send.  No symmetry, as liveness is checked too.  All tasks blocked on
\* the channel is a state a program may stay in.
SPECIFICATION FairSpec
CONSTANTS
  Tasks = {t1, t2, t3}
  Values = {a, Nil}
  Nil = Nil
  None = None
  Requested = 2
CHECK_DEADLOCK FALSE
INVARIANTS ChannelInv
PROPERTIES ImplementsFifo Settles
