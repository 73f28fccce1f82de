\* Three spawns over three Task structs: the struct of the first task may be recycled
\* for the third while the second, or the main script, waits for the first.
SPECIFICATION OrderedSpec
CONSTANTS
  Slots = {s1, s2, s3}
  MaxSpawns = 3
  MaxSleep = 1
  Nil = Nil
  None = None
CHECK_DEADLOCK FALSE
INVARIANTS SchedulerInv ElderAwaitSound
PROPERTIES TurnsByRota EveryoneIsServed
