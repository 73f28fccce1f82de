\* Structured programs: up to four frames and three open try blocks.
SPECIFICATION Spec
CONSTANTS
  Plain = Plain
  Retried = Retried
  Cached = Cached
  Arguments <- OneInt
  Bits = {0, 1}
  Retries = 2
  MaxFrames = 4
  MaxTries = 3
  Uses = {}
  None = None
CHECK_DEADLOCK FALSE
INVARIANTS UnwindInv
PROPERTIES ThrowsPropagate
