\* One or two lines of source in three contexts, formatted twice.
SPECIFICATION Spec
CONSTANTS
  Sources <- Inputs
  Runs = 2
CHECK_DEADLOCK FALSE
INVARIANTS KeepsProgram Idempotent LayoutFollowsText
