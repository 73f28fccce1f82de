\* Three packages; three commands, of which one may be killed, and a push.
SPECIFICATION Spec
CONSTANTS
  None = None
  Worlds <- MCWorlds
  Commands <- MCCommands
  Versions <- MCVersions
  MaxQueue = 256
  MaxCommands = 3
  MaxPushes = 1
  MaxCrashes = 1
CHECK_DEADLOCK FALSE
INVARIANTS PackagesInv ConflictsAreReal OwnRequirementsMet
PROPERTIES LockPins
