SPECIFICATION Spec
CONSTANTS
  Programs <- Programs1
  MaxFrames = 8
CHECK_DEADLOCK FALSE
INVARIANTS PruneKeepsMeaning SuspendsExactly StackMeansLocal NativeAgrees ReturnsAsInferred
