SPECIFICATION Spec
CONSTANTS
  Bodies = {"A", "B"}
  Defaults = "defaults"
  Last = 2
  MaxSeq = 5
INVARIANTS OkIsLoaded
PROPERTIES ImplementsStore
CHECK_DEADLOCK FALSE
