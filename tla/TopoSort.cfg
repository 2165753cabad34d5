SPECIFICATION Spec
CONSTANTS
  Name = {"a", "b", "c", "d"}
  Graphs <- AllGraphs
INVARIANTS CycleDetected
PROPERTY Implements
CHECK_DEADLOCK FALSE
