CONSTANTS
  MaxChildren = 3
  MaxSignals = 2
  MaxPolls = 5
SPECIFICATION Spec
INVARIANTS TypeOK ChildrenAccountedFor
PROPERTIES ShutdownEnds FailureIsRelaunched
