CONSTANTS
  MaxChildren = 2
  MaxSignals = 1
  MaxPolls = 5
SPECIFICATION Spec
INVARIANTS GracefulChildNotKilled
