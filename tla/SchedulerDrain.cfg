CONSTANTS
  MaxNodes = 4
  Priorities = {0, 1}
SPECIFICATION Spec
INVARIANTS TypeOK NoDanglingNode
PROPERTIES MostUrgentFirst ProcessDrains ProcessReturns
