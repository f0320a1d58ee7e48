SPECIFICATION Spec
CONSTANTS
  Graphs = {g1}
  Names = {n1}
  MaxCommands = 1
  MaxTouched = 0
INVARIANTS OldTreeRecoverable
CHECK_DEADLOCK FALSE
