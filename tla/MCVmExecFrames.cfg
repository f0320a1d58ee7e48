SPECIFICATION Spec
CONSTANTS
  MaxSteps = 4
  MaxCallDepth = 2
  Classes = {book}
  NoClass = none
  MaxOperands = 2
  MaxHandlers = 2
  MaxExecutions = 2
  MaxPumps = 1
INVARIANTS RunningFrameOnTop
CHECK_DEADLOCK FALSE
