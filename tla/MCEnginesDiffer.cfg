SPECIFICATION MCSpec
CONSTANTS
  MaxCallDepth = 2
  MaxDepth = 0
  MaxGroup = 0
  Tasks = {"a"}
  None = none
INVARIANT EnginesAgree
CHECK_DEADLOCK FALSE
