SPECIFICATION Spec
INVARIANT RunsTheLockedGraph
CHECK_DEADLOCK FALSE
