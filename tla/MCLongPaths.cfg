SPECIFICATION Spec
INVARIANT LongPathsAreReadable
CHECK_DEADLOCK FALSE
