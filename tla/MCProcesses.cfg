SPECIFICATION Spec
INVARIANTS TypeOK ReturnIsClean
PROPERTIES RunReturns OrphansEnd
CHECK_DEADLOCK FALSE
