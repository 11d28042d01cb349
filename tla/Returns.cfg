SPECIFICATION Spec
INVARIANT FinishedIsFinal
PROPERTY CallsReturn
CHECK_DEADLOCK FALSE
