SPECIFICATION Spec
INVARIANTS
  CompleteIsExact
  ChangesAreSeen
CHECK_DEADLOCK FALSE
