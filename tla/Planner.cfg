\* Plans over three paths of which one lies inside another, a clock that is
\* set back and forth, and versions that are changed and restored.
CONSTANTS
  id1 = id1
  id2 = id2
  v1 = v1
  v2 = v2
  Paths <- MCPaths
  ProtectedPaths <- MCProtected
  Snapshots <- MCSnapshots
  Bindings = {1}
  VersionSet = {v1, v2}
  Lifetime = 1
  MaxTime = 1
  MaxPlans = 1
  MaxChanges = 2
SPECIFICATION Spec
SYMMETRY Interchangeable
INVARIANTS
  ItemsAreSeparate
  ApprovalIsSpentOnce
  ReadyItemsWereShown
PROPERTIES
  DeadPlansStayDead
CHECK_DEADLOCK FALSE
