\* Two threads submit one object; two sessions empty the Trash of one item; two
\* items under every command; two items and two requests of a purge host.
SPECIFICATION Spec
CONSTANTS
  Objects = {"approved", "other"}
  Target = "approved"
  Callers = {"t1", "t2"}
  MaxRaces = 2
  Emptiers = {s1, s2}
  Retained = {"i"}
  MaxRecords = 2
  BatchItems = {"a", "b"}
  BatchCases <- SessionCases
  BatchChanges = 2
  BatchFaults = 1
  HostCases <- PurgeCases
  HostRequests <- PurgeRequests
  HostWorkers = {1, 2}
  HostChanges = 1
  HostFaults = 1
SYMMETRY Alike
INVARIANTS
  OnlyTheApprovedIsMoved
  OneMutation
  ReportsAreTrue
PROPERTY NoEventOverAmbiguity
CHECK_DEADLOCK FALSE
