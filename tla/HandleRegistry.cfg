\* Two threads race on at most two handles under a cap of two.
SPECIFICATION FairSpec
CONSTANTS
  Threads = {"t", "u"}
  Kinds = {"task", "device"}
  MaxTasks = 2
  MaxHandles = 2
INVARIANTS
  NoWorkIsLost
  OneExecution
PROPERTIES
  ReleaseSucceeds
CHECK_DEADLOCK FALSE
