\* Two previews of runtimes under a cap of one.
SPECIFICATION Spec
CONSTANTS
  Threads = {"t"}
  Kinds = {"runtime"}
  MaxTasks = 1
  MaxHandles = 2
INVARIANTS
  KindsShareTheCap
CHECK_DEADLOCK FALSE
