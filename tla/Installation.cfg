\* One process whose operations stop anywhere, three times, and a power failure;
\* two processes over one prefix, stopped twice.
CONSTANTS
  p = p
  q = q
  Procs = {p, q}
  Versions = {1, 2}
  MaxOps = 4
  MaxStops = 3
  MaxPower = 1
  RaceOps = 4
  RaceStops = 2
SPECIFICATION MCSpec
SYMMETRY Interchangeable
INVARIANTS
  MixtureIsFlagged
  PromiseSurvives
  LoneRecoveryRecognizes
  LoneEvidenceIsKept
CHECK_DEADLOCK FALSE
