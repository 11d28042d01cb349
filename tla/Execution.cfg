\* Two batches of two items, of which the store keeps one, and readers of the
\* history: two failing calls, two crashes or power failures.
CONSTANTS
  N = 2
  MaxOps = 2
  MaxRecords = 1
  MaxFaults = 2
  MaxCrashes = 2
SPECIFICATION FairSpec
INVARIANTS
  TypeOK
  TruthfulReceipts
  IntentIsDurable
  ReportAgreesWithHistory
  AmbiguityStopsTheBatch
  ConfirmedMeansDurable
  OnlyATornMarkerRefuses
PROPERTIES
  LockIsReleased
  ImplementsLedger
CHECK_DEADLOCK FALSE
