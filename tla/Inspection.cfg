SPECIFICATION Spec
INVARIANTS
  EvidenceIsOfOneObject
  CompleteMeansComplete
  PlainFieldsAreTopLevel
  IndexIsExact
  OffersAreEarned
  UnansweredOffersNothing
CHECK_DEADLOCK FALSE
