SPECIFICATION CoordinatorFairSpec
CONSTANTS
  NumRequests = 3
  Constraints = {"max_requests", "max_duration"}
  MaxRequests = 2
  MinRequests = 1
  MaxErrors = 1
  GraphOf <- ThreeGraphOf
  Parents <- ThreeParents
  Workers = {w1}
  NoWorker = NoWorker
  AsyncLimit <- OneSlot
  MaxPending = 1
  OptionalUpdates = {"first_token"}
  BackendMayFail = FALSE
  DatasetMayFail = FALSE
  MaxCrashes = 0
INVARIANTS
  NeverExceedsMaxRequests SlotsRespected
PROPERTIES
  TimeUpStopsProcessing
