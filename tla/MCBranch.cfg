SPECIFICATION Spec
CONSTANTS
  NumRequests = 3
  Constraints = {"max_errors"}
  MaxRequests = 2
  MinRequests = 1
  MaxErrors = 1
  GraphOf <- BranchGraphOf
  Parents <- BranchParents
  Workers = {w1}
  NoWorker = NoWorker
  AsyncLimit <- TwoSlots
  MaxPending = 1
  OptionalUpdates = {}
  BackendMayFail = TRUE
  DatasetMayFail = FALSE
  MaxCrashes = 0
INVARIANTS
  TrackingIsSound
