SPECIFICATION Spec
CONSTANTS
  NumRequests = 2
  Constraints = {}
  MaxRequests = 2
  MinRequests = 1
  MaxErrors = 1
  GraphOf <- ForkGraphOf
  Parents <- ForkParents
  Workers = {w1}
  NoWorker = NoWorker
  AsyncLimit <- TwoSlots
  MaxPending = 1
  OptionalUpdates = {"retarget"}
  BackendMayFail = TRUE
  DatasetMayFail = FALSE
  MaxCrashes = 0
PROPERTIES
  ImplementsLifecycle OnlyAbortsOvertake
