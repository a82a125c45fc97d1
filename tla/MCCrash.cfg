SPECIFICATION FairSpec
CONSTANTS
  NumRequests = 2
  Constraints = {"max_requests"}
  MaxRequests = 2
  MinRequests = 1
  MaxErrors = 1
  GraphOf <- PairGraphOf
  Parents <- PairParents
  Workers = {w1}
  NoWorker = NoWorker
  AsyncLimit <- OneSlot
  MaxPending = 1
  OptionalUpdates = {}
  BackendMayFail = FALSE
  DatasetMayFail = TRUE
  MaxCrashes = 1
PROPERTIES
  DeathEndsTheRun ShutdownEndsTheRun LastReportShutsDown
