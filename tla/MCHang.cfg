SPECIFICATION FairSpec
CONSTANTS
  NumRequests = 2
  Constraints = {}
  MaxRequests = 2
  MinRequests = 1
  MaxErrors = 1
  GraphOf <- PairGraphOf
  Parents <- PairParents
  Workers = {w1}
  NoWorker = NoWorker
  AsyncLimit <- OneSlot
  MaxPending = 1
  OptionalUpdates = {}
  BackendMayFail = FALSE
  DatasetMayFail = FALSE
  MaxCrashes = 0
PROPERTIES
  StopConditionsEndTheRun
