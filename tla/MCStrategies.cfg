\* Two trackers over all profiles, searches up to the default ceiling, the strategies
\* with two processes and up to three slots, two strategies of a profile under the error
\* limits, and the over-saturation windows.
INIT StrategiesInit
NEXT StrategiesNext
CONSTANTS
  InitialStreams = 5
  MaxStreams = 1024
  MaxProbes = 15
  TolNum = 1
  TolDen = 10
  Resolutions = {TRUE, FALSE}
  Configs <- MCConfigs
  Rates = {0, 1, 4}
  MaxUpdates = 1
  MaxFaults = 1
  Processes = {p1, p2}
  Strategies <- MCStrategySet
  NoStamp = none
  Stamps = {0, 2, none}
  Gaps = {1, 2}
  Second = 2
  Start = 1
  MaxTime = 6
  MaxIssued = 4
  DefaultSlots = 2
  Window = 3
  RatePercents <- MCRatePercents
  MaxErrors <- MCMaxErrors
  Minimum = 2
  MaxStrategies = 2
  MaxProcessed = 6
  Concurrencies = {1, 3}
  Latencies = {1, 2}
  MinimumDuration = 3
  MinimumTTFT = 1
  MaximumWindow = 3
  MinimumSize = 3
  RatioPercent = 75
  Confidence <- MCConfidence
  MaxDuration = 5
  MaxSamples = 4
INVARIANTS
  SearchIsSound BudgetSuffices PlanIsCarriedOut TrackersTellTheRun
  LoadIsKept ErrorStopsAreEarned SaturationIsReal
CHECK_DEADLOCK FALSE
