INIT MetricsInit
NEXT MetricsNext
CONSTANTS
  none = none
  MaxBehind = 2
  NoValue = none
  Plans <- MCPlans
  Missing = none
  Finishes <- MCFinishes
  Windows <- MCWindows
  Objectives <- MCObjectives
  Thresholds = {0, 1, 2}
  Scale = 240
  Quantiles = {1, 25, 50, 90, 99}
  MaxFinished = 3
INVARIANTS
  DistributionsAreRight
PROPERTIES
  AccountsAreRight PhaseOnlyAdvances
CHECK_DEADLOCK FALSE
