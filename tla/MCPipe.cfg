SPECIFICATION MessagingSpec
CONSTANTS
  Main = main
  Workers = {w1}
  Layers <- PutsIntoPipes
  Messages = 2
  Slots = 1
  Capacity = 1
  RequiredEmpty = 1
INVARIANTS
  HearsTheWorkers
CHECK_DEADLOCK FALSE
