SPECIFICATION MessagesSpec
CONSTANTS
  Datasets <- AllDatasets
  Modes <- AllModes
  MaxCalls = 2
  Main = main
  Workers = {w1}
  Layers <- AllLayers
  Messages = 2
  Slots = 1
  Capacity = 1
  RequiredEmpty = 1
  Sizes = {1, 2, 3, 9}
  Objects <- AllObjects
  Replays <- AllReplays
  BlockSize = 2
  Texts = {a, b}
  Epochs = 2
INVARIANTS
  SeesConversation TurnsFit MessagesArrive NobodyIsForgotten
  EncodingIsFaithful TraceIsReplayed
CHECK_DEADLOCK FALSE
