SPECIFICATION ProcessesSpec
CONSTANTS
  Limits = {0, 1, 2, 3, 5}
  Processes = {0, 1, 2}
  MaxKills = 1
  Requests = {r1, r2, r3}
  BatchSize = 2
  Flush = flush
  Shutdown = shutdown
  Endpoints = {"completions", "chat", "responses", "realtime", "vllm"}
  ToolCalls = {0, 1}
  MaxEvents = 4
  Loads <- MCLoads
  Servers <- MCServers
  Sampled = {0, 1, 2}
  MediaTokens = 2
INVARIANTS
   BatchesAreSound ResponseIsFaithful AnswersAsConfigured
PROPERTIES
  EveryRunEnds ResultsStick BatchCallsEnd EndMarkerEnds EveryRequestIsServed
CHECK_DEADLOCK FALSE
