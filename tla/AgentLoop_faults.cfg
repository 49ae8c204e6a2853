\* Callbacks and listeners throw, tools outlive their batch, reset() at any time.
SPECIFICATION FairSpec
CONSTANTS
  MaxSent <- NoFollowUp
  MaxPromptBatch = 1
  MaxRuns = 2
  MaxCalls = 2
  MaxToolTurns = 1
  MaxResets = 1
  QueueModes = {"one-at-a-time"}
  BatchModes = {"parallel"}
  LoopFaults = TRUE
  ListenerFaults = TRUE
INVARIANTS
  
  ResultsInPlace
  FailureIsFinal
PROPERTIES
  RunEnds
CHECK_DEADLOCK FALSE
