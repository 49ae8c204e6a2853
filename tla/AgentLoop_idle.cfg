\* A run whose listener throws leaves tools running after waitForIdle() has resolved.
SPECIFICATION Spec
CONSTANTS
  MaxSent <- NoFollowUp
  MaxPromptBatch = 1
  MaxRuns = 1
  MaxCalls = 2
  MaxToolTurns = 1
  MaxResets = 0
  QueueModes = {"one-at-a-time"}
  BatchModes = {"parallel"}
  LoopFaults = FALSE
  ListenerFaults = TRUE
INVARIANTS
  IdleIsQuiet
CHECK_DEADLOCK FALSE
