\* Two runs that share the queues, in both drain modes, while callbacks may throw.
SPECIFICATION Spec
CONSTANTS
  MaxSent <- TwoSteering
  MaxPromptBatch = 1
  MaxRuns = 2
  MaxCalls = 1
  MaxToolTurns = 0
  MaxResets = 0
  QueueModes = {"all", "one-at-a-time"}
  BatchModes = {"sequential"}
  LoopFaults = TRUE
  ListenerFaults = FALSE
INVARIANTS
  DeliveredInOrder
  FailureIsFinal
PROPERTIES
  KeepsPromise
  LosesNothing
CHECK_DEADLOCK FALSE
