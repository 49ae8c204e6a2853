\* One run with two batches of tool calls, every interleaving with the caller.
SPECIFICATION Spec
CONSTANTS
  MaxSent <- TwoPrompts
  MaxPromptBatch = 2
  MaxRuns = 1
  MaxCalls = 2
  MaxToolTurns = 2
  MaxResets = 0
  QueueModes = {"one-at-a-time"}
  BatchModes = {"sequential", "parallel"}
  LoopFaults = FALSE
  ListenerFaults = FALSE
INVARIANTS
  TypeOK
  ResultsInPlace
  CallsAnswered
  OnlyWholeResponsesRunTools
  PendingCallsExact
  CopiesAgree
  FollowUpWaits
PROPERTIES
  AbortStartsNothing
CHECK_DEADLOCK FALSE
