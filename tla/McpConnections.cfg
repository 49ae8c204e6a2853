\* A tool call, the keep-alive check and the shutdown.
SPECIFICATION Spec
CONSTANTS
  Calls = {c1}
  MaxFaults = 2
INVARIANTS
  TypeOK
  NoOrphan
  FreshAfterClose
  OneAtATime
  AtMostOnce
  ShutdownIsFinal
PROPERTIES
  RecoverySparesTheLive
  ToolsOnlyAdvance
  CallsEnd
  KeepsAlive
CHECK_DEADLOCK FALSE
