\* Two messages and one order, every response, one retry.
SPECIFICATION FairSpec
CONSTANTS
  Messages = {m1, m2}
  Orders = {o1}
  MaxSessions = 3
  MaxRetries = 1
  MaxTools = 1
INVARIANTS TypeOK DeliveredOnce NothingStranded QueueShown ToolsMatchMode 
PROPERTIES ComesToRest
CHECK_DEADLOCK FALSE
