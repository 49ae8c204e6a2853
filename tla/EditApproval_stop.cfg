\* A prompt that is registered after stop.
SPECIFICATION FairSpec
CONSTANTS
  Calls = {c1}
  Files = {f1}
  Texts = {t1}
  Absent = Absent
  Empty = Empty
  Unread = Unread
  Kinds <- Prompting
  MaxTargets = 1
  MaxClicks = 1
  MaxChanges = 0
  MaxViews = 0
  ToolFaults = FALSE
PROPERTIES StopEndsReply
CHECK_DEADLOCK FALSE
