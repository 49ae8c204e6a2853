\* Prompts and clicks crossing each other, the view closed and opened twice.
SPECIFICATION FairSpec
CONSTANTS
  Calls = {c1, c2}
  Files = {f1}
  Texts = {t1}
  Absent = Absent
  Empty = Empty
  Unread = Unread
  Kinds <- Prompting
  MaxTargets = 1
  MaxClicks = 2
  MaxChanges = 0
  MaxViews = 2
  ToolFaults = TRUE
INVARIANTS NoInvisiblePrompt
PROPERTIES ApprovedOnce ButtonNeedsReview ClosedViewSettles
CHECK_DEADLOCK FALSE
