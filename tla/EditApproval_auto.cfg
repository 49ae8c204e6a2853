\* Auto mode is chosen while a call writes its review files.
SPECIFICATION Spec
CONSTANTS
  Calls = {c1}
  Files = {f1}
  Texts = {t1}
  Absent = Absent
  Empty = Empty
  Unread = Unread
  Kinds <- Prompting
  MaxTargets = 1
  MaxClicks = 1
  MaxChanges = 0
  MaxViews = 0
  ToolFaults = FALSE
INVARIANTS AutoNeverAsks
SYMMETRY Interchangeable
CHECK_DEADLOCK FALSE
