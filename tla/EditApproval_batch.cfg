\* Two writes of one file in a parallel batch.
SPECIFICATION Spec
CONSTANTS
  Calls = {c1, c2}
  Files = {f1}
  Texts = {t1}
  Absent = Absent
  Empty = Empty
  Unread = Unread
  Kinds <- Writing
  MaxTargets = 1
  MaxClicks = 2
  MaxChanges = 0
  MaxViews = 0
  ToolFaults = FALSE
INVARIANTS BatchLosesNothing
SYMMETRY Interchangeable
CHECK_DEADLOCK FALSE
