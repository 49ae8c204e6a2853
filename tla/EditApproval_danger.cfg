\* Apply all arrives when a deletion was registered behind its back.
SPECIFICATION Spec
CONSTANTS
  Calls = {c1, c2, c3}
  Files = {f1}
  Texts = {t1}
  Absent = Absent
  Empty = Empty
  Unread = Unread
  Kinds <- Prompting
  MaxTargets = 1
  MaxClicks = 1
  MaxChanges = 0
  MaxViews = 0
  ToolFaults = FALSE
INVARIANTS ApplyAllSparesDanger
SYMMETRY Interchangeable
CHECK_DEADLOCK FALSE
