\* Two calls of any tool over two files, the user changing a file meanwhile.
SPECIFICATION Spec
CONSTANTS
  Calls = {c1, c2}
  Files = {f1, f2}
  Texts = {t1}
  Absent = Absent
  Empty = Empty
  Unread = Unread
  Kinds <- AllKinds
  MaxTargets = 2
  MaxClicks = 1
  MaxChanges = 1
  MaxViews = 0
  ToolFaults = FALSE
INVARIANTS TypeOK ReviewedTextIsReplaced
SYMMETRY Interchangeable
CHECK_DEADLOCK FALSE
