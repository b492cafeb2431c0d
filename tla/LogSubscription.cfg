SPECIFICATION Spec
CONSTANTS
  f1 = f1
  f2 = f2
  d1 = d1
  d2 = d2
  Files = {f1, f2}
  Managed = {f1}
  Dirs = {d1, d2}
  DirOf <- MCDirOf
  Lines <- MCLinesOne
  QueueCap = 1
  MaxFaults = 1
INVARIANTS
  OnlyDroppedAreLost
  FollowedIsFresh
PROPERTY ReportedIsRead
CHECK_DEADLOCK FALSE
