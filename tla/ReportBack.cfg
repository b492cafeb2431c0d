\* Two terminals that may report to each other, a turn of each with a question,
\* one waiting report at most.
SPECIFICATION Spec
CONSTANTS
  Terminals = {t1, t2}
  Words = {w1}
  None = None
  QUEUE = 1
  MaxTurns = 1
  MaxAsks = 1
  MaxLinks = 1
SYMMETRY Symmetry
CHECK_DEADLOCK FALSE
INVARIANTS
  TurnIsReportedOnce
  EndIsNoted
  IdleStarterHasNoMail
PROPERTIES
  OnlyOldestIsDropped
