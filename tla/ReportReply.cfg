\* report_back.rs reports a turn "once the reply is" read: not the second turn,
\* whose end is first shown with the reply of the one before.
SPECIFICATION Spec
CONSTANTS
  Terminals = {t1, t2}
  Words = {w1, w2}
  None = None
  QUEUE = 1
  MaxTurns = 2
  MaxAsks = 0
  MaxLinks = 1
CHECK_DEADLOCK FALSE
INVARIANTS
  ReplyIsReported
