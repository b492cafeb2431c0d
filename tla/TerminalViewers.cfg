\* Two connections that attach, watch, take over, hang up and ask, against
\* output, an exit and queues of one frame.
SPECIFICATION Spec
CONSTANTS
  Conns = {1, 2}
  Capacity = 1
  MaxChunks = 1
  MaxRequests = 1
CHECK_DEADLOCK FALSE
INVARIANTS
  CaughtUpIsCurrent
  KeyboardIsHeld
PROPERTIES
  KeyboardKept
