\* live.rs says a lagged viewer's writer resyncs it once it catches up: not when
\* it caught up before the mark was set.
SPECIFICATION Spec
CONSTANTS
  Conns = {1}
  Capacity = 1
  MaxChunks = 1
  MaxRequests = 0
CHECK_DEADLOCK FALSE
INVARIANTS
  LaggedIsResynced
