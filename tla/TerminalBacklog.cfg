\* One connection with a queue of two frames and a program that prints three
\* chunks: gaps, resyncs and answers that race them.
SPECIFICATION Spec
CONSTANTS
  Conns = {1}
  Capacity = 2
  MaxChunks = 3
  MaxRequests = 2
CHECK_DEADLOCK FALSE
INVARIANTS
  NoTornScreen
PROPERTIES
  LaggedCatchesUp
  
