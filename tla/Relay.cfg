\* Two phones, one of which may stop reading, room for one message toward the
\* machine, a window of one, and one fault of any kind: a dead link and the
\* next one, a phone that goes or speaks early, an unpairing, a session that
\* ends or is flooded.  The run ends when everybody is done.
SPECIFICATION Spec
CONSTANTS
  Phones = {p1, p2}
  Stalled = {p2}
  MaxLinks = 2
  MaxSaid = 1
  MaxReplies = 2
  Window = 1
  Buffer = 2
  Room = 1
  OpenQueue = 1
  MaxSessions = 2
  MaxFaults = 1
CHECK_DEADLOCK FALSE
INVARIANTS
  RegisteredIsCurrent
  TablesAgree
  
  PlacesAreCounted
PROPERTIES
  CreditReturns
  LossClosesPhones
