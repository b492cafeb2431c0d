\* Two terminals that print and die at any moment of an update.
SPECIFICATION Spec
CONSTANTS
  Terminals = {t1, t2}
  MaxChunks = 2
CHECK_DEADLOCK FALSE
INVARIANTS
  TypeOK
  OneHost
  OutputKept
  UpdateInterruptsNobody
PROPERTIES
  NoHangup
  AdoptedEndIsRecorded
