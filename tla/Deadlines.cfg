\* One conversation that ages twice and one to-do, edited three times in four
\* seconds, some of them asleep.
SPECIFICATION Spec
CONSTANTS
  Sessions = {s1}
  Tasks = {k1}
  Ages = {1, 2}
  MaxTime = 4
  MaxEdits = 3
  MaxFaults = 1
CHECK_DEADLOCK FALSE
INVARIANTS
  TypeOK
  NoDeadlineSlept
PROPERTIES
  DeferralEnds
  AgeIsAnnounced
