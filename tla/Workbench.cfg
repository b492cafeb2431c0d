\* One window, two clicks and one of: a split from a script, a launch that fails
\* half-way, a restart.  The users and scripts may stop, so may the system.
CONSTANTS
  a1 = a1
  s1 = s1
  s2 = s2
  Apps <- MCApps
  Spaces <- MCSpaces
  Home = s2
  MaxTerms = 3
  MaxTabs = 3
  MaxClicks = 2
  MaxOther = 1
SPECIFICATION Spec
INVARIANTS Tidy DiskIsWorkspace QuietWindowIsCurrent
PROPERTIES  ClosingStopsWhatItHides
CHECK_DEADLOCK FALSE
