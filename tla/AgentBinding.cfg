\* Two terminals, two conversations, two processes, one sample in flight and a
\* restart or handoff: every evidence path against exits.  The command line
\* names the conversation a process began with, and stays when it switches.
SPECIFICATION Spec
CONSTANTS
  Terminals = {t1, t2}
  Sessions = {s1, s2}
  Pids = {p1, p2}
  None = None
  Evidence = {"argv"}
  MaxMoves = 1
  MaxJobs = 1
  MaxReopens = 1
SYMMETRY Symmetry
CHECK_DEADLOCK FALSE
INVARIANTS
  TypeOK
  OneCurrentPerTerminal
  LiveAgentIsWatched
  UnboundPidWillExit
  EndedTerminalHoldsScreenOnly
PROPERTIES
  OwnershipSpec
