\* live.rs settles a terminal whose process was gone before the watch began: not
\* while serve_runtime holds the host lock that record_exit needs.
SPECIFICATION Spec
CONSTANTS
  Terminals = {t1}
  MaxChunks = 0
CHECK_DEADLOCK FALSE
PROPERTIES
  GoneIsSettled
