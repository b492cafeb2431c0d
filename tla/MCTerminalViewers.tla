------------------------- MODULE MCTerminalViewers -------------------------
(* TerminalViewers with few connections and queues of one or two frames.    *)
EXTENDS TerminalViewers
=============================================================================
