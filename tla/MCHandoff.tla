----------------------------- MODULE MCHandoff -----------------------------
(* Handoff with two terminals.                                              *)
EXTENDS Handoff
=============================================================================
