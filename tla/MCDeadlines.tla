----------------------------- MODULE MCDeadlines -----------------------------
(* Deadlines with one conversation and one to-do.                            *)
EXTENDS Deadlines
=============================================================================
