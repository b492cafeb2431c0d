--------------------------- MODULE MCAgentBinding ---------------------------
(* AgentBinding on two terminals, two conversations and two processes.      *)
EXTENDS AgentBinding, TLC

\* Terminals, conversations and processes are interchangeable: no definition
\* names one, and `rank` ranges over every order.
Symmetry == Permutations(Terminals) \cup Permutations(Sessions) \cup Permutations(Pids)
=============================================================================
