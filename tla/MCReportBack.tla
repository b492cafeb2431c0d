---------------------------- MODULE MCReportBack ----------------------------
(* ReportBack with two terminals, either of which may start the other.      *)
EXTENDS ReportBack

\* No definition names a terminal or a word.
Symmetry == Permutations(Terminals) \cup Permutations(Words)
=============================================================================
