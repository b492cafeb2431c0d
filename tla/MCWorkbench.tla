---------------------------- MODULE MCWorkbench ----------------------------
EXTENDS Workbench
CONSTANTS a1, s1, s2
MCApps == {a1}
MCSpaces == {s1, s2}
=============================================================================
