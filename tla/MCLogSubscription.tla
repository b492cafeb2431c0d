--------------------------- MODULE MCLogSubscription ---------------------------
(* LogSubscription with a log in each of two directories.                   *)
EXTENDS LogSubscription, TLC
CONSTANTS f1, f2, d1, d2
MCDirOf == (f1 :> d1) @@ (f2 :> d2)
MCLines == (f1 :> 2) @@ (f2 :> 1)
MCLinesOne == (f1 :> 1) @@ (f2 :> 1)
=============================================================================
