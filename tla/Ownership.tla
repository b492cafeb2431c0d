----------------------------- MODULE Ownership -----------------------------
(***************************************************************************)
(* What the host promises about conversations and terminals, whatever the  *)
(* evidence: a terminal holds at most one current conversation, a          *)
(* conversation is held by at most one terminal, and a held conversation   *)
(* reaches another terminal only after its own has ended it or when the    *)
(* same step gives its own to another conversation.                        *)
(***************************************************************************)
CONSTANTS Terminals, Sessions, None

VARIABLE holder            \* [Terminals -> Sessions \cup {None}]

Init == holder = [t \in Terminals |-> None]

OneToOne(links) ==
  \A k, l \in links : k[1] = l[1] \/ k[2] = l[2] => k = l

\* A conversation held elsewhere is linked only if its terminal is given away.
Allowed(links) ==
  \A l \in links : \A u \in Terminals :
    holder[u] = l[2] /\ u # l[1] => \E k \in links : k[1] = u

Assign(links) ==
  /\ OneToOne(links) /\ Allowed(links)
  /\ holder' = [t \in Terminals |->
       IF \E l \in links : l[1] = t THEN (CHOOSE l \in links : l[1] = t)[2] ELSE holder[t]]

Release(ts) ==
  holder' = [t \in Terminals |-> IF t \in ts THEN None ELSE holder[t]]

Next ==
  \/ \E links \in SUBSET (Terminals \X Sessions) : Assign(links)
  \/ \E ts \in SUBSET Terminals : Release(ts)

Spec == Init /\ [][Next]_holder

HeldOnce == \A t, u \in Terminals : holder[t] = holder[u] /\ holder[t] # None => t = u
=============================================================================
