------------------------------- MODULE Layout -------------------------------
(***************************************************************************)
(* The panes of a tab (keepline-core/src/layout.rs): a binary tree whose   *)
(* leaves are terminals.  Here it is the function that the store keeps in  *)
(* tab_layout_nodes: from the paths of its leaves, 0 for the first half of *)
(* a split and 1 for the second, to the terminals they show.  The axis and *)
(* the ratio of a split are left out.                                      *)
(***************************************************************************)
EXTENDS Naturals, Sequences, SequencesExt

Branch == {0, 1}

\* None: a tab that shows nothing.
NoPane == [p \in {} |-> 0]
Leaf(t) == [p \in {<<>>} |-> t]

\* Layout::ids, as a set.
Ids(l) == {l[p] : p \in DOMAIN l}
PathOf(l, t) == CHOOSE p \in DOMAIN l : l[p] = t

\* The paths are those of a tree: no leaf below another, no split with one half.
TreeShaped(l) ==
  /\ \A p, q \in DOMAIN l : IsPrefix(p, q) => p = q
  /\ \A p \in DOMAIN l : \A i \in 1..Len(p) :
       \E q \in DOMAIN l : IsPrefix(Append(SubSeq(p, 1, i - 1), 1 - p[i]), q)

\* No terminal is shown twice.
Distinct(l) == \A p, q \in DOMAIN l : l[p] = l[q] => p = q

\* Layout::split_beside: `new` takes one half of the pane of `target`.
SplitBeside(l, target, new, before) ==
  LET p    == PathOf(l, target)
      kept == Append(p, IF before THEN 1 ELSE 0)
      made == Append(p, IF before THEN 0 ELSE 1)
  IN  [q \in (DOMAIN l \ {p}) \cup {kept, made} |->
         IF q = made THEN new ELSE IF q = kept THEN target ELSE l[q]]

\* Layout::replace.
ReplaceLeaf(l, old, new) == [p \in DOMAIN l |-> IF l[p] = old THEN new ELSE l[p]]

\* Layout::without: what was beside t takes the place of the split they shared.
Without(l, t) ==
  IF t \notin Ids(l) THEN l
  ELSE LET p     == PathOf(l, t)
           rest  == DOMAIN l \ {p}
           up(q) == IF IsPrefix(Front(p), q) THEN RemoveAt(q, Len(p)) ELSE q
       IN  [q \in {up(r) : r \in rest} |-> l[CHOOSE r \in rest : up(r) = q]]

\* One after the other.
WithoutAll(l, ts) ==
  LET s == SetToSeq(ts)
      f[n \in 0..Len(s)] == IF n = 0 THEN l ELSE Without(f[n - 1], s[n])
  IN  f[Len(s)]

\* The last of Layout::ids: the leaf in the second half of every split above it.
LastPane(l) == l[CHOOSE p \in DOMAIN l : \A i \in 1..Len(p) : p[i] = 1]
=============================================================================
