------------------------------ MODULE Workbench ------------------------------
(***************************************************************************)
(* The workspace that the host keeps, its rows in SQLite, and the clients  *)
(* that edit it: the app, which works on a copy (keepline-app workbench    *)
(* and host/store.rs), and `keepline split` (keeplined control.rs).        *)
(*                                                                         *)
(* An edit changes the whole workspace under the host's lock and is saved  *)
(* as the difference from the one before (store.rs).  Edits of a to-do are *)
(* refused unless the client has seen the latest revision; edits of tabs   *)
(* and layouts apply to whatever is there.  A tab that shows no pane is    *)
(* closed.  Titles, ratios and directories are left out: a rename or a     *)
(* dragged divider puts the tab as the app shows it.                       *)
(***************************************************************************)
EXTENDS Layout, FiniteSets

CONSTANTS Apps,        \* windows of the app
          Spaces,      \* the spaces of the first workspace, and all there will be
          Home,        \* the space of the one to-do
          MaxTerms,    \* bound: terminals, numbered as they are made
          MaxTabs,     \* bound: tabs, numbered as they are made
          MaxClicks,   \* bound: what the users do in the app or in a terminal
          MaxOther     \* bound: uses of `keepline split`, launches that fail half-way
                       \* and restarts of the host, together

ASSUME SetsAssumption == IsFiniteSet(Apps) /\ IsFiniteSet(Spaces) /\ Home \in Spaces
ASSUME BoundsAssumption ==
  /\ MaxTerms \in Nat \ {0, 1} /\ MaxTabs \in Nat \ {0}
  /\ MaxClicks \in Nat /\ MaxOther \in Nat

Terms == 1..MaxTerms
Tabs  == 1..MaxTabs

VARIABLES
  host,   \* Host::workspace
  disk,   \* its rows
  here,   \* Host::terminals: those whose pseudo terminal this host holds
  hup,    \* those of them that were told to stop
  apps,   \* the windows
  script, \* what `keepline split` does next
  used    \* how much of each bound is used

vars == <<host, disk, here, hup, apps, script, used>>

Tab(id, space, panes) == [id |-> id, space |-> space, panes |-> panes]

TabIds(w) == {b.id : b \in ToSet(w.tabs)}
TabOf(w, id) == CHOOSE b \in ToSet(w.tabs) : b.id = id
Shown(w) == UNION {Ids(b.panes) : b \in ToSet(w.tabs)}
Holder(w, t) == CHOOSE b \in ToSet(w.tabs) : t \in Ids(b.panes)
Made(w) == {t \in Terms : w.terms[t] # "none"}
Live == {t \in here : host.terms[t] = "running"}

-----------------------------------------------------------------------------
(* Workspace::edit.  Every edit is one of these records.                    *)

PutTab(tab) == [kind |-> "PutTab", tab |-> tab]
MoveTab(id, before) == [kind |-> "MoveTab", id |-> id, before |-> before]
CloseTab(id) == [kind |-> "CloseTab", id |-> id]
ClosePane(t) == [kind |-> "ClosePane", terminal |-> t]
RemoveSpace(s) == [kind |-> "RemoveSpace", id |-> s]
SplitPane(target, t) == [kind |-> "SplitPane", target |-> target, terminal |-> t]
UpdateTask(task) == [kind |-> "UpdateTask", task |-> task]
SetTaskOutcome(b) == [kind |-> "SetTaskOutcome", settled |-> b]
\* Not an edit: Request::Launch.
Launch(t, space) == [kind |-> "Launch", terminal |-> t, space |-> space]

\* Mutant: no edit is held against the revision.
ChecksRevision_Never(e) == FALSE
\* Edit::checks_revision.
ChecksRevision(e) == e.kind \in {"UpdateTask", "SetTaskOutcome"}

\* Where Workspace::edit returns an error.
Refused(w, e) ==
  CASE e.kind = "PutTab"      -> \/ e.tab.space \notin w.spaces
                                 \/ ~Distinct(e.tab.panes) \/ ~(Ids(e.tab.panes) \subseteq Made(w))
    [] e.kind = "MoveTab"     -> ~({e.id, e.before} \subseteq TabIds(w))
    [] e.kind = "CloseTab"    -> e.id \notin TabIds(w)
    [] e.kind = "ClosePane"   -> e.terminal \notin Shown(w)
    [] e.kind = "RemoveSpace" -> \/ e.id \notin w.spaces \/ w.spaces = {e.id}
                                 \/ e.id = Home /\ ~w.task.settled
    [] e.kind = "SplitPane"   -> \/ e.terminal \notin Made(w) \/ e.terminal \in Shown(w)
                                 \/ e.target \notin Shown(w)
    [] e.kind = "UpdateTask"  -> Home \notin w.spaces
    [] OTHER                  -> FALSE

\* The nth of the elements x of S, by the numbers at[x].
Nth(S, at, n) == CHOOSE x \in S : Cardinality({y \in S : at[y] < at[x]}) = n - 1

\* The tabs at the places I (Vec::retain).
Retained(tabs, I) ==
  LET at == [i \in I |-> i] IN [k \in 1..Cardinality(I) |-> tabs[Nth(I, at, k)]]

\* The tabs with these panes; those left with none close.
Repaned(tabs, panes) ==
  LET now == [i \in DOMAIN tabs |-> [tabs[i] EXCEPT !.panes = panes[i]]]
  IN  Retained(now, {i \in DOMAIN now : now[i].panes # NoPane})

\* Mutant: the panes of the tab are not taken out of the others.
PutTabs_NotTaken(tabs, tab) ==
  Append(Retained(tabs, {i \in DOMAIN tabs : tabs[i].id # tab.id}), tab)
\* Edit::PutTab: a terminal that another tab shows moves into this one.
PutTabs(tabs, tab) ==
  LET left == Repaned(tabs, [i \in DOMAIN tabs |->
                               IF tabs[i].id = tab.id THEN tab.panes
                               ELSE WithoutAll(tabs[i].panes, Ids(tab.panes))])
  IN  IF \E b \in ToSet(tabs) : b.id = tab.id
      THEN [i \in DOMAIN left |-> IF left[i].id = tab.id THEN tab ELSE left[i]]
      ELSE Append(left, tab)

\* Edit::MoveTab: the app always names the tab that will follow.
MovedTab(tabs, id, before) ==
  LET tab  == CHOOSE b \in ToSet(tabs) : b.id = id
      rest == Retained(tabs, {i \in DOMAIN tabs : tabs[i].id # id})
      to   == CHOOSE i \in DOMAIN rest : rest[i].id = before
  IN  IF before = id THEN tabs ELSE InsertAt(rest, to, tab)

EditedTabs(w, e) ==
  CASE e.kind = "PutTab"      -> PutTabs(w.tabs, e.tab)
    [] e.kind = "MoveTab"     -> MovedTab(w.tabs, e.id, e.before)
    [] e.kind = "CloseTab"    -> Retained(w.tabs, {i \in DOMAIN w.tabs : w.tabs[i].id # e.id})
    [] e.kind = "ClosePane"   ->
         Repaned(w.tabs, [i \in DOMAIN w.tabs |-> Without(w.tabs[i].panes, e.terminal)])
    [] e.kind = "RemoveSpace" -> Retained(w.tabs, {i \in DOMAIN w.tabs : w.tabs[i].space # e.id})
    [] e.kind = "SplitPane"   ->
         Repaned(w.tabs, [i \in DOMAIN w.tabs |->
            IF e.target \notin Ids(w.tabs[i].panes) THEN w.tabs[i].panes
            ELSE SplitBeside(w.tabs[i].panes, e.target, e.terminal, FALSE)])
    [] OTHER                  -> w.tabs

EditedTask(task, e) ==
  IF e.kind = "UpdateTask" THEN e.task
  ELSE IF e.kind = "SetTaskOutcome" THEN [task EXCEPT !.settled = e.settled]
  ELSE task

Edited(w, e) ==
  [w EXCEPT !.tabs = EditedTabs(w, e), !.task = EditedTask(@, e),
            !.spaces = IF e.kind = "RemoveSpace" THEN @ \ {e.id} ELSE @]

\* Mutant: what a closed space or tab held is looked up after the edit.
Stopped_After(w, e) ==
  IF e.kind = "ClosePane" THEN {e.terminal}
  ELSE IF e.kind = "CloseTab"
  THEN UNION {Ids(b.panes) : b \in {b \in ToSet(Edited(w, e).tabs) : b.id = e.id}}
  ELSE {}
\* The terminals that an edit stops: closing ends what ran there, placement never does.
Stopped(w, e) ==
  CASE e.kind = "CloseTab"    -> Ids(TabOf(w, e.id).panes)
    [] e.kind = "ClosePane"   -> {e.terminal}
    [] e.kind = "RemoveSpace" -> UNION {Ids(b.panes) : b \in {b \in ToSet(w.tabs) : b.space = e.id}}
    [] OTHER                  -> {}

-----------------------------------------------------------------------------
(* The store.  A row that did not change is not written.                    *)

Changed(w, n) == {b \in ToSet(n.tabs) : b \notin ToSet(w.tabs)}
Removed(w, n) == TabIds(w) \ TabIds(n)
Order(w) == [k \in DOMAIN w.tabs |-> w.tabs[k].id]
PlaceOf(w, id) == CHOOSE k \in DOMAIN w.tabs : w.tabs[k].id = id

\* Mutant: a change of order is told by the tabs there are, not by their places.
SaveOrder_SameTabs(order, w, n) ==
  IF TabIds(w) = TabIds(n) THEN order
  ELSE [i \in (DOMAIN order \ Removed(w, n)) \cup TabIds(n) |->
          IF i \in TabIds(n) THEN PlaceOf(n, i) ELSE order[i]]
\* The rows of tab_order.
SaveOrder(order, w, n) ==
  IF Order(w) = Order(n) THEN order
  ELSE [i \in (DOMAIN order \ Removed(w, n)) \cup TabIds(n) |->
          IF i \in TabIds(n) THEN PlaceOf(n, i) ELSE order[i]]

\* The rows of tab_layout_nodes: those of a tab that changed are written anew.
SaveNodes(nodes, w, n) ==
  {r \in nodes : r.tab \notin Removed(w, n) \cup {b.id : b \in Changed(w, n)}}
    \cup UNION {{[tab |-> b.id, path |-> p, terminal |-> b.panes[p]] : p \in DOMAIN b.panes}
                  : b \in Changed(w, n)}

\* Store::save: from w to n.  A terminal's row is its state.
Save(d, w, n) ==
  LET ids == {b.id : b \in Changed(w, n)}
  IN  [rev     |-> n.rev,
       removed |-> d.removed \cup (w.spaces \ n.spaces),
       task    |-> n.task,
       terms   |-> [t \in Terms |-> IF w.terms[t] # n.terms[t] THEN n.terms[t] ELSE d.terms[t]],
       tabs    |-> [i \in (DOMAIN d.tabs \ Removed(w, n)) \cup ids |->
                      IF i \in ids THEN TabOf(n, i).space ELSE d.tabs[i]],
       order   |-> SaveOrder(d.order, w, n),
       nodes   |-> SaveNodes(d.nodes, w, n)]

\* Store::load.  Tabs without nodes are dropped.
PanesOf(d, id) ==
  [p \in {r.path : r \in {r \in d.nodes : r.tab = id}} |->
     (CHOOSE r \in d.nodes : r.tab = id /\ r.path = p).terminal]
LoadedTabs(d) ==
  LET kept == {id \in DOMAIN d.tabs : PanesOf(d, id) # NoPane}
      row(id) == Tab(id, d.tabs[id], PanesOf(d, id))
  IN  [k \in 1..Cardinality(kept) |-> row(Nth(kept, d.order, k))]
Load(d) == [rev |-> d.rev, spaces |-> Spaces \ d.removed, task |-> d.task, terms |-> d.terms,
            tabs |-> LoadedTabs(d)]

\* Mutant: the workspace that a restart changed keeps its revision.
Reopened_SameRevision(d) ==
  LET w == Load(d)
  IN  [w EXCEPT !.terms = [t \in Terms |-> IF @[t] \in {"starting", "running"}
                                           THEN "interrupted" ELSE @[t]]]
\* Store::open: what ran with the host before is interrupted.
Reopened(d) ==
  LET w == Load(d)
  IN  [w EXCEPT !.rev = @ + 1,
                !.terms = [t \in Terms |-> IF @[t] \in {"starting", "running"}
                                           THEN "interrupted" ELSE @[t]]]

-----------------------------------------------------------------------------
(* The host answers one request at a time.                                  *)

\* How a request may end: whether it succeeds, and what it leaves.  A launch saves the
\* workspace twice and starts the program in between; when the second commit fails the
\* program is killed, and the terminal stays `starting`.
Outcomes(r, rev) ==
  LET left(ok, w, held, stop, faults) ==
        [ok |-> ok, host |-> w, here |-> held, hup |-> stop, faults |-> faults]
      \* The request is refused, or its commit fails: nothing changes.
      nothing == left(FALSE, host, here, hup, 0)
      launched(state, revs) ==
        [host EXCEPT !.rev = @ + revs, !.terms[r.terminal] = state]
      edited == [Edited(host, r) EXCEPT !.rev = host.rev + 1]
      launches ==
        IF r.kind = "Launch" /\ r.space \in host.spaces
        THEN {left(TRUE, launched("running", 2), here \cup {r.terminal}, hup, 0),
              left(FALSE, launched("failed", 2), here, hup, 1),
              left(FALSE, launched("starting", 1), here, hup, 1)}
        ELSE {}
      edits ==
        IF r.kind # "Launch" /\ ~Refused(host, r) /\ (ChecksRevision(r) => rev = host.rev)
        THEN {left(TRUE, edited, here, hup \cup (Stopped(host, r) \cap Live), 0)}
        ELSE {}
  IN  {nothing} \cup {o \in launches \cup edits : used.other + o.faults <= MaxOther}

Takes(o) ==
  /\ host' = o.host
  /\ disk' = Save(disk, host, o.host)
  /\ here' = o.here
  /\ hup' = o.hup

\* A program ends, by itself or because it was told to (record_exit).
Exit(t) ==
  /\ t \in Live
  /\ t \in hup \/ used.clicks < MaxClicks
  /\ LET w == [host EXCEPT !.rev = @ + 1, !.terms[t] = "exited"]
     IN  host' = w /\ disk' = Save(disk, host, w)
  /\ hup' = hup \ {t}
  /\ used' = [used EXCEPT !.clicks = @ + IF t \in hup THEN 0 ELSE 1]
  /\ UNCHANGED <<here, apps, script>>

NoSync == [asked |-> FALSE, reply |-> {}]

\* The host ends, its programs with it, and starts again.  What was asked for and not
\* yet answered fails, though the host may have done it.
Restart ==
  /\ used.other < MaxOther
  /\ LET d == disk
         w == Reopened(d)
     IN  host' = w /\ disk' = Save(d, Load(d), w)
  /\ here' = {} /\ hup' = {}
  /\ apps' = [a \in Apps |->
       [apps[a] EXCEPT !.job  = IF @.stage = "idle" THEN @
                                ELSE [@ EXCEPT !.stage = "answered", !.reply = {}],
                       !.sync = IF @ = NoSync THEN @ ELSE [asked |-> TRUE, reply |-> {}]]]
  /\ used' = [used EXCEPT !.other = @ + 1]
  /\ UNCHANGED script

-----------------------------------------------------------------------------
(* A window of the app.                                                     *)

Idle == [stage |-> "idle", launch |-> FALSE, reqs |-> <<>>, rev |-> 0, saw |-> {}, reply |-> {}]

\* begin_busy, and the job that sends the requests one after the other.
Sending(v, reqs) ==
  [stage |-> "sent", launch |-> Len(reqs) > 1, reqs |-> reqs, rev |-> v.rev,
   saw |-> {v.task}, reply |-> {}]

\* Workbench::request, behind every click that edits.  While another action is in
\* flight an edit that any revision will do for waits, and anything else is dropped.
Click(a, e) ==
  LET made == IF e.kind = "PutTab" /\ e.tab.id > used.tabs THEN 1 ELSE 0
      p    == apps[a]
  IN  /\ used.clicks < MaxClicks /\ used.tabs + made <= MaxTabs
      /\ used' = [used EXCEPT !.clicks = @ + 1, !.tabs = @ + made]
      /\ IF p.job = Idle
         THEN apps' = [apps EXCEPT ![a].job = Sending(p.view, <<e>>)]
         ELSE ~ChecksRevision(e) /\ apps' = [apps EXCEPT ![a].queue = Append(@, e)]
      /\ UNCHANGED <<host, disk, here, hup, script>>

\* A pane dragged to another tab (move_pane), or a divider moved or a tab renamed.
PutTabAsSeen(a) ==
  LET v == apps[a].view IN
  \E b \in ToSet(v.tabs) :
    \/ Click(a, PutTab(b))
    \/ \E t \in Shown(v) \ Ids(b.panes) :
         Click(a, PutTab([b EXCEPT !.panes = SplitBeside(@, LastPane(@), t, FALSE)]))

\* move_pane to a tab of its own; a terminal that nothing shows is shown the same way.
PutInOwnTab(a) ==
  LET v == apps[a].view IN
  \E t \in Made(v), s \in v.spaces :
    /\ t \in Shown(v) => s = Holder(v, t).space
    /\ Click(a, PutTab(Tab(used.tabs + 1, s, Leaf(t))))

Close(a) ==
  LET v == apps[a].view IN
  \/ \E id \in TabIds(v) : Click(a, CloseTab(id))
  \/ \E t \in Shown(v) : Click(a, ClosePane(t))
  \/ \E s \in v.spaces : Click(a, RemoveSpace(s))

MoveATab(a) ==
  \E id, before \in TabIds(apps[a].view) : id # before /\ Click(a, MoveTab(id, before))

EditTask(a) ==
  LET t == apps[a].view.task IN
  \/ Click(a, UpdateTask([t EXCEPT !.words = used.clicks + 1]))
  \/ Click(a, SetTaskOutcome(~t.settled))

\* launch_in_slot: in a new tab, in the place of a pane whose terminal was interrupted,
\* or beside a pane.  The tab is put as the app saw it when the user clicked.
LaunchInSlot(a) ==
  LET v == apps[a].view
      t == used.terms + 1
      starts(tab) ==
        /\ used' = [used EXCEPT !.clicks = @ + 1, !.terms = t,
                                !.tabs = IF tab.id > @ THEN tab.id ELSE @]
        /\ apps' = [apps EXCEPT ![a].job =
                      Sending(v, <<Launch(t, tab.space), PutTab(tab)>>)]
  IN  /\ used.clicks < MaxClicks /\ used.terms < MaxTerms
      /\ apps[a].job = Idle
      /\ \/ used.tabs < MaxTabs /\ \E s \in v.spaces : starts(Tab(used.tabs + 1, s, Leaf(t)))
         \/ \E b \in ToSet(v.tabs) : \E x \in Ids(b.panes) :
              \/ /\ v.terms[x] = "interrupted"
                 /\ starts([b EXCEPT !.panes = ReplaceLeaf(@, x, t)])
              \/ starts([b EXCEPT !.panes = SplitBeside(@, x, t, FALSE)])
      /\ UNCHANGED <<host, disk, here, hup, script>>

\* The host answers the request of a job; the next request of the job goes out.
Serve(a) ==
  LET j == apps[a].job IN
  /\ j.stage = "sent"
  /\ \E o \in Outcomes(Head(j.reqs), j.rev) :
       /\ Takes(o)
       /\ used' = [used EXCEPT !.other = @ + o.faults]
       /\ apps' = [apps EXCEPT ![a].job =
            IF ~o.ok THEN [j EXCEPT !.stage = "answered"]
            ELSE IF Len(j.reqs) > 1 THEN [j EXCEPT !.reqs = Tail(@)]
            ELSE [j EXCEPT !.stage = "answered", !.reply = {o.host}]]
  /\ UNCHANGED script

\* apply_workspace: unless a newer one arrived by another reply.
Applied(v, reply) ==
  IF \E w \in reply : w.rev >= v.rev THEN CHOOSE w \in reply : TRUE ELSE v

\* sync: fetches the workspace, or, when that is under way, once more after it.  The
\* host has answered when the reply is taken (SyncAnswer), and a sync that is asked for
\* and answered later is one that is asked for later.
Syncing(p) == IF p.sync = NoSync THEN [p EXCEPT !.sync = [asked |-> TRUE, reply |-> {host}],
                                                !.again = FALSE]
              ELSE [p EXCEPT !.again = TRUE]
Behind(p) == p.heard > p.view.rev

\* The reply of an edit arrives (request).  The next edit that waits goes out; what a
\* launch ends with (launch_in_slot) does not look at those that wait.
Answer(a) ==
  LET p == apps[a]
      q == [p EXCEPT !.job = Idle, !.view = Applied(@, p.job.reply)]
      s == IF p.job.reply # {} /\ Behind(q) THEN Syncing(q) ELSE q
  IN  /\ p.job.stage = "answered"
      /\ apps' = [apps EXCEPT ![a] =
           IF p.queue = <<>> \/ p.job.launch THEN s
           ELSE [s EXCEPT !.queue = Tail(@), !.job = Sending(s.view, <<Head(p.queue)>>)]]
      /\ UNCHANGED <<host, disk, here, hup, script, used>>

\* Mutant: what was heard during the sync is forgotten.
SyncEnd_Forgets(p) == [p EXCEPT !.sync = NoSync, !.again = FALSE, !.view = Applied(@, p.sync.reply)]
SyncEnd(p) ==
  LET q == [p EXCEPT !.sync = NoSync, !.again = FALSE, !.view = Applied(@, p.sync.reply)]
  IN  IF p.again \/ Behind(q) THEN Syncing(q) ELSE q

SyncAnswer(a) ==
  /\ apps[a].sync # NoSync
  /\ apps' = [apps EXCEPT ![a] = SyncEnd(@)]
  /\ UNCHANGED <<host, disk, here, hup, script, used>>

\* The host publishes its revision after each commit; the latest arrives.
Hear(a) ==
  /\ apps[a].heard < host.rev
  /\ apps' = [apps EXCEPT ![a] = IF host.rev > @.view.rev
                                 THEN Syncing([@ EXCEPT !.heard = host.rev])
                                 ELSE [@ EXCEPT !.heard = host.rev]]
  /\ UNCHANGED <<host, disk, here, hup, script, used>>

-----------------------------------------------------------------------------
(* keepline split (control.rs, open): launches a shell, then shows it beside a *)
(* pane, or in a tab of its own when there is no room; when that is refused it *)
(* stops the shell.                                                            *)

NoScript == [stage |-> "idle", terminal |-> 0, beside |-> 0, tab |-> 0, space |-> Home]

\* The workspace is read, and the host asked for the room beside the pane.
ScriptOpens ==
  /\ script = NoScript
  /\ used.other < MaxOther /\ used.terms < MaxTerms
  /\ \E t \in Shown(host) \cap here, tab \in {0, used.tabs + 1} :
       /\ tab <= MaxTabs
       /\ script' = [stage |-> "launch", terminal |-> used.terms + 1,
                     beside |-> IF tab = 0 THEN t ELSE 0, tab |-> tab,
                     space |-> Holder(host, t).space]
       /\ used' = [used EXCEPT !.other = @ + 1, !.terms = @ + 1,
                               !.tabs = IF tab = 0 THEN @ ELSE tab]
  /\ UNCHANGED <<host, disk, here, hup, apps>>

ScriptLaunches ==
  /\ script.stage = "launch"
  /\ \E o \in Outcomes(Launch(script.terminal, script.space), 0) :
       /\ Takes(o)
       /\ used' = [used EXCEPT !.other = @ + o.faults]
       /\ script' = IF o.ok THEN [script EXCEPT !.stage = "edit"] ELSE NoScript
  /\ UNCHANGED apps

ScriptEdits ==
  /\ script.stage = "edit"
  /\ LET t == script.terminal
         e == IF script.tab = 0 THEN SplitPane(script.beside, t)
              ELSE PutTab(Tab(script.tab, script.space, Leaf(t)))
     IN  \E o \in Outcomes(e, 0) :
           /\ Takes(o)
           /\ used' = [used EXCEPT !.other = @ + o.faults]
           /\ script' = IF o.ok THEN NoScript ELSE [script EXCEPT !.stage = "stop"]
  /\ UNCHANGED apps

ScriptStops ==
  /\ script.stage = "stop"
  /\ hup' = hup \cup ({script.terminal} \cap Live)
  /\ script' = NoScript
  /\ UNCHANGED <<host, disk, here, apps, used>>

-----------------------------------------------------------------------------
Init ==
  \E s \in Spaces \ {Home} :
    LET task == [words |-> 0, settled |-> FALSE]
        none == [rev |-> 0, spaces |-> Spaces, task |-> task, tabs |-> <<>>,
                 terms |-> [t \in Terms |-> "none"]]
        rows == [rev |-> 0, removed |-> {}, task |-> task, terms |-> none.terms,
                 tabs |-> [i \in {} |-> s], order |-> [i \in {} |-> 0], nodes |-> {}]
    IN  /\ host = [none EXCEPT !.tabs = <<Tab(1, s, SplitBeside(Leaf(1), 1, 2, FALSE))>>,
                               !.terms[1] = "running", !.terms[2] = "running"]
        /\ disk = Save(rows, none, host)
        /\ here = {1, 2} /\ hup = {}
        /\ apps = [a \in Apps |-> [view |-> host, job |-> Idle, queue |-> <<>>,
                                   heard |-> 0, sync |-> NoSync, again |-> FALSE]]
        /\ script = NoScript
        /\ used = [clicks |-> 0, other |-> 0,
                   terms |-> 2, tabs |-> 1]

App(a) ==
  \/ PutTabAsSeen(a) \/ PutInOwnTab(a) \/ Close(a) \/ MoveATab(a) \/ EditTask(a)
  \/ LaunchInSlot(a) \/ Serve(a) \/ Answer(a) \/ SyncAnswer(a) \/ Hear(a)
Script == ScriptOpens \/ ScriptLaunches \/ ScriptEdits \/ ScriptStops
Next == (\E a \in Apps : App(a)) \/ Script \/ (\E t \in Terms : Exit(t)) \/ Restart

Spec == Init /\ [][Next]_vars

-----------------------------------------------------------------------------
(* Properties.                                                              *)

\* Whatever edits arrive, based on whatever the windows last saw, the workspace is one
\* the app can show: every tab has panes that make a tree and a space that is there,
\* and no terminal is in two places (Workspace::edit).
Tidy ==
  /\ \A b \in ToSet(host.tabs) : /\ b.panes # NoPane /\ TreeShaped(b.panes) /\ Distinct(b.panes)
                                 /\ b.space \in host.spaces
                                 /\ Ids(b.panes) \subseteq Made(host)
  /\ \A i, j \in DOMAIN host.tabs : i # j =>
       /\ host.tabs[i].id # host.tabs[j].id
       /\ Ids(host.tabs[i].panes) \cap Ids(host.tabs[j].panes) = {}

\* What was written piece by piece reads as the workspace, and no row would break the
\* uniqueness of a terminal in the layouts (store.rs: save, load).
DiskIsWorkspace ==
  /\ Load(disk) = host
  /\ \A r, s \in disk.nodes : r.terminal = s.terminal => r = s

\* A to-do that changes was seen as it was by the window that changes it
\* (checks_revision): no window undoes what another wrote.
NoLostUpdate ==
  [][host'.task # host.task =>
       \E a \in Apps : apps[a].job.stage = "sent" /\ apps[a].job.saw = {host.task}]_vars

\* Closing a tab, a pane or a space stops what it takes off the screen and nothing
\* else; an edit that places panes stops nothing (Request::Edit, `stopped`).
ClosingStopsWhatItHides ==
  [][\A a \in Apps :
       LET e == Head(apps[a].job.reqs) IN
       apps[a].job.stage = "sent" /\ apps'[a].job # apps[a].job /\ host' # host /\ here' = here =>
         hup' = hup \cup IF e.kind \in {"CloseTab", "ClosePane", "RemoveSpace"}
                         THEN (Shown(host) \ Shown(host')) \cap Live ELSE {}]_vars

\* A window that is not fetching and has heard of the latest revision shows the
\* workspace as it is, whatever came late, failed or was cut off by a restart: it is
\* never left behind what it heard of (sync, end_sync, behind), and one revision never
\* names two workspaces (commit, open_keeping).
QuietWindowIsCurrent ==
  \A a \in Apps : apps[a].sync = NoSync /\ apps[a].heard = host.rev => apps[a].view = host
=============================================================================
