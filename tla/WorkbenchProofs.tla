------------------------------ MODULE WorkbenchProofs ------------------------
(***************************************************************************)
(* Workbench for any number of windows, spaces, terminals, tabs and edits. *)
(* One revision never names two workspaces, so a window never stays behind *)
(* what it heard of and never undoes a to-do that it has not seen; and     *)
(* what edits make of tabs and panes is always a workspace that the app    *)
(* can show, that the rows read back as, and that hides no running         *)
(* terminal without stopping it.                                           *)
(***************************************************************************)
EXTENDS Workbench, SequenceTheorems, FunctionTheorems, FiniteSetTheorems, NaturalsInduction,
        TLAPS

(***************************************************************************)
(* Revisions: the inductive invariant.  h is the workspace of the host.    *)
(***************************************************************************)
Workspace(w) == {"rev", "spaces", "task", "tabs", "terms"} \subseteq DOMAIN w /\ w.rev \in Nat

\* What a window was sent is the workspace of a revision: not a newer one, and
\* what the host has now if it is of this revision.
Copy(w, h) == w.rev \in Nat /\ w.rev <= h.rev /\ (w.rev = h.rev => w = h)

\* What a job asks is judged by the workspace that the window saw.
JobIs(j, h) ==
    /\ {"stage", "launch", "reqs", "rev", "saw", "reply"} \subseteq DOMAIN j
    /\ \A w, x \in j.reply : Copy(w, h) /\ w = x
    /\ j.stage = "sent" => j.rev \in Nat /\ j.rev <= h.rev /\ (j.rev = h.rev => j.saw = {h.task})

\* The window of a client, but for what it may have heard of and not asked for.
Held(p, h) ==
    /\ {"view", "job", "queue", "heard", "sync", "again"} \subseteq DOMAIN p
    /\ Copy(p.view, h) /\ JobIs(p.job, h)
    /\ {"asked", "reply"} \subseteq DOMAIN p.sync /\ \A w, x \in p.sync.reply : Copy(w, h) /\ w = x
    /\ p.heard \in Nat /\ p.heard <= h.rev

\* What a window heard of it shows, unless it is fetching.
WindowIs(p, h) == Held(p, h) /\ (p.sync = NoSync => p.heard <= p.view.rev)

IInv ==
    /\ Workspace(host) /\ disk.rev = host.rev /\ disk.task = host.task
    /\ DOMAIN apps = Apps /\ \A a \in Apps : WindowIs(apps[a], host)

(***************************************************************************)
(* What becomes of the workspace.                                          *)
(***************************************************************************)
\* It stays as it is or moves to a later revision.
Moves(h, n) == n = h \/ (Workspace(n) /\ h.rev < n.rev)

LEMMA CopyMoves ==
  ASSUME NEW h, NEW n, Workspace(h), Moves(h, n), NEW w, Copy(w, h)
  PROVE  Copy(w, n)
BY DEF Workspace, Moves, Copy

LEMMA JobMoves ==
  ASSUME NEW h, NEW n, Workspace(h), Moves(h, n), NEW j, JobIs(j, h)
  PROVE  JobIs(j, n)
<1>1. \A w \in j.reply : Copy(w, n)
  BY CopyMoves DEF JobIs
<1>2. j.stage = "sent" => j.rev \in Nat /\ j.rev <= n.rev /\ (j.rev = n.rev => j.saw = {n.task})
  BY DEF JobIs, Workspace, Moves
<1> QED BY <1>1, <1>2 DEF JobIs

LEMMA WindowMoves ==
  ASSUME NEW h, NEW n, Workspace(h), Moves(h, n), NEW p, WindowIs(p, h)
  PROVE  WindowIs(p, n)
<1>1. Copy(p.view, n) /\ JobIs(p.job, n)
  BY CopyMoves, JobMoves DEF WindowIs, Held
<1>2. \A w \in p.sync.reply : Copy(w, n)
  BY CopyMoves DEF WindowIs, Held
<1>3. p.heard <= n.rev
  BY DEF WindowIs, Held, Workspace, Moves
<1> QED BY <1>1, <1>2, <1>3 DEF WindowIs, Held

\* However a request ends, the workspace moves, and only an edit that was held
\* against the revision changes the to-do.
LEMMA OutcomeMoves ==
  ASSUME Workspace(host), NEW r, NEW rev, NEW o \in Outcomes(r, rev)
  PROVE  /\ Moves(host, o.host)
         /\ o.host.task # host.task => r.kind \in {"UpdateTask", "SetTaskOutcome"} /\ rev = host.rev
<1> DEFINE launched(state, revs) == [host EXCEPT !.rev = @ + revs, !.terms[r.terminal] = state]
           edited == [Edited(host, r) EXCEPT !.rev = host.rev + 1]
<1>1. \/ o.host = host
      \/ o.host = launched("running", 2) \/ o.host = launched("failed", 2)
      \/ o.host = launched("starting", 1)
      \/ o.host = edited /\ (ChecksRevision(r) => rev = host.rev)
  <2> DEFINE left(ok, w, held, stop, faults) ==
               [ok |-> ok, host |-> w, here |-> held, hup |-> stop, faults |-> faults]
  <2>1. \/ o = left(FALSE, host, here, hup, 0)
        \/ o = left(TRUE, launched("running", 2), here \cup {r.terminal}, hup, 0)
        \/ o = left(FALSE, launched("failed", 2), here, hup, 1)
        \/ o = left(FALSE, launched("starting", 1), here, hup, 1)
        \/ /\ o = left(TRUE, edited, here, hup \cup (Stopped(host, r) \cap Live), 0)
           /\ ChecksRevision(r) => rev = host.rev
    BY DEF Outcomes
  <2> HIDE DEF launched, edited
  <2> QED BY <2>1
<1>2. CASE o.host = host
  BY <1>2 DEF Moves
<1>3. ASSUME NEW state, NEW revs \in {1, 2},
             o.host = [host EXCEPT !.rev = @ + revs, !.terms[r.terminal] = state]
      PROVE  Moves(host, o.host) /\ o.host.task = host.task
  <2>1. /\ DOMAIN o.host = DOMAIN host /\ o.host.rev = host.rev + revs
        /\ o.host.task = host.task
    BY <1>3 DEF Workspace
  <2> QED BY <2>1 DEF Moves, Workspace
<1>4. CASE /\ o.host = [Edited(host, r) EXCEPT !.rev = host.rev + 1]
           /\ ChecksRevision(r) => rev = host.rev
  <2> DEFINE n == Edited(host, r)
  <2>1. DOMAIN n = DOMAIN host /\ n.task = EditedTask(host.task, r)
    BY DEF Edited, Workspace
  <2> HIDE DEF n
  <2>2. DOMAIN o.host = DOMAIN host /\ o.host.rev = host.rev + 1 /\ o.host.task = n.task
    BY <1>4, <2>1 DEF Workspace, n
  <2>3. Moves(host, o.host)
    BY <2>2 DEF Moves, Workspace
  <2>4. o.host.task # host.task => ChecksRevision(r) /\ r.kind \in {"UpdateTask", "SetTaskOutcome"}
    BY <2>1, <2>2 DEF EditedTask, ChecksRevision
  <2> QED BY <1>4, <2>3, <2>4
<1>5. \/ o.host = host
      \/ \E state : \E revs \in {1, 2} : o.host = launched(state, revs)
      \/ o.host = edited /\ (ChecksRevision(r) => rev = host.rev)
  <2> HIDE DEF launched, edited
  <2> QED BY <1>1
<1> QED BY <1>2, <1>3, <1>4, <1>5

LEMMA SavedIs == \A d, w, n : Save(d, w, n).rev = n.rev /\ Save(d, w, n).task = n.task
  BY DEF Save

\* Whatever the host does, the rows have its revision and the windows are still
\* as they were.
LEMMA TakesMoves ==
  ASSUME IInv, NEW o, Moves(host, o.host), Takes(o)
  PROVE  /\ Workspace(host') /\ disk'.rev = host'.rev /\ disk'.task = host'.task
        /\ Moves(host, host')
         /\ \A a \in Apps : WindowIs(apps[a], host')
<1>1. host' = o.host /\ disk' = Save(disk, host, o.host)
  BY DEF Takes
<1>2. Workspace(o.host) /\ Workspace(host)
  BY DEF IInv, Moves
<1>3. \A a \in Apps : WindowIs(apps[a], o.host)
  BY <1>2, WindowMoves DEF IInv
<1> QED BY <1>1, <1>2, <1>3, SavedIs

(***************************************************************************)
(* What a window does.                                                     *)
(***************************************************************************)
LEMMA IdleIs == \A h : JobIs(Idle, h)
  BY DEF Idle, JobIs

\* A job asks with the revision and the to-do of what the window shows.
LEMMA SendingIs ==
  ASSUME NEW h, NEW v, Copy(v, h), NEW reqs
  PROVE  JobIs(Sending(v, reqs), h)
BY DEF Sending, JobIs, Copy

LEMMA AppliedIs ==
  ASSUME NEW h, NEW v, Copy(v, h), NEW reply, \A w, x \in reply : Copy(w, h) /\ w = x
  PROVE  /\ Copy(Applied(v, reply), h) /\ v.rev <= Applied(v, reply).rev
<1>1. CASE \E w \in reply : w.rev >= v.rev
  <2>1. PICK w \in reply : w.rev >= v.rev
    BY <1>1
  <2>2. (CHOOSE x \in reply : TRUE) = w
    BY <2>1
  <2>3. Applied(v, reply) = w
    BY <1>1, <2>2 DEF Applied
  <2> QED BY <2>1, <2>3 DEF Copy
<1>2. CASE ~\E w \in reply : w.rev >= v.rev
  BY <1>2 DEF Applied, Copy
<1> QED BY <1>1, <1>2

LEMMA JobGiven ==
  ASSUME NEW h, NEW p, WindowIs(p, h), NEW j, JobIs(j, h)
  PROVE  WindowIs([p EXCEPT !.job = j], h)
<1> DEFINE q == [p EXCEPT !.job = j]
<1>1. /\ DOMAIN q = DOMAIN p /\ q.job = j /\ q.view = p.view /\ q.sync = p.sync /\ q.heard = p.heard
  BY DEF WindowIs, Held
<1> HIDE DEF q
<1>2. WindowIs(q, h)
  BY <1>1 DEF WindowIs, Held
<1> QED BY <1>2 DEF q

LEMMA QueueGiven ==
  ASSUME NEW h, NEW p, WindowIs(p, h), NEW x
  PROVE  WindowIs([p EXCEPT !.queue = x], h)
<1> DEFINE q == [p EXCEPT !.queue = x]
<1>1. /\ DOMAIN q = DOMAIN p /\ q.job = p.job /\ q.view = p.view /\ q.sync = p.sync /\ q.heard = p.heard
  BY DEF WindowIs, Held
<1> HIDE DEF q
<1>2. WindowIs(q, h)
  BY <1>1 DEF WindowIs, Held
<1> QED BY <1>2 DEF q

\* Whatever it heard of, a window that fetches is not left behind.
LEMMA SyncingIs ==
  ASSUME Workspace(host), NEW p, Held(p, host)
  PROVE  WindowIs(Syncing(p), host) /\ Syncing(p).view = p.view
<1> DEFINE q == Syncing(p)
           fetched == [asked |-> TRUE, reply |-> {host}]
<1>1. fetched # NoSync /\ fetched.reply = {host} /\ {"asked", "reply"} \subseteq DOMAIN fetched
  BY DEF NoSync
<1> HIDE DEF fetched
<1>2. Copy(host, host)
  BY DEF Workspace, Copy
<1>3. /\ DOMAIN q = DOMAIN p /\ q.job = p.job /\ q.view = p.view /\ q.heard = p.heard
      /\ q.sync = fetched \/ (p.sync # NoSync /\ q.sync = p.sync)
  BY DEF Held, Syncing, fetched
<1> HIDE DEF q
<1>4. Held(q, host) /\ q.sync # NoSync
  BY <1>1, <1>2, <1>3 DEF Held
<1> QED BY <1>3, <1>4 DEF WindowIs, q

LEMMA SyncEndIs ==
  ASSUME Workspace(host), NEW p, WindowIs(p, host)
  PROVE  WindowIs(SyncEnd(p), host)
<1> DEFINE q == [p EXCEPT !.sync = NoSync, !.again = FALSE, !.view = Applied(@, p.sync.reply)]
<1>1. /\ DOMAIN q = DOMAIN p /\ q.job = p.job /\ q.heard = p.heard /\ q.sync = NoSync
      /\ q.view = Applied(p.view, p.sync.reply)
  BY DEF WindowIs, Held
<1>2. SyncEnd(p) = IF p.again \/ Behind(q) THEN Syncing(q) ELSE q
  BY DEF SyncEnd
<1> HIDE DEF q
<1>3. Copy(q.view, host)
  BY <1>1, AppliedIs DEF WindowIs, Held
<1>4. Held(q, host)
  BY <1>1, <1>3 DEF WindowIs, Held, NoSync
<1>5. CASE p.again \/ Behind(q)
  BY <1>2, <1>4, <1>5, SyncingIs
<1>6. CASE ~(p.again \/ Behind(q))
  <2>1. q.heard <= q.view.rev
    BY <1>3, <1>4, <1>6 DEF Behind, Held, Copy
  <2> QED BY <1>2, <1>4, <1>6, <2>1 DEF WindowIs
<1> QED BY <1>5, <1>6

\* One window changes and the host does not.
LEMMA OneWindow ==
  ASSUME IInv, NEW a \in Apps, NEW q, WindowIs(q, host), apps' = [apps EXCEPT ![a] = q],
         UNCHANGED <<host, disk>>
  PROVE  IInv'
<1>1. DOMAIN apps' = Apps /\ \A b \in Apps : apps'[b] = q \/ apps'[b] = apps[b]
  BY DEF IInv
<1>2. \A b \in Apps : WindowIs(apps'[b], host)
  BY <1>1 DEF IInv
<1> QED BY <1>1, <1>2 DEF IInv

LEMMA ClickStep ==
  ASSUME IInv, NEW a \in Apps, NEW e, Click(a, e)
  PROVE  IInv'
<1> DEFINE p == apps[a]
<1>1. WindowIs(p, host) /\ Copy(p.view, host) /\ UNCHANGED <<host, disk>>
  BY DEF IInv, WindowIs, Held, Click
<1>2. \/ apps' = [apps EXCEPT ![a] = [p EXCEPT !.job = Sending(p.view, <<e>>)]]
      \/ \E x : apps' = [apps EXCEPT ![a] = [p EXCEPT !.queue = x]]
  BY DEF Click
<1> HIDE DEF p
<1> QED BY <1>1, <1>2, SendingIs, JobGiven, QueueGiven, OneWindow

LEMMA LaunchStep ==
  ASSUME IInv, NEW a \in Apps, LaunchInSlot(a)
  PROVE  IInv'
<1> DEFINE p == apps[a]
<1>1. WindowIs(p, host) /\ Copy(p.view, host) /\ UNCHANGED <<host, disk>>
  BY DEF IInv, WindowIs, Held, LaunchInSlot
<1>2. \E reqs : apps' = [apps EXCEPT ![a] = [p EXCEPT !.job = Sending(p.view, reqs)]]
  BY DEF LaunchInSlot
<1> HIDE DEF p
<1> QED BY <1>1, <1>2, SendingIs, JobGiven, OneWindow

LEMMA AnswerStep ==
  ASSUME IInv, NEW a \in Apps, Answer(a)
  PROVE  IInv'
<1> DEFINE p == apps[a]
           q == [p EXCEPT !.job = Idle, !.view = Applied(@, p.job.reply)]
           s == IF p.job.reply # {} /\ Behind(q) THEN Syncing(q) ELSE q
<1>1. WindowIs(p, host) /\ Workspace(host) /\ UNCHANGED <<host, disk>>
  BY DEF IInv, Answer
<1>2. \/ apps' = [apps EXCEPT ![a] = s]
      \/ \E x, reqs : apps' = [apps EXCEPT ![a] = [s EXCEPT !.queue = x, !.job = Sending(s.view, reqs)]]
  BY DEF Answer
<1>3. /\ DOMAIN q = DOMAIN p /\ q.job = Idle /\ q.heard = p.heard /\ q.sync = p.sync
      /\ q.view = Applied(p.view, p.job.reply)
  BY <1>1 DEF WindowIs, Held
<1> HIDE DEF p, q
<1>4. Copy(q.view, host) /\ p.view.rev <= q.view.rev
  BY <1>1, <1>3, AppliedIs DEF WindowIs, Held, JobIs
<1>5. WindowIs(q, host)
  <2>1. Held(q, host)
    BY <1>1, <1>3, <1>4, IdleIs DEF WindowIs, Held
  <2>2. q.sync = NoSync => q.heard <= q.view.rev
    BY <1>1, <1>3, <1>4 DEF WindowIs, Held, Copy
  <2> QED BY <2>1, <2>2 DEF WindowIs
<1>6. WindowIs(s, host)
  BY <1>1, <1>5, SyncingIs DEF WindowIs
<1> HIDE DEF s
<1>7. ASSUME NEW x, NEW reqs
      PROVE  WindowIs([s EXCEPT !.queue = x, !.job = Sending(s.view, reqs)], host)
  <2>1. WindowIs([s EXCEPT !.queue = x], host)
    BY <1>6, QueueGiven
  <2>2. JobIs(Sending(s.view, reqs), host)
    BY <1>6, SendingIs DEF WindowIs, Held
  <2> QED BY <2>1, <2>2, JobGiven
<1> QED BY <1>1, <1>2, <1>6, <1>7, OneWindow

LEMMA HearStep ==
  ASSUME IInv, NEW a \in Apps, Hear(a)
  PROVE  IInv'
<1> DEFINE p == apps[a]
           q == [p EXCEPT !.heard = host.rev]
<1>1. WindowIs(p, host) /\ Workspace(host) /\ UNCHANGED <<host, disk>>
  BY DEF IInv, Hear
<1>2. \/ host.rev > p.view.rev /\ apps' = [apps EXCEPT ![a] = Syncing(q)]
      \/ ~(host.rev > p.view.rev) /\ apps' = [apps EXCEPT ![a] = q]
  BY DEF Hear
<1>3. /\ DOMAIN q = DOMAIN p /\ q.job = p.job /\ q.heard = host.rev /\ q.sync = p.sync
      /\ q.view = p.view
  BY <1>1 DEF WindowIs, Held
<1> HIDE DEF p, q
<1>4. Held(q, host)
  BY <1>1, <1>3 DEF WindowIs, Held, Workspace
<1>5. ~(host.rev > p.view.rev) => WindowIs(q, host)
  BY <1>1, <1>3, <1>4 DEF WindowIs, Held, Copy, Workspace
<1> QED BY <1>1, <1>2, <1>4, <1>5, SyncingIs, OneWindow

\* Only the job that asked for it has what became of a request.
LEMMA ServeStep ==
  ASSUME IInv, NEW a \in Apps, Serve(a)
  PROVE  /\ IInv'
         /\ host'.task # host.task => apps[a].job.stage = "sent" /\ apps[a].job.saw = {host.task}
<1> DEFINE j == apps[a].job
<1>1. PICK o \in Outcomes(Head(j.reqs), j.rev) :
        /\ Takes(o) /\ j.stage = "sent"
        /\ apps' = [apps EXCEPT ![a].job =
            IF ~o.ok THEN [j EXCEPT !.stage = "answered"]
            ELSE IF Len(j.reqs) > 1 THEN [j EXCEPT !.reqs = Tail(@)]
            ELSE [j EXCEPT !.stage = "answered", !.reply = {o.host}]]
  BY DEF Serve
<1>2. PICK k : /\ apps' = [apps EXCEPT ![a] = [apps[a] EXCEPT !.job = k]]
               /\ \/ k = [j EXCEPT !.stage = "answered"]
                  \/ k = [j EXCEPT !.reqs = Tail(@)]
                  \/ k = [j EXCEPT !.stage = "answered", !.reply = {o.host}]
  BY <1>1
<1>3. JobIs(j, host) /\ Workspace(host)
  BY DEF IInv, WindowIs, Held
<1> HIDE DEF j
<1>4. /\ Moves(host, o.host)
      /\ o.host.task # host.task => j.rev = host.rev
  BY <1>3, OutcomeMoves
<1>5. /\ Workspace(host') /\ disk'.rev = host'.rev /\ disk'.task = host'.task /\ Moves(host, host')
      /\ \A b \in Apps : WindowIs(apps[b], host')
      /\ host' = o.host
  BY <1>1, <1>4, TakesMoves DEF Takes
<1>6. JobIs(k, host')
  <2>1. JobIs(j, host') /\ Copy(o.host, host')
    BY <1>3, <1>5, JobMoves DEF Copy, Workspace
  <2>2. CASE k = [j EXCEPT !.stage = "answered"]
    <3>1. k.reply = j.reply /\ DOMAIN k = DOMAIN j /\ k.stage = "answered"
      BY <1>3, <2>2 DEF JobIs
    <3> QED BY <2>1, <3>1 DEF JobIs
  <2>3. CASE k = [j EXCEPT !.reqs = Tail(@)]
    <3>1. k.reply = j.reply /\ DOMAIN k = DOMAIN j /\ k.stage = j.stage /\ k.rev = j.rev /\ k.saw = j.saw
      BY <1>3, <2>3 DEF JobIs
    <3> QED BY <2>1, <3>1 DEF JobIs
  <2>4. CASE k = [j EXCEPT !.stage = "answered", !.reply = {o.host}]
    <3>1. k.reply = {o.host} /\ DOMAIN k = DOMAIN j /\ k.stage = "answered"
      BY <1>3, <2>4 DEF JobIs
    <3> QED BY <2>1, <3>1 DEF JobIs
  <2> QED BY <1>2, <2>2, <2>3, <2>4
<1>7. WindowIs([apps[a] EXCEPT !.job = k], host')
  BY <1>5, <1>6, JobGiven
<1>8. DOMAIN apps' = Apps /\ \A b \in Apps : WindowIs(apps'[b], host')
  <2> DEFINE q == [apps[a] EXCEPT !.job = k]
  <2>1. DOMAIN apps' = Apps /\ \A b \in Apps : apps'[b] = q \/ apps'[b] = apps[b]
    <3> HIDE DEF q
    <3> QED BY <1>2 DEF IInv, q
  <2> HIDE DEF q
  <2> QED BY <1>5, <1>7, <2>1 DEF q
<1>9. IInv'
  BY <1>5, <1>8 DEF IInv
<1>10. host'.task # host.task => j.stage = "sent" /\ j.saw = {host.task}
  BY <1>1, <1>3, <1>4, <1>5 DEF JobIs
<1> QED BY <1>9, <1>10 DEF j

(***************************************************************************)
(* The host and the script.                                                *)
(***************************************************************************)
LEMMA ExitStep ==
  ASSUME IInv, NEW t \in Terms, Exit(t)
  PROVE  IInv' /\ host'.task = host.task
<1> DEFINE w == [host EXCEPT !.rev = @ + 1, !.terms[t] = "exited"]
<1>1. host' = w /\ disk' = Save(disk, host, w) /\ apps' = apps
  BY DEF Exit
<1>2. DOMAIN w = DOMAIN host /\ w.rev = host.rev + 1 /\ w.task = host.task
  BY DEF IInv, Workspace
<1> HIDE DEF w
<1>3. Moves(host, w) /\ Workspace(w) /\ Workspace(host)
  BY <1>2 DEF IInv, Workspace, Moves
<1>4. \A a \in Apps : WindowIs(apps[a], w)
  BY <1>3, WindowMoves DEF IInv
<1> QED BY <1>1, <1>2, <1>3, <1>4, SavedIs DEF IInv

\* What was under way is answered with nothing.
LEMMA CutOff ==
  ASSUME NEW h, NEW p, WindowIs(p, h)
  PROVE  WindowIs([p EXCEPT !.job  = IF @.stage = "idle" THEN @
                                     ELSE [@ EXCEPT !.stage = "answered", !.reply = {}],
                            !.sync = IF @ = NoSync THEN @ ELSE [asked |-> TRUE, reply |-> {}]], h)
<1> DEFINE j == IF p.job.stage = "idle" THEN p.job
                ELSE [p.job EXCEPT !.stage = "answered", !.reply = {}]
           y == IF p.sync = NoSync THEN p.sync ELSE [asked |-> TRUE, reply |-> {}]
           q == [p EXCEPT !.job = j, !.sync = y]
<1>1. JobIs(j, h)
  <2>1. CASE p.job.stage = "idle"
    BY <2>1 DEF WindowIs, Held
  <2>2. CASE p.job.stage # "idle"
    <3>1. DOMAIN j = DOMAIN p.job /\ j.stage = "answered" /\ j.reply = {}
      BY <2>2 DEF WindowIs, Held, JobIs
    <3> HIDE DEF j
    <3> QED BY <3>1 DEF WindowIs, Held, JobIs
  <2> QED BY <2>1, <2>2
<1>2. /\ {"asked", "reply"} \subseteq DOMAIN y /\ \A w, x \in y.reply : Copy(w, h) /\ w = x
      /\ y = NoSync => p.sync = NoSync
  BY DEF WindowIs, Held, NoSync
<1> HIDE DEF j, y
<1>3. DOMAIN q = DOMAIN p /\ q.job = j /\ q.sync = y /\ q.view = p.view /\ q.heard = p.heard
  BY DEF WindowIs, Held
<1> HIDE DEF q
<1>4. WindowIs(q, h)
  BY <1>1, <1>2, <1>3 DEF WindowIs, Held
<1> QED BY <1>4 DEF q, j, y

LEMMA RestartStep ==
  ASSUME IInv, Restart
  PROVE  IInv' /\ host'.task = host.task
<1> DEFINE w == Reopened(disk)
           n == Load(disk)
<1>1. host' = w /\ disk' = Save(disk, n, w)
  BY DEF Restart
<1>2. {"rev", "spaces", "task", "tabs", "terms"} \subseteq DOMAIN n /\ n.rev = disk.rev /\ n.task = disk.task
  BY DEF Load
<1>3. w = [n EXCEPT !.rev = @ + 1,
                    !.terms = [t \in Terms |-> IF @[t] \in {"starting", "running"}
                                               THEN "interrupted" ELSE @[t]]]
  BY DEF Reopened
<1> HIDE DEF n, w
<1>4. DOMAIN w = DOMAIN n /\ w.rev = host.rev + 1 /\ w.task = host.task
  BY <1>2, <1>3 DEF IInv
<1>5. Moves(host, w) /\ Workspace(w) /\ Workspace(host)
  BY <1>2, <1>4 DEF IInv, Workspace, Moves
<1>6. \A a \in Apps : WindowIs(apps[a], w)
  BY <1>5, WindowMoves DEF IInv
<1>7. DOMAIN apps' = Apps /\ \A a \in Apps : WindowIs(apps'[a], w)
  <2>1. ASSUME NEW a \in Apps PROVE WindowIs(apps'[a], w)
    <3>1. apps'[a] = [apps[a] EXCEPT !.job  = IF @.stage = "idle" THEN @
                                              ELSE [@ EXCEPT !.stage = "answered", !.reply = {}],
                                     !.sync = IF @ = NoSync THEN @ ELSE [asked |-> TRUE, reply |-> {}]]
      BY DEF Restart
    <3>2. WindowIs(apps[a], w)
      BY <1>6
    <3>3. WindowIs([apps[a] EXCEPT !.job  = IF @.stage = "idle" THEN @
                                            ELSE [@ EXCEPT !.stage = "answered", !.reply = {}],
                                   !.sync = IF @ = NoSync THEN @ ELSE [asked |-> TRUE, reply |-> {}]], w)
      BY <3>2, CutOff, Zenon
    <3> QED BY <3>1, <3>3, Zenon
  <2>2. DOMAIN apps' = Apps
    BY DEF Restart
  <2> QED BY <2>1, <2>2
<1> QED BY <1>1, <1>4, <1>5, <1>7, SavedIs DEF IInv

LEMMA ScriptStep ==
  ASSUME IInv, Script
  PROVE  IInv' /\ host'.task = host.task
<1>1. CASE ScriptOpens \/ ScriptStops
  <2>1. UNCHANGED <<host, disk, apps>>
    BY <1>1 DEF ScriptOpens, ScriptStops
  <2> QED BY <2>1 DEF IInv
<1>2. CASE ScriptLaunches \/ ScriptEdits
  <2>1. PICK r : /\ r.kind \in {"Launch", "SplitPane", "PutTab"}
                 /\ \E o \in Outcomes(r, 0) : Takes(o)
                 /\ apps' = apps
    <3>1. CASE ScriptLaunches
      BY <3>1 DEF ScriptLaunches, Launch
    <3>2. CASE ScriptEdits
      BY <3>2 DEF ScriptEdits, SplitPane, PutTab
    <3> QED BY <1>2, <3>1, <3>2
  <2>2. PICK o \in Outcomes(r, 0) : Takes(o)
    BY <2>1
  <2>3. Moves(host, o.host) /\ o.host.task = host.task
    BY <2>1, OutcomeMoves DEF IInv
  <2> QED BY <2>1, <2>2, <2>3, TakesMoves DEF IInv, Takes
<1> QED BY <1>1, <1>2 DEF Script

LEMMA AppStep ==
  ASSUME IInv, NEW a \in Apps, App(a)
  PROVE  /\ IInv'
         /\ host'.task # host.task => apps[a].job.stage = "sent" /\ apps[a].job.saw = {host.task}
<1>1. CASE PutTabAsSeen(a) \/ PutInOwnTab(a) \/ Close(a) \/ MoveATab(a) \/ EditTask(a)
  <2>1. PICK e : Click(a, e)
    <3>1. CASE PutTabAsSeen(a) \/ PutInOwnTab(a)
      BY <3>1 DEF PutTabAsSeen, PutInOwnTab
    <3>2. CASE Close(a) \/ MoveATab(a) \/ EditTask(a)
      BY <3>2 DEF Close, MoveATab, EditTask
    <3> QED BY <1>1, <3>1, <3>2
  <2>2. host' = host
    BY <2>1 DEF Click
  <2> QED BY <2>1, <2>2, ClickStep
<1>2. CASE LaunchInSlot(a)
  BY <1>2, LaunchStep DEF LaunchInSlot
<1>3. CASE Serve(a)
  BY <1>3, ServeStep
<1>4. CASE Answer(a)
  BY <1>4, AnswerStep DEF Answer
<1>5. CASE SyncAnswer(a)
  <2>1. /\ apps' = [apps EXCEPT ![a] = SyncEnd(apps[a])] /\ UNCHANGED <<host, disk>>
        /\ WindowIs(apps[a], host) /\ Workspace(host)
    BY <1>5 DEF SyncAnswer, IInv
  <2> QED BY <2>1, SyncEndIs, OneWindow
<1>6. CASE Hear(a)
  BY <1>6, HearStep DEF Hear
<1> QED BY <1>1, <1>2, <1>3, <1>4, <1>5, <1>6 DEF App

(***************************************************************************)
(* Revisions: the theorems.                                                *)
(***************************************************************************)
LEMMA InitIInv ==
  Init => IInv
<1> SUFFICES ASSUME Init PROVE IInv
  OBVIOUS
<1> DEFINE p == [view |-> host, job |-> Idle, queue |-> <<>>,
                 heard |-> 0, sync |-> NoSync, again |-> FALSE]
<1>1. /\ {"rev", "spaces", "task", "tabs", "terms"} \subseteq DOMAIN host /\ host.rev = 0
      /\ disk.rev = host.rev /\ disk.task = host.task
      /\ apps = [a \in Apps |-> p]
  <2> DEFINE task == [words |-> 0, settled |-> FALSE]
             none == [rev |-> 0, spaces |-> Spaces, task |-> task, tabs |-> <<>>,
                      terms |-> [t \in Terms |-> "none"]]
  <2>1. \E tabs, rows : /\ host = [none EXCEPT !.tabs = tabs, !.terms[1] = "running", !.terms[2] = "running"]
                        /\ disk = Save(rows, none, host)
    BY DEF Init
  <2>2. none.rev = 0 /\ DOMAIN none = {"rev", "spaces", "task", "tabs", "terms"}
    OBVIOUS
  <2> HIDE DEF none
  <2>3. DOMAIN host = DOMAIN none /\ host.rev = 0
    BY <2>1, <2>2
  <2>4. apps = [a \in Apps |-> p]
    BY DEF Init
  <2>5. disk.rev = host.rev /\ disk.task = host.task
    <3>1. PICK rows : disk = Save(rows, none, host)
      BY <2>1
    <3>2. Save(rows, none, host).rev = host.rev /\ Save(rows, none, host).task = host.task
      BY SavedIs, Zenon
    <3> QED BY <3>1, <3>2, Zenon
  <2>6. {"rev", "spaces", "task", "tabs", "terms"} \subseteq DOMAIN host
    BY <2>2, <2>3
  <2> QED BY <2>3, <2>4, <2>5, <2>6
<1>2. Workspace(host)
  BY <1>1 DEF Workspace
<1>3. /\ p.view = host /\ p.job = Idle /\ p.heard = 0 /\ p.sync = NoSync
      /\ {"view", "job", "queue", "heard", "sync", "again"} \subseteq DOMAIN p
  OBVIOUS
<1> HIDE DEF p
<1>4. WindowIs(p, host)
  BY <1>1, <1>2, <1>3, IdleIs DEF WindowIs, Held, Copy, NoSync
<1> QED BY <1>1, <1>2, <1>4 DEF IInv

\* What a step keeps, and which window it may be that changes the to-do.
LEMMA NextIInv ==
  IInv /\ [Next]_vars =>
    /\ IInv'
    /\ host'.task # host.task =>
         \E a \in Apps : apps[a].job.stage = "sent" /\ apps[a].job.saw = {host.task}
<1> SUFFICES ASSUME IInv, [Next]_vars
             PROVE  /\ IInv'
                    /\ host'.task # host.task =>
                         \E a \in Apps : apps[a].job.stage = "sent" /\ apps[a].job.saw = {host.task}
  OBVIOUS
<1>1. CASE \E a \in Apps : App(a)
  BY <1>1, AppStep
<1>2. CASE Script \/ (\E t \in Terms : Exit(t)) \/ Restart
  BY <1>2, ScriptStep, ExitStep, RestartStep
<1>3. CASE UNCHANGED vars
  BY <1>3 DEF vars, IInv
<1> QED BY <1>1, <1>2, <1>3 DEF Next

\* The inductive invariant holds, however many windows, edits and restarts
\* there are.
THEOREM Invariants ==
  Spec => []IInv
BY InitIInv, NextIInv, PTL DEF Spec

\* Every commit and every restart gives the workspace a revision it never had,
\* replies keep to it, and a window that hears of a later one fetches it: so a
\* window that has heard of the latest and is not fetching shows it.
THEOREM WindowsCatchUp ==
  Spec => []QuietWindowIsCurrent
<1>1. IInv => QuietWindowIsCurrent
  BY DEF IInv, WindowIs, Held, Copy, Workspace, QuietWindowIsCurrent
<1> QED BY <1>1, Invariants, PTL

\* The to-do changes by an edit that is held against the revision only, and a
\* revision names one workspace: the window saw the to-do that it changes.
THEOREM ToDosAreSeenBefore ==
  Spec => NoLostUpdate
<1> DEFINE A == host'.task # host.task =>
                  \E a \in Apps : apps[a].job.stage = "sent" /\ apps[a].job.saw = {host.task}
<1>1. IInv /\ [Next]_vars => [A]_vars
  BY NextIInv
<1>2. NoLostUpdate <=> [][A]_vars
  BY DEF NoLostUpdate
<1> HIDE DEF A
<1> QED BY <1>1, <1>2, Invariants, PTL DEF Spec

(***************************************************************************)
(* Layouts.  A tree of panes is the set of the paths of its leaves, and    *)
(* what the proofs need of a path is what it is place by place.            *)
(***************************************************************************)
Paths == Seq(Branch)

\* The same turns for the first n places.
Agree(a, b, n) == \A i \in 1..n : a[i] = b[i]

LEMMA PathIs ==
  ASSUME NEW p \in Paths
  PROVE  Len(p) \in Nat /\ \A i \in 1..Len(p) : p[i] \in {0, 1}
BY DEF Paths, Branch

LEMMA SamePath ==
  ASSUME NEW p \in Paths, NEW q \in Paths, Len(p) = Len(q), Agree(p, q, Len(p))
  PROVE  p = q
BY SeqEqual DEF Paths, Agree

LEMMA PrefixIs ==
  ASSUME NEW p \in Paths, NEW q \in Paths
  PROVE  IsPrefix(p, q) <=> Len(p) <= Len(q) /\ Agree(p, q, Len(p))
<1>1. Len(p) \in Nat /\ Len(q) \in Nat
  BY PathIs
<1>2. ASSUME IsPrefix(p, q) PROVE Len(p) <= Len(q) /\ Agree(p, q, Len(p))
  <2>1. Len(p) <= Len(q) /\ SubSeq(p, 1, Len(p)) = SubSeq(q, 1, Len(p))
    BY <1>2 DEF IsPrefix
  <2>2. ASSUME NEW i \in 1..Len(p)
        PROVE  SubSeq(p, 1, Len(p))[i] = p[i] /\ SubSeq(q, 1, Len(p))[i] = q[i]
    BY <1>1, <2>1
  <2> QED BY <2>1, <2>2 DEF Agree
<1>3. ASSUME Len(p) <= Len(q), Agree(p, q, Len(p)) PROVE IsPrefix(p, q)
  BY <1>1, <1>3 DEF IsPrefix, Agree
<1> QED BY <1>2, <1>3

LEMMA FrontIs ==
  ASSUME NEW p \in Paths, p # <<>>
  PROVE  /\ Front(p) \in Paths /\ Len(p) \in Nat \ {0} /\ Len(Front(p)) = Len(p) - 1
         /\ Agree(Front(p), p, Len(p) - 1)
<1>1. Len(p) \in Nat \ {0}
  BY PathIs DEF Paths
<1>2. \A i \in 1..(Len(p) - 1) : i \in 1..Len(p)
  BY <1>1
<1>3. Front(p) \in Paths
  BY <1>1, <1>2, SubSeqProperties DEF Front, Paths
<1>4. Len(Front(p)) = Len(p) - 1
  <2>1. Len(SubSeq(p, 1, Len(p) - 1)) = IF 1 <= Len(p) - 1 THEN Len(p) - 1 - 1 + 1 ELSE 0
    BY <1>1, <1>2, SubSeqProperties DEF Paths
  <2>2. \A n \in Nat \ {0} : (IF 1 <= n - 1 THEN n - 1 - 1 + 1 ELSE 0) = n - 1
    OBVIOUS
  <2>3. Front(p) = SubSeq(p, 1, Len(p) - 1)
    BY DEF Front
  <2> QED BY <1>1, <2>1, <2>2, <2>3
<1>5. Agree(Front(p), p, Len(p) - 1)
  BY <1>1 DEF Front, Agree
<1> QED BY <1>1, <1>3, <1>4, <1>5

\* Without the nth turn.
LEMMA RemoveIs ==
  ASSUME NEW q \in Paths, NEW n \in 1..Len(q)
  PROVE  /\ RemoveAt(q, n) \in Paths /\ Len(RemoveAt(q, n)) = Len(q) - 1
         /\ \A i \in 1..(Len(q) - 1) : RemoveAt(q, n)[i] = IF i < n THEN q[i] ELSE q[i + 1]
<1> DEFINE a == SubSeq(q, 1, n - 1)
           b == SubSeq(q, n + 1, Len(q))
<1>1. Len(q) \in Nat /\ n \in Nat
  BY PathIs
<1>2. a \in Paths /\ Len(a) = n - 1 /\ \A i \in 1..(n - 1) : a[i] = q[i]
  <2>1. \A i \in 1..(n - 1) : i \in 1..Len(q)
    BY <1>1
  <2>2. a \in Paths
    BY <1>1, <2>1, SubSeqProperties DEF Paths
  <2> QED BY <1>1, <2>2
<1>3. b \in Paths /\ Len(b) = Len(q) - n /\ \A i \in 1..(Len(q) - n) : b[i] = q[n + i]
  <2>1. \A i \in (n + 1)..Len(q) : i \in 1..Len(q)
    BY <1>1
  <2>2. b \in Paths
    BY <1>1, <2>1, SubSeqProperties DEF Paths
  <2>3. Len(b) = Len(q) - n
    BY <1>1
  <2>4. ASSUME NEW i \in 1..(Len(q) - n) PROVE b[i] = q[n + i]
    BY <1>1
  <2> QED BY <2>2, <2>3, <2>4
<1>4. RemoveAt(q, n) = a \o b
  BY DEF RemoveAt
<1> HIDE DEF a, b
<1>5. a \o b \in Paths /\ Len(a \o b) = Len(q) - 1
  <2>1. a \o b \in Seq(Branch) /\ Len(a \o b) = Len(a) + Len(b)
    BY <1>2, <1>3, ConcatProperties DEF Paths
  <2> QED BY <1>1, <1>2, <1>3, <2>1 DEF Paths
<1>6. ASSUME NEW i \in 1..(Len(q) - 1)
      PROVE  (a \o b)[i] = IF i < n THEN q[i] ELSE q[i + 1]
  <2>1. (a \o b)[i] = IF i <= Len(a) THEN a[i] ELSE b[i - Len(a)]
    BY <1>1, <1>2, <1>3 DEF Paths
  <2>2. CASE i < n
    BY <1>1, <1>2, <2>1, <2>2
  <2>3. CASE ~(i < n)
    <3>1. (a \o b)[i] = b[i - (n - 1)]
      BY <1>1, <1>2, <2>1, <2>3
    <3>2. i - (n - 1) \in 1..(Len(q) - n) /\ n + (i - (n - 1)) = i + 1
      BY <1>1, <2>3
    <3>3. b[i - (n - 1)] = q[i + 1]
      BY <1>3, <3>2
    <3> QED BY <2>3, <3>1, <3>3
  <2> QED BY <2>2, <2>3
<1> QED BY <1>4, <1>5, <1>6

(***************************************************************************)
(* Trees, place by place.                                                  *)
(***************************************************************************)
\* No path below another.
Apart(D) == \A p, q \in D : Len(p) <= Len(q) /\ Agree(p, q, Len(p)) => p = q

\* Where a path turns, another one turns the other way.
Turns(D, p, i) == \E q \in D : i <= Len(q) /\ Agree(p, q, i - 1) /\ q[i] = 1 - p[i]
Forked(D) == \A p \in D : \A i \in 1..Len(p) : Turns(D, p, i)

LEMMA OtherTurn ==
  ASSUME NEW p \in Paths, NEW i \in 1..Len(p), NEW q \in Paths
  PROVE  IsPrefix(Append(SubSeq(p, 1, i - 1), 1 - p[i]), q)
           <=> i <= Len(q) /\ Agree(p, q, i - 1) /\ q[i] = 1 - p[i]
<1> DEFINE s == SubSeq(p, 1, i - 1)
           c == Append(s, 1 - p[i])
<1>1. Len(p) \in Nat /\ i \in Nat \ {0} /\ 1 - p[i] \in Branch /\ Len(q) \in Nat
  BY PathIs DEF Branch
<1>2. s \in Seq(Branch) /\ Len(s) = i - 1 /\ \A j \in 1..(i - 1) : s[j] = p[j]
  <2>1. \A j \in 1..(i - 1) : j \in 1..Len(p)
    BY <1>1
  <2>2. s \in Seq(Branch) /\ Len(s) = IF 1 <= i - 1 THEN i - 1 - 1 + 1 ELSE 0
    BY <1>1, <2>1, SubSeqProperties DEF Paths
  <2>3. Len(s) = i - 1 /\ \A j \in 1..(i - 1) : s[j] = p[j]
    BY <1>1, <2>2
  <2> QED BY <2>2, <2>3
<1> HIDE DEF s
<1>3. /\ c \in Paths /\ Len(c) = i
      /\ \A j \in 1..(i - 1) : c[j] = p[j] /\ c[i] = 1 - p[i]
      /\ c[i] = 1 - p[i]
  BY <1>1, <1>2, AppendProperties DEF Paths
<1> HIDE DEF c
<1>4. IsPrefix(c, q) <=> i <= Len(q) /\ Agree(c, q, i)
  BY <1>3, PrefixIs
<1>5. Agree(c, q, i) <=> Agree(p, q, i - 1) /\ q[i] = 1 - p[i]
  <2>1. ASSUME Agree(c, q, i) PROVE Agree(p, q, i - 1) /\ q[i] = 1 - p[i]
    BY <1>1, <1>3, <2>1 DEF Agree
  <2>2. ASSUME Agree(p, q, i - 1), q[i] = 1 - p[i] PROVE Agree(c, q, i)
    <3> SUFFICES ASSUME NEW j \in 1..i PROVE c[j] = q[j]
      BY DEF Agree
    <3>1. CASE j = i
      BY <1>3, <2>2, <3>1
    <3>2. CASE j # i
      <4>1. j \in 1..(i - 1)
        BY <1>1, <3>2
      <4> QED BY <1>3, <2>2, <4>1 DEF Agree
    <3> QED BY <3>1, <3>2
  <2> QED BY <2>1, <2>2
<1> QED BY <1>4, <1>5 DEF c, s

\* The shape that the model asks for, place by place.
LEMMA TreeIs ==
  ASSUME NEW l, DOMAIN l \subseteq Paths
  PROVE  TreeShaped(l) <=> Apart(DOMAIN l) /\ Forked(DOMAIN l)
<1> DEFINE D == DOMAIN l
<1>1. (\A p, q \in D : IsPrefix(p, q) => p = q) <=> Apart(D)
  BY PrefixIs DEF Apart
<1>2. (\A p \in D : \A i \in 1..Len(p) :
         \E q \in D : IsPrefix(Append(SubSeq(p, 1, i - 1), 1 - p[i]), q)) <=> Forked(D)
  <2>1. ASSUME NEW p \in D, NEW i \in 1..Len(p)
        PROVE  (\E q \in D : IsPrefix(Append(SubSeq(p, 1, i - 1), 1 - p[i]), q)) <=> Turns(D, p, i)
    <3>1. \A q \in D : IsPrefix(Append(SubSeq(p, 1, i - 1), 1 - p[i]), q)
                         <=> i <= Len(q) /\ Agree(p, q, i - 1) /\ q[i] = 1 - p[i]
      BY OtherTurn
    <3> QED BY <3>1, Zenon DEF Turns
  <2> QED BY <2>1, Zenon DEF Forked
<1> QED BY <1>1, <1>2 DEF TreeShaped

\* The panes of a tab, or none: a tree of bounded depth.
Panes(l) ==
  /\ l = [p \in DOMAIN l |-> l[p]] /\ DOMAIN l \subseteq Paths
  /\ Apart(DOMAIN l) /\ Forked(DOMAIN l)
  /\ \E n \in Nat : \A p \in DOMAIN l : Len(p) <= n

LEMMA NoPaneIs ==
  Panes(NoPane) /\ Ids(NoPane) = {} /\ Distinct(NoPane)
<1>1. DOMAIN NoPane = {} /\ NoPane = [p \in DOMAIN NoPane |-> NoPane[p]]
  BY DEF NoPane
<1> QED BY <1>1 DEF Panes, Apart, Forked, Ids, Distinct

LEMMA NonePane ==
  ASSUME NEW l, Panes(l)
  PROVE  l = NoPane <=> DOMAIN l = {}
<1>1. ASSUME DOMAIN l = {} PROVE l = NoPane
  BY <1>1 DEF Panes, NoPane
<1> QED BY <1>1 DEF NoPane

LEMMA LeafIs ==
  ASSUME NEW t
  PROVE  Panes(Leaf(t)) /\ Leaf(t) # NoPane /\ Ids(Leaf(t)) = {t} /\ Distinct(Leaf(t))
<1>1. /\ DOMAIN Leaf(t) = {<<>>} /\ Leaf(t) = [p \in DOMAIN Leaf(t) |-> Leaf(t)[p]]
      /\ Leaf(t)[<<>>] = t
  BY DEF Leaf
<1>2. <<>> \in Paths /\ Len(<<>>) = 0
  BY DEF Paths
<1>3. Panes(Leaf(t))
  BY <1>1, <1>2 DEF Panes, Apart, Forked
<1>4. Ids(Leaf(t)) = {t} /\ Distinct(Leaf(t))
  BY <1>1 DEF Ids, Distinct
<1> QED BY <1>1, <1>3, <1>4 DEF NoPane

(***************************************************************************)
(* Layout::without: where the paths go when p is taken out.                *)
(***************************************************************************)
\* A tree and one of its leaves.
LeafOf(p, D) == D \subseteq Paths /\ Apart(D) /\ Forked(D) /\ p \in D

\* Below the split that p is a half of.
Beside(p, q) == Len(p) - 1 <= Len(q) /\ Agree(p, q, Len(p) - 1)
Lifted(p, q) == IF IsPrefix(Front(p), q) THEN RemoveAt(q, Len(p)) ELSE q

\* q went through the split and lost the turn there.
Rose(p, q, r) ==
  /\ Beside(p, q) /\ Len(p) <= Len(q) /\ q[Len(p)] = 1 - p[Len(p)]
  /\ Len(r) = Len(q) - 1
  /\ \A i \in 1..(Len(q) - 1) : r[i] = IF i < Len(p) THEN q[i] ELSE q[i + 1]

LEMMA LiftedIs ==
  ASSUME NEW D, NEW p, LeafOf(p, D), NEW q \in D, q # p
  PROVE  /\ Len(p) \in Nat \ {0} /\ p \in Paths /\ q \in Paths /\ Lifted(p, q) \in Paths
         /\ Beside(p, q) => Rose(p, q, Lifted(p, q))
         /\ ~Beside(p, q) => Lifted(p, q) = q
<1>1. p \in Paths /\ q \in Paths /\ Len(p) \in Nat /\ Len(q) \in Nat /\ Apart(D)
  BY PathIs DEF LeafOf
<1>2. Len(p) # 0
  <2> SUFFICES ASSUME Len(p) = 0 PROVE FALSE
    OBVIOUS
  <2>1. Agree(p, q, Len(p))
    BY DEF Agree
  <2> QED BY <1>1, <2>1 DEF Apart, LeafOf
<1>3. p # <<>>
  BY <1>1, <1>2
<1>4. Front(p) \in Paths /\ Len(Front(p)) = Len(p) - 1 /\ Agree(Front(p), p, Len(p) - 1)
  BY <1>1, <1>3, FrontIs
<1>5. IsPrefix(Front(p), q) <=> Beside(p, q)
  <2>1. Agree(Front(p), q, Len(p) - 1) <=> Agree(p, q, Len(p) - 1)
    BY <1>4 DEF Agree
  <2> QED BY <1>1, <1>4, <2>1, PrefixIs DEF Beside
<1>6. CASE ~Beside(p, q)
  BY <1>1, <1>2, <1>5, <1>6 DEF Lifted
<1>7. CASE Beside(p, q)
  <2>1. Len(p) <= Len(q)
    <3> SUFFICES ASSUME Len(q) = Len(p) - 1 PROVE FALSE
      BY <1>1, <1>7 DEF Beside
    <3>1. Agree(q, p, Len(q))
      BY <1>7 DEF Beside, Agree
    <3> QED BY <1>1, <3>1 DEF Apart, LeafOf
  <2>2. q[Len(p)] = 1 - p[Len(p)]
    <3> SUFFICES ASSUME q[Len(p)] = p[Len(p)] PROVE FALSE
      BY <1>1, <1>2, <2>1, PathIs
    <3>1. Agree(p, q, Len(p))
      <4> SUFFICES ASSUME NEW i \in 1..Len(p) PROVE p[i] = q[i]
        BY DEF Agree
      <4>1. i = Len(p) \/ i \in 1..(Len(p) - 1)
        BY <1>1
      <4> QED BY <1>7, <4>1 DEF Beside, Agree
    <3> QED BY <1>1, <2>1, <3>1 DEF Apart, LeafOf
  <2>3. Lifted(p, q) = RemoveAt(q, Len(p)) /\ Len(p) \in 1..Len(q)
    BY <1>1, <1>2, <1>5, <1>7, <2>1 DEF Lifted
  <2> QED BY <1>1, <1>2, <1>7, <2>1, <2>2, <2>3, RemoveIs DEF Rose
<1> QED BY <1>6, <1>7

\* No path gets below another, none onto another.
LEMMA LiftedApart ==
  ASSUME NEW D, NEW p, LeafOf(p, D), NEW q \in D \ {p}, NEW r \in D \ {p},
         Len(Lifted(p, q)) <= Len(Lifted(p, r)),
         Agree(Lifted(p, q), Lifted(p, r), Len(Lifted(p, q)))
  PROVE  q = r
<1> DEFINE n == Len(p)
           x == Lifted(p, q)
           y == Lifted(p, r)
<1>1. /\ n \in Nat \ {0} /\ Len(q) \in Nat /\ Len(r) \in Nat
      /\ Beside(p, q) => Rose(p, q, x)
      /\ ~Beside(p, q) => x = q
      /\ Beside(p, r) => Rose(p, r, y)
      /\ ~Beside(p, r) => y = r
  BY LiftedIs, PathIs
<1>2. p \in Paths /\ Len(p) \in Nat /\ Apart(D) /\ p \in D
  BY PathIs DEF LeafOf
<1>3. Len(x) <= Len(y) /\ Agree(x, y, Len(x))
  OBVIOUS
<1> HIDE DEF x, y
<1>4. CASE Beside(p, q) /\ Beside(p, r)
  <2>1. Rose(p, q, x) /\ Rose(p, r, y)
    BY <1>1, <1>4
  <2>2. Len(q) <= Len(r) /\ n <= Len(q)
    BY <1>1, <1>3, <2>1 DEF Rose
  <2>3. Agree(q, r, Len(q))
    <3> SUFFICES ASSUME NEW i \in 1..Len(q) PROVE q[i] = r[i]
      BY DEF Agree
    <3>1. CASE i < n
      <4>1. i \in 1..(n - 1)
        BY <1>1, <3>1
      <4> QED BY <2>1, <4>1 DEF Rose, Beside, Agree
    <3>2. CASE i = n
      BY <1>1, <2>1, <3>2 DEF Rose
    <3>3. CASE i > n
      <4>1. i - 1 \in 1..(Len(q) - 1) /\ i - 1 \in 1..(Len(r) - 1) /\ ~(i - 1 < n) /\ (i - 1) + 1 = i
        BY <1>1, <2>2, <3>3
      <4>2. x[i - 1] = q[i] /\ y[i - 1] = r[i]
        BY <2>1, <4>1 DEF Rose
      <4>3. x[i - 1] = y[i - 1]
        BY <1>3, <2>1, <4>1 DEF Rose, Agree
      <4> QED BY <4>2, <4>3
    <3> QED BY <1>1, <3>1, <3>2, <3>3
  <2> QED BY <1>2, <2>2, <2>3 DEF Apart
<1>5. CASE Beside(p, q) /\ ~Beside(p, r)
  <2>1. Rose(p, q, x) /\ y = r
    BY <1>1, <1>5
  <2>2. n - 1 <= Len(x) /\ n - 1 <= Len(r)
    BY <1>1, <1>3, <2>1 DEF Rose
  <2>3. Agree(p, r, n - 1)
    <3> SUFFICES ASSUME NEW i \in 1..(n - 1) PROVE p[i] = r[i]
      BY DEF Agree
    <3>1. i \in 1..(Len(q) - 1) /\ i < n /\ i \in 1..Len(x)
      BY <1>1, <2>1 DEF Rose
    <3>2. p[i] = q[i] /\ x[i] = q[i]
      BY <2>1, <3>1 DEF Rose, Beside, Agree
    <3> QED BY <1>3, <2>1, <3>1, <3>2 DEF Agree
  <2> QED BY <1>5, <2>2, <2>3 DEF Beside
<1>6. CASE ~Beside(p, q) /\ Beside(p, r)
  <2>1. Rose(p, r, y) /\ x = q
    BY <1>1, <1>6
  <2>2. CASE Len(q) < n
    <3>1. Agree(q, p, Len(q))
      <4> SUFFICES ASSUME NEW i \in 1..Len(q) PROVE q[i] = p[i]
        BY DEF Agree
      <4>1. i \in 1..(Len(r) - 1) /\ i < n /\ i \in 1..(n - 1)
        BY <1>1, <2>1, <2>2 DEF Rose
      <4>2. p[i] = r[i] /\ y[i] = r[i]
        BY <2>1, <4>1 DEF Rose, Beside, Agree
      <4> QED BY <1>3, <2>1, <4>2 DEF Agree
    <3> QED BY <1>1, <1>2, <2>2, <3>1 DEF Apart
  <2>3. CASE n <= Len(q)
    <3>1. Agree(p, q, n - 1)
      <4> SUFFICES ASSUME NEW i \in 1..(n - 1) PROVE p[i] = q[i]
        BY DEF Agree
      <4>1. i \in 1..(Len(r) - 1) /\ i < n /\ i \in 1..Len(q)
        BY <1>1, <2>1, <2>3 DEF Rose
      <4>2. p[i] = r[i] /\ y[i] = r[i]
        BY <2>1, <4>1 DEF Rose, Beside, Agree
      <4> QED BY <1>3, <2>1, <4>1, <4>2 DEF Agree
    <3> QED BY <1>1, <1>6, <2>3, <3>1 DEF Beside
  <2> QED BY <1>1, <2>2, <2>3
<1>7. CASE ~Beside(p, q) /\ ~Beside(p, r)
  BY <1>1, <1>2, <1>3, <1>7 DEF Apart
<1> QED BY <1>4, <1>5, <1>6, <1>7

\* Where a path turned another one still turns the other way.
LEMMA LiftedForked ==
  ASSUME NEW D, NEW p, LeafOf(p, D), NEW q \in D \ {p}, NEW i \in 1..Len(Lifted(p, q))
  PROVE  \E r \in D \ {p} : /\ i <= Len(Lifted(p, r)) /\ Agree(Lifted(p, q), Lifted(p, r), i - 1)
                            /\ Lifted(p, r)[i] = 1 - Lifted(p, q)[i]
<1> DEFINE n == Len(p)
           x == Lifted(p, q)
           Up(r) == Lifted(p, r)
<1>1. /\ n \in Nat \ {0} /\ Len(q) \in Nat /\ Forked(D) /\ p \in D /\ p \in Paths
      /\ \A r \in D \ {p} : /\ Len(r) \in Nat
                            /\ Beside(p, r) => Rose(p, r, Up(r))
                            /\ ~Beside(p, r) => Up(r) = r
  BY LiftedIs, PathIs DEF LeafOf
<1>2. i \in Nat \ {0} /\ i <= Len(x) /\ Len(x) \in Nat
  <2>1. Len(x) \in Nat
    BY LiftedIs, PathIs
  <2> QED BY <2>1
<1>3. Beside(p, q) => Rose(p, q, x)
  BY <1>1
<1>4. ~Beside(p, q) => x = q
  BY <1>1
<1> HIDE DEF x, Up
<1>5. SUFFICES \E r \in D \ {p} : i <= Len(Up(r)) /\ Agree(x, Up(r), i - 1) /\ Up(r)[i] = 1 - x[i]
  BY DEF x, Up
<1>6. CASE Beside(p, q)
  <2>1. Rose(p, q, x)
    BY <1>3, <1>6
  <2>2. CASE i < n
    <3>1. i \in 1..(Len(q) - 1) /\ i \in 1..Len(q) /\ i \in 1..(n - 1) /\ x[i] = q[i]
      BY <1>1, <1>2, <2>1, <2>2 DEF Rose
    <3>2. PICK r \in D : i <= Len(r) /\ Agree(q, r, i - 1) /\ r[i] = 1 - q[i]
      BY <1>1, <3>1 DEF Forked, Turns
    <3>3. q[i] = p[i] /\ q[i] \in {0, 1}
      BY <1>6, <3>1, PathIs DEF Beside, Agree, LeafOf
    <3>4. r # p /\ ~Beside(p, r)
      <4>1. r[i] # p[i]
        BY <3>2, <3>3
      <4> QED BY <3>1, <4>1 DEF Beside, Agree
    <3>5. Up(r) = r
      BY <1>1, <3>4
    <3>6. Agree(x, r, i - 1)
      <4> SUFFICES ASSUME NEW j \in 1..(i - 1) PROVE x[j] = r[j]
        BY DEF Agree
      <4>1. j \in 1..(Len(q) - 1) /\ j < n
        BY <1>1, <1>2, <2>1, <2>2, <3>1
      <4> QED BY <2>1, <3>2, <4>1 DEF Rose, Agree
    <3> QED BY <3>1, <3>2, <3>4, <3>5, <3>6
  <2>3. CASE n <= i
    <3>1. i \in 1..(Len(q) - 1) /\ i + 1 \in 1..Len(q) /\ x[i] = q[i + 1] /\ n \in 1..i
      BY <1>1, <1>2, <2>1, <2>3 DEF Rose
    <3>2. PICK r \in D : i + 1 <= Len(r) /\ Agree(q, r, i) /\ r[i + 1] = 1 - q[i + 1]
      BY <1>1, <3>1 DEF Forked, Turns
    <3>3. r[n] = q[n] /\ r[n] # p[n]
      <4>1. p[n] \in {0, 1} /\ q[n] = 1 - p[n]
        BY <1>1, <2>1, PathIs DEF Rose
      <4> QED BY <3>1, <3>2, <4>1 DEF Agree
    <3>4. r \in D \ {p} /\ Len(r) \in Nat
      BY <1>1, <3>3
    <3>5. Beside(p, r)
      <4>1. n - 1 <= Len(r)
        BY <1>1, <1>2, <2>3, <3>2, <3>4
      <4>2. ASSUME NEW j \in 1..(n - 1) PROVE p[j] = r[j]
        <5>1. j \in 1..i
          BY <1>1, <1>2, <2>3
        <5> QED BY <1>6, <3>2, <5>1 DEF Beside, Agree
      <4> QED BY <4>1, <4>2 DEF Beside, Agree
    <3>6. Rose(p, r, Up(r))
      BY <1>1, <3>4, <3>5
    <3>7. i \in 1..(Len(r) - 1) /\ Up(r)[i] = r[i + 1] /\ i <= Len(Up(r))
      BY <1>1, <1>2, <2>3, <3>2, <3>4, <3>6 DEF Rose
    <3>8. Agree(x, Up(r), i - 1)
      <4> SUFFICES ASSUME NEW j \in 1..(i - 1) PROVE x[j] = Up(r)[j]
        BY DEF Agree
      <4>1. j \in 1..(Len(q) - 1) /\ j \in 1..(Len(r) - 1) /\ j \in 1..i /\ j + 1 \in 1..i
        BY <1>1, <1>2, <3>1, <3>7
      <4>2. q[j] = r[j] /\ q[j + 1] = r[j + 1]
        BY <3>2, <4>1 DEF Agree
      <4> QED BY <2>1, <3>6, <4>1, <4>2 DEF Rose
    <3> QED BY <3>1, <3>2, <3>4, <3>7, <3>8
  <2> QED BY <1>1, <1>2, <2>2, <2>3
<1>7. CASE ~Beside(p, q)
  <2>1. x = q
    BY <1>4, <1>7
  <2>2. PICK r \in D : i <= Len(r) /\ Agree(q, r, i - 1) /\ r[i] = 1 - q[i]
    BY <1>1, <1>2, <2>1 DEF Forked, Turns
  <2>3. ASSUME Agree(p, q, i - 1), n <= i PROVE FALSE
    <3>1. Agree(p, q, n - 1)
      <4> SUFFICES ASSUME NEW j \in 1..(n - 1) PROVE p[j] = q[j]
        BY DEF Agree
      <4>1. j \in 1..(i - 1)
        BY <1>1, <1>2, <2>3
      <4> QED BY <2>3, <4>1 DEF Agree
    <3>2. n - 1 <= Len(q)
      BY <1>1, <1>2, <2>1, <2>3
    <3> QED BY <1>7, <3>1, <3>2 DEF Beside
  <2>4. CASE r # p /\ ~Beside(p, r)
    BY <1>1, <2>1, <2>2, <2>4
  <2>5. CASE r # p /\ Beside(p, r)
    <3>1. Rose(p, r, Up(r)) /\ Len(r) \in Nat
      BY <1>1, <2>5
    <3>2. i < n
      <4> SUFFICES ASSUME n <= i PROVE FALSE
        BY <1>1, <1>2
      <4>1. Agree(p, q, n - 1)
        <5> SUFFICES ASSUME NEW j \in 1..(n - 1) PROVE p[j] = q[j]
          BY DEF Agree
        <5>1. j \in 1..(i - 1)
          BY <1>1, <1>2
        <5> QED BY <2>2, <2>5, <5>1 DEF Beside, Agree
      <4>2. n - 1 <= Len(q)
        BY <1>1, <1>2, <2>1
      <4> QED BY <1>7, <4>1, <4>2 DEF Beside
    <3>3. i \in 1..(Len(r) - 1) /\ Up(r)[i] = r[i] /\ i <= Len(Up(r))
      BY <1>1, <1>2, <3>1, <3>2 DEF Rose
    <3>4. Agree(q, Up(r), i - 1)
      <4> SUFFICES ASSUME NEW j \in 1..(i - 1) PROVE q[j] = Up(r)[j]
        BY DEF Agree
      <4>1. j \in 1..(Len(r) - 1) /\ j < n
        BY <1>1, <1>2, <3>2, <3>3
      <4> QED BY <2>2, <3>1, <4>1 DEF Rose, Agree
    <3> QED BY <2>1, <2>2, <2>5, <3>3, <3>4
  <2>6. CASE r = p
    <3>1. i < n
      <4>1. Agree(p, q, i - 1)
        BY <2>2, <2>6 DEF Agree
      <4> QED BY <1>1, <1>2, <2>3, <4>1
    <3>2. n \in 1..Len(p)
      BY <1>1
    <3>3. PICK s \in D : n <= Len(s) /\ Agree(p, s, n - 1) /\ s[n] = 1 - p[n]
      BY <1>1, <3>2 DEF Forked, Turns
    <3>4. s # p
      BY <1>1, <3>2, <3>3, PathIs
    <3>5. Len(s) \in Nat /\ Beside(p, s)
      BY <1>1, <3>3, <3>4 DEF Beside
    <3>6. Rose(p, s, Up(s))
      BY <1>1, <3>4, <3>5
    <3>7. i \in 1..(Len(s) - 1) /\ Up(s)[i] = s[i] /\ i <= Len(Up(s)) /\ i \in 1..(n - 1)
      BY <1>1, <1>2, <3>1, <3>3, <3>5, <3>6 DEF Rose
    <3>8. Up(s)[i] = 1 - q[i]
      BY <2>2, <2>6, <3>3, <3>7 DEF Agree
    <3>9. Agree(q, Up(s), i - 1)
      <4> SUFFICES ASSUME NEW j \in 1..(i - 1) PROVE q[j] = Up(s)[j]
        BY DEF Agree
      <4>1. j \in 1..(Len(s) - 1) /\ j < n /\ j \in 1..(n - 1)
        BY <1>1, <1>2, <3>1, <3>7
      <4>2. Up(s)[j] = s[j] /\ s[j] = p[j] /\ p[j] = q[j]
        BY <2>2, <2>6, <3>3, <3>6, <4>1 DEF Rose, Agree
      <4> QED BY <4>2
    <3> QED BY <2>1, <3>4, <3>3, <3>7, <3>8, <3>9
  <2> QED BY <2>4, <2>5, <2>6
<1> QED BY <1>6, <1>7

\* A pane less and the others as they were.
LEMMA WithoutIs ==
  ASSUME NEW l, Panes(l), Distinct(l), NEW t
  PROVE  /\ Panes(Without(l, t)) /\ Distinct(Without(l, t))
         /\ Ids(Without(l, t)) = Ids(l) \ {t}
<1>1. CASE t \notin Ids(l)
  BY <1>1 DEF Without
<1>2. CASE t \in Ids(l)
  <2> DEFINE D == DOMAIN l
             p == PathOf(l, t)
             rest == D \ {p}
             Up(r) == Lifted(p, r)
             M == {Up(r) : r \in rest}
             m == [q \in M |-> l[CHOOSE r \in rest : Up(r) = q]]
  <2>1. p \in D /\ l[p] = t
    BY <1>2 DEF Ids, PathOf
  <2>2. Without(l, t) = m
    BY <1>2 DEF Without, Lifted
  <2>3. LeafOf(p, D) /\ DOMAIN m = M /\ m = [q \in M |-> m[q]]
    BY <2>1 DEF LeafOf, Panes
  <2> HIDE DEF p
  <2>4. \A r \in rest : Up(r) \in Paths /\ Len(Up(r)) \in Nat /\ Len(Up(r)) <= Len(r)
    <3> SUFFICES ASSUME NEW r \in rest
                 PROVE  Up(r) \in Paths /\ Len(Up(r)) \in Nat /\ Len(Up(r)) <= Len(r)
      OBVIOUS
    <3>1. /\ r \in Paths /\ Up(r) \in Paths
          /\ Beside(p, r) => Rose(p, r, Up(r))
          /\ ~Beside(p, r) => Up(r) = r
      BY <2>3, LiftedIs
    <3>2. Len(r) \in Nat /\ Len(Up(r)) \in Nat
      BY <3>1, PathIs
    <3> QED BY <3>1, <3>2 DEF Rose
  <2>5. \A q, r \in rest : Len(Up(q)) <= Len(Up(r)) /\ Agree(Up(q), Up(r), Len(Up(q))) => q = r
    BY <2>3, LiftedApart
  <2>6. \A q \in rest : \A i \in 1..Len(Up(q)) :
          \E r \in rest : i <= Len(Up(r)) /\ Agree(Up(q), Up(r), i - 1) /\ Up(r)[i] = 1 - Up(q)[i]
    BY <2>3, LiftedForked
  <2> HIDE DEF Up
  <2>7. \A q, r \in rest : Up(q) = Up(r) => q = r
    BY <2>4, <2>5 DEF Agree
  <2>8. \A r \in rest : m[Up(r)] = l[r]
    <3> SUFFICES ASSUME NEW r \in rest PROVE m[Up(r)] = l[r]
      OBVIOUS
    <3>1. (CHOOSE s \in rest : Up(s) = Up(r)) = r
      BY <2>7
    <3> QED BY <3>1
  <2> HIDE DEF m
  <2>9. Ids(m) = Ids(l) \ {t}
    <3>1. Ids(m) = {l[r] : r \in rest}
      <4>1. DOMAIN m = {Up(r) : r \in rest}
        BY <2>3
      <4>2. \A q \in DOMAIN m : \E r \in rest : m[q] = l[r]
        BY <2>8, <4>1
      <4>3. \A r \in rest : \E q \in DOMAIN m : m[q] = l[r]
        BY <2>8, <4>1
      <4> QED BY <4>2, <4>3 DEF Ids
    <3>2. \A r \in rest : l[r] # t
      BY <2>1 DEF Distinct
    <3> QED BY <2>1, <3>1, <3>2 DEF Ids
  <2>10. Distinct(m)
    BY <2>3, <2>8 DEF Distinct
  <2>11. Apart(M)
    BY <2>5 DEF Apart
  <2>12. Forked(M)
    BY <2>6 DEF Forked, Turns
  <2>13. \E n \in Nat : \A q \in M : Len(q) <= n
    <3>1. PICK n \in Nat : \A q \in D : Len(q) <= n
      BY DEF Panes
    <3>2. \A q \in D : Len(q) \in Nat
      BY PathIs DEF Panes
    <3>3. \A q \in M : Len(q) <= n
      BY <2>4, <3>1, <3>2
    <3> QED BY <3>3
  <2>14. Panes(m)
    BY <2>3, <2>4, <2>11, <2>12, <2>13 DEF Panes
  <2> QED BY <2>2, <2>9, <2>10, <2>14
<1> QED BY <1>1, <1>2

(***************************************************************************)
(* Layout::split_beside, Layout::replace and the last pane.                *)
(***************************************************************************)
\* m has a pane more than l, the one of new.
Parted(l, new, m) ==
  /\ Panes(m) /\ m # NoPane
  /\ Distinct(l) /\ new \notin Ids(l) => Distinct(m) /\ Ids(m) = Ids(l) \cup {new}

\* A split makes a tree with one leaf more.
LEMMA SplitBesideIs ==
  ASSUME NEW l, Panes(l), NEW t \in Ids(l), NEW new, NEW before
  PROVE  Parted(l, new, SplitBeside(l, t, new, before))
<1> DEFINE D == DOMAIN l
           p == PathOf(l, t)
           x == IF before THEN 1 ELSE 0
           y == IF before THEN 0 ELSE 1
           kept == Append(p, x)
           made == Append(p, y)
           M == (D \ {p}) \cup {kept, made}
           m == [q \in M |-> IF q = made THEN new ELSE IF q = kept THEN t ELSE l[q]]
           n == Len(p)
<1>1. p \in D /\ l[p] = t
  BY DEF Ids, PathOf
<1>2. SplitBeside(l, t, new, before) = m
  <2>1. kept = Append(p, IF before THEN 1 ELSE 0) /\ made = Append(p, IF before THEN 0 ELSE 1)
    OBVIOUS
  <2> QED BY DEF SplitBeside
<1>3. D \subseteq Paths /\ Apart(D) /\ Forked(D) /\ \A q \in D : Len(q) \in Nat
  BY PathIs DEF Panes
<1>4. x \in {0, 1} /\ y = 1 - x /\ y \in {0, 1} /\ x = 1 - y
  OBVIOUS
<1>5. DOMAIN m = M /\ m = [q \in M |-> m[q]]
  OBVIOUS
<1> HIDE DEF p, x, y
\* What a longer path is.
<1>6. ASSUME NEW b \in {0, 1}
      PROVE  /\ Append(p, b) \in Paths /\ Len(Append(p, b)) = n + 1 /\ n \in Nat
             /\ Agree(Append(p, b), p, n) /\ Append(p, b)[n + 1] = b
  <2>1. b \in Branch /\ p \in Seq(Branch) /\ n \in Nat
    BY <1>1, <1>3 DEF Branch, Paths
  <2> QED BY <2>1, AppendProperties DEF Paths, Agree
<1>7. /\ kept \in Paths /\ Len(kept) = n + 1 /\ Agree(kept, p, n) /\ kept[n + 1] = x /\ n \in Nat
      /\ made \in Paths /\ Len(made) = n + 1 /\ Agree(made, p, n) /\ made[n + 1] = y
  BY <1>4, <1>6
<1> HIDE DEF kept, made
\* A path that is one of the new ones.
<1> DEFINE New(q) == Len(q) = n + 1 /\ Agree(q, p, n)
<1>8. /\ \A q \in M : q \in Paths /\ Len(q) \in Nat /\ ((q \in D /\ q # p) \/ New(q))
      /\ kept \in M /\ made \in M /\ New(kept) /\ New(made) /\ kept # made
  BY <1>3, <1>4, <1>7
<1>9. ASSUME NEW q, New(q), NEW r \in D, r # p
      PROVE  /\ ~(Len(q) <= Len(r) /\ Agree(q, r, Len(q)))
             /\ ~(Len(r) <= Len(q) /\ Agree(r, q, Len(r)))
  <2>1. ASSUME Len(q) <= Len(r), Agree(q, r, Len(q)) PROVE FALSE
    <3>1. Agree(p, r, n) /\ n <= Len(r)
      <4>1. \A i \in 1..n : i \in 1..Len(q)
        BY <1>7, <1>9
      <4> QED BY <1>3, <1>7, <1>9, <2>1, <4>1 DEF Agree
    <3> QED BY <1>1, <1>3, <1>9, <3>1 DEF Apart
  <2>2. ASSUME Len(r) <= Len(q), Agree(r, q, Len(r)) PROVE FALSE
    <3>1. CASE Len(r) <= n
      <4>1. Agree(r, p, Len(r))
        <5>1. \A i \in 1..Len(r) : i \in 1..n
          BY <1>3, <1>7, <1>9, <3>1
        <5> QED BY <1>9, <2>2, <5>1 DEF Agree
      <4> QED BY <1>1, <1>3, <1>9, <3>1, <4>1 DEF Apart
    <3>2. CASE Len(r) = n + 1
      <4>1. Agree(p, r, n) /\ n <= Len(r)
        <5>1. \A i \in 1..n : i \in 1..Len(r)
          BY <1>7, <3>2
        <5> QED BY <1>7, <1>9, <2>2, <3>2, <5>1 DEF Agree
      <4> QED BY <1>1, <1>3, <1>9, <4>1 DEF Apart
    <3> QED BY <1>3, <1>7, <1>9, <2>2, <3>1, <3>2
  <2> QED BY <2>1, <2>2
<1>10. kept \notin D \ {p} /\ made \notin D \ {p}
  BY <1>8, <1>9 DEF Agree
<1>11. Apart(M)
  <2> SUFFICES ASSUME NEW q \in M, NEW r \in M, Len(q) <= Len(r), Agree(q, r, Len(q))
               PROVE  q = r
    BY DEF Apart
  <2>1. CASE q \in D \ {p} /\ r \in D \ {p}
    BY <1>3, <2>1 DEF Apart
  <2>2. CASE q \in D \ {p} /\ New(r)
    BY <1>9, <2>2
  <2>3. CASE New(q) /\ r \in D \ {p}
    BY <1>9, <2>3
  <2>4. CASE q \in {kept, made} /\ r \in {kept, made}
    <3>1. q[n + 1] = r[n + 1]
      BY <1>7, <2>4 DEF Agree
    <3>2. x # y
      BY <1>4
    <3> QED BY <1>7, <2>4, <3>1, <3>2
  <2> QED BY <1>8, <2>1, <2>2, <2>3, <2>4
<1>12. Forked(M)
  <2> SUFFICES ASSUME NEW q \in M, NEW i \in 1..Len(q)
               PROVE  \E r \in M : i <= Len(r) /\ Agree(q, r, i - 1) /\ r[i] = 1 - q[i]
    BY DEF Forked, Turns
  <2>1. CASE q \in D \ {p}
    <3>1. PICK r \in D : i <= Len(r) /\ Agree(q, r, i - 1) /\ r[i] = 1 - q[i]
      BY <1>3, <2>1 DEF Forked, Turns
    <3>2. CASE r # p
      BY <3>1, <3>2
    <3>3. CASE r = p
      <4>1. i \in 1..n /\ \A j \in 1..(i - 1) : j \in 1..n
        BY <1>7, <1>8, <3>1, <3>3
      <4>2. Agree(q, kept, i - 1) /\ kept[i] = 1 - q[i] /\ i <= Len(kept)
        BY <1>7, <3>1, <3>3, <4>1 DEF Agree
      <4> QED BY <1>8, <4>2
    <3> QED BY <3>2, <3>3
  <2>2. CASE New(q) /\ i <= n
    <3>1. i \in 1..n /\ \A j \in 1..(i - 1) : j \in 1..n
      BY <1>7, <1>8, <2>2
    <3>2. PICK r \in D : i <= Len(r) /\ Agree(p, r, i - 1) /\ r[i] = 1 - p[i]
      BY <1>1, <1>3, <3>1 DEF Forked, Turns
    <3>3. r # p
      BY <1>1, <1>3, <3>1, <3>2, PathIs
    <3>4. Agree(q, r, i - 1) /\ r[i] = 1 - q[i]
      BY <2>2, <3>1, <3>2 DEF Agree
    <3> QED BY <3>2, <3>3, <3>4
  <2>3. CASE q \in {kept, made} /\ i = n + 1
    <3> DEFINE r == IF q = kept THEN made ELSE kept
    <3>1. r \in M /\ i <= Len(r) /\ r[i] = 1 - q[i]
      BY <1>4, <1>7, <1>8, <2>3
    <3>2. Agree(q, r, i - 1)
      <4>1. Agree(q, p, n) /\ Agree(r, p, n) /\ i - 1 = n
        BY <1>7, <2>3
      <4> QED BY <4>1 DEF Agree
    <3> QED BY <3>1, <3>2
  <2> QED BY <1>7, <1>8, <2>1, <2>2, <2>3
<1>13. \E k \in Nat : \A q \in M : Len(q) <= k
  <2>1. PICK k \in Nat : \A q \in D : Len(q) <= k
    BY DEF Panes
  <2>2. \A q \in M : Len(q) <= k + 1
    BY <1>1, <1>3, <1>7, <2>1
  <2> QED BY <2>1, <2>2
<1>14. Panes(m) /\ m # NoPane
  <2>1. Panes(m)
    BY <1>5, <1>8, <1>11, <1>12, <1>13 DEF Panes
  <2> QED BY <1>5, <1>8, <2>1, NonePane
<1>15. m[made] = new /\ m[kept] = t /\ \A q \in D \ {p} : m[q] = l[q]
  BY <1>8, <1>10
<1> HIDE DEF m
<1>16. ASSUME Distinct(l), new \notin Ids(l)
       PROVE  Distinct(m) /\ Ids(m) = Ids(l) \cup {new}
  <2>1. \A q \in D \ {p} : l[q] # t /\ l[q] # new
    BY <1>1, <1>16 DEF Distinct, Ids
  <2>2. t # new
    BY <1>16
  <2>3. Distinct(m)
    BY <1>5, <1>15, <1>16, <2>1, <2>2 DEF Distinct
  <2>4. Ids(m) = Ids(l) \cup {new}
    BY <1>1, <1>5, <1>15 DEF Ids
  <2> QED BY <2>3, <2>4
<1> QED BY <1>2, <1>14, <1>16 DEF Parted

\* A terminal for another: the tree keeps its shape.
LEMMA ReplaceLeafIs ==
  ASSUME NEW l, Panes(l), l # NoPane, NEW old, NEW new
  PROVE  Panes(ReplaceLeaf(l, old, new)) /\ ReplaceLeaf(l, old, new) # NoPane
<1> DEFINE m == ReplaceLeaf(l, old, new)
<1>1. DOMAIN m = DOMAIN l /\ m = [p \in DOMAIN m |-> m[p]]
  BY DEF ReplaceLeaf
<1> HIDE DEF m
<1>2. Panes(m)
  BY <1>1 DEF Panes
<1> QED BY <1>1, <1>2, NonePane DEF m

\* What holds at 0 and goes from each number to the next holds at all.
LEMMA NatAll ==
  ASSUME NEW S \in SUBSET Nat, 0 \in S, \A i \in S : i + 1 \in S
  PROVE  S = Nat
<1> DEFINE R == {ss \in Nat \X Nat : ss[1] < ss[2]}
<1>1. R = OpToRel(<, Nat)
  BY DEF OpToRel
<1>2. IsWellFoundedOn(R, Nat)
  BY <1>1, NatLessThanWellFounded
<1>3. \A x, y \in Nat : <<y, x>> \in R <=> y < x
  OBVIOUS
<1> HIDE DEF R
<1> SUFFICES ASSUME Nat \ S # {} PROVE FALSE
  OBVIOUS
<1>4. PICK x \in Nat \ S : \A y \in Nat \ S : ~ (<<y, x>> \in R)
  BY <1>2, WFMin
<1>5. x # 0 /\ x - 1 \in Nat /\ (x - 1) + 1 = x /\ x - 1 < x
  BY <1>4
<1>6. x - 1 \notin Nat \ S
  BY <1>3, <1>4, <1>5
<1> QED BY <1>4, <1>5, <1>6

\* The second half of every split leads to a pane.
LEMMA LastPaneIs ==
  ASSUME NEW l, Panes(l), l # NoPane
  PROVE  LastPane(l) \in Ids(l)
<1> DEFINE D == DOMAIN l
           All(p) == \A i \in 1..Len(p) : p[i] = 1
           S == {k \in Nat : (\E p \in D : All(p)) \/ \E p \in D : k <= Len(p) /\ \A i \in 1..k : p[i] = 1}
<1>1. /\ D # {} /\ D \subseteq Paths /\ Forked(D) /\ \A p \in D : Len(p) \in Nat
      /\ \A p \in D : \A i \in 1..Len(p) : p[i] \in {0, 1}
  BY NonePane, PathIs DEF Panes
<1>2. 0 \in S
  BY <1>1
<1>3. ASSUME NEW k \in S PROVE k + 1 \in S
  <2>1. CASE \E p \in D : All(p)
    BY <2>1
  <2>2. CASE ~\E p \in D : All(p)
    <3>1. PICK p \in D : k <= Len(p) /\ \A i \in 1..k : p[i] = 1
      BY <2>2
    <3>2. k + 1 \in 1..Len(p)
      <4>1. k # Len(p)
        BY <2>2, <3>1
      <4> QED BY <1>1, <3>1, <4>1
    <3>3. CASE p[k + 1] = 1
      <4>1. \A i \in 1..(k + 1) : i = k + 1 \/ i \in 1..k
        OBVIOUS
      <4>2. \A i \in 1..(k + 1) : p[i] = 1
        BY <3>1, <3>3, <4>1
      <4> QED BY <3>2, <4>2
    <3>4. CASE p[k + 1] = 0
      <4>1. PICK q \in D : k + 1 <= Len(q) /\ Agree(p, q, (k + 1) - 1) /\ q[k + 1] = 1 - p[k + 1]
        BY <1>1, <3>2 DEF Forked, Turns
      <4>2. \A i \in 1..(k + 1) : i = k + 1 \/ i \in 1..((k + 1) - 1)
        OBVIOUS
      <4>3. \A i \in 1..((k + 1) - 1) : i \in 1..k
        OBVIOUS
      <4>4. \A i \in 1..(k + 1) : q[i] = 1
        BY <3>1, <3>4, <4>1, <4>2, <4>3 DEF Agree
      <4> QED BY <4>1, <4>4
    <3> QED BY <1>1, <3>2, <3>3, <3>4
  <2> QED BY <2>1, <2>2
<1>4. S = Nat
  <2> HIDE DEF S
  <2>1. S \in SUBSET Nat
    BY DEF S
  <2> QED BY <1>2, <1>3, <2>1, NatAll
<1>5. PICK n \in Nat : \A p \in D : Len(p) <= n
  BY DEF Panes
<1>6. n + 1 \in S
  BY <1>4, <1>5
<1>7. \E p \in D : All(p)
  BY <1>1, <1>5, <1>6
<1> QED BY <1>7 DEF LastPane, Ids

(***************************************************************************)
(* One pane after the other.                                               *)
(***************************************************************************)
\* A sequence of the set, each of its elements once.
LEMMA SetToSeqIs ==
  ASSUME NEW S, IsFiniteSet(S)
  PROVE  /\ SetToSeq(S) \in [1..Cardinality(S) -> S] /\ Cardinality(S) \in Nat
         /\ {SetToSeq(S)[i] : i \in 1..Cardinality(S)} = S
<1> DEFINE n == Cardinality(S)
           s == SetToSeq(S)
<1>1. n \in Nat /\ ExistsBijection(1..n, S)
  BY FS_CardinalityType
<1>2. Bijection(1..n, S) # {}
  BY <1>1, Fun_ExistsBij, Zenon
<1>3. \E g \in [1..n -> S] : IsInjective(g)
  BY <1>2 DEF Bijection, Injection
<1>4. s \in [1..n -> S] /\ IsInjective(s)
  BY <1>3 DEF SetToSeq
<1>5. s \in Injection(1..n, S)
  BY <1>4 DEF Injection
<1>6. IsFiniteSet(1..n) /\ Cardinality(1..n) = n
  BY <1>1, FS_Interval
<1> HIDE DEF s, n
<1>7. s \in Surjection(1..n, S)
  <2>1. Cardinality(1..n) = Cardinality(S) <=> s \in Surjection(1..n, S)
    BY <1>5, FS_Injection
  <2> QED BY <1>6, <2>1 DEF n
<1>8. \A x \in S : \E i \in 1..n : s[i] = x
  BY <1>7 DEF Surjection
<1> QED BY <1>1, <1>4, <1>8 DEF s, n

\* The trees that come before the kth terminal is taken out.
Stages(l, s, k, f) == /\ DOMAIN f = 0..k /\ f = [i \in 0..k |-> f[i]] /\ f[0] = l
                      /\ \A i \in 1..k : f[i] = Without(f[i - 1], s[i])

\* The terminals can be taken out one after the other.
LEMMA StagesExist ==
  ASSUME NEW l, NEW s
  PROVE  \A k \in Nat : \E f : Stages(l, s, k, f)
<1> DEFINE S == {k \in Nat : \E f : Stages(l, s, k, f)}
<1>1. 0 \in S
  <2>1. Stages(l, s, 0, [i \in 0..0 |-> l])
    BY DEF Stages
  <2> QED BY <2>1
<1>2. ASSUME NEW k \in S PROVE k + 1 \in S
  <2>1. PICK f : Stages(l, s, k, f)
    OBVIOUS
  <2> DEFINE g == [i \in 0..(k + 1) |-> IF i = k + 1 THEN Without(f[k], s[k + 1]) ELSE f[i]]
  <2>2. k \in Nat /\ DOMAIN g = 0..(k + 1) /\ g = [i \in 0..(k + 1) |-> g[i]]
    OBVIOUS
  <2>3. g[0] = l /\ g[k + 1] = Without(f[k], s[k + 1]) /\ \A i \in 0..k : g[i] = f[i]
    BY <2>1, <2>2 DEF Stages
  <2> HIDE DEF g
  <2>4. ASSUME NEW i \in 1..(k + 1) PROVE g[i] = Without(g[i - 1], s[i])
    <3>1. i - 1 \in 0..k /\ (i = k + 1 \/ i \in 1..k)
      BY <2>2
    <3>2. g[i - 1] = f[i - 1]
      BY <2>3, <3>1
    <3>3. CASE i = k + 1
      <4>1. i - 1 = k
        BY <2>2, <3>3
      <4> QED BY <2>3, <3>2, <3>3, <4>1
    <3>4. CASE i \in 1..k
      <4>1. i \in 0..k
        BY <2>2, <3>4
      <4>2. \A j \in 1..k : f[j] = Without(f[j - 1], s[j])
        BY <2>1, Zenon DEF Stages
      <4>3. f[i] = Without(f[i - 1], s[i])
        BY <3>4, <4>2, Zenon
      <4> QED BY <2>3, <3>2, <4>1, <4>3
    <3> QED BY <3>1, <3>3, <3>4
  <2>5. Stages(l, s, k + 1, g)
    BY <2>2, <2>3, <2>4 DEF Stages
  <2> QED BY <2>2, <2>5
<1>3. S = Nat
  <2> HIDE DEF S
  <2>1. S \in SUBSET Nat
    BY DEF S
  <2> QED BY <1>1, <1>2, <2>1, NatAll
<1> QED BY <1>3

\* What is left after each of them is a tree of the others.
LEMMA StagesAre ==
  ASSUME NEW l, Panes(l), Distinct(l), NEW s, NEW k \in Nat, NEW f, Stages(l, s, k, f)
  PROVE  Panes(f[k]) /\ Distinct(f[k]) /\ Ids(f[k]) = Ids(l) \ {s[i] : i \in 1..k}
<1> DEFINE Good(n) == Panes(f[n]) /\ Distinct(f[n]) /\ Ids(f[n]) = Ids(l) \ {s[i] : i \in 1..n}
           S == {n \in Nat : n <= k => Good(n)}
<1>1. 0 \in S
  BY DEF Stages
<1>2. ASSUME NEW n \in S PROVE n + 1 \in S
  <2> SUFFICES ASSUME n + 1 <= k PROVE Good(n + 1)
    OBVIOUS
  <2>1. n \in Nat /\ Good(n) /\ n + 1 \in 1..k /\ (n + 1) - 1 = n
    OBVIOUS
  <2>2. f[n + 1] = Without(f[n], s[n + 1])
    BY <2>1 DEF Stages
  <2>3. /\ Panes(f[n + 1]) /\ Distinct(f[n + 1]) /\ Ids(f[n + 1]) = Ids(f[n]) \ {s[n + 1]}
    BY <2>1, <2>2, WithoutIs
  <2>4. {s[i] : i \in 1..(n + 1)} = {s[i] : i \in 1..n} \cup {s[n + 1]}
    <3>1. \A i : i \in 1..(n + 1) <=> (i \in 1..n \/ i = n + 1)
      BY <2>1
    <3> QED BY <3>1
  <2> QED BY <2>1, <2>3, <2>4
<1>3. S = Nat
  <2> HIDE DEF S
  <2>1. S \in SUBSET Nat
    BY DEF S
  <2> QED BY <1>1, <1>2, <2>1, NatAll
<1>4. k \in S
  BY <1>3
<1> QED BY <1>4

\* A tree without some terminals is a tree of the others.
LEMMA WithoutAllIs ==
  ASSUME NEW l, Panes(l), Distinct(l), NEW ts, IsFiniteSet(ts)
  PROVE  /\ Panes(WithoutAll(l, ts)) /\ Distinct(WithoutAll(l, ts))
         /\ Ids(WithoutAll(l, ts)) = Ids(l) \ ts
<1> DEFINE s == SetToSeq(ts)
           k == Cardinality(ts)
           F(f) == [n \in 0..Len(s) |-> IF n = 0 THEN l ELSE Without(f[n - 1], s[n])]
           g == CHOOSE f : f = F(f)
<1>1. s \in [1..k -> ts] /\ k \in Nat /\ {s[i] : i \in 1..k} = ts
  BY SetToSeqIs
<1>2. Len(s) = k
  <2> HIDE DEF s, k
  <2> QED BY <1>1
<1>3. WithoutAll(l, ts) = g[Len(s)]
  BY DEF WithoutAll
<1> HIDE DEF s, k
<1>4. ASSUME NEW f PROVE f = F(f) <=> Stages(l, s, k, f)
  <2>1. ASSUME f = F(f) PROVE Stages(l, s, k, f)
    <3>1. DOMAIN f = 0..k
      BY <1>2, <2>1
    <3>2. f = [i \in 0..k |-> f[i]]
      BY <1>2, <2>1
    <3>3. f[0] = l
      BY <1>1, <1>2, <2>1
    <3>4. \A i \in 1..k : f[i] = Without(f[i - 1], s[i])
      BY <1>1, <1>2, <2>1
    <3> QED BY <3>1, <3>2, <3>3, <3>4 DEF Stages
  <2>2. ASSUME Stages(l, s, k, f) PROVE f = F(f)
    <3>1. f = [i \in 0..k |-> f[i]]
      BY <2>2 DEF Stages
    <3>2. ASSUME NEW i \in 0..k PROVE f[i] = F(f)[i]
      <4>1. F(f)[i] = IF i = 0 THEN l ELSE Without(f[i - 1], s[i])
        BY <1>2
      <4>2. CASE i = 0
        BY <2>2, <4>1, <4>2 DEF Stages
      <4>3. CASE i # 0
        <5>1. i \in 1..k
          BY <1>1, <4>3
        <5> QED BY <2>2, <4>1, <4>3, <5>1 DEF Stages
      <4> QED BY <4>2, <4>3
    <3>3. F(f) = [i \in 0..k |-> F(f)[i]]
      BY <1>2
    <3> HIDE DEF F
    <3> QED BY <3>1, <3>2, <3>3
  <2> QED BY <2>1, <2>2
<1>5. \E f : f = F(f)
  BY <1>1, <1>4, StagesExist
<1>6. g = F(g)
  <2> HIDE DEF F
  <2> QED BY <1>5
<1> HIDE DEF g
<1>7. Stages(l, s, k, g)
  BY <1>4, <1>6
<1> QED BY <1>1, <1>2, <1>3, <1>7, StagesAre

(***************************************************************************)
(* The nth of a finite set, by the numbers of its elements.                *)
(***************************************************************************)
Rank(S, at, x) == Cardinality({y \in S : at[y] < at[x]})

\* Different numbers have different ranks, and each rank is taken.
LEMMA RankIs ==
  ASSUME NEW S, IsFiniteSet(S), NEW at, \A x \in S : at[x] \in Nat,
         \A x, y \in S : at[x] = at[y] => x = y
  PROVE  /\ Cardinality(S) \in Nat
         /\ \A x \in S : Rank(S, at, x) \in 0..(Cardinality(S) - 1)
         /\ \A x, y \in S : Rank(S, at, x) = Rank(S, at, y) => x = y
         /\ \A k \in 0..(Cardinality(S) - 1) : \E x \in S : Rank(S, at, x) = k
<1> DEFINE n == Cardinality(S)
           Below(x) == {y \in S : at[y] < at[x]}
           r == [x \in S |-> Rank(S, at, x)]
<1>1. n \in Nat
  BY FS_CardinalityType
<1>2. ASSUME NEW x \in S
      PROVE  IsFiniteSet(Below(x)) /\ Rank(S, at, x) \in 0..(n - 1)
  <2>1. /\ IsFiniteSet(Below(x)) /\ Cardinality(Below(x)) <= n
        /\ n = Cardinality(Below(x)) => S = Below(x)
    <3>1. Below(x) \in SUBSET S
      OBVIOUS
    <3> HIDE DEF Below
    <3> QED BY <3>1, FS_Subset
  <2>2. x \notin Below(x)
    BY <1>2
  <2>3. Cardinality(Below(x)) \in Nat
    BY <2>1, FS_CardinalityType
  <2>4. Cardinality(Below(x)) # n
    BY <2>1, <2>2
  <2>5. Rank(S, at, x) = Cardinality(Below(x))
    BY DEF Rank
  <2> HIDE DEF Below, n
  <2> QED BY <1>1, <2>1, <2>3, <2>4, <2>5
<1>3. ASSUME NEW x \in S, NEW y \in S, at[x] < at[y]
      PROVE  Rank(S, at, x) < Rank(S, at, y)
  <2>1. Below(x) \in SUBSET Below(y)
    BY <1>3
  <2>2. x \in Below(y) /\ x \notin Below(x)
    BY <1>3
  <2>3. /\ Cardinality(Below(x)) <= Cardinality(Below(y))
        /\ Cardinality(Below(y)) = Cardinality(Below(x)) => Below(y) = Below(x)
    <3>1. IsFiniteSet(Below(y))
      BY <1>2
    <3> HIDE DEF Below
    <3> QED BY <2>1, <3>1, FS_Subset
  <2>4. Rank(S, at, x) = Cardinality(Below(x)) /\ Rank(S, at, y) = Cardinality(Below(y))
    BY DEF Rank
  <2>5. Rank(S, at, x) \in Nat /\ Rank(S, at, y) \in Nat
    <3>1. Rank(S, at, x) \in 0..(n - 1) /\ Rank(S, at, y) \in 0..(n - 1)
      BY <1>2
    <3> HIDE DEF Below, n
    <3> QED BY <1>1, <3>1
  <2> HIDE DEF Below
  <2> QED BY <2>2, <2>3, <2>4, <2>5
<1>4. ASSUME NEW x \in S, NEW y \in S, Rank(S, at, x) = Rank(S, at, y) PROVE x = y
  <2>1. at[x] \in Nat /\ at[y] \in Nat
    OBVIOUS
  <2>2. Rank(S, at, x) \in Nat /\ Rank(S, at, y) \in Nat
    <3>1. Rank(S, at, x) \in 0..(n - 1) /\ Rank(S, at, y) \in 0..(n - 1)
      BY <1>2
    <3> HIDE DEF Below, n
    <3> QED BY <1>1, <3>1
  <2>3. ~(at[x] < at[y]) /\ ~(at[y] < at[x])
    BY <1>3, <1>4, <2>2
  <2> QED BY <2>1, <2>3
<1>5. r \in Injection(S, 0..(n - 1))
  <2>1. r \in [S -> 0..(n - 1)]
    BY <1>2
  <2>2. \A x, y \in S : r[x] = r[y] => x = y
    BY <1>4
  <2> HIDE DEF r
  <2> QED BY <2>1, <2>2 DEF Injection, IsInjective
<1>6. IsFiniteSet(0..(n - 1)) /\ Cardinality(0..(n - 1)) = n
  <2>1. /\ IsFiniteSet(0..(n - 1))
        /\ Cardinality(0..(n - 1)) = IF 0 > n - 1 THEN 0 ELSE (n - 1) - 0 + 1
    <3> HIDE DEF n
    <3> QED BY <1>1, FS_Interval
  <2> HIDE DEF n
  <2> QED BY <1>1, <2>1
<1>7. r \in Surjection(S, 0..(n - 1))
  <2>1. Cardinality(S) = Cardinality(0..(n - 1)) <=> r \in Surjection(S, 0..(n - 1))
    <3> HIDE DEF r, n
    <3> QED BY <1>5, <1>6, FS_Injection
  <2> QED BY <1>6, <2>1
<1>8. \A k \in 0..(n - 1) : \E x \in S : r[x] = k
  <2> HIDE DEF r
  <2> QED BY <1>7 DEF Surjection
<1>9. \A k \in 0..(n - 1) : \E x \in S : Rank(S, at, x) = k
  BY <1>8
<1> QED BY <1>1, <1>2, <1>4, <1>9

\* The nth is there, and each element is the nth for one n.
LEMMA NthIs ==
  ASSUME NEW S, IsFiniteSet(S), NEW at, \A x \in S : at[x] \in Nat,
         \A x, y \in S : at[x] = at[y] => x = y
  PROVE  /\ Cardinality(S) \in Nat
         /\ \A k \in 1..Cardinality(S) : Nth(S, at, k) \in S /\ Rank(S, at, Nth(S, at, k)) = k - 1
         /\ \A x \in S : /\ Rank(S, at, x) + 1 \in 1..Cardinality(S)
                         /\ Nth(S, at, Rank(S, at, x) + 1) = x
<1> DEFINE n == Cardinality(S)
<1>1. /\ n \in Nat
      /\ \A x \in S : Rank(S, at, x) \in 0..(n - 1)
      /\ \A x, y \in S : Rank(S, at, x) = Rank(S, at, y) => x = y
      /\ \A k \in 0..(n - 1) : \E x \in S : Rank(S, at, x) = k
  BY RankIs
<1>2. \A k : Nth(S, at, k) = CHOOSE x \in S : Rank(S, at, x) = k - 1
  BY DEF Nth, Rank
<1> HIDE DEF n
<1>3. ASSUME NEW k \in 1..n
      PROVE  Nth(S, at, k) \in S /\ Rank(S, at, Nth(S, at, k)) = k - 1
  <2>1. k - 1 \in 0..(n - 1)
    BY <1>1
  <2>2. \E x \in S : Rank(S, at, x) = k - 1
    BY <1>1, <2>1
  <2> QED BY <1>2, <2>2
<1>4. ASSUME NEW x \in S
      PROVE  Rank(S, at, x) + 1 \in 1..n /\ Nth(S, at, Rank(S, at, x) + 1) = x
  <2>1. Rank(S, at, x) \in 0..(n - 1)
    BY <1>1
  <2>2. Rank(S, at, x) + 1 \in 1..n /\ (Rank(S, at, x) + 1) - 1 = Rank(S, at, x)
    BY <1>1, <2>1
  <2>3. Rank(S, at, Nth(S, at, Rank(S, at, x) + 1)) = Rank(S, at, x)
    BY <1>3, <2>2
  <2> QED BY <1>1, <1>3, <2>2, <2>3
<1> QED BY <1>1, <1>3, <1>4 DEF n

(***************************************************************************)
(* Lists of tabs.                                                          *)
(***************************************************************************)
Lists(s) == Len(s) \in Nat /\ s = [k \in 1..Len(s) |-> s[k]]

LEMMA ListIs ==
  ASSUME NEW s, Lists(s)
  PROVE  DOMAIN s = 1..Len(s)
BY DEF Lists

LEMMA ListOf ==
  ASSUME NEW n \in Nat, NEW s, DOMAIN s = 1..n, s = [k \in 1..n |-> s[k]]
  PROVE  Lists(s) /\ Len(s) = n
<1>1. Len(s) = n
  BY DOMAIN s = 1..n, n \in Nat
<1> QED BY <1>1 DEF Lists

\* g says which places are kept, in which order.
Keeps(s, I, r, g) ==
  /\ g \in [1..Len(r) -> I] /\ \A j, k \in 1..Len(r) : g[j] = g[k] => j = k
  /\ \A i \in I : \E k \in 1..Len(r) : g[k] = i
  /\ \A k \in 1..Len(r) : r[k] = s[g[k]]

\* A list that is kept in part is a list of what is kept, each once.
LEMMA RetainedIs ==
  ASSUME NEW s, Lists(s), NEW I \in SUBSET DOMAIN s
  PROVE  Lists(Retained(s, I)) /\ \E g : Keeps(s, I, Retained(s, I), g)
<1> DEFINE at == [i \in I |-> i]
           c == Cardinality(I)
           g == [k \in 1..c |-> Nth(I, at, k)]
           r == [k \in 1..c |-> s[Nth(I, at, k)]]
<1>1. IsFiniteSet(I)
  <2>1. IsFiniteSet(1..Len(s)) /\ I \in SUBSET (1..Len(s))
    <3>1. Len(s) \in Int /\ DOMAIN s = 1..Len(s)
      BY ListIs DEF Lists
    <3>2. IsFiniteSet(1..Len(s))
      BY <3>1, FS_Interval
    <3> QED BY <3>1, <3>2
  <2> QED BY <2>1, FS_Subset
<1>2. (\A x \in I : at[x] \in Nat) /\ (\A x, y \in I : at[x] = at[y] => x = y)
  BY ListIs DEF Lists
<1>3. Retained(s, I) = r
  BY DEF Retained
<1> HIDE DEF at
<1>4. /\ c \in Nat
      /\ \A k \in 1..c : Nth(I, at, k) \in I /\ Rank(I, at, Nth(I, at, k)) = k - 1
      /\ \A x \in I : Rank(I, at, x) + 1 \in 1..c /\ Nth(I, at, Rank(I, at, x) + 1) = x
  BY <1>1, <1>2, NthIs
<1> HIDE DEF c
<1>5. Lists(r) /\ Len(r) = c
  BY <1>4, ListOf
<1>6. g \in [1..c -> I]
  BY <1>4
<1>7. \A j, k \in 1..c : g[j] = g[k] => j = k
  <2> SUFFICES ASSUME NEW j \in 1..c, NEW k \in 1..c, Nth(I, at, j) = Nth(I, at, k) PROVE j = k
    OBVIOUS
  <2>1. j - 1 = k - 1
    BY <1>4
  <2> QED BY <2>1
<1>8. \A i \in I : \E k \in 1..c : g[k] = i
  BY <1>4
<1>9. \A k \in 1..c : r[k] = s[g[k]]
  OBVIOUS
<1> HIDE DEF g, r
<1> QED BY <1>3, <1>5, <1>6, <1>7, <1>8, <1>9 DEF Keeps

(***************************************************************************)
(* What the tabs of a workspace are.                                       *)
(***************************************************************************)
TabIs(b) == b = Tab(b.id, b.space, b.panes) /\ Panes(b.panes)

\* The tabs of spaces with terminals of made, none in two places.
Tiled(s, spaces, made) ==
  /\ Lists(s)
  /\ \A i \in DOMAIN s : /\ TabIs(s[i]) /\ Distinct(s[i].panes)
                         /\ s[i].space \in spaces /\ Ids(s[i].panes) \subseteq made
  /\ \A i, j \in DOMAIN s : i # j => /\ s[i].id # s[j].id
                                     /\ Ids(s[i].panes) \cap Ids(s[j].panes) = {}
Full(s) == \A i \in DOMAIN s : s[i].panes # NoPane
TabsAre(s, spaces, made) == Tiled(s, spaces, made) /\ Full(s)

LEMMA TabFields ==
  ASSUME NEW id, NEW space, NEW panes
  PROVE  LET b == Tab(id, space, panes)
         IN  /\ b.id = id /\ b.space = space /\ b.panes = panes /\ b = Tab(b.id, b.space, b.panes)
             /\ \A x : [b EXCEPT !.panes = x] = Tab(id, space, x)
BY DEF Tab

LEMMA PanesGiven ==
  ASSUME NEW b, TabIs(b), NEW x
  PROVE  LET c == [b EXCEPT !.panes = x]
         IN  c = Tab(b.id, b.space, x) /\ c.id = b.id /\ c.space = b.space /\ c.panes = x
<1>1. b = Tab(b.id, b.space, b.panes)
  BY DEF TabIs
<1> QED BY <1>1 DEF Tab

\* r is some of the elements of s: h says which places they had.
Picks(s, r, h) ==
  /\ \A k \in 1..Len(r) : h[k] \in DOMAIN s /\ r[k] = s[h[k]]
  /\ \A j, k \in 1..Len(r) : h[j] = h[k] => j = k

\* Some of the tabs, each once and in any order.
LEMMA SomeTabs ==
  ASSUME NEW s, NEW spaces, NEW made, Tiled(s, spaces, made),
         NEW r, Lists(r), NEW h, Picks(s, r, h),
         NEW kept, \A k \in 1..Len(r) : r[k].space \in kept
  PROVE  Tiled(r, kept, made) /\ (Full(s) => Full(r))
<1>1. /\ DOMAIN r = 1..Len(r) /\ \A k \in 1..Len(r) : h[k] \in DOMAIN s /\ r[k] = s[h[k]]
      /\ \A j, k \in 1..Len(r) : h[j] = h[k] => j = k
  BY ListIs DEF Picks
<1>2. \A k \in DOMAIN r : /\ TabIs(r[k]) /\ Distinct(r[k].panes)
                          /\ r[k].space \in kept /\ Ids(r[k].panes) \subseteq made
  BY <1>1 DEF Tiled
<1>3. ASSUME NEW j \in DOMAIN r, NEW k \in DOMAIN r, j # k
      PROVE  r[j].id # r[k].id /\ Ids(r[j].panes) \cap Ids(r[k].panes) = {}
  <2>1. h[j] # h[k] /\ h[j] \in DOMAIN s /\ h[k] \in DOMAIN s /\ r[j] = s[h[j]] /\ r[k] = s[h[k]]
    BY <1>1, <1>3
  <2> QED BY <2>1 DEF Tiled
<1>4. Full(s) => Full(r)
  BY <1>1 DEF Full
<1> QED BY <1>2, <1>3, <1>4 DEF Tiled

\* Some of the tabs are as tidy as all of them.
LEMMA RetainedTabs ==
  ASSUME NEW s, NEW spaces, NEW made, Tiled(s, spaces, made),
         NEW I \in SUBSET DOMAIN s, NEW kept, \A i \in I : s[i].space \in kept
  PROVE  LET r == Retained(s, I)
         IN  /\ Tiled(r, kept, made) /\ (Full(s) => Full(r)) /\ Lists(r)
             /\ \A k \in 1..Len(r) : \E i \in I : r[k] = s[i]
             /\ \A i \in I : \E k \in 1..Len(r) : r[k] = s[i]
<1> DEFINE r == Retained(s, I)
<1>1. Lists(s)
  BY DEF Tiled
<1>2. Lists(r) /\ \E g : Keeps(s, I, r, g)
  BY <1>1, RetainedIs
<1> HIDE DEF r
<1>3. PICK g : Keeps(s, I, r, g)
  BY <1>2
<1>4. /\ Picks(s, r, g)
      /\ \A k \in 1..Len(r) : r[k] = s[g[k]] /\ g[k] \in I
      /\ \A i \in I : \E k \in 1..Len(r) : g[k] = i
  BY <1>3 DEF Keeps, Picks
<1>5. \A k \in 1..Len(r) : r[k].space \in kept
  BY <1>4
<1>6. Tiled(r, kept, made) /\ (Full(s) => Full(r))
  BY <1>2, <1>4, <1>5, SomeTabs
<1> QED BY <1>2, <1>4, <1>6 DEF r

\* r has the tabs of s with these panes, but for those that have none.
Shows(r, s, panes) ==
  /\ \A k \in 1..Len(r) :
       \E i \in DOMAIN s : r[k].id = s[i].id /\ r[k].panes = panes[i] /\ panes[i] # NoPane
  /\ \A i \in DOMAIN s : panes[i] # NoPane =>
       \E k \in 1..Len(r) : r[k].id = s[i].id /\ r[k].panes = panes[i]

\* Other panes: those that are left with none close.
LEMMA RepanedTabs ==
  ASSUME NEW s, NEW spaces, NEW made, Tiled(s, spaces, made), NEW panes,
         \A i \in DOMAIN s : /\ Panes(panes[i]) /\ Distinct(panes[i])
                             /\ Ids(panes[i]) \subseteq made,
         \A i, j \in DOMAIN s : i # j => Ids(panes[i]) \cap Ids(panes[j]) = {}
  PROVE  TabsAre(Repaned(s, panes), spaces, made) /\ Shows(Repaned(s, panes), s, panes)
<1> DEFINE now == [i \in DOMAIN s |-> [s[i] EXCEPT !.panes = panes[i]]]
           I == {i \in DOMAIN now : now[i].panes # NoPane}
           r == Retained(now, I)
<1>1. Repaned(s, panes) = r
  BY DEF Repaned
<1>2. DOMAIN now = DOMAIN s /\ Lists(now)
  <2>1. DOMAIN s = 1..Len(s) /\ Len(s) \in Nat
    BY ListIs DEF Tiled, Lists
  <2>2. DOMAIN now = 1..Len(s) /\ now = [i \in 1..Len(s) |-> now[i]]
    BY <2>1
  <2> HIDE DEF now
  <2> QED BY <2>1, <2>2, ListOf
<1>3. \A i \in DOMAIN s : now[i] = [s[i] EXCEPT !.panes = panes[i]]
  OBVIOUS
<1> HIDE DEF now
<1>4. ASSUME NEW i \in DOMAIN s
      PROVE  /\ now[i].id = s[i].id /\ now[i].space = s[i].space /\ now[i].panes = panes[i]
             /\ TabIs(now[i])
  <2>1. TabIs(s[i])
    BY DEF Tiled
  <2>2. /\ now[i] = Tab(s[i].id, s[i].space, panes[i])
        /\ now[i].id = s[i].id /\ now[i].space = s[i].space /\ now[i].panes = panes[i]
    <3> DEFINE c == [s[i] EXCEPT !.panes = panes[i]]
    <3>1. /\ c = Tab(s[i].id, s[i].space, panes[i])
          /\ c.id = s[i].id /\ c.space = s[i].space /\ c.panes = panes[i]
      BY <2>1, PanesGiven
    <3>2. now[i] = c
      BY <1>3
    <3> HIDE DEF c
    <3> QED BY <3>1, <3>2
  <2>3. Panes(now[i].panes)
    BY <2>2
  <2> QED BY <2>2, <2>3 DEF TabIs
<1>5. Tiled(now, spaces, made)
  BY <1>2, <1>4 DEF Tiled
<1>6. I = {i \in DOMAIN s : panes[i] # NoPane}
  BY <1>2, <1>4
<1> HIDE DEF I
<1>7. /\ Tiled(r, spaces, made) /\ Lists(r)
      /\ \A k \in 1..Len(r) : \E i \in I : r[k] = now[i]
      /\ \A i \in I : \E k \in 1..Len(r) : r[k] = now[i]
  <2>1. I \in SUBSET DOMAIN now /\ \A i \in I : now[i].space \in spaces
    BY <1>2, <1>5, <1>6 DEF Tiled
  <2> QED BY <1>5, <2>1, RetainedTabs
<1> HIDE DEF r
<1>8. Full(r)
  <2>1. DOMAIN r = 1..Len(r)
    BY <1>7, ListIs
  <2> QED BY <1>4, <1>6, <1>7, <2>1 DEF Full
<1>9. Shows(r, s, panes)
  <2>1. ASSUME NEW k \in 1..Len(r)
        PROVE  \E i \in DOMAIN s : r[k].id = s[i].id /\ r[k].panes = panes[i] /\ panes[i] # NoPane
    <3>1. PICK i \in I : r[k] = now[i]
      BY <1>7
    <3>2. i \in DOMAIN s /\ panes[i] # NoPane
      BY <1>6
    <3> QED BY <1>4, <3>1, <3>2
  <2>2. ASSUME NEW i \in DOMAIN s, panes[i] # NoPane
        PROVE  \E k \in 1..Len(r) : r[k].id = s[i].id /\ r[k].panes = panes[i]
    <3>1. i \in I
      BY <1>6, <2>2
    <3>2. PICK k \in 1..Len(r) : r[k] = now[i]
      BY <1>7, <3>1
    <3> QED BY <1>4, <3>2
  <2> QED BY <2>1, <2>2 DEF Shows
<1> QED BY <1>1, <1>7, <1>8, <1>9 DEF TabsAre

\* A list with e before its nth.
LEMMA InsertIs ==
  ASSUME NEW s, Lists(s), NEW n \in 1..Len(s), NEW e
  PROVE  LET r == InsertAt(s, n, e)
         IN  /\ Lists(r) /\ Len(r) = Len(s) + 1
             /\ \A k \in 1..Len(r) : r[k] = IF k < n THEN s[k] ELSE IF k = n THEN e ELSE s[k - 1]
<1> DEFINE E == {s[k] : k \in 1..Len(s)} \cup {e}
           a == SubSeq(s, 1, n - 1)
           c == SubSeq(s, n, Len(s))
           m == a \o <<e>>
           r == m \o c
<1>1. Len(s) \in Nat /\ n \in Nat
  BY DEF Lists
<1>2. /\ a \in Seq(E) /\ Len(a) = n - 1 /\ \A k \in 1..(n - 1) : a[k] = s[k]
  <2>1. \A k \in 1..(n - 1) : s[k] \in E
    BY <1>1
  <2> HIDE DEF E
  <2>2. /\ a \in Seq(E) /\ Len(a) = IF 1 <= n - 1 THEN n - 1 - 1 + 1 ELSE 0
        /\ \A k \in 1..(n - 1 - 1 + 1) : a[k] = s[1 + k - 1]
    BY <1>1, <2>1, SubSeqProperties
  <2> HIDE DEF a
  <2> QED BY <1>1, <2>2
<1>3. /\ c \in Seq(E) /\ Len(c) = Len(s) - n + 1 /\ \A k \in 1..(Len(s) - n + 1) : c[k] = s[n + k - 1]
  <2>1. \A k \in n..Len(s) : s[k] \in E
    BY <1>1
  <2> HIDE DEF E
  <2>2. /\ c \in Seq(E) /\ Len(c) = IF n <= Len(s) THEN Len(s) - n + 1 ELSE 0
        /\ \A k \in 1..(Len(s) - n + 1) : c[k] = s[n + k - 1]
    BY <1>1, <2>1, SubSeqProperties
  <2> HIDE DEF c
  <2> QED BY <1>1, <2>2
<1>4. <<e>> \in Seq(E) /\ Len(<<e>>) = 1 /\ <<e>>[1] = e
  OBVIOUS
<1> HIDE DEF E, a, c
<1>5. /\ m \in Seq(E) /\ Len(m) = n
      /\ \A k \in 1..n : m[k] = IF k <= n - 1 THEN a[k] ELSE <<e>>[k - (n - 1)]
  <2>1. /\ m \in Seq(E) /\ Len(m) = Len(a) + Len(<<e>>)
        /\ \A k \in 1..(Len(a) + Len(<<e>>)) : m[k] = IF k <= Len(a) THEN a[k] ELSE <<e>>[k - Len(a)]
    BY <1>2, <1>4, ConcatProperties
  <2> HIDE DEF m
  <2> QED BY <1>1, <1>2, <1>4, <2>1
<1>6. m[n] = e /\ \A k \in 1..(n - 1) : m[k] = s[k]
  <2>1. n \in 1..n /\ n - (n - 1) = 1 /\ ~(n <= n - 1) /\ \A k \in 1..(n - 1) : k \in 1..n /\ k <= n - 1
    BY <1>1
  <2> HIDE DEF m
  <2>2. m[n] = <<e>>[n - (n - 1)]
    BY <1>5, <2>1
  <2>3. m[n] = e
    BY <1>4, <2>1, <2>2
  <2> QED BY <1>2, <1>5, <2>1, <2>3
<1> HIDE DEF m
<1>7. /\ r \in Seq(E) /\ Len(r) = Len(s) + 1
      /\ \A k \in 1..(Len(s) + 1) : r[k] = IF k <= n THEN m[k] ELSE c[k - n]
  <2>1. /\ r \in Seq(E) /\ Len(r) = Len(m) + Len(c)
        /\ \A k \in 1..(Len(m) + Len(c)) : r[k] = IF k <= Len(m) THEN m[k] ELSE c[k - Len(m)]
    BY <1>3, <1>5, ConcatProperties
  <2> HIDE DEF r
  <2> QED BY <1>1, <1>3, <1>5, <2>1
<1> HIDE DEF r
<1>8. ASSUME NEW k \in 1..(Len(s) + 1)
      PROVE  r[k] = IF k < n THEN s[k] ELSE IF k = n THEN e ELSE s[k - 1]
  <2>1. CASE k < n
    <3>1. k \in 1..(n - 1) /\ k <= n
      BY <1>1, <2>1
    <3> QED BY <1>6, <1>7, <2>1, <3>1
  <2>2. CASE k = n
    <3>1. k <= n /\ ~(k < n)
      BY <1>1, <2>2
    <3> QED BY <1>6, <1>7, <2>2, <3>1
  <2>3. CASE k > n
    <3>1. k - n \in 1..(Len(s) - n + 1) /\ n + (k - n) - 1 = k - 1 /\ ~(k <= n) /\ ~(k < n) /\ k # n
      BY <1>1, <2>3
    <3> QED BY <1>3, <1>7, <3>1
  <2> QED BY <1>1, <2>1, <2>2, <2>3
<1>9. Lists(r)
  <2>1. Len(s) + 1 \in Nat
    BY <1>1
  <2>2. DOMAIN r = 1..(Len(s) + 1) /\ r = [k \in 1..(Len(s) + 1) |-> r[k]]
    BY <1>7
  <2> QED BY <1>7, <2>1, <2>2 DEF Lists
<1>10. InsertAt(s, n, e) = r
  BY DEF InsertAt, r, m, a, c
<1> QED BY <1>7, <1>8, <1>9, <1>10

\* A list with e at its end.
LEMMA AppendIs ==
  ASSUME NEW s, Lists(s), NEW e
  PROVE  LET r == Append(s, e)
         IN  /\ Lists(r) /\ Len(r) = Len(s) + 1 /\ r[Len(s) + 1] = e
             /\ \A k \in 1..Len(s) : r[k] = s[k]
<1> DEFINE E == {s[k] : k \in 1..Len(s)} \cup {e}
           r == Append(s, e)
<1>1. s \in Seq(E) /\ e \in E /\ Len(s) \in Nat
  BY DEF Lists
<1> HIDE DEF E
<1>2. /\ r \in Seq(E) /\ Len(r) = Len(s) + 1 /\ r[Len(s) + 1] = e
      /\ \A k \in 1..Len(s) : r[k] = s[k]
  BY <1>1, AppendProperties
<1> HIDE DEF r
<1>3. Lists(r)
  BY <1>1, <1>2 DEF Lists
<1> QED BY <1>2, <1>3 DEF r

(***************************************************************************)
(* Workspace::edit.                                                        *)
(***************************************************************************)
LEMMA PutTabsAre ==
  ASSUME NEW s, NEW spaces, NEW made, IsFiniteSet(made), TabsAre(s, spaces, made),
         NEW tab, TabIs(tab), tab.panes # NoPane, Distinct(tab.panes),
         Ids(tab.panes) \subseteq made, tab.space \in spaces
  PROVE  TabsAre(PutTabs(s, tab), spaces, made)
<1> DEFINE taken == Ids(tab.panes)
           panes == [i \in DOMAIN s |-> IF s[i].id = tab.id THEN tab.panes
                                        ELSE WithoutAll(s[i].panes, taken)]
           left == Repaned(s, panes)
           put == [i \in DOMAIN left |-> IF left[i].id = tab.id THEN tab ELSE left[i]]
<1>1. Tiled(s, spaces, made) /\ Lists(s) /\ IsFiniteSet(taken)
  BY FS_Subset DEF TabsAre, Tiled
<1>2. PutTabs(s, tab) = IF \E b \in ToSet(s) : b.id = tab.id THEN put ELSE Append(left, tab)
  BY DEF PutTabs
<1> HIDE DEF taken
<1>3. ASSUME NEW i \in DOMAIN s
      PROVE  /\ Panes(panes[i]) /\ Distinct(panes[i]) /\ Ids(panes[i]) \subseteq made
             /\ s[i].id = tab.id => panes[i] = tab.panes
             /\ s[i].id # tab.id => Ids(panes[i]) = Ids(s[i].panes) \ taken
  <2>1. Panes(s[i].panes) /\ Distinct(s[i].panes) /\ Ids(s[i].panes) \subseteq made
    BY <1>1 DEF Tiled, TabIs
  <2>2. CASE s[i].id = tab.id
    BY <2>2 DEF TabIs
  <2>3. CASE s[i].id # tab.id
    <3>1. panes[i] = WithoutAll(s[i].panes, taken)
      BY <2>3
    <3>2. /\ Panes(WithoutAll(s[i].panes, taken)) /\ Distinct(WithoutAll(s[i].panes, taken))
          /\ Ids(WithoutAll(s[i].panes, taken)) = Ids(s[i].panes) \ taken
      BY <1>1, <2>1, WithoutAllIs
    <3> QED BY <2>1, <2>3, <3>1, <3>2
  <2> QED BY <2>2, <2>3
<1> HIDE DEF panes
<1>4. ASSUME NEW i \in DOMAIN s, NEW j \in DOMAIN s, i # j
      PROVE  Ids(panes[i]) \cap Ids(panes[j]) = {}
  <2>1. s[i].id # s[j].id /\ Ids(s[i].panes) \cap Ids(s[j].panes) = {}
    BY <1>1, <1>4 DEF Tiled
  <2>2. CASE s[i].id # tab.id /\ s[j].id # tab.id
    BY <1>3, <2>1, <2>2
  <2>3. CASE s[i].id = tab.id \/ s[j].id = tab.id
    BY <1>3, <2>1, <2>3 DEF taken
  <2> QED BY <2>2, <2>3
<1>5. TabsAre(left, spaces, made) /\ Shows(left, s, panes)
  <2>1. \A i \in DOMAIN s : Panes(panes[i]) /\ Distinct(panes[i]) /\ Ids(panes[i]) \subseteq made
    BY <1>3
  <2>2. \A i, j \in DOMAIN s : i # j => Ids(panes[i]) \cap Ids(panes[j]) = {}
    BY <1>4
  <2> QED BY <1>1, <2>1, <2>2, RepanedTabs
<1> HIDE DEF left
<1>6. Lists(left) /\ DOMAIN left = 1..Len(left)
  BY <1>5, ListIs DEF TabsAre, Tiled
<1>7. ASSUME NEW k \in 1..Len(left)
      PROVE  /\ \E i \in DOMAIN s : left[k].id = s[i].id
             /\ left[k].id = tab.id => left[k].panes = tab.panes
             /\ left[k].id # tab.id => Ids(left[k].panes) \cap taken = {}
  <2>1. PICK i \in DOMAIN s : left[k].id = s[i].id /\ left[k].panes = panes[i]
    BY <1>5 DEF Shows
  <2> QED BY <1>3, <2>1
<1>8. CASE \E b \in ToSet(s) : b.id = tab.id
  <2>1. DOMAIN put = 1..Len(left) /\ Lists(put) /\ Len(put) = Len(left)
    <3>1. DOMAIN put = 1..Len(left) /\ put = [k \in 1..Len(left) |-> put[k]] /\ Len(left) \in Nat
      BY <1>6 DEF Lists
    <3> HIDE DEF put
    <3> QED BY <3>1, ListOf
  <2>2. ASSUME NEW k \in 1..Len(left)
        PROVE  /\ put[k].id = left[k].id /\ put[k].panes = left[k].panes /\ TabIs(put[k])
               /\ put[k].space \in spaces
    <3>1. TabIs(left[k]) /\ left[k].space \in spaces
      BY <1>5, <1>6 DEF TabsAre, Tiled
    <3>2. put[k] = IF left[k].id = tab.id THEN tab ELSE left[k]
      BY <1>6
    <3> HIDE DEF put
    <3> QED BY <1>7, <3>1, <3>2
  <2> HIDE DEF put
  <2>3. Tiled(put, spaces, made)
    BY <1>5, <1>6, <2>1, <2>2 DEF TabsAre, Tiled
  <2>4. Full(put)
    BY <1>5, <1>6, <2>1, <2>2 DEF TabsAre, Full
  <2> QED BY <1>2, <1>8, <2>3, <2>4 DEF TabsAre
<1>9. CASE ~\E b \in ToSet(s) : b.id = tab.id
  <2> DEFINE r == Append(left, tab)
             n == Len(left)
  <2>1. /\ Lists(r) /\ Len(r) = n + 1 /\ r[n + 1] = tab /\ \A k \in 1..n : r[k] = left[k]
    BY <1>6, AppendIs
  <2>2. PutTabs(s, tab) = r
    BY <1>2, <1>9
  <2> HIDE DEF r
  <2>3. DOMAIN r = 1..(n + 1) /\ n \in Nat /\ \A k \in 1..(n + 1) : k \in 1..n \/ k = n + 1
    BY <1>6, <2>1, ListIs DEF Lists
  <2>4. \A k \in 1..n : left[k].id # tab.id
    BY <1>7, <1>9 DEF ToSet
  <2>5. \A k \in DOMAIN r : /\ TabIs(r[k]) /\ Distinct(r[k].panes) /\ r[k].panes # NoPane
                            /\ r[k].space \in spaces /\ Ids(r[k].panes) \subseteq made
    <3> SUFFICES ASSUME NEW k \in DOMAIN r
                 PROVE  /\ TabIs(r[k]) /\ Distinct(r[k].panes) /\ r[k].panes # NoPane
                        /\ r[k].space \in spaces /\ Ids(r[k].panes) \subseteq made
      OBVIOUS
    <3>1. CASE k = n + 1
      BY <2>1, <3>1
    <3>2. CASE k \in 1..n
      BY <1>5, <1>6, <2>1, <3>2 DEF TabsAre, Tiled, Full
    <3> QED BY <2>3, <3>1, <3>2
  <2>6. \A j, k \in DOMAIN r : j # k =>
          r[j].id # r[k].id /\ Ids(r[j].panes) \cap Ids(r[k].panes) = {}
    <3> SUFFICES ASSUME NEW j \in DOMAIN r, NEW k \in DOMAIN r, j # k
                 PROVE  r[j].id # r[k].id /\ Ids(r[j].panes) \cap Ids(r[k].panes) = {}
      OBVIOUS
    <3>1. CASE j \in 1..n /\ k \in 1..n
      BY <1>5, <1>6, <2>1, <3>1 DEF TabsAre, Tiled
    <3>2. CASE j = n + 1 /\ k \in 1..n
      BY <1>7, <2>1, <2>4, <3>2 DEF taken
    <3>3. CASE j \in 1..n /\ k = n + 1
      BY <1>7, <2>1, <2>4, <3>3 DEF taken
    <3> QED BY <2>3, <3>1, <3>2, <3>3
  <2>7. Tiled(r, spaces, made)
    BY <2>1, <2>5, <2>6, Zenon DEF Tiled
  <2>8. Full(r)
    BY <2>5 DEF Full
  <2> QED BY <2>2, <2>7, <2>8 DEF TabsAre
<1> QED BY <1>8, <1>9

\* A tab that moves is in one place, and the others are where they were.
LEMMA MovedTabsAre ==
  ASSUME NEW s, NEW spaces, NEW made, TabsAre(s, spaces, made),
         NEW id \in {b.id : b \in ToSet(s)}, NEW before \in {b.id : b \in ToSet(s)}
  PROVE  TabsAre(MovedTab(s, id, before), spaces, made)
<1>1. CASE before = id
  BY <1>1 DEF MovedTab
<1>2. CASE before # id
  <2> DEFINE tab == CHOOSE b \in ToSet(s) : b.id = id
             I == {i \in DOMAIN s : s[i].id # id}
             rest == Retained(s, I)
             to == CHOOSE i \in DOMAIN rest : rest[i].id = before
             r == InsertAt(rest, to, tab)
  <2>1. MovedTab(s, id, before) = r
    BY <1>2 DEF MovedTab
  <2>2. Tiled(s, spaces, made) /\ Full(s) /\ Lists(s)
    BY DEF TabsAre, Tiled
  <2>3. PICK n \in DOMAIN s : s[n] = tab /\ s[n].id = id
    <3>1. \E b \in ToSet(s) : b.id = id
      OBVIOUS
    <3>2. tab \in ToSet(s) /\ tab.id = id
      BY <3>1
    <3> HIDE DEF tab
    <3> QED BY <3>2 DEF ToSet
  <2>4. Lists(rest) /\ \E g : Keeps(s, I, rest, g)
    <3>1. I \in SUBSET DOMAIN s
      OBVIOUS
    <3> HIDE DEF I
    <3> QED BY <2>2, <3>1, RetainedIs
  <2> HIDE DEF tab, rest
  <2>5. PICK g : Keeps(s, I, rest, g)
    BY <2>4
  <2>6. DOMAIN rest = 1..Len(rest) /\ Len(rest) \in Nat
    BY <2>4, ListIs DEF Lists
  <2>7. PICK m \in DOMAIN s : s[m].id = before
    BY DEF ToSet
  <2>8. \E k \in DOMAIN rest : rest[k].id = before
    BY <1>2, <2>5, <2>6, <2>7 DEF Keeps
  <2>9. to \in 1..Len(rest)
    BY <2>6, <2>8
  <2> HIDE DEF to
  <2>10. /\ Lists(r) /\ Len(r) = Len(rest) + 1
         /\ \A k \in 1..Len(r) : r[k] = IF k < to THEN rest[k] ELSE IF k = to THEN tab ELSE rest[k - 1]
    BY <2>4, <2>9, InsertIs
  <2> HIDE DEF r
  <2> DEFINE h == [k \in 1..Len(r) |-> IF k < to THEN g[k] ELSE IF k = to THEN n ELSE g[k - 1]]
  <2>11. /\ \A k \in 1..Len(rest) : g[k] \in DOMAIN s /\ g[k] # n /\ rest[k] = s[g[k]]
         /\ \A j, k \in 1..Len(rest) : g[j] = g[k] => j = k
    BY <2>3, <2>5 DEF Keeps
  <2>12. ASSUME NEW k \in 1..Len(r)
         PROVE  /\ k < to => k \in 1..Len(rest)
                /\ ~(k < to) /\ k # to => k - 1 \in 1..Len(rest)
    BY <2>6, <2>9, <2>10
  <2>13. ASSUME NEW k \in 1..Len(r) PROVE h[k] \in DOMAIN s /\ r[k] = s[h[k]]
    <3>1. CASE k < to
      BY <2>10, <2>11, <2>12, <3>1
    <3>2. CASE k = to
      BY <2>3, <2>9, <2>10, <3>2
    <3>3. CASE ~(k < to) /\ k # to
      BY <2>10, <2>11, <2>12, <3>3
    <3> QED BY <3>1, <3>2, <3>3
  <2>14. ASSUME NEW j \in 1..Len(r), NEW k \in 1..Len(r), h[j] = h[k] PROVE j = k
    <3>1. /\ j < to => h[j] = g[j]
          /\ j = to => h[j] = n
          /\ j > to => h[j] = g[j - 1]
          /\ k < to => h[k] = g[k]
          /\ k = to => h[k] = n
          /\ k > to => h[k] = g[k - 1]
      BY <2>6, <2>9, <2>10
    <3>2. j \in Nat /\ k \in Nat /\ to \in Nat
      BY <2>6, <2>9, <2>10
    <3> HIDE DEF h
    <3>3. CASE j < to /\ k < to
      BY <2>11, <2>12, <2>14, <3>1, <3>3
    <3>4. CASE j < to /\ k = to
      BY <2>11, <2>12, <2>14, <3>1, <3>2, <3>4
    <3>5. CASE j < to /\ k > to
      <4>1. j \in 1..Len(rest) /\ k - 1 \in 1..Len(rest) /\ g[j] = g[k - 1]
        BY <2>12, <2>14, <3>1, <3>2, <3>5
      <4>2. j = k - 1
        BY <2>11, <4>1
      <4> QED BY <3>2, <3>5, <4>2
    <3>6. CASE j = to /\ k = to
      BY <3>6
    <3>7. CASE j = to /\ k < to
      BY <2>11, <2>12, <2>14, <3>1, <3>2, <3>7
    <3>8. CASE j = to /\ k > to
      <4>1. k - 1 \in 1..Len(rest) /\ g[k - 1] = n
        BY <2>12, <2>14, <3>1, <3>2, <3>8
      <4> QED BY <2>11, <4>1
    <3>9. CASE j > to /\ k < to
      <4>1. k \in 1..Len(rest) /\ j - 1 \in 1..Len(rest) /\ g[k] = g[j - 1]
        BY <2>12, <2>14, <3>1, <3>2, <3>9
      <4>2. k = j - 1
        BY <2>11, <4>1
      <4> QED BY <3>2, <3>9, <4>2
    <3>10. CASE j > to /\ k = to
      <4>1. j - 1 \in 1..Len(rest) /\ g[j - 1] = n
        BY <2>12, <2>14, <3>1, <3>2, <3>10
      <4> QED BY <2>11, <4>1
    <3>11. CASE j > to /\ k > to
      <4>1. j - 1 \in 1..Len(rest) /\ k - 1 \in 1..Len(rest) /\ g[j - 1] = g[k - 1]
        BY <2>12, <2>14, <3>1, <3>2, <3>11
      <4>2. j - 1 = k - 1
        BY <2>11, <4>1
      <4> QED BY <3>2, <4>2
    <3>12. (j < to \/ j = to \/ j > to) /\ (k < to \/ k = to \/ k > to)
      BY <3>2
    <3> QED BY <3>3, <3>4, <3>5, <3>6, <3>7, <3>8, <3>9, <3>10, <3>11, <3>12
  <2> HIDE DEF h
  <2>15. \A k \in 1..Len(r) : r[k].space \in spaces
    BY <2>2, <2>13 DEF Tiled
  <2>16. Tiled(r, spaces, made) /\ Full(r)
    <3>1. Picks(s, r, h)
      BY <2>13, <2>14 DEF Picks
    <3> QED BY <2>2, <2>10, <2>15, <3>1, SomeTabs
  <2> QED BY <2>1, <2>16 DEF TabsAre
<1> QED BY <1>1, <1>2

\* The terminals that tabs show.
ShownIn(s) == UNION {Ids(b.panes) : b \in ToSet(s)}

LEMMA ShownIs ==
  \A s, x : x \in ShownIn(s) <=> \E i \in DOMAIN s : x \in Ids(s[i].panes)
BY DEF ShownIn, ToSet

\* Edit::ClosePane.
PaneClosed(s, t) == Repaned(s, [i \in DOMAIN s |-> Without(s[i].panes, t)])

\* A pane that closes leaves the other terminals where they were.
LEMMA ClosedPaneTabs ==
  ASSUME NEW s, NEW spaces, NEW made, TabsAre(s, spaces, made), NEW t
  PROVE  /\ TabsAre(PaneClosed(s, t), spaces, made)
         /\ ShownIn(PaneClosed(s, t)) = ShownIn(s) \ {t}
<1> DEFINE panes == [i \in DOMAIN s |-> Without(s[i].panes, t)]
           r == Repaned(s, panes)
<1>1. Tiled(s, spaces, made)
  BY DEF TabsAre
<1>2. ASSUME NEW i \in DOMAIN s
      PROVE  /\ Panes(panes[i]) /\ Distinct(panes[i]) /\ Ids(panes[i]) = Ids(s[i].panes) \ {t}
             /\ TabIs(s[i]) /\ Ids(s[i].panes) \subseteq made
  <2>1. TabIs(s[i]) /\ Panes(s[i].panes) /\ Distinct(s[i].panes) /\ Ids(s[i].panes) \subseteq made
    BY <1>1 DEF Tiled, TabIs
  <2> QED BY <2>1, WithoutIs
<1> HIDE DEF panes
<1>3. \A i, j \in DOMAIN s : i # j => Ids(panes[i]) \cap Ids(panes[j]) = {}
  BY <1>1, <1>2 DEF Tiled
<1>4. \A i \in DOMAIN s : Panes(panes[i]) /\ Distinct(panes[i]) /\ Ids(panes[i]) \subseteq made
  BY <1>2
<1>5. TabsAre(r, spaces, made) /\ Shows(r, s, panes)
  BY <1>1, <1>3, <1>4, RepanedTabs
<1> HIDE DEF r
<1>6. DOMAIN r = 1..Len(r)
  BY <1>5, ListIs DEF TabsAre, Tiled
<1>8. \A x : (\E k \in DOMAIN r : x \in Ids(r[k].panes)) <=> \E i \in DOMAIN s : x \in Ids(panes[i])
  <2> SUFFICES ASSUME NEW x
               PROVE (\E k \in DOMAIN r : x \in Ids(r[k].panes)) <=> \E i \in DOMAIN s : x \in Ids(panes[i])
    OBVIOUS
  <2>1. ASSUME NEW k \in DOMAIN r, x \in Ids(r[k].panes) PROVE \E i \in DOMAIN s : x \in Ids(panes[i])
    <3>1. PICK i \in DOMAIN s : r[k].panes = panes[i]
      BY <1>5, <1>6 DEF Shows
    <3> QED BY <2>1, <3>1
  <2>2. ASSUME NEW i \in DOMAIN s, x \in Ids(panes[i]) PROVE \E k \in DOMAIN r : x \in Ids(r[k].panes)
    <3>1. panes[i] # NoPane
      BY <2>2, NoPaneIs
    <3>2. PICK k \in DOMAIN r : r[k].panes = panes[i]
      BY <1>5, <1>6, <3>1 DEF Shows
    <3> QED BY <2>2, <3>2
  <2> QED BY <2>1, <2>2
<1>9. ShownIn(r) = ShownIn(s) \ {t}
  <2>1. \A x : x \in ShownIn(r) <=> \E k \in DOMAIN r : x \in Ids(r[k].panes)
    BY ShownIs
  <2>2. \A x : x \in ShownIn(s) <=> \E i \in DOMAIN s : x \in Ids(s[i].panes)
    BY ShownIs
  <2>3. \A x : (\E i \in DOMAIN s : x \in Ids(panes[i])) <=> (\E i \in DOMAIN s : x \in Ids(s[i].panes)) /\ x # t
    BY <1>2
  <2>4. \A x : x \in ShownIn(r) <=> x \in ShownIn(s) /\ x # t
    BY <1>8, <2>1, <2>2, <2>3, Zenon
  <2> QED BY <2>4
<1> QED BY <1>5, <1>9 DEF r, panes, PaneClosed

\* A terminal that nothing shows gets its place beside another.
LEMMA SplitTabs ==
  ASSUME NEW s, NEW spaces, NEW made, TabsAre(s, spaces, made), NEW t, NEW new \in made,
         \A i \in DOMAIN s : new \notin Ids(s[i].panes)
  PROVE  TabsAre(Repaned(s, [i \in DOMAIN s |->
                               IF t \notin Ids(s[i].panes) THEN s[i].panes
                               ELSE SplitBeside(s[i].panes, t, new, FALSE)]), spaces, made)
<1> DEFINE panes == [i \in DOMAIN s |-> IF t \notin Ids(s[i].panes) THEN s[i].panes
                                        ELSE SplitBeside(s[i].panes, t, new, FALSE)]
<1>1. Tiled(s, spaces, made)
  BY DEF TabsAre
<1>2. ASSUME NEW i \in DOMAIN s
      PROVE  /\ Panes(panes[i]) /\ Distinct(panes[i])
             /\ Ids(panes[i]) = Ids(s[i].panes) \cup IF t \in Ids(s[i].panes) THEN {new} ELSE {}
             /\ Ids(s[i].panes) \subseteq made
  <2>1. /\ Panes(s[i].panes) /\ Distinct(s[i].panes) /\ Ids(s[i].panes) \subseteq made
        /\ new \notin Ids(s[i].panes)
    BY <1>1 DEF Tiled, TabIs
  <2>2. CASE t \notin Ids(s[i].panes)
    BY <2>1, <2>2
  <2>3. CASE t \in Ids(s[i].panes)
    <3> DEFINE m == SplitBeside(s[i].panes, t, new, FALSE)
    <3>1. panes[i] = m
      BY <2>3
    <3>2. Panes(m) /\ Distinct(m) /\ Ids(m) = Ids(s[i].panes) \cup {new}
      <4>1. Parted(s[i].panes, new, m)
        BY <2>1, <2>3, SplitBesideIs
      <4> QED BY <2>1, <4>1 DEF Parted
    <3> HIDE DEF m
    <3> QED BY <2>1, <2>3, <3>1, <3>2
  <2> QED BY <2>2, <2>3
<1> HIDE DEF panes
<1>3. \A i, j \in DOMAIN s : i # j => Ids(panes[i]) \cap Ids(panes[j]) = {}
  BY <1>1, <1>2 DEF Tiled
<1>4. \A i \in DOMAIN s : Panes(panes[i]) /\ Distinct(panes[i]) /\ Ids(panes[i]) \subseteq made
  BY <1>2
<1>5. TabsAre(Repaned(s, panes), spaces, made)
  BY <1>1, <1>3, <1>4, RepanedTabs
<1> QED BY <1>5 DEF panes

(***************************************************************************)
(* The workspace as a whole.                                               *)
(***************************************************************************)
Fields == {"rev", "spaces", "task", "tabs", "terms"}
Record(w) == w = [x \in Fields |-> w[x]]

Whole(w) ==
  /\ Record(w)
  /\ w.spaces \subseteq Spaces /\ w.terms = [t \in Terms |-> w.terms[t]]
  /\ TabsAre(w.tabs, w.spaces, Made(w))

\* An edit puts only tabs with panes.
Asked(e) == e.kind = "PutTab" => TabIs(e.tab) /\ e.tab.panes # NoPane

LEMMA MadeIs ==
  ASSUME NEW w
  PROVE  IsFiniteSet(Made(w)) /\ Made(w) \subseteq Terms
<1>1. Made(w) \in SUBSET (1..MaxTerms) /\ MaxTerms \in Int
  BY BoundsAssumption DEF Made, Terms
<1>2. IsFiniteSet(1..MaxTerms)
  BY <1>1, FS_Interval
<1> QED BY <1>1, <1>2, FS_Subset DEF Terms

\* The spaces that are left.
LeftSpaces(w, e) == IF e.kind = "RemoveSpace" THEN w.spaces \ {e.id} ELSE w.spaces

\* No edit that is not refused leaves a tab untidy.
LEMMA EditedTabsAre ==
  ASSUME NEW w, Whole(w), NEW e, Asked(e), ~Refused(w, e)
  PROVE  TabsAre(EditedTabs(w, e), LeftSpaces(w, e), Made(w))
<1> DEFINE s == w.tabs
           made == Made(w)
<1>1. TabsAre(s, w.spaces, made) /\ Tiled(s, w.spaces, made) /\ Full(s)
  BY DEF Whole, TabsAre
<1>2. CASE e.kind = "PutTab"
  <2>1. EditedTabs(w, e) = PutTabs(s, e.tab) /\ LeftSpaces(w, e) = w.spaces
    BY <1>2 DEF EditedTabs, LeftSpaces
  <2>2. e.tab.space \in w.spaces /\ Distinct(e.tab.panes) /\ Ids(e.tab.panes) \subseteq made
    BY <1>2 DEF Refused
  <2>3. TabIs(e.tab) /\ e.tab.panes # NoPane
    BY <1>2 DEF Asked
  <2> QED BY <1>1, <2>1, <2>2, <2>3, MadeIs, PutTabsAre
<1>3. CASE e.kind = "MoveTab"
  <2>1. EditedTabs(w, e) = MovedTab(s, e.id, e.before) /\ LeftSpaces(w, e) = w.spaces
    BY <1>3 DEF EditedTabs, LeftSpaces
  <2>2. e.id \in {b.id : b \in ToSet(s)} /\ e.before \in {b.id : b \in ToSet(s)}
    BY <1>3 DEF Refused, TabIds
  <2> QED BY <1>1, <2>1, <2>2, MovedTabsAre
<1>4. CASE e.kind = "CloseTab"
  <2> DEFINE I == {i \in DOMAIN s : s[i].id # e.id}
  <2>1. EditedTabs(w, e) = Retained(s, I) /\ LeftSpaces(w, e) = w.spaces
    BY <1>4 DEF EditedTabs, LeftSpaces
  <2>2. I \in SUBSET DOMAIN s /\ \A i \in I : s[i].space \in w.spaces
    BY <1>1 DEF Tiled
  <2> HIDE DEF I
  <2>3. Tiled(Retained(s, I), w.spaces, made) /\ Full(Retained(s, I))
    BY <1>1, <2>2, RetainedTabs
  <2> QED BY <2>1, <2>3 DEF TabsAre
<1>5. CASE e.kind = "ClosePane"
  <2>1. EditedTabs(w, e) = PaneClosed(s, e.terminal) /\ LeftSpaces(w, e) = w.spaces
    BY <1>5 DEF EditedTabs, LeftSpaces, PaneClosed
  <2>2. TabsAre(PaneClosed(s, e.terminal), w.spaces, made)
    BY <1>1, ClosedPaneTabs
  <2> QED BY <2>1, <2>2
<1>6. CASE e.kind = "RemoveSpace"
  <2> DEFINE I == {i \in DOMAIN s : s[i].space # e.id}
             kept == w.spaces \ {e.id}
  <2>1. EditedTabs(w, e) = Retained(s, I) /\ LeftSpaces(w, e) = kept
    BY <1>6 DEF EditedTabs, LeftSpaces
  <2>2. I \in SUBSET DOMAIN s /\ \A i \in I : s[i].space \in kept
    BY <1>1 DEF Tiled
  <2> HIDE DEF I, kept
  <2>3. Tiled(Retained(s, I), kept, made) /\ Full(Retained(s, I))
    BY <1>1, <2>2, RetainedTabs
  <2> QED BY <2>1, <2>3 DEF TabsAre
<1>7. CASE e.kind = "SplitPane"
  <2> DEFINE r == Repaned(s, [i \in DOMAIN s |->
                    IF e.target \notin Ids(s[i].panes) THEN s[i].panes
                    ELSE SplitBeside(s[i].panes, e.target, e.terminal, FALSE)])
  <2>1. EditedTabs(w, e) = r /\ LeftSpaces(w, e) = w.spaces
    BY <1>7 DEF EditedTabs, LeftSpaces
  <2>2. e.terminal \in made /\ e.terminal \notin Shown(w)
    BY <1>7 DEF Refused
  <2>3. \A i \in DOMAIN s : e.terminal \notin Ids(s[i].panes)
    BY <2>2 DEF Shown, ToSet
  <2>4. TabsAre(r, w.spaces, made)
    BY <1>1, <2>2, <2>3, SplitTabs
  <2> QED BY <2>1, <2>4
<1>8. CASE e.kind \notin {"PutTab", "MoveTab", "CloseTab", "ClosePane", "RemoveSpace", "SplitPane"}
  <2>1. EditedTabs(w, e) = s /\ LeftSpaces(w, e) = w.spaces
    BY <1>8 DEF EditedTabs, LeftSpaces
  <2> QED BY <1>1, <2>1
<1> QED BY <1>2, <1>3, <1>4, <1>5, <1>6, <1>7, <1>8

LEMMA RecordIs ==
  ASSUME NEW a, NEW b, NEW c, NEW d, NEW f
  PROVE  Record([rev |-> a, spaces |-> b, task |-> c, tabs |-> d, terms |-> f])
BY DEF Record, Fields

LEMMA SameRecord ==
  ASSUME NEW w, Record(w), NEW v, Record(v), w.rev = v.rev, w.spaces = v.spaces,
         w.task = v.task, w.tabs = v.tabs, w.terms = v.terms
  PROVE  w = v
<1>1. \A x \in Fields : v[x] = w[x]
  BY DEF Fields
<1> QED BY <1>1 DEF Record

\* An edit makes a workspace of a workspace.
LEMMA EditedWhole ==
  ASSUME NEW w, Whole(w), NEW e, Asked(e), ~Refused(w, e), NEW rev
  PROVE  LET n == [Edited(w, e) EXCEPT !.rev = rev]
         IN  /\ Whole(n) /\ n.spaces \subseteq w.spaces /\ n.rev = rev
             /\ n.tabs = EditedTabs(w, e) /\ n.terms = w.terms
<1> DEFINE n == [Edited(w, e) EXCEPT !.rev = rev]
<1> DEFINE spaces == IF e.kind = "RemoveSpace" THEN w.spaces \ {e.id} ELSE w.spaces
           m == [w EXCEPT !.tabs = EditedTabs(w, e), !.task = EditedTask(w.task, e),
                          !.spaces = spaces]
<1>1. Record(w)
  BY DEF Whole
<1>2. Edited(w, e) = m
  <2>1. \A x : [w EXCEPT !.tabs = x, !.task = EditedTask(@, e),
                         !.spaces = IF e.kind = "RemoveSpace" THEN @ \ {e.id} ELSE @]
                 = [w EXCEPT !.tabs = x, !.task = EditedTask(w.task, e), !.spaces = spaces]
    BY <1>1 DEF Record, Fields
  <2> QED BY <2>1 DEF Edited
<1>3. spaces = LeftSpaces(w, e)
  BY DEF LeftSpaces
<1> HIDE DEF spaces
<1>4. /\ Record(n) /\ n.rev = rev /\ n.spaces = spaces /\ n.task = EditedTask(w.task, e)
      /\ n.tabs = EditedTabs(w, e) /\ n.terms = w.terms
  <2>1. n = [m EXCEPT !.rev = rev]
    BY <1>2, Zenon
  <2> HIDE DEF n
  <2>2. /\ Record(m) /\ m.tabs = EditedTabs(w, e) /\ m.task = EditedTask(w.task, e)
        /\ m.spaces = spaces /\ m.terms = w.terms
    BY <1>1 DEF Record, Fields
  <2> HIDE DEF m
  <2>3. /\ Record(n) /\ n.rev = rev /\ n.tabs = m.tabs /\ n.task = m.task
        /\ n.spaces = m.spaces /\ n.terms = m.terms
    BY <2>1, <2>2 DEF Record, Fields
  <2> QED BY <2>2, <2>3
<1>5. /\ Record(n) /\ n.rev = rev /\ n.spaces = LeftSpaces(w, e) /\ n.tabs = EditedTabs(w, e)
      /\ n.terms = w.terms
  BY <1>3, <1>4
<1> HIDE DEF n
<1>6. Made(n) = Made(w) /\ n.spaces \subseteq w.spaces
  BY <1>5 DEF Made, LeftSpaces
<1>7. TabsAre(n.tabs, n.spaces, Made(n))
  BY <1>5, <1>6, EditedTabsAre
<1>8. n.terms = [t \in Terms |-> n.terms[t]] /\ n.spaces \subseteq Spaces
  BY <1>5, <1>6 DEF Whole
<1>9. Whole(n)
  BY <1>5, <1>7, <1>8 DEF Whole
<1> QED BY <1>5, <1>6, <1>9 DEF n

\* More terminals leave the tabs as they were.
LEMMA MadeMore ==
  ASSUME NEW s, NEW spaces, NEW made, TabsAre(s, spaces, made), NEW more, made \subseteq more
  PROVE  TabsAre(s, spaces, more)
BY DEF TabsAre, Tiled

\* Terminals change their states and the rest stays as it is.
LEMMA TermsWhole ==
  ASSUME NEW w, Whole(w), NEW n, Record(n), n.spaces = w.spaces, n.tabs = w.tabs,
         n.terms = [t \in Terms |-> n.terms[t]],
         \A t \in Terms : w.terms[t] # "none" => n.terms[t] # "none"
  PROVE  Whole(n)
<1>1. Made(w) \subseteq Made(n)
  BY DEF Made
<1>2. TabsAre(n.tabs, n.spaces, Made(n))
  BY <1>1, MadeMore DEF Whole
<1> QED BY <1>2 DEF Whole

\* A terminal gets a state, and the workspace a later revision.
Staged(w, n, t, state, k) == n = [w EXCEPT !.rev = @ + k, !.terms[t] = state]

\* So does a terminal that starts or ends.
LEMMA StateWhole ==
  ASSUME NEW w, Whole(w), NEW t, NEW state, state # "none", NEW k,
         NEW n, Staged(w, n, t, state, k)
  PROVE  Whole(n) /\ n.spaces = w.spaces /\ n.tabs = w.tabs /\ n.rev = w.rev + k
<1>1. /\ Record(n) /\ n.rev = w.rev + k /\ n.spaces = w.spaces /\ n.tabs = w.tabs
      /\ n.terms = [w.terms EXCEPT ![t] = state]
  BY DEF Whole, Record, Fields, Staged
<1>2. w.terms = [u \in Terms |-> w.terms[u]] /\ DOMAIN w.terms = Terms
  <2>1. w.terms = [u \in Terms |-> w.terms[u]]
    BY DEF Whole
  <2> QED BY <2>1
<1>3. n.terms = [u \in Terms |-> n.terms[u]]
  BY <1>1, <1>2
<1>4. \A u \in Terms : w.terms[u] # "none" => n.terms[u] # "none"
  BY <1>1, <1>2
<1>5. Whole(n)
  BY <1>1, <1>3, <1>4, TermsWhole
<1> QED BY <1>1, <1>5

(***************************************************************************)
(* The rows.                                                               *)
(***************************************************************************)
NodesOf(b) == {[tab |-> b.id, path |-> p, terminal |-> b.panes[p]] : p \in DOMAIN b.panes}
NodesIn(w) == UNION {NodesOf(b) : b \in ToSet(w.tabs)}

\* What the rows are when the workspace is w.
Rows(d, w) ==
  /\ d.rev = w.rev /\ d.task = w.task /\ d.terms = w.terms /\ d.removed = Spaces \ w.spaces
  /\ DOMAIN d.tabs = TabIds(w) /\ \A b \in ToSet(w.tabs) : d.tabs[b.id] = b.space
  /\ DOMAIN d.order = TabIds(w) /\ \A k \in DOMAIN w.tabs : d.order[w.tabs[k].id] = k
  /\ d.nodes = NodesIn(w)

\* A number names one tab, a place one number.
LEMMA OneTab ==
  ASSUME NEW w, Whole(w)
  PROVE  /\ \A b, c \in ToSet(w.tabs) : b.id = c.id => b = c
         /\ \A b \in ToSet(w.tabs) : b.id \in TabIds(w) /\ TabOf(w, b.id) = b
         /\ \A k \in DOMAIN w.tabs : w.tabs[k].id \in TabIds(w) /\ PlaceOf(w, w.tabs[k].id) = k
<1>1. \A i, j \in DOMAIN w.tabs : w.tabs[i].id = w.tabs[j].id => i = j
  BY DEF Whole, TabsAre, Tiled
<1>2. \A b, c \in ToSet(w.tabs) : b.id = c.id => b = c
  BY <1>1 DEF ToSet
<1>3. \A b \in ToSet(w.tabs) : b.id \in TabIds(w) /\ TabOf(w, b.id) = b
  BY <1>2 DEF TabIds, TabOf
<1>4. \A k \in DOMAIN w.tabs : w.tabs[k].id \in TabIds(w) /\ PlaceOf(w, w.tabs[k].id) = k
  <2>1. \A k \in DOMAIN w.tabs : w.tabs[k].id \in TabIds(w)
    BY DEF TabIds, ToSet
  <2>2. \A k \in DOMAIN w.tabs : PlaceOf(w, w.tabs[k].id) = k
    BY <1>1 DEF PlaceOf
  <2> QED BY <2>1, <2>2
<1> QED BY <1>2, <1>3, <1>4

\* The rows that are written, with those that are left, are the rows of n.
LEMMA SavedRows ==
  ASSUME NEW w, Whole(w), NEW n, Whole(n), n.spaces \subseteq w.spaces, NEW d, Rows(d, w)
  PROVE  Rows(Save(d, w, n), n)
<1> DEFINE ids == {b.id : b \in Changed(w, n)}
           gone == Removed(w, n)
           e == Save(d, w, n)
<1>1. /\ e.rev = n.rev /\ e.task = n.task /\ e.removed = d.removed \cup (w.spaces \ n.spaces)
      /\ e.terms = [t \in Terms |-> IF w.terms[t] # n.terms[t] THEN n.terms[t] ELSE d.terms[t]]
      /\ e.tabs = [i \in (DOMAIN d.tabs \ gone) \cup ids |->
                      IF i \in ids THEN TabOf(n, i).space ELSE d.tabs[i]]
      /\ e.order = SaveOrder(d.order, w, n) /\ e.nodes = SaveNodes(d.nodes, w, n)
  BY DEF Save
<1> HIDE DEF e
<1>2. /\ DOMAIN d.tabs = TabIds(w) /\ \A b \in ToSet(w.tabs) : d.tabs[b.id] = b.space
      /\ DOMAIN d.order = TabIds(w) /\ \A k \in DOMAIN w.tabs : d.order[w.tabs[k].id] = k
      /\ d.nodes = NodesIn(w) /\ d.terms = w.terms /\ d.removed = Spaces \ w.spaces
  BY DEF Rows
<1>3. e.terms = n.terms
  <2>1. n.terms = [t \in Terms |-> n.terms[t]]
    BY DEF Whole
  <2>2. \A t \in Terms : (IF w.terms[t] # n.terms[t] THEN n.terms[t] ELSE d.terms[t]) = n.terms[t]
    BY <1>2
  <2> QED BY <1>1, <2>1, <2>2
<1>4. e.removed = Spaces \ n.spaces
  BY <1>1, <1>2 DEF Whole
<1>5. gone = TabIds(w) \ TabIds(n)
  BY DEF Removed
<1>6. /\ \A b \in Changed(w, n) : b \in ToSet(n.tabs) /\ b.id \in ids
      /\ \A i \in ids : \E b \in Changed(w, n) : b.id = i
      /\ \A b \in ToSet(n.tabs) : b \notin Changed(w, n) => b \in ToSet(w.tabs)
  BY DEF Changed
<1> HIDE DEF ids, gone
<1>7. /\ \A b \in ToSet(n.tabs) : b.id \in TabIds(n)
      /\ \A i \in TabIds(n) : \E b \in ToSet(n.tabs) : b.id = i
      /\ \A b \in ToSet(w.tabs) : b.id \in TabIds(w)
      /\ \A i \in TabIds(w) : \E b \in ToSet(w.tabs) : b.id = i
  BY DEF TabIds
<1>8. \A b \in ToSet(n.tabs) : b.id \notin ids => b \in ToSet(w.tabs)
  BY <1>6
<1>9. ids \subseteq TabIds(n)
  BY <1>6, <1>7
<1>10. DOMAIN e.tabs = TabIds(n)
  <2>1. (TabIds(w) \ gone) \cup ids = TabIds(n)
    <3>1. \A i \in TabIds(n) : i \in ids \/ i \in TabIds(w)
      BY <1>7, <1>8
    <3> QED BY <1>5, <1>9, <3>1
  <2> QED BY <1>1, <1>2, <2>1
<1>11. ASSUME NEW b \in ToSet(n.tabs) PROVE e.tabs[b.id] = b.space
  <2>1. b.id \in TabIds(n) /\ TabOf(n, b.id) = b
    BY OneTab
  <2>2. b.id \in (DOMAIN d.tabs \ gone) \cup ids
    BY <1>1, <1>10, <2>1
  <2>3. b.id \notin ids => d.tabs[b.id] = b.space
    BY <1>2, <1>8
  <2> QED BY <1>1, <2>1, <2>2, <2>3
<1>12. DOMAIN e.order = TabIds(n) /\ \A k \in DOMAIN n.tabs : e.order[n.tabs[k].id] = k
  <2>1. CASE Order(w) = Order(n)
    <3>1. DOMAIN w.tabs = DOMAIN n.tabs /\ \A k \in DOMAIN n.tabs : w.tabs[k].id = n.tabs[k].id
      <4>1. DOMAIN Order(w) = DOMAIN w.tabs /\ DOMAIN Order(n) = DOMAIN n.tabs
        BY DEF Order
      <4>2. \A k \in DOMAIN n.tabs : Order(n)[k] = n.tabs[k].id
        BY DEF Order
      <4>3. \A k \in DOMAIN w.tabs : Order(w)[k] = w.tabs[k].id
        BY DEF Order
      <4> QED BY <2>1, <4>1, <4>2, <4>3
    <3>2. TabIds(w) = TabIds(n)
      BY <3>1 DEF TabIds, ToSet
    <3>3. e.order = d.order
      BY <1>1, <2>1 DEF SaveOrder
    <3> QED BY <1>2, <3>1, <3>2, <3>3
  <2>2. CASE Order(w) # Order(n)
    <3>1. e.order = [i \in (DOMAIN d.order \ gone) \cup TabIds(n) |->
                       IF i \in TabIds(n) THEN PlaceOf(n, i) ELSE d.order[i]]
      BY <1>1, <2>2 DEF SaveOrder, gone
    <3>2. (DOMAIN d.order \ gone) \cup TabIds(n) = TabIds(n)
      BY <1>2, <1>5
    <3>3. \A k \in DOMAIN n.tabs : n.tabs[k].id \in TabIds(n) /\ PlaceOf(n, n.tabs[k].id) = k
      BY OneTab
    <3> QED BY <3>1, <3>2, <3>3
  <2> QED BY <2>1, <2>2
<1>13. e.nodes = NodesIn(n)
  <2>1. e.nodes = {r \in d.nodes : r.tab \notin gone \cup ids} \cup UNION {NodesOf(b) : b \in Changed(w, n)}
    BY <1>1 DEF SaveNodes, NodesOf, gone, ids
  <2>2. \A b : \A r \in NodesOf(b) : r.tab = b.id
    BY DEF NodesOf
  <2>3. ASSUME NEW r \in e.nodes PROVE r \in NodesIn(n)
    <3>1. CASE r \in d.nodes /\ r.tab \notin gone \cup ids
      <4>1. PICK b \in ToSet(w.tabs) : r \in NodesOf(b)
        BY <1>2, <3>1 DEF NodesIn
      <4>2. r.tab = b.id /\ b.id \in TabIds(n)
        BY <1>5, <1>7, <2>2, <3>1, <4>1
      <4>3. PICK c \in ToSet(n.tabs) : c.id = b.id
        BY <1>7, <4>2
      <4>4. c \in ToSet(w.tabs)
        BY <1>8, <3>1, <4>2, <4>3
      <4>5. c = b
        BY <4>3, <4>4, OneTab
      <4> QED BY <4>1, <4>5 DEF NodesIn
    <3>2. CASE r \in UNION {NodesOf(b) : b \in Changed(w, n)}
      BY <1>6, <3>2 DEF NodesIn
    <3> QED BY <2>1, <3>1, <3>2
  <2>4. ASSUME NEW r \in NodesIn(n) PROVE r \in e.nodes
    <3>1. PICK b \in ToSet(n.tabs) : r \in NodesOf(b)
      BY DEF NodesIn
    <3>2. r.tab = b.id /\ b.id \in TabIds(n) /\ b.id \notin gone
      BY <1>5, <1>7, <2>2, <3>1
    <3>3. CASE b \in Changed(w, n)
      BY <2>1, <3>1, <3>3
    <3>4. CASE b \notin Changed(w, n)
      <4>1. b.id \notin ids
        <5> SUFFICES ASSUME b.id \in ids PROVE FALSE
          OBVIOUS
        <5>1. PICK c \in Changed(w, n) : c.id = b.id
          BY <1>6
        <5>2. c = b
          BY <1>6, <5>1, OneTab
        <5> QED BY <3>4, <5>2
      <4>2. r \in d.nodes
        BY <1>2, <1>6, <3>1, <3>4 DEF NodesIn
      <4> QED BY <2>1, <3>2, <4>1, <4>2
    <3> QED BY <3>3, <3>4
  <2> QED BY <2>3, <2>4
<1>14. e.rev = n.rev /\ e.task = n.task
  BY <1>1
<1>15. Rows(e, n)
  BY <1>3, <1>4, <1>10, <1>11, <1>12, <1>13, <1>14 DEF Rows
<1> QED BY <1>15 DEF e

\* Numbered from 1 to n, the nth is the one of number n.
Numbered(S, id, n, at) ==
  /\ S = {id[k] : k \in 1..n} /\ \A k \in 1..n : at[id[k]] = k
  /\ \A j, k \in 1..n : id[j] = id[k] => j = k

\* They are n, and the nth is the one of number n.
LEMMA NumberedIs ==
  ASSUME NEW n \in Nat, NEW S, NEW id, NEW at, Numbered(S, id, n, at)
  PROVE  /\ Cardinality(S) = n
         /\ \A k \in 1..n : Nth(S, at, k) = id[k]
<1> DEFINE Below(k) == {y \in S : at[y] < k}
<1> USE DEF Numbered
<1>1. ASSUME NEW k \in 1..(n + 1)
      PROVE  /\ IsFiniteSet(Below(k)) /\ Cardinality(Below(k)) = k - 1
  <2> DEFINE f == [i \in 1..(k - 1) |-> id[i]]
             B == Below(k)
  <2>1. \A i \in 1..(k - 1) : i \in 1..n
    OBVIOUS
  <2>2. \A y : y \in B <=> \E i \in 1..(k - 1) : y = id[i]
    BY <2>1
  <2>3. f \in [1..(k - 1) -> B] /\ \A i, j \in 1..(k - 1) : f[i] = f[j] => i = j
    <3> HIDE DEF B
    <3> QED BY <2>1, <2>2
  <2>4. \A y \in B : \E i \in 1..(k - 1) : f[i] = y
    <3> HIDE DEF B
    <3> QED BY <2>2
  <2> HIDE DEF f, B
  <2>5. f \in Bijection(1..(k - 1), B)
    <3>1. f \in Surjection(1..(k - 1), B)
      BY <2>3, <2>4 DEF Surjection
    <3>2. f \in Injection(1..(k - 1), B)
      BY <2>3 DEF Injection, IsInjective
    <3> QED BY <3>1, <3>2 DEF Bijection
  <2>6. IsFiniteSet(1..(k - 1)) /\ Cardinality(1..(k - 1)) = k - 1
    <3>1. 1 \in Int /\ k - 1 \in Int /\ k - 1 >= 0
      OBVIOUS
    <3>2. /\ IsFiniteSet(1..(k - 1))
          /\ Cardinality(1..(k - 1)) = IF 1 > k - 1 THEN 0 ELSE (k - 1) - 1 + 1
      BY <3>1, FS_Interval
    <3> QED BY <3>1, <3>2
  <2>7. ExistsBijection(1..(k - 1), B)
    BY <2>5 DEF ExistsBijection
  <2>8. IsFiniteSet(B) /\ Cardinality(B) = k - 1
    BY <2>6, <2>7, FS_Bijection
  <2> QED BY <2>8 DEF B
<1>2. Below(n + 1) = S
  OBVIOUS
<1>3. n + 1 \in 1..(n + 1) /\ (n + 1) - 1 = n
  OBVIOUS
<1>4. IsFiniteSet(S) /\ Cardinality(S) = n
  <2>1. IsFiniteSet(Below(n + 1)) /\ Cardinality(Below(n + 1)) = (n + 1) - 1
    <3> HIDE DEF Below
    <3> QED BY <1>1, <1>3
  <2> QED BY <1>2, <1>3, <2>1
<1>5. ASSUME NEW k \in 1..n PROVE Rank(S, at, id[k]) = k - 1
  <2>1. Rank(S, at, id[k]) = Cardinality(Below(at[id[k]]))
    BY DEF Rank
  <2>2. at[id[k]] = k /\ k \in 1..(n + 1)
    OBVIOUS
  <2> HIDE DEF Below
  <2> QED BY <1>1, <2>1, <2>2
<1>6. /\ \A x \in S : at[x] \in Nat
      /\ \A x, y \in S : at[x] = at[y] => x = y
  OBVIOUS
<1>7. \A k \in 1..Cardinality(S) : Nth(S, at, k) \in S /\ Rank(S, at, Nth(S, at, k)) = k - 1
  <2>1. IsFiniteSet(S)
    BY <1>4
  <2> QED BY <1>6, <2>1, NthIs
<1>8. ASSUME NEW k \in 1..n PROVE Nth(S, at, k) = id[k]
  <2>1. Nth(S, at, k) \in S /\ Rank(S, at, Nth(S, at, k)) = k - 1
    BY <1>4, <1>7
  <2>2. PICK j \in 1..n : Nth(S, at, k) = id[j]
    BY <2>1
  <2>3. j - 1 = k - 1
    BY <1>5, <2>1, <2>2
  <2> QED BY <2>2, <2>3
<1> QED BY <1>4, <1>8

\* The nodes of a tab are read back as its panes.
LEMMA LoadedPanes ==
  ASSUME NEW w, Whole(w), NEW d, d.nodes = NodesIn(w), NEW b \in ToSet(w.tabs)
  PROVE  PanesOf(d, b.id) = b.panes
<1> DEFINE node(p) == [tab |-> b.id, path |-> p, terminal |-> b.panes[p]]
           mine == {r \in d.nodes : r.tab = b.id}
           paths == {r.path : r \in mine}
<1>1. b.panes = [p \in DOMAIN b.panes |-> b.panes[p]]
  BY DEF Whole, TabsAre, Tiled, TabIs, Panes, ToSet
<1>2. \A r \in d.nodes : \E c \in ToSet(w.tabs) : r \in NodesOf(c) /\ r.tab = c.id
  BY DEF NodesIn, NodesOf
<1>3. \A r : r \in d.nodes /\ r.tab = b.id <=> r \in NodesOf(b)
  <2>1. \A r \in NodesOf(b) : r \in d.nodes /\ r.tab = b.id
    <3>1. \A r \in NodesOf(b) : r.tab = b.id
      BY DEF NodesOf
    <3> QED BY <3>1 DEF NodesIn
  <2>2. ASSUME NEW r \in d.nodes, r.tab = b.id PROVE r \in NodesOf(b)
    <3>1. PICK c \in ToSet(w.tabs) : r \in NodesOf(c) /\ r.tab = c.id
      BY <1>2
    <3>2. c = b
      BY <2>2, <3>1, OneTab
    <3> QED BY <3>1, <3>2
  <2> QED BY <2>1, <2>2
<1>4. \A r : r \in NodesOf(b) <=> \E p \in DOMAIN b.panes : r = node(p)
  BY DEF NodesOf
<1>5. \A p : node(p).path = p /\ node(p).terminal = b.panes[p]
  OBVIOUS
<1> HIDE DEF node
<1>6. paths = DOMAIN b.panes
  <2>1. \A r : r \in mine <=> \E p \in DOMAIN b.panes : r = node(p)
    BY <1>3, <1>4
  <2> HIDE DEF mine
  <2> QED BY <1>5, <2>1
<1>7. ASSUME NEW p \in DOMAIN b.panes
      PROVE  (CHOOSE r \in d.nodes : r.tab = b.id /\ r.path = p) = node(p)
  <2>1. node(p) \in d.nodes /\ node(p).tab = b.id /\ node(p).path = p
    BY <1>3, <1>4, <1>5
  <2>2. ASSUME NEW r \in d.nodes, r.tab = b.id, r.path = p PROVE r = node(p)
    <3>1. PICK q \in DOMAIN b.panes : r = node(q)
      BY <1>3, <1>4, <2>2
    <3> QED BY <1>5, <2>2, <3>1
  <2> QED BY <2>1, <2>2
<1> DEFINE chosen(p) == CHOOSE r \in d.nodes : r.tab = b.id /\ r.path = p
<1>8. PanesOf(d, b.id) = [p \in paths |-> chosen(p).terminal]
  BY DEF PanesOf
<1>10. \A p \in DOMAIN b.panes : chosen(p).terminal = b.panes[p]
  BY <1>5, <1>7
<1> HIDE DEF paths, chosen
<1>9. PanesOf(d, b.id) = [p \in DOMAIN b.panes |-> b.panes[p]]
  BY <1>6, <1>8, <1>10
<1> QED BY <1>1, <1>9

\* The rows are read back as the workspace they were written from.
LEMMA LoadedIs ==
  ASSUME NEW w, Whole(w), NEW d, Rows(d, w)
  PROVE  Load(d) = w
<1> DEFINE s == w.tabs
           kept == {id \in DOMAIN d.tabs : PanesOf(d, id) # NoPane}
           row(id) == Tab(id, d.tabs[id], PanesOf(d, id))
           ids == [k \in 1..Len(s) |-> s[k].id]
<1>1. /\ DOMAIN d.tabs = TabIds(w) /\ \A b \in ToSet(s) : d.tabs[b.id] = b.space
      /\ DOMAIN d.order = TabIds(w) /\ \A k \in DOMAIN s : d.order[s[k].id] = k
      /\ d.nodes = NodesIn(w)
  BY DEF Rows
<1>2. /\ DOMAIN s = 1..Len(s) /\ Len(s) \in Nat /\ s = [k \in 1..Len(s) |-> s[k]]
      /\ \A k \in 1..Len(s) : s[k] = Tab(s[k].id, s[k].space, s[k].panes) /\ s[k].panes # NoPane
      /\ \A j, k \in 1..Len(s) : s[j].id = s[k].id => j = k
  <2>1. Lists(s)
    BY DEF Whole, TabsAre, Tiled
  <2>2. DOMAIN s = 1..Len(s) /\ Len(s) \in Nat /\ s = [k \in 1..Len(s) |-> s[k]]
    BY <2>1, ListIs DEF Lists
  <2>3. \A k \in DOMAIN s : s[k] = Tab(s[k].id, s[k].space, s[k].panes) /\ s[k].panes # NoPane
    BY DEF Whole, TabsAre, Tiled, Full, TabIs
  <2>4. \A j, k \in DOMAIN s : s[j].id = s[k].id => j = k
    BY DEF Whole, TabsAre, Tiled
  <2> QED BY <2>2, <2>3, <2>4
<1>3. \A k \in 1..Len(s) : /\ s[k].id \in DOMAIN d.tabs /\ d.tabs[s[k].id] = s[k].space
                           /\ PanesOf(d, s[k].id) = s[k].panes
  <2>1. \A b \in ToSet(s) : PanesOf(d, b.id) = b.panes
    BY <1>1, LoadedPanes
  <2>2. \A k \in 1..Len(s) : s[k] \in ToSet(s) /\ s[k].id \in TabIds(w)
    BY <1>2 DEF ToSet, TabIds
  <2> QED BY <1>1, <2>1, <2>2
<1>4. DOMAIN d.tabs = {s[k].id : k \in 1..Len(s)}
  BY <1>1, <1>2 DEF TabIds, ToSet
<1>5. kept = {ids[k] : k \in 1..Len(s)}
  <2>1. kept = {s[k].id : k \in 1..Len(s)}
    BY <1>2, <1>3, <1>4
  <2>2. \A k \in 1..Len(s) : ids[k] = s[k].id
    OBVIOUS
  <2> HIDE DEF ids, kept
  <2> QED BY <2>1, <2>2
<1>6. /\ \A j, k \in 1..Len(s) : ids[j] = ids[k] => j = k
      /\ \A k \in 1..Len(s) : d.order[ids[k]] = k
  BY <1>1, <1>2
<1>7. \A k \in 1..Len(s) : ids[k] = s[k].id
  OBVIOUS
<1>8. LoadedTabs(d) = [k \in 1..Cardinality(kept) |-> row(Nth(kept, d.order, k))]
  BY DEF LoadedTabs
<1> HIDE DEF ids, kept
<1>9. Cardinality(kept) = Len(s) /\ \A k \in 1..Len(s) : Nth(kept, d.order, k) = ids[k]
  <2>1. Len(s) \in Nat
    BY <1>2
  <2>2. Numbered(kept, ids, Len(s), d.order)
    BY <1>5, <1>6 DEF Numbered
  <2> QED BY <2>1, <2>2, NumberedIs
<1>10. \A k \in 1..Len(s) : row(ids[k]) = s[k]
  BY <1>2, <1>3, <1>7
<1> HIDE DEF row
<1>11. LoadedTabs(d) = s
  BY <1>2, <1>8, <1>9, <1>10
<1>12. /\ Load(d).rev = d.rev /\ Load(d).spaces = Spaces \ d.removed /\ Load(d).task = d.task
       /\ Load(d).terms = d.terms /\ Load(d).tabs = LoadedTabs(d)
  BY DEF Load
<1>13. Record(Load(d))
  BY RecordIs DEF Load, Record, Fields
<1>14. d.rev = w.rev /\ d.task = w.task /\ d.terms = w.terms /\ Spaces \ d.removed = w.spaces
  BY DEF Rows, Whole
<1>15. Record(w)
  BY DEF Whole
<1> QED BY <1>11, <1>12, <1>13, <1>14, <1>15, SameRecord

\* No terminal is in two nodes.
LEMMA OneNode ==
  ASSUME NEW w, Whole(w), NEW r \in NodesIn(w), NEW x \in NodesIn(w), r.terminal = x.terminal
  PROVE  r = x
<1>1. PICK b \in ToSet(w.tabs) : r \in NodesOf(b)
  BY DEF NodesIn
<1>2. PICK c \in ToSet(w.tabs) : x \in NodesOf(c)
  BY DEF NodesIn
<1>3. PICK p \in DOMAIN b.panes : r = [tab |-> b.id, path |-> p, terminal |-> b.panes[p]]
  BY <1>1 DEF NodesOf
<1>4. PICK q \in DOMAIN c.panes : x = [tab |-> c.id, path |-> q, terminal |-> c.panes[q]]
  BY <1>2 DEF NodesOf
<1>5. b.panes[p] = c.panes[q]
  BY <1>3, <1>4
<1>6. PICK i \in DOMAIN w.tabs : w.tabs[i] = b
  BY DEF ToSet
<1>7. PICK j \in DOMAIN w.tabs : w.tabs[j] = c
  BY DEF ToSet
<1>8. i = j
  <2>1. b.panes[p] \in Ids(w.tabs[i].panes) \cap Ids(w.tabs[j].panes)
    BY <1>5, <1>6, <1>7 DEF Ids
  <2> QED BY <2>1 DEF Whole, TabsAre, Tiled
<1>9. p = q
  <2>1. Distinct(b.panes)
    BY <1>6 DEF Whole, TabsAre, Tiled
  <2> QED BY <1>5, <1>6, <1>7, <1>8, <2>1 DEF Distinct
<1> QED BY <1>3, <1>4, <1>6, <1>7, <1>8, <1>9

(***************************************************************************)
(* Tabs, rows and windows: the inductive invariant.                        *)
(***************************************************************************)
\* What waits to be asked.
Requests(s) == \E S : s \in Seq(S) /\ \A e \in S : Asked(e)

\* What a job asks and what it was answered.
Errand(j) ==
  /\ Requests(j.reqs) /\ (j.stage = "sent" => j.reqs # <<>>)
  /\ \A w \in j.reply : Whole(w)

\* What a window shows and holds was the workspace once.
Sight(p) ==
  /\ Whole(p.view) /\ Errand(p.job) /\ Requests(p.queue)
  /\ \A w \in p.sync.reply : Whole(w)

Sound ==
  /\ Whole(host) /\ Rows(disk, host)
  /\ \A a \in Apps : Sight(apps[a])

LEMMA RequestsAre ==
  ASSUME NEW S, \A e \in S : Asked(e), NEW s \in Seq(S)
  PROVE  Requests(s)
BY DEF Requests

\* The next request, and those after it.
LEMMA HeadAsked ==
  ASSUME NEW s, Requests(s), s # <<>>
  PROVE  /\ Asked(Head(s)) /\ Requests(Tail(s)) /\ (Len(s) > 1 => Tail(s) # <<>>)
<1>1. PICK S : s \in Seq(S) /\ \A e \in S : Asked(e)
  BY DEF Requests
<1>2. Head(s) \in S /\ Tail(s) \in Seq(S)
  BY <1>1
<1>3. Len(s) > 1 => Tail(s) # <<>>
  BY <1>1
<1> QED BY <1>1, <1>2, <1>3 DEF Requests

LEMMA OneAsked ==
  ASSUME NEW e, Asked(e)
  PROVE  Requests(<<e>>) /\ <<e>> # <<>>
<1>1. <<e>> \in Seq({e}) /\ \A x \in {e} : Asked(x)
  OBVIOUS
<1>2. Requests(<<e>>)
  BY <1>1, RequestsAre
<1> QED BY <1>2

LEMMA TwoAsked ==
  ASSUME NEW e, Asked(e), NEW f, Asked(f)
  PROVE  Requests(<<e, f>>) /\ <<e, f>> # <<>>
<1>1. <<e, f>> \in Seq({e, f}) /\ \A x \in {e, f} : Asked(x)
  OBVIOUS
<1>2. Requests(<<e, f>>)
  BY <1>1, RequestsAre
<1> QED BY <1>2

LEMMA MoreAsked ==
  ASSUME NEW s, Requests(s), NEW e, Asked(e)
  PROVE  Requests(Append(s, e))
<1>1. PICK S : s \in Seq(S) /\ \A f \in S : Asked(f)
  BY DEF Requests
<1>2. s \in Seq(S \cup {e})
  BY <1>1
<1>3. Append(s, e) \in Seq(S \cup {e})
  BY <1>2
<1> QED BY <1>1, <1>3 DEF Requests

\* However a request ends.
LEMMA OutcomeWhole ==
  ASSUME Whole(host), NEW r, Asked(r), NEW rev, NEW o \in Outcomes(r, rev)
  PROVE  Whole(o.host) /\ o.host.spaces \subseteq host.spaces
<1> DEFINE launched(state, revs) == [host EXCEPT !.rev = @ + revs, !.terms[r.terminal] = state]
           edited == [Edited(host, r) EXCEPT !.rev = host.rev + 1]
<1>1. \/ o.host = host
      \/ o.host = launched("running", 2) \/ o.host = launched("failed", 2)
      \/ o.host = launched("starting", 1)
      \/ o.host = edited /\ ~Refused(host, r)
  <2> DEFINE left(ok, w, held, stop, faults) ==
               [ok |-> ok, host |-> w, here |-> held, hup |-> stop, faults |-> faults]
  <2>1. \/ o = left(FALSE, host, here, hup, 0)
        \/ o = left(TRUE, launched("running", 2), here \cup {r.terminal}, hup, 0)
        \/ o = left(FALSE, launched("failed", 2), here, hup, 1)
        \/ o = left(FALSE, launched("starting", 1), here, hup, 1)
        \/ /\ o = left(TRUE, edited, here, hup \cup (Stopped(host, r) \cap Live), 0)
           /\ ~Refused(host, r)
    BY DEF Outcomes
  <2> HIDE DEF launched, edited
  <2> QED BY <2>1
<1>2. ASSUME NEW state, state # "none", NEW revs
      PROVE  Whole(launched(state, revs)) /\ launched(state, revs).spaces = host.spaces
  <2> DEFINE n == launched(state, revs)
  <2>1. Staged(host, n, r.terminal, state, revs)
    BY DEF Staged
  <2> HIDE DEF launched, n
  <2>2. Whole(n) /\ n.spaces = host.spaces
    BY <1>2, <2>1, StateWhole
  <2> QED BY <2>2 DEF n
<1>3. CASE o.host = edited /\ ~Refused(host, r)
  BY <1>3, EditedWhole
<1>4. \A state, revs : state # "none" =>
        Whole(launched(state, revs)) /\ launched(state, revs).spaces = host.spaces
  BY <1>2
<1> HIDE DEF launched, edited
<1>5. "running" # "none" /\ "failed" # "none" /\ "starting" # "none"
  OBVIOUS
<1>6. CASE \/ o.host = launched("running", 2) \/ o.host = launched("failed", 2)
           \/ o.host = launched("starting", 1)
  BY <1>4, <1>5, <1>6
<1> QED BY <1>1, <1>3, <1>6

\* Whatever is taken is a workspace, and the rows are its rows.
LEMMA TakesSound ==
  ASSUME Sound, NEW r, Asked(r), NEW rev, NEW o \in Outcomes(r, rev), Takes(o)
  PROVE  Whole(host') /\ Rows(disk', host') /\ Whole(o.host)
<1>1. host' = o.host /\ disk' = Save(disk, host, o.host)
  BY DEF Takes
<1>2. Whole(o.host) /\ o.host.spaces \subseteq host.spaces
  BY OutcomeWhole DEF Sound
<1>3. Rows(Save(disk, host, o.host), o.host)
  BY <1>2, SavedRows DEF Sound
<1> QED BY <1>1, <1>2, <1>3

\* One window changes.
LEMMA OneSight ==
  ASSUME IInv, Sound, NEW a \in Apps, NEW q, Sight(q), apps' = [apps EXCEPT ![a] = q],
         Whole(host'), Rows(disk', host')
  PROVE  Sound'
<1>1. \A b \in Apps : apps'[b] = q \/ apps'[b] = apps[b]
  BY DEF IInv
<1>2. \A b \in Apps : Sight(apps'[b])
  BY <1>1 DEF Sound
<1> QED BY <1>2 DEF Sound

\* The fields that a step sets.
Fielded(p) ==
  /\ {"view", "job", "queue", "heard", "sync", "again"} \subseteq DOMAIN p
  /\ {"stage", "launch", "reqs", "rev", "saw", "reply"} \subseteq DOMAIN p.job

LEMMA JobSight ==
  ASSUME NEW p, Fielded(p), Sight(p), NEW j, Errand(j)
  PROVE  Sight([p EXCEPT !.job = j])
<1> DEFINE q == [p EXCEPT !.job = j]
<1>1. q.job = j /\ q.view = p.view /\ q.queue = p.queue /\ q.sync = p.sync
  BY DEF Fielded
<1> HIDE DEF q
<1>2. Sight(q)
  BY <1>1 DEF Sight
<1> QED BY <1>2 DEF q

LEMMA QueueSight ==
  ASSUME NEW p, Fielded(p), Sight(p), NEW x, Requests(x)
  PROVE  Sight([p EXCEPT !.queue = x])
<1> DEFINE q == [p EXCEPT !.queue = x]
<1>1. q.job = p.job /\ q.view = p.view /\ q.queue = x /\ q.sync = p.sync
  BY DEF Fielded
<1> HIDE DEF q
<1>2. Sight(q)
  BY <1>1 DEF Sight
<1> QED BY <1>2 DEF q

LEMMA SendingErrand ==
  ASSUME NEW v, NEW s, Requests(s), s # <<>>
  PROVE  Errand(Sending(v, s))
BY DEF Errand, Sending

LEMMA IdleErrand ==
  Errand(Idle)
<1>1. <<>> \in Seq({}) /\ \A x \in {} : Asked(x)
  OBVIOUS
<1>2. Requests(<<>>)
  BY <1>1, RequestsAre
<1> QED BY <1>2 DEF Errand, Idle

\* A click sends or queues a request that may be asked.
LEMMA ClickSound ==
  ASSUME IInv, Sound, NEW a \in Apps, NEW e, Asked(e), Click(a, e)
  PROVE  Sound'
<1> DEFINE p == apps[a]
<1>1. Fielded(p) /\ Sight(p) /\ UNCHANGED <<host, disk>> /\ Whole(host) /\ Rows(disk, host)
  BY DEF IInv, WindowIs, Held, JobIs, Click, Fielded, Sound
<1>2. \/ apps' = [apps EXCEPT ![a] = [p EXCEPT !.job = Sending(p.view, <<e>>)]]
      \/ apps' = [apps EXCEPT ![a] = [p EXCEPT !.queue = Append(p.queue, e)]]
  BY DEF Click
<1> HIDE DEF p
<1>3. Requests(Append(p.queue, e)) /\ Errand(Sending(p.view, <<e>>))
  BY <1>1, OneAsked, MoreAsked, SendingErrand DEF Sight
<1>4. Sight([p EXCEPT !.job = Sending(p.view, <<e>>)])
  BY <1>1, <1>3, JobSight
<1>5. Sight([p EXCEPT !.queue = Append(p.queue, e)])
  BY <1>1, <1>3, QueueSight
<1> QED BY <1>1, <1>2, <1>4, <1>5, OneSight

\* The tabs of a workspace.
LEMMA SeenTab ==
  ASSUME NEW w, Whole(w), NEW b \in ToSet(w.tabs)
  PROVE  TabIs(b) /\ Panes(b.panes) /\ b.panes # NoPane
BY DEF Whole, TabsAre, Tiled, Full, TabIs, ToSet

LEMMA PutAsked ==
  ASSUME NEW b, TabIs(b), b.panes # NoPane
  PROVE  Asked(PutTab(b))
BY DEF Asked, PutTab

\* A tab with a pane more, as the window saw it, may be asked for.
LEMMA BesideAsked ==
  ASSUME NEW b, TabIs(b), NEW x \in Ids(b.panes), NEW t
  PROVE  Asked(PutTab([b EXCEPT !.panes = SplitBeside(@, x, t, FALSE)]))
<1> DEFINE m == SplitBeside(b.panes, x, t, FALSE)
           c == [b EXCEPT !.panes = m]
<1>1. Panes(m) /\ m # NoPane
  BY SplitBesideIs DEF TabIs, Parted
<1>2. [b EXCEPT !.panes = SplitBeside(@, x, t, FALSE)] = c
  OBVIOUS
<1> HIDE DEF m
<1>3. c = Tab(b.id, b.space, m) /\ c.id = b.id /\ c.space = b.space /\ c.panes = m
  BY PanesGiven
<1> HIDE DEF c
<1>4. TabIs(c) /\ c.panes # NoPane
  BY <1>1, <1>3 DEF TabIs
<1>5. Asked(PutTab(c))
  BY <1>4, PutAsked
<1> QED BY <1>2, <1>5

\* A tab with another terminal in a pane may be asked for.
LEMMA ReplaceAsked ==
  ASSUME NEW b, TabIs(b), b.panes # NoPane, NEW x, NEW t
  PROVE  Asked(PutTab([b EXCEPT !.panes = ReplaceLeaf(@, x, t)]))
<1> DEFINE m == ReplaceLeaf(b.panes, x, t)
           c == [b EXCEPT !.panes = m]
<1>1. Panes(m) /\ m # NoPane
  BY ReplaceLeafIs DEF TabIs
<1>2. [b EXCEPT !.panes = ReplaceLeaf(@, x, t)] = c
  OBVIOUS
<1> HIDE DEF m
<1>3. c = Tab(b.id, b.space, m) /\ c.id = b.id /\ c.space = b.space /\ c.panes = m
  BY PanesGiven
<1> HIDE DEF c
<1>4. TabIs(c) /\ c.panes # NoPane
  BY <1>1, <1>3 DEF TabIs
<1>5. Asked(PutTab(c))
  BY <1>4, PutAsked
<1> QED BY <1>2, <1>5

LEMMA LeafAsked ==
  ASSUME NEW id, NEW space, NEW t
  PROVE  Asked(PutTab(Tab(id, space, Leaf(t))))
<1> DEFINE b == Tab(id, space, Leaf(t))
<1>1. b.panes = Leaf(t) /\ b = Tab(b.id, b.space, b.panes)
  BY TabFields
<1> HIDE DEF b
<1>2. TabIs(b) /\ b.panes # NoPane
  BY <1>1, LeafIs DEF TabIs
<1>3. Asked(PutTab(b))
  BY <1>2, PutAsked
<1> QED BY <1>3 DEF b

LEMMA FieldsAre ==
  ASSUME IInv, Sound, NEW a \in Apps
  PROVE  Fielded(apps[a]) /\ Sight(apps[a]) /\ Whole(host) /\ Rows(disk, host)
BY DEF IInv, WindowIs, Held, JobIs, Fielded, Sound

\* What the users click asks for tabs with panes only.
LEMMA ClicksAsked ==
  ASSUME IInv, Sound, NEW a \in Apps,
         PutTabAsSeen(a) \/ PutInOwnTab(a) \/ Close(a) \/ MoveATab(a) \/ EditTask(a)
  PROVE  \E e : Asked(e) /\ Click(a, e)
<1> DEFINE v == apps[a].view
<1>1. Whole(v)
  BY FieldsAre DEF Sight
<1>2. CASE PutTabAsSeen(a)
  <2>1. PICK b \in ToSet(v.tabs) :
          \/ Click(a, PutTab(b))
          \/ \E t : Click(a, PutTab([b EXCEPT !.panes = SplitBeside(@, LastPane(@), t, FALSE)]))
    BY <1>2 DEF PutTabAsSeen
  <2>2. TabIs(b) /\ Panes(b.panes) /\ b.panes # NoPane
    BY <1>1, SeenTab
  <2>3. CASE Click(a, PutTab(b))
    BY <2>2, <2>3, PutAsked
  <2>4. ASSUME NEW t, Click(a, PutTab([b EXCEPT !.panes = SplitBeside(@, LastPane(@), t, FALSE)]))
        PROVE  \E e : Asked(e) /\ Click(a, e)
    <3> DEFINE x == LastPane(b.panes)
               e == PutTab([b EXCEPT !.panes = SplitBeside(@, x, t, FALSE)])
    <3>1. x \in Ids(b.panes)
      BY <2>2, LastPaneIs
    <3>2. Click(a, e)
      BY <2>4
    <3> HIDE DEF x
    <3>3. Asked(e)
      BY <2>2, <3>1, BesideAsked
    <3> HIDE DEF e
    <3> QED BY <3>2, <3>3
  <2> QED BY <2>1, <2>3, <2>4
<1>3. CASE PutInOwnTab(a)
  <2>1. PICK id, space, t : Click(a, PutTab(Tab(id, space, Leaf(t))))
    BY <1>3 DEF PutInOwnTab
  <2> QED BY <2>1, LeafAsked
<1>4. CASE Close(a) \/ MoveATab(a) \/ EditTask(a)
  <2>1. PICK e : Click(a, e) /\ e.kind # "PutTab"
    <3>1. CASE Close(a)
      <4>1. \A x : /\ CloseTab(x).kind # "PutTab" /\ ClosePane(x).kind # "PutTab"
                    /\ RemoveSpace(x).kind # "PutTab"
        BY DEF CloseTab, ClosePane, RemoveSpace
      <4> QED BY <3>1, <4>1 DEF Close
    <3>2. CASE MoveATab(a)
      BY <3>2 DEF MoveATab, MoveTab
    <3>3. CASE EditTask(a)
      BY <3>3 DEF EditTask, UpdateTask, SetTaskOutcome
    <3> QED BY <1>4, <3>1, <3>2, <3>3
  <2> QED BY <2>1 DEF Asked
<1> QED BY <1>2, <1>3, <1>4

LEMMA LaunchSound ==
  ASSUME IInv, Sound, NEW a \in Apps, LaunchInSlot(a)
  PROVE  Sound'
<1> DEFINE p == apps[a]
           v == p.view
           t == used.terms + 1
           sends(tab) == apps' = [apps EXCEPT ![a].job = Sending(v, <<Launch(t, tab.space), PutTab(tab)>>)]
<1>1. Fielded(p) /\ Sight(p) /\ Whole(v) /\ Whole(host) /\ Rows(disk, host)
  BY FieldsAre DEF Sight
<1>2. UNCHANGED <<host, disk>>
  BY DEF LaunchInSlot
<1>3. \/ \E id, s : sends(Tab(id, s, Leaf(t)))
      \/ \E b \in ToSet(v.tabs) : \E x \in Ids(b.panes) :
           \/ sends([b EXCEPT !.panes = ReplaceLeaf(@, x, t)])
           \/ sends([b EXCEPT !.panes = SplitBeside(@, x, t, FALSE)])
  BY DEF LaunchInSlot
<1> HIDE DEF sends
<1>4. PICK tab : Asked(PutTab(tab)) /\ sends(tab)
  <2>1. CASE \E id, s : sends(Tab(id, s, Leaf(t)))
    BY <2>1, LeafAsked
  <2>2. ASSUME NEW b \in ToSet(v.tabs), NEW x \in Ids(b.panes),
               sends([b EXCEPT !.panes = ReplaceLeaf(@, x, t)])
        PROVE  \E tab : Asked(PutTab(tab)) /\ sends(tab)
    <3>1. TabIs(b) /\ b.panes # NoPane
      BY <1>1, SeenTab
    <3> DEFINE tab == [b EXCEPT !.panes = ReplaceLeaf(@, x, t)]
    <3>2. Asked(PutTab(tab))
      BY <3>1, ReplaceAsked
    <3>3. sends(tab)
      BY <2>2
    <3> HIDE DEF tab
    <3> QED BY <3>2, <3>3
  <2>3. ASSUME NEW b \in ToSet(v.tabs), NEW x \in Ids(b.panes),
               sends([b EXCEPT !.panes = SplitBeside(@, x, t, FALSE)])
        PROVE  \E tab : Asked(PutTab(tab)) /\ sends(tab)
    <3>1. TabIs(b)
      BY <1>1, SeenTab
    <3> DEFINE tab == [b EXCEPT !.panes = SplitBeside(@, x, t, FALSE)]
    <3>2. Asked(PutTab(tab))
      BY <3>1, BesideAsked
    <3>3. sends(tab)
      BY <2>3
    <3> HIDE DEF tab
    <3> QED BY <3>2, <3>3
  <2> QED BY <1>3, <2>1, <2>2, <2>3
<1> DEFINE reqs == <<Launch(t, tab.space), PutTab(tab)>>
<1>5. Requests(reqs) /\ reqs # <<>>
  <2>1. Asked(Launch(t, tab.space))
    BY DEF Asked, Launch
  <2> QED BY <1>4, <2>1, TwoAsked
<1>6. apps' = [apps EXCEPT ![a] = [p EXCEPT !.job = Sending(v, reqs)]]
  BY <1>4 DEF sends
<1> HIDE DEF reqs, p
<1>7. Errand(Sending(v, reqs))
  BY <1>5, SendingErrand
<1> HIDE DEF v
<1>8. Sight([p EXCEPT !.job = Sending(v, reqs)])
  BY <1>1, <1>7, JobSight
<1> QED BY <1>1, <1>2, <1>6, <1>8, OneSight

\* The answer, and the next request of the job.
LEMMA ServeSound ==
  ASSUME IInv, Sound, NEW a \in Apps, Serve(a)
  PROVE  Sound'
<1> DEFINE p == apps[a]
           j == p.job
<1>1. PICK o \in Outcomes(Head(j.reqs), j.rev) :
        /\ Takes(o) /\ j.stage = "sent"
        /\ apps' = [apps EXCEPT ![a].job =
            IF ~o.ok THEN [j EXCEPT !.stage = "answered"]
            ELSE IF Len(j.reqs) > 1 THEN [j EXCEPT !.reqs = Tail(@)]
            ELSE [j EXCEPT !.stage = "answered", !.reply = {o.host}]]
  BY DEF Serve
<1>2. PICK k : /\ apps' = [apps EXCEPT ![a] = [p EXCEPT !.job = k]]
               /\ \/ k = [j EXCEPT !.stage = "answered"]
                  \/ Len(j.reqs) > 1 /\ k = [j EXCEPT !.reqs = Tail(@)]
                  \/ k = [j EXCEPT !.stage = "answered", !.reply = {o.host}]
  BY <1>1
<1>3. Fielded(p) /\ Sight(p)
  BY FieldsAre
<1>4. /\ {"stage", "launch", "reqs", "rev", "saw", "reply"} \subseteq DOMAIN j
      /\ Requests(j.reqs) /\ j.reqs # <<>> /\ \A w \in j.reply : Whole(w)
  BY <1>1, <1>3 DEF Fielded, Sight, Errand
<1> HIDE DEF j, p
<1>5. Asked(Head(j.reqs)) /\ Requests(Tail(j.reqs)) /\ (Len(j.reqs) > 1 => Tail(j.reqs) # <<>>)
  BY <1>4, HeadAsked
<1>6. Whole(host') /\ Rows(disk', host') /\ Whole(o.host)
  BY <1>1, <1>5, TakesSound
<1>7. Errand(k)
  <2>1. CASE k = [j EXCEPT !.stage = "answered"]
    <3>1. k.reqs = j.reqs /\ k.stage = "answered" /\ k.reply = j.reply
      BY <1>4, <2>1
    <3> QED BY <1>4, <3>1 DEF Errand
  <2>2. CASE Len(j.reqs) > 1 /\ k = [j EXCEPT !.reqs = Tail(@)]
    <3>1. k.reqs = Tail(j.reqs) /\ k.reply = j.reply
      BY <1>4, <2>2
    <3> QED BY <1>4, <1>5, <2>2, <3>1 DEF Errand
  <2>3. CASE k = [j EXCEPT !.stage = "answered", !.reply = {o.host}]
    <3>1. k.reqs = j.reqs /\ k.stage = "answered" /\ k.reply = {o.host}
      BY <1>4, <2>3
    <3> QED BY <1>4, <1>6, <3>1 DEF Errand
  <2> QED BY <1>2, <2>1, <2>2, <2>3
<1>8. Sight([p EXCEPT !.job = k])
  BY <1>3, <1>7, JobSight
<1> QED BY <1>2, <1>6, <1>8, OneSight

LEMMA SyncingSight ==
  ASSUME Whole(host), NEW p, Fielded(p), Sight(p)
  PROVE  Fielded(Syncing(p)) /\ Sight(Syncing(p))
<1> DEFINE q == Syncing(p)
           fetched == [asked |-> TRUE, reply |-> {host}]
<1>1. fetched.reply = {host}
  OBVIOUS
<1> HIDE DEF fetched
<1>2. /\ DOMAIN q = DOMAIN p /\ q.job = p.job /\ q.view = p.view /\ q.queue = p.queue
      /\ q.sync = fetched \/ q.sync = p.sync
  BY DEF Fielded, Syncing, fetched
<1> HIDE DEF q
<1>3. Fielded(q) /\ Sight(q)
  BY <1>1, <1>2 DEF Fielded, Sight
<1> QED BY <1>3 DEF q

LEMMA AppliedWhole ==
  ASSUME NEW v, Whole(v), NEW reply, \A w \in reply : Whole(w)
  PROVE  Whole(Applied(v, reply))
<1>1. CASE \E w \in reply : w.rev >= v.rev
  <2>1. (CHOOSE w \in reply : TRUE) \in reply
    BY <1>1
  <2>2. Applied(v, reply) = CHOOSE w \in reply : TRUE
    BY <1>1 DEF Applied
  <2> QED BY <2>1, <2>2
<1>2. CASE ~\E w \in reply : w.rev >= v.rev
  BY <1>2 DEF Applied
<1> QED BY <1>1, <1>2

LEMMA AnswerSound ==
  ASSUME IInv, Sound, NEW a \in Apps, Answer(a)
  PROVE  Sound'
<1> DEFINE p == apps[a]
           q == [p EXCEPT !.job = Idle, !.view = Applied(@, p.job.reply)]
           s == IF p.job.reply # {} /\ Behind(q) THEN Syncing(q) ELSE q
<1>1. Fielded(p) /\ Sight(p) /\ Whole(host) /\ Rows(disk, host)
  BY FieldsAre
<1>2. UNCHANGED <<host, disk>>
  BY DEF Answer
<1>3. \/ apps' = [apps EXCEPT ![a] = s]
      \/ /\ p.queue # <<>>
         /\ apps' = [apps EXCEPT ![a] = [s EXCEPT !.queue = Tail(@),
                                                  !.job = Sending(s.view, <<Head(p.queue)>>)]]
  BY DEF Answer
<1>4. /\ DOMAIN q = DOMAIN p /\ q.job = Idle /\ q.queue = p.queue /\ q.sync = p.sync
      /\ q.view = Applied(p.view, p.job.reply)
  BY <1>1 DEF Fielded
<1> HIDE DEF p, q
<1>5. Fielded(q)
  BY <1>1, <1>4 DEF Fielded, Idle
<1>6. Sight(q)
  BY <1>1, <1>4, AppliedWhole, IdleErrand DEF Sight, Errand
<1>7. Fielded(s) /\ Sight(s) /\ s.queue = p.queue
  <2>1. Syncing(q).queue = q.queue
    BY <1>5 DEF Syncing, Fielded
  <2> QED BY <1>1, <1>4, <1>5, <1>6, <2>1, SyncingSight
<1> HIDE DEF s
<1>8. CASE apps' = [apps EXCEPT ![a] = s]
  BY <1>1, <1>2, <1>7, <1>8, OneSight
<1>9. CASE /\ p.queue # <<>>
           /\ apps' = [apps EXCEPT ![a] = [s EXCEPT !.queue = Tail(@),
                                                    !.job = Sending(s.view, <<Head(p.queue)>>)]]
  <2> DEFINE j == Sending(s.view, <<Head(p.queue)>>)
             r == [s EXCEPT !.queue = Tail(s.queue), !.job = j]
  <2>1. Asked(Head(p.queue)) /\ Requests(Tail(p.queue))
    BY <1>1, <1>9, HeadAsked DEF Sight
  <2>2. Errand(j)
    BY <2>1, OneAsked, SendingErrand
  <2>3. apps' = [apps EXCEPT ![a] = r]
    BY <1>9
  <2> HIDE DEF j
  <2>4. r.queue = Tail(s.queue) /\ r.job = j /\ r.view = s.view /\ r.sync = s.sync
    BY <1>7 DEF Fielded
  <2> HIDE DEF r
  <2>5. Sight(r)
    BY <1>7, <2>1, <2>2, <2>4 DEF Sight
  <2> QED BY <1>1, <1>2, <2>3, <2>5, OneSight
<1> QED BY <1>3, <1>8, <1>9

LEMMA SyncAnswerSound ==
  ASSUME IInv, Sound, NEW a \in Apps, SyncAnswer(a)
  PROVE  Sound'
<1> DEFINE p == apps[a]
           q == [p EXCEPT !.sync = NoSync, !.again = FALSE, !.view = Applied(@, p.sync.reply)]
<1>1. Fielded(p) /\ Sight(p) /\ Whole(host) /\ Rows(disk, host)
  BY FieldsAre
<1>2. UNCHANGED <<host, disk>> /\ apps' = [apps EXCEPT ![a] = SyncEnd(p)]
  BY DEF SyncAnswer
<1>3. SyncEnd(p) = Syncing(q) \/ SyncEnd(p) = q
  BY DEF SyncEnd
<1>4. /\ DOMAIN q = DOMAIN p /\ q.job = p.job /\ q.queue = p.queue /\ q.sync = NoSync
      /\ q.view = Applied(p.view, p.sync.reply)
  BY <1>1 DEF Fielded
<1> HIDE DEF p, q
<1>5. NoSync.reply = {}
  BY DEF NoSync
<1>6. Fielded(q) /\ Sight(q)
  BY <1>1, <1>4, <1>5, AppliedWhole DEF Fielded, Sight
<1>7. Sight(SyncEnd(p))
  BY <1>1, <1>3, <1>6, SyncingSight
<1> QED BY <1>1, <1>2, <1>7, OneSight

LEMMA HearSound ==
  ASSUME IInv, Sound, NEW a \in Apps, Hear(a)
  PROVE  Sound'
<1> DEFINE p == apps[a]
           q == [p EXCEPT !.heard = host.rev]
<1>1. Fielded(p) /\ Sight(p) /\ Whole(host) /\ Rows(disk, host)
  BY FieldsAre
<1>2. /\ UNCHANGED <<host, disk>>
      /\ apps' = [apps EXCEPT ![a] = Syncing(q)] \/ apps' = [apps EXCEPT ![a] = q]
  BY DEF Hear
<1>3. DOMAIN q = DOMAIN p /\ q.job = p.job /\ q.queue = p.queue /\ q.sync = p.sync /\ q.view = p.view
  BY <1>1 DEF Fielded
<1> HIDE DEF p, q
<1>4. Fielded(q) /\ Sight(q)
  BY <1>1, <1>3 DEF Fielded, Sight
<1> QED BY <1>1, <1>2, <1>4, SyncingSight, OneSight

LEMMA HostSound ==
  ASSUME Sound, Whole(host'), Rows(disk', host'), UNCHANGED apps
  PROVE  Sound'
BY DEF Sound

LEMMA ExitSound ==
  ASSUME Sound, NEW t \in Terms, Exit(t)
  PROVE  Sound'
<1> DEFINE w == [host EXCEPT !.rev = @ + 1, !.terms[t] = "exited"]
<1>1. host' = w /\ disk' = Save(disk, host, w) /\ UNCHANGED apps
  BY DEF Exit
<1>2. Staged(host, w, t, "exited", 1) /\ "exited" # "none"
  BY DEF Staged
<1> HIDE DEF w
<1>3. Whole(host) /\ Rows(disk, host)
  BY DEF Sound
<1>4. Whole(w) /\ w.spaces = host.spaces
  BY <1>2, <1>3, StateWhole
<1>5. Rows(Save(disk, host, w), w)
  BY <1>3, <1>4, SavedRows
<1> QED BY <1>1, <1>4, <1>5, HostSound

\* The rows are read back as the workspace they were, and what ran is interrupted.
LEMMA ReopenedWhole ==
  ASSUME NEW d, NEW w, Whole(w), Load(d) = w
  PROVE  Whole(Reopened(d)) /\ Reopened(d).spaces = w.spaces
<1> DEFINE terms == [t \in Terms |-> IF w.terms[t] \in {"starting", "running"}
                                     THEN "interrupted" ELSE w.terms[t]]
           n == [w EXCEPT !.rev = @ + 1, !.terms = terms]
<1>1. Reopened(d) = n
  BY DEF Reopened
<1>2. /\ terms = [t \in Terms |-> terms[t]]
      /\ \A t \in Terms : w.terms[t] # "none" => terms[t] # "none"
  OBVIOUS
<1> HIDE DEF terms
<1>3. Record(n) /\ n.spaces = w.spaces /\ n.tabs = w.tabs /\ n.terms = terms
  BY DEF Whole, Record, Fields
<1> HIDE DEF n
<1>4. Whole(n)
  BY <1>2, <1>3, TermsWhole
<1> QED BY <1>1, <1>3, <1>4

\* What was under way is answered with nothing.
LEMMA CutOffSight ==
  ASSUME NEW p, Fielded(p), Sight(p)
  PROVE  Sight([p EXCEPT !.job  = IF @.stage = "idle" THEN @
                                  ELSE [@ EXCEPT !.stage = "answered", !.reply = {}],
                         !.sync = IF @ = NoSync THEN @ ELSE [asked |-> TRUE, reply |-> {}]])
<1> DEFINE j == IF p.job.stage = "idle" THEN p.job
                ELSE [p.job EXCEPT !.stage = "answered", !.reply = {}]
           y == IF p.sync = NoSync THEN p.sync ELSE [asked |-> TRUE, reply |-> {}]
           q == [p EXCEPT !.job = j, !.sync = y]
<1>1. Errand(j)
  <2>1. CASE p.job.stage = "idle"
    BY <2>1 DEF Sight
  <2>2. CASE p.job.stage # "idle"
    <3>1. j.reqs = p.job.reqs /\ j.stage = "answered" /\ j.reply = {}
      BY <2>2 DEF Fielded
    <3> HIDE DEF j
    <3> QED BY <3>1 DEF Sight, Errand
  <2> QED BY <2>1, <2>2
<1>2. \A w \in y.reply : Whole(w)
  BY DEF Sight
<1> HIDE DEF j, y
<1>3. q.job = j /\ q.sync = y /\ q.view = p.view /\ q.queue = p.queue
  BY DEF Fielded
<1> HIDE DEF q
<1>4. Sight(q)
  BY <1>1, <1>2, <1>3 DEF Sight
<1> QED BY <1>4 DEF q, j, y

\* A restart reads back what was there.
LEMMA RestartSound ==
  ASSUME IInv, Sound, Restart
  PROVE  Sound'
<1> DEFINE w == Reopened(disk)
<1>1. Load(disk) = host /\ Whole(host) /\ Rows(disk, host)
  BY LoadedIs DEF Sound
<1>2. host' = w /\ disk' = Save(disk, host, w)
  BY <1>1 DEF Restart
<1>3. Whole(w) /\ w.spaces = host.spaces
  BY <1>1, ReopenedWhole
<1> HIDE DEF w
<1>4. Rows(Save(disk, host, w), w)
  BY <1>1, <1>3, SavedRows
<1>5. ASSUME NEW a \in Apps PROVE Sight(apps'[a])
  <2>1. apps'[a] = [apps[a] EXCEPT !.job  = IF @.stage = "idle" THEN @
                                            ELSE [@ EXCEPT !.stage = "answered", !.reply = {}],
                                   !.sync = IF @ = NoSync THEN @ ELSE [asked |-> TRUE, reply |-> {}]]
    BY DEF Restart
  <2>2. Fielded(apps[a]) /\ Sight(apps[a])
    BY FieldsAre
  <2>3. Sight([apps[a] EXCEPT !.job  = IF @.stage = "idle" THEN @
                                       ELSE [@ EXCEPT !.stage = "answered", !.reply = {}],
                              !.sync = IF @ = NoSync THEN @ ELSE [asked |-> TRUE, reply |-> {}]])
    BY <2>2, CutOffSight, Zenon
  <2> QED BY <2>1, <2>3, Zenon
<1> QED BY <1>2, <1>3, <1>4, <1>5 DEF Sound

LEMMA ScriptSound ==
  ASSUME IInv, Sound, Script
  PROVE  Sound'
<1>1. CASE ScriptOpens \/ ScriptStops
  <2>1. UNCHANGED <<host, disk, apps>>
    BY <1>1 DEF ScriptOpens, ScriptStops
  <2> QED BY <2>1 DEF Sound
<1>2. CASE ScriptLaunches \/ ScriptEdits
  <2>1. PICK r : Asked(r) /\ (\E o \in Outcomes(r, 0) : Takes(o)) /\ UNCHANGED apps
    <3>1. CASE ScriptLaunches
      <4>1. \A t, s : Asked(Launch(t, s))
        BY DEF Asked, Launch
      <4> QED BY <3>1, <4>1 DEF ScriptLaunches
    <3>2. CASE ScriptEdits
      <4>1. \A x, t : Asked(SplitPane(x, t))
        BY DEF Asked, SplitPane
      <4>2. \A id, s, t : Asked(PutTab(Tab(id, s, Leaf(t))))
        BY LeafAsked
      <4>3. \E r : /\ \/ \E x, t : r = SplitPane(x, t)
                      \/ \E id, s, t : r = PutTab(Tab(id, s, Leaf(t)))
                   /\ \E o \in Outcomes(r, 0) : Takes(o)
                   /\ UNCHANGED apps
        BY <3>2 DEF ScriptEdits
      <4> QED BY <4>1, <4>2, <4>3
    <3> QED BY <1>2, <3>1, <3>2
  <2>2. PICK o \in Outcomes(r, 0) : Takes(o)
    BY <2>1
  <2>3. Whole(host') /\ Rows(disk', host')
    BY <2>1, <2>2, TakesSound
  <2> QED BY <2>1, <2>3, HostSound
<1> QED BY <1>1, <1>2 DEF Script

\* What every step keeps.
LEMMA NextSound ==
  IInv /\ Sound /\ [Next]_vars => Sound'
<1> SUFFICES ASSUME IInv, Sound, [Next]_vars PROVE Sound'
  OBVIOUS
<1>1. ASSUME NEW a \in Apps, App(a) PROVE Sound'
  <2>1. CASE PutTabAsSeen(a) \/ PutInOwnTab(a) \/ Close(a) \/ MoveATab(a) \/ EditTask(a)
    BY <2>1, ClicksAsked, ClickSound
  <2>2. CASE LaunchInSlot(a)
    BY <2>2, LaunchSound
  <2>3. CASE Serve(a)
    BY <2>3, ServeSound
  <2>4. CASE Answer(a)
    BY <2>4, AnswerSound
  <2>5. CASE SyncAnswer(a)
    BY <2>5, SyncAnswerSound
  <2>6. CASE Hear(a)
    BY <2>6, HearSound
  <2> QED BY <1>1, <2>1, <2>2, <2>3, <2>4, <2>5, <2>6 DEF App
<1>2. CASE Script
  BY <1>2, ScriptSound
<1>3. CASE \E t \in Terms : Exit(t)
  BY <1>3, ExitSound
<1>4. CASE Restart
  BY <1>4, RestartSound
<1>5. CASE UNCHANGED vars
  BY <1>5 DEF vars, Sound
<1> QED BY <1>1, <1>2, <1>3, <1>4, <1>5 DEF Next

\* The first workspace: one tab with two panes, saved as a difference from none.
LEMMA InitSound ==
  Init => Sound
<1> SUFFICES ASSUME Init PROVE Sound
  OBVIOUS
<1> DEFINE task == [words |-> 0, settled |-> FALSE]
           blank == [t \in Terms |-> "none"]
           none == [rev |-> 0, spaces |-> Spaces, task |-> task, tabs |-> <<>>, terms |-> blank]
           rows(s) == [rev |-> 0, removed |-> {}, task |-> task, terms |-> none.terms,
                       tabs |-> [i \in {} |-> s], order |-> [i \in {} |-> 0], nodes |-> {}]
           panes == SplitBeside(Leaf(1), 1, 2, FALSE)
           first(s) == [none EXCEPT !.tabs = <<Tab(1, s, panes)>>,
                                    !.terms[1] = "running", !.terms[2] = "running"]
           window == [view |-> host, job |-> Idle, queue |-> <<>>,
                      heard |-> 0, sync |-> NoSync, again |-> FALSE]
<1>1. PICK s \in Spaces : /\ host = first(s) /\ disk = Save(rows(s), none, host)
                          /\ apps = [a \in Apps |-> window]
  BY DEF Init
<1>2. 1 \in Terms /\ 2 \in Terms
  BY BoundsAssumption DEF Terms
<1>3. Whole(none) /\ Rows(rows(s), none) /\ none.spaces = Spaces
  <2>1. /\ none.rev = 0 /\ none.spaces = Spaces /\ none.task = task /\ none.tabs = <<>>
        /\ none.terms = blank
    OBVIOUS
  <2>2. Record(none)
    BY RecordIs DEF Record, Fields
  <2>3. blank = [t \in Terms |-> blank[t]]
    OBVIOUS
  <2>4. DOMAIN <<>> = {} /\ Len(<<>>) = 0
    OBVIOUS
  <2>5. Lists(<<>>)
    BY <2>4 DEF Lists
  <2>6. /\ rows(s).rev = 0 /\ rows(s).removed = {} /\ rows(s).task = task
        /\ rows(s).terms = none.terms /\ DOMAIN rows(s).tabs = {} /\ DOMAIN rows(s).order = {}
        /\ rows(s).nodes = {}
    OBVIOUS
  <2> HIDE DEF none, rows, blank, task
  <2>7. TabsAre(none.tabs, none.spaces, Made(none))
    BY <2>1, <2>4, <2>5 DEF TabsAre, Tiled, Full
  <2>8. Whole(none)
    BY <2>1, <2>2, <2>3, <2>7 DEF Whole
  <2>9. TabIds(none) = {} /\ NodesIn(none) = {} /\ ToSet(none.tabs) = {}
    BY <2>1, <2>4 DEF TabIds, NodesIn, ToSet
  <2>10. Rows(rows(s), none)
    BY <2>1, <2>4, <2>6, <2>9 DEF Rows
  <2> QED BY <2>1, <2>8, <2>10
<1>4. Panes(panes) /\ panes # NoPane /\ Distinct(panes) /\ Ids(panes) = {1, 2}
  <2>1. Panes(Leaf(1)) /\ Ids(Leaf(1)) = {1} /\ Distinct(Leaf(1))
    BY LeafIs
  <2>2. 1 \in Ids(Leaf(1)) /\ 2 \notin Ids(Leaf(1))
    BY <2>1
  <2>3. Parted(Leaf(1), 2, panes)
    BY <2>1, <2>2, SplitBesideIs
  <2>4. Panes(panes) /\ panes # NoPane /\ Distinct(panes) /\ Ids(panes) = Ids(Leaf(1)) \cup {2}
    BY <2>1, <2>2, <2>3 DEF Parted
  <2> HIDE DEF panes
  <2> QED BY <2>1, <2>4
<1> DEFINE tab == Tab(1, s, panes)
           tabs == <<tab>>
<1> HIDE DEF panes
<1>5. TabIs(tab) /\ tab.id = 1 /\ tab.space = s /\ tab.panes = panes
  <2>1. tab.id = 1 /\ tab.space = s /\ tab.panes = panes /\ tab = Tab(tab.id, tab.space, tab.panes)
    BY TabFields
  <2> HIDE DEF tab
  <2> QED BY <1>4, <2>1 DEF TabIs
<1> HIDE DEF tab
<1>6. Lists(tabs) /\ DOMAIN tabs = {1} /\ tabs[1] = tab
  <2>1. DOMAIN tabs = 1..1 /\ Len(tabs) = 1 /\ tabs = [k \in 1..1 |-> tabs[k]] /\ tabs[1] = tab
    OBVIOUS
  <2> HIDE DEF tabs
  <2> QED BY <2>1 DEF Lists
<1> HIDE DEF tabs
<1>7. /\ Record(host) /\ host.spaces = Spaces /\ host.tabs = tabs
      /\ host.terms = [t \in Terms |-> host.terms[t]]
      /\ host.terms[1] = "running" /\ host.terms[2] = "running"
  <2>1. host = [none EXCEPT !.tabs = tabs, !.terms[1] = "running", !.terms[2] = "running"]
    BY <1>1 DEF tabs, tab
  <2>2. none.spaces = Spaces /\ none.terms = blank /\ Record(none)
    BY <1>3 DEF Whole
  <2> HIDE DEF none
  <2>3. /\ Record(host) /\ host.spaces = Spaces /\ host.tabs = tabs
        /\ host.terms = [[blank EXCEPT ![1] = "running"] EXCEPT ![2] = "running"]
    BY <2>1, <2>2 DEF Record, Fields
  <2>4. DOMAIN blank = Terms
    OBVIOUS
  <2> HIDE DEF blank
  <2> QED BY <1>2, <2>3, <2>4
<1>8. {1, 2} \subseteq Made(host)
  BY <1>2, <1>7 DEF Made
<1>9. TabsAre(host.tabs, host.spaces, Made(host))
  BY <1>4, <1>5, <1>6, <1>7, <1>8 DEF TabsAre, Tiled, Full
<1>10. Whole(host)
  BY <1>7, <1>9 DEF Whole
<1>11. Rows(disk, host)
  <2>1. host.spaces \subseteq none.spaces
    BY <1>3, <1>7
  <2> HIDE DEF none, rows, first, window
  <2>2. Rows(Save(rows(s), none, host), host)
    BY <1>3, <1>10, <2>1, SavedRows
  <2> QED BY <1>1, <2>2
<1>12. Sight(window)
  <2>1. /\ window.view = host /\ window.job = Idle /\ window.queue = <<>> /\ window.sync.reply = {}
    BY DEF NoSync
  <2>2. Requests(Idle.reqs) /\ Idle.reqs = <<>>
    BY IdleErrand DEF Errand, Idle
  <2> HIDE DEF window
  <2> QED BY <1>10, <2>1, <2>2, IdleErrand DEF Sight
<1> HIDE DEF none, rows, first, window
<1> QED BY <1>1, <1>10, <1>11, <1>12 DEF Sound

\* The tabs, the rows and all that the windows hold are as they should be, however
\* many edits, launches and restarts there are.
THEOREM WorkspacesAreSound ==
  Spec => []Sound
<1>1. Spec => []IInv
  BY Invariants
<1> QED BY <1>1, InitSound, NextSound, PTL DEF Spec

\* Whatever the windows and the command line ask, based on whatever they last saw,
\* every tab of the workspace has the panes of a tree and a space that is there, and
\* no terminal is in two places.
THEOREM WorkspaceIsTidy ==
  Spec => []Tidy
<1>1. Sound => Tidy
  <2> SUFFICES ASSUME Sound PROVE Tidy
    OBVIOUS
  <2>1. TabsAre(host.tabs, host.spaces, Made(host))
    BY DEF Sound, Whole
  <2>2. ASSUME NEW b \in ToSet(host.tabs)
        PROVE  /\ b.panes # NoPane /\ TreeShaped(b.panes) /\ Distinct(b.panes)
               /\ b.space \in host.spaces /\ Ids(b.panes) \subseteq Made(host)
    <3>1. PICK i \in DOMAIN host.tabs : b = host.tabs[i]
      BY DEF ToSet
    <3>2. /\ b.panes # NoPane /\ Distinct(b.panes) /\ b.space \in host.spaces
          /\ Ids(b.panes) \subseteq Made(host) /\ Panes(b.panes)
      BY <2>1, <3>1 DEF TabsAre, Tiled, Full, TabIs
    <3>3. TreeShaped(b.panes)
      BY <3>2, TreeIs DEF Panes
    <3> QED BY <3>2, <3>3
  <2>3. \A i, j \in DOMAIN host.tabs : i # j =>
          /\ host.tabs[i].id # host.tabs[j].id
          /\ Ids(host.tabs[i].panes) \cap Ids(host.tabs[j].panes) = {}
    BY <2>1 DEF TabsAre, Tiled
  <2> QED BY <2>2, <2>3 DEF Tidy
<1> QED BY <1>1, WorkspacesAreSound, PTL

\* The rows, of which an edit writes only those that changed, read as the workspace,
\* and each terminal is in one of them.
THEOREM RowsAreTheWorkspace ==
  Spec => []DiskIsWorkspace
<1>1. Sound => DiskIsWorkspace
  <2> SUFFICES ASSUME Sound PROVE DiskIsWorkspace
    OBVIOUS
  <2>1. Whole(host) /\ Rows(disk, host)
    BY DEF Sound
  <2>2. Load(disk) = host
    BY <2>1, LoadedIs
  <2>3. disk.nodes = NodesIn(host)
    BY <2>1 DEF Rows
  <2>4. \A r, s \in disk.nodes : r.terminal = s.terminal => r = s
    BY <2>1, <2>3, OneNode
  <2> QED BY <2>2, <2>4 DEF DiskIsWorkspace
<1> QED BY <1>1, WorkspacesAreSound, PTL

(***************************************************************************)
(* What an edit stops.                                                     *)
(***************************************************************************)
Closers == {"CloseTab", "ClosePane", "RemoveSpace"}

\* Tabs that are not kept take their terminals off the screen, and no others.
LEMMA RetainedShown ==
  ASSUME NEW s, NEW spaces, NEW made, Tiled(s, spaces, made), NEW I \in SUBSET DOMAIN s
  PROVE  \A x : x \in ShownIn(s) \ ShownIn(Retained(s, I)) <=>
                  \E i \in DOMAIN s \ I : x \in Ids(s[i].panes)
<1> DEFINE r == Retained(s, I)
<1>1. \A i \in I : s[i].space \in spaces
  BY DEF Tiled
<1>2. /\ Lists(r)
      /\ \A k \in 1..Len(r) : \E i \in I : r[k] = s[i]
      /\ \A i \in I : \E k \in 1..Len(r) : r[k] = s[i]
  BY <1>1, RetainedTabs
<1> HIDE DEF r
<1>3. DOMAIN r = 1..Len(r)
  BY <1>2, ListIs
<1>4. \A x : x \in ShownIn(r) <=> \E i \in I : x \in Ids(s[i].panes)
  BY <1>2, <1>3, ShownIs
<1>5. \A x : x \in ShownIn(s) <=> \E i \in DOMAIN s : x \in Ids(s[i].panes)
  BY ShownIs
<1>6. \A i, j \in DOMAIN s : \A x : x \in Ids(s[i].panes) /\ x \in Ids(s[j].panes) => i = j
  BY DEF Tiled
<1>7. \A x : x \in ShownIn(s) \ ShownIn(r) <=> \E i \in DOMAIN s \ I : x \in Ids(s[i].panes)
  BY <1>4, <1>5, <1>6
<1> QED BY <1>7 DEF r

\* What closing takes off the screen is what it stops.
LEMMA ClosingStops ==
  ASSUME NEW w, Whole(w), NEW e, ~Refused(w, e), e.kind \in Closers
  PROVE  Stopped(w, e) = ShownIn(w.tabs) \ ShownIn(EditedTabs(w, e))
<1> DEFINE s == w.tabs
<1>1. Tiled(s, w.spaces, Made(w)) /\ TabsAre(s, w.spaces, Made(w))
  BY DEF Whole, TabsAre
<1>2. CASE e.kind = "CloseTab"
  <2> DEFINE I == {i \in DOMAIN s : s[i].id # e.id}
  <2>1. EditedTabs(w, e) = Retained(s, I)
    BY <1>2 DEF EditedTabs
  <2>2. Stopped(w, e) = Ids(TabOf(w, e.id).panes)
    BY <1>2 DEF Stopped
  <2>3. PICK b \in ToSet(s) : b.id = e.id
    BY <1>2 DEF Refused, TabIds
  <2>4. TabOf(w, e.id) = b
    BY <2>3, OneTab
  <2>5. \A x : x \in Ids(b.panes) <=> \E i \in DOMAIN s \ I : x \in Ids(s[i].panes)
    <3>1. PICK k \in DOMAIN s : s[k] = b
      BY DEF ToSet
    <3>2. \A i \in DOMAIN s \ I : i = k
      BY <1>1, <2>3, <3>1 DEF Tiled
    <3>3. k \in DOMAIN s \ I
      BY <2>3, <3>1
    <3> QED BY <3>1, <3>2, <3>3
  <2>6. I \in SUBSET DOMAIN s
    OBVIOUS
  <2> HIDE DEF I
  <2>7. \A x : x \in ShownIn(s) \ ShownIn(Retained(s, I)) <=>
                 \E i \in DOMAIN s \ I : x \in Ids(s[i].panes)
    BY <1>1, <2>6, RetainedShown
  <2> QED BY <2>1, <2>2, <2>4, <2>5, <2>7
<1>3. CASE e.kind = "ClosePane"
  <2>1. EditedTabs(w, e) = PaneClosed(s, e.terminal)
    BY <1>3 DEF EditedTabs, PaneClosed
  <2>2. Stopped(w, e) = {e.terminal}
    BY <1>3 DEF Stopped
  <2>3. e.terminal \in ShownIn(s)
    BY <1>3 DEF Refused, Shown, ShownIn
  <2>4. ShownIn(PaneClosed(s, e.terminal)) = ShownIn(s) \ {e.terminal}
    BY <1>1, ClosedPaneTabs
  <2> QED BY <2>1, <2>2, <2>3, <2>4
<1>4. CASE e.kind = "RemoveSpace"
  <2> DEFINE I == {i \in DOMAIN s : s[i].space # e.id}
  <2>1. EditedTabs(w, e) = Retained(s, I)
    BY <1>4 DEF EditedTabs
  <2>2. Stopped(w, e) = UNION {Ids(b.panes) : b \in {b \in ToSet(s) : b.space = e.id}}
    BY <1>4 DEF Stopped
  <2>3. \A x : x \in Stopped(w, e) <=> \E i \in DOMAIN s \ I : x \in Ids(s[i].panes)
    BY <2>2 DEF ToSet
  <2>4. I \in SUBSET DOMAIN s
    OBVIOUS
  <2> HIDE DEF I
  <2>5. \A x : x \in ShownIn(s) \ ShownIn(Retained(s, I)) <=>
                 \E i \in DOMAIN s \ I : x \in Ids(s[i].panes)
    BY <1>1, <2>4, RetainedShown
  <2> QED BY <2>1, <2>3, <2>5
<1> QED BY <1>2, <1>3, <1>4 DEF Closers

\* Who is told to stop is held.
LEMMA OutcomeHeld ==
  ASSUME NEW r, NEW rev, NEW o \in Outcomes(r, rev), hup \subseteq here
  PROVE  o.hup \subseteq o.here
<1> DEFINE left(ok, w, held, stop, faults) ==
             [ok |-> ok, host |-> w, here |-> held, hup |-> stop, faults |-> faults]
<1>1. \E ok, w, held, stop, faults :
        /\ o = left(ok, w, held, stop, faults)
        /\ here \subseteq held /\ stop \subseteq hup \cup Live
  BY DEF Outcomes
<1>2. Live \subseteq here
  BY DEF Live
<1> QED BY <1>1, <1>2

\* A request that changes the workspace stops what it hides.
LEMMA OutcomeStops ==
  ASSUME Whole(host), NEW r, Asked(r), NEW rev, NEW o \in Outcomes(r, rev), o.host # host
  PROVE  o.hup = hup \cup IF r.kind \in Closers THEN (Shown(host) \ Shown(o.host)) \cap Live ELSE {}
<1> DEFINE edited == [Edited(host, r) EXCEPT !.rev = host.rev + 1]
<1>1. \/ o.hup = hup /\ r.kind = "Launch"
      \/ /\ o.host = edited /\ o.hup = hup \cup (Stopped(host, r) \cap Live)
         /\ ~Refused(host, r)
  <2> DEFINE left(ok, w, held, stop, faults) ==
               [ok |-> ok, host |-> w, here |-> held, hup |-> stop, faults |-> faults]
  <2>1. \/ o = left(FALSE, host, here, hup, 0)
        \/ r.kind = "Launch" /\ \E ok, w, held, faults : o = left(ok, w, held, hup, faults)
        \/ /\ o = left(TRUE, edited, here, hup \cup (Stopped(host, r) \cap Live), 0)
           /\ ~Refused(host, r)
    BY DEF Outcomes
  <2> HIDE DEF edited
  <2> QED BY <2>1
<1>2. CASE o.hup = hup /\ r.kind = "Launch"
  BY <1>2 DEF Closers
<1>3. CASE /\ o.host = edited /\ o.hup = hup \cup (Stopped(host, r) \cap Live)
           /\ ~Refused(host, r)
  <2>1. o.host.tabs = EditedTabs(host, r)
    BY <1>3, EditedWhole
  <2>2. Shown(host) = ShownIn(host.tabs) /\ Shown(o.host) = ShownIn(EditedTabs(host, r))
    BY <2>1 DEF Shown, ShownIn
  <2>3. CASE r.kind \in Closers
    <3>1. Stopped(host, r) = ShownIn(host.tabs) \ ShownIn(EditedTabs(host, r))
      BY <1>3, <2>3, ClosingStops
    <3> QED BY <1>3, <2>2, <2>3, <3>1
  <2>4. CASE r.kind \notin Closers
    <3>1. Stopped(host, r) = {}
      BY <2>4 DEF Stopped, Closers
    <3> QED BY <1>3, <2>4, <3>1
  <2> QED BY <2>3, <2>4
<1> QED BY <1>1, <1>2, <1>3

\* Only terminals that are held are told to stop.
Told == hup \subseteq here

LEMMA NextTold ==
  Told /\ [Next]_vars => Told'
<1> SUFFICES ASSUME Told, [Next]_vars PROVE Told'
  OBVIOUS
<1>1. ASSUME NEW r, NEW rev, NEW o \in Outcomes(r, rev), Takes(o) PROVE Told'
  BY <1>1, OutcomeHeld DEF Told, Takes
<1>2. Live \subseteq here
  BY DEF Live
<1>3. ASSUME NEW a \in Apps, App(a) PROVE Told'
  <2>1. CASE Serve(a)
    BY <1>1, <2>1 DEF Serve
  <2>2. CASE ~Serve(a)
    <3>1. UNCHANGED <<hup, here>>
      BY <1>3, <2>2 DEF App, PutTabAsSeen, PutInOwnTab, Close, MoveATab, EditTask, Click,
                        LaunchInSlot, Answer, SyncAnswer, Hear
    <3> QED BY <3>1 DEF Told
  <2> QED BY <2>1, <2>2
<1>4. CASE ScriptLaunches \/ ScriptEdits
  BY <1>1, <1>4 DEF ScriptLaunches, ScriptEdits
<1>5. CASE ScriptOpens \/ ScriptStops
  BY <1>2, <1>5 DEF ScriptOpens, ScriptStops, Told
<1>6. CASE (\E t \in Terms : Exit(t)) \/ Restart
  BY <1>6 DEF Exit, Restart, Told
<1>7. CASE UNCHANGED vars
  BY <1>7 DEF vars, Told
<1> QED BY <1>3, <1>4, <1>5, <1>6, <1>7 DEF Next, Script

\* The step of a window that has its edit answered.
StopsWhatItHides(a) ==
  LET e == Head(apps[a].job.reqs) IN
  apps[a].job.stage = "sent" /\ apps'[a].job # apps[a].job /\ host' # host /\ here' = here =>
    hup' = hup \cup IF e.kind \in Closers THEN (Shown(host) \ Shown(host')) \cap Live ELSE {}

\* Only the answer to a window changes its job and the workspace and leaves every
\* terminal held; a restart leaves none that could be told to stop.
LEMMA NextStops ==
  ASSUME IInv, Sound, Told, [Next]_vars, NEW a \in Apps
  PROVE  StopsWhatItHides(a)
<1> SUFFICES ASSUME apps[a].job.stage = "sent", apps'[a].job # apps[a].job, host' # host,
                    here' = here
             PROVE  hup' = hup \cup IF Head(apps[a].job.reqs).kind \in Closers
                                    THEN (Shown(host) \ Shown(host')) \cap Live ELSE {}
  BY DEF StopsWhatItHides
<1>1. Fielded(apps[a]) /\ Sight(apps[a]) /\ Whole(host)
  BY FieldsAre
<1>2. CASE Serve(a)
  <2> DEFINE r == Head(apps[a].job.reqs)
  <2>1. PICK o \in Outcomes(r, apps[a].job.rev) : Takes(o)
    BY <1>2 DEF Serve
  <2>2. Asked(r)
    BY <1>1, HeadAsked DEF Sight, Errand
  <2>3. host' = o.host /\ hup' = o.hup
    BY <2>1 DEF Takes
  <2> HIDE DEF r
  <2>4. o.hup = hup \cup IF r.kind \in Closers THEN (Shown(host) \ Shown(o.host)) \cap Live ELSE {}
    BY <1>1, <2>1, <2>2, <2>3, OutcomeStops
  <2>5. Shown(host') = Shown(o.host)
    BY <2>3 DEF Shown
  <2> QED BY <2>3, <2>4, <2>5 DEF r
<1>3. CASE Restart
  <2>1. hup' = {} /\ here = {} /\ hup = {}
    BY <1>3 DEF Restart, Told
  <2>2. Live = {}
    BY <2>1 DEF Live
  <2> QED BY <2>1, <2>2
<1>4. ASSUME NEW b \in Apps, App(b), ~Serve(b) PROVE FALSE
  <2>1. host' = host
    BY <1>4 DEF App, PutTabAsSeen, PutInOwnTab, Close, MoveATab, EditTask, Click,
                LaunchInSlot, Answer, SyncAnswer, Hear
  <2> QED BY <2>1
<1>5. ASSUME NEW b \in Apps, Serve(b), b # a PROVE FALSE
  <2>1. apps'[a] = apps[a]
    BY <1>5 DEF Serve, IInv
  <2> QED BY <2>1
<1>6. CASE Script \/ (\E t \in Terms : Exit(t)) \/ UNCHANGED vars
  <2>1. apps' = apps \/ host' = host
    BY <1>6 DEF Script, ScriptOpens, ScriptLaunches, ScriptEdits, ScriptStops, Exit, vars
  <2> QED BY <2>1
<1> QED BY <1>2, <1>3, <1>4, <1>5, <1>6 DEF Next

\* Closing a tab, a pane or a space stops exactly the running terminals that it takes
\* off the screen; no edit that places panes stops any.
THEOREM EditsStopWhatTheyHide ==
  Spec => ClosingStopsWhatItHides
<1> DEFINE A == \A a \in Apps : StopsWhatItHides(a)
<1>1. Init => Told
  BY DEF Init, Told
<1>2. IInv /\ Sound /\ Told /\ [Next]_vars => [A]_vars
  BY NextStops
<1>3. ClosingStopsWhatItHides <=> [][A]_vars
  BY DEF ClosingStopsWhatItHides, StopsWhatItHides, Closers
<1> HIDE DEF A
<1> QED BY <1>1, <1>2, <1>3, NextTold, Invariants, WorkspacesAreSound, PTL DEF Spec
==============================================================================
