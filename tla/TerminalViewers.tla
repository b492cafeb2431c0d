-------------------------- MODULE TerminalViewers --------------------------
(***************************************************************************)
(* One live terminal and the connections that show it (host/live.rs).      *)
(*                                                                         *)
(* The reader of the PTY feeds the host's own screen and fans every chunk  *)
(* out to bounded queues, one per viewer, under the terminal's lock.  Each *)
(* viewer's writer thread empties its queue WITHOUT that lock.  A full     *)
(* queue drops the frame and marks the viewer lagged; the writer that sees *)
(* the mark sends a fresh snapshot instead of its backlog.  One viewer at  *)
(* a time owns the keyboard; WRITABLE frames tell every viewer its role.   *)
(*                                                                         *)
(* A screen is the number of chunks it shows, so that a chunk applied on   *)
(* top of anything but its predecessor is a torn screen.  RESIZED, STATUS  *)
(* and CONTROL frames take the path of OUTPUT and are not told apart.      *)
(***************************************************************************)
EXTENDS Naturals, Sequences, FiniteSets

CONSTANTS Conns,        \* connection numbers, in the order they were accepted
          Capacity,     \* of a viewer's queue (128 in the code)
          MaxChunks,    \* bound: chunks the program prints
          MaxRequests   \* bound: requests the attached clients send

ASSUME ConnsAssumption == Conns \subseteq Nat \ {0} /\ IsFiniteSet(Conns)
ASSUME CapacityAssumption == Capacity \in Nat \ {0}
ASSUME BoundsAssumption == MaxChunks \in Nat /\ MaxRequests \in Nat

Nobody == 0
Torn   == MaxChunks + 1       \* what a viewer shows after a gap or a repeat

VARIABLES
  chunks,      \* the host's screen: chunks fed to live.vt
  exited,      \* live.exited
  owner,       \* live.owner
  subscribers, \* live.subscribers
  watchers,    \* live.watchers
  lagged,      \* the viewers whose `lagged` flag is set
  queue,       \* the viewers' bounded channels
  op,          \* the broadcast or reconcile_owner that holds the terminal lock
  conn,        \* the connections: attached or not, and where their writer is
  acks,        \* replies on their way to their own connection's queue
  requests,    \* requests sent so far, for the bound
  screen,      \* what the viewers show
  role         \* viewers told that they may type

live == <<chunks, exited, owner, subscribers, watchers>>
view == <<screen, role>>
vars == <<chunks, exited, owner, subscribers, watchers, lagged, queue, op, conn, acks,
          requests, screen, role>>

Output(n)   == [kind |-> "OUTPUT", chunk |-> n, writable |-> FALSE]
Writable(b) == [kind |-> "WRITABLE", chunk |-> 0, writable |-> b]
Ack         == [kind |-> "ACK", chunk |-> 0, writable |-> FALSE]
Frame == [kind : {"OUTPUT", "WRITABLE", "ACK"}, chunk : 0..MaxChunks, writable : BOOLEAN]

\* `left` are the viewers still to be offered the frame, `full` the one whose
\* queue refused it and whose mark is not set yet, `join` the connection that
\* subscribes when the first pass is over.
Op == [kind : {"none", "OUTPUT", "WRITABLE"}, left : SUBSET Conns,
       full : Conns \cup {Nobody}, join : Conns \cup {Nobody}, take : BOOLEAN]
NoOp == [kind |-> "none", left |-> {}, full |-> Nobody, join |-> Nobody, take |-> FALSE]

\* A writer sends the snapshot, waits on its queue, holds a frame it took, or
\* waits for the terminal lock to resync.
Conn == [link : {"new", "open", "hungup", "closed"},
         writer : {"none", "snapshot", "waiting", "holding", "resync", "ended"},
         watch : BOOLEAN, snapshot : 0..MaxChunks, frame : Frame]

Gone == [link |-> "closed", writer |-> "ended", watch |-> FALSE, snapshot |-> 0, frame |-> Ack]

TypeOK ==
  /\ chunks \in 0..MaxChunks /\ exited \in BOOLEAN
  /\ owner \in Conns \cup {Nobody}
  /\ subscribers \subseteq Conns /\ watchers \subseteq Conns /\ lagged \subseteq Conns
  /\ queue \in [Conns -> Seq(Frame)]
  /\ \A c \in Conns : Len(queue[c]) <= Capacity
  /\ op \in Op
  /\ conn \in [Conns -> Conn]
  /\ acks \subseteq [to : Conns, full : BOOLEAN]
  /\ requests \in 0..MaxRequests
  /\ screen \in [Conns -> 0..Torn]
  /\ role \subseteq Conns

Init ==
  /\ chunks = 0 /\ exited = FALSE /\ owner = Nobody
  /\ subscribers = {} /\ watchers = {} /\ lagged = {}
  /\ queue = [c \in Conns |-> <<>>]
  /\ op = NoOp
  /\ conn = [c \in Conns |-> [link |-> "new", writer |-> "none", watch |-> FALSE,
                              snapshot |-> 0, frame |-> Ack]]
  /\ acks = {} /\ requests = 0
  /\ screen = [c \in Conns |-> 0] /\ role = {}

Unlocked == op.kind = "none"
HungUp(c) == conn[c].link = "hungup"
Attached == {c \in Conns : conn[c].link \in {"open", "hungup"} /\ conn[c].writer # "none"}

-----------------------------------------------------------------------------
(* Fan-out under the terminal lock.                                         *)

\* Mutant: a watcher may be promoted too.
NextOwner_Anyone(subs, watching) ==
  IF subs = {} THEN Nobody ELSE CHOOSE c \in subs : \A d \in subs : c <= d
\* Mutant: nobody is promoted.
NextOwner_Nobody(subs, watching) == Nobody
\* Live::next_owner: the smallest connection that is not a watcher.
NextOwner(subs, watching) ==
  LET able == subs \ watching IN
  IF able = {} THEN Nobody ELSE CHOOSE c \in able : \A d \in able : c <= d

\* An owner that is no subscriber any more is replaced.
Settled(who, subs, watching) == IF who \in subs THEN who ELSE NextOwner(subs, watching)

\* Live::reconcile_owner begins: subscribers whose peer hung up go, and every
\* remaining one is offered its role.
BeginReconcile(subs, watching, who, join, take) ==
  LET there == {c \in subs : ~HungUp(c)} IN
  /\ subscribers' = there
  /\ watchers' = watching \cap there
  /\ owner' = Settled(who, there, watching)
  /\ op' = [kind |-> "WRITABLE", left |-> there, full |-> Nobody,
            join |-> join, take |-> take]

\* try_send would return Full.
Full(c) == Len(queue[c]) >= Capacity

FrameFor(c) ==
  IF op.kind = "OUTPUT" THEN Output(chunks) ELSE Writable(owner = c /\ ~exited)

\* Subscriber::offer: a full queue drops the frame, a writer that ended drops
\* the viewer.
Offer(c) ==
  /\ c \in op.left /\ op.full = Nobody
  /\ \/ /\ conn[c].writer = "ended"
        /\ subscribers' = subscribers \ {c}
        /\ op' = [op EXCEPT !.left = @ \ {c}]
        /\ UNCHANGED queue
     \/ /\ conn[c].writer # "ended" /\ ~Full(c)
        /\ queue' = [queue EXCEPT ![c] = Append(@, FrameFor(c))]
        /\ op' = [op EXCEPT !.left = @ \ {c}]
        /\ UNCHANGED subscribers
     \/ /\ conn[c].writer # "ended" /\ Full(c)
        /\ op' = [op EXCEPT !.full = c]
        /\ UNCHANGED <<queue, subscribers>>
  /\ UNCHANGED <<chunks, exited, owner, watchers, lagged, conn, acks, requests, view>>

\* Mutant: a dropped frame leaves no mark.
Marks_Nothing(c) == {}
\* The viewers marked for a dropped frame.
Marks(c) == {c}

\* The mark is set after try_send returned Full: a step of its own.
MarkLagged ==
  /\ op.full # Nobody
  /\ lagged' = lagged \cup Marks(op.full)
  /\ op' = [op EXCEPT !.left = @ \ {op.full}, !.full = Nobody]
  /\ UNCHANGED <<live, queue, conn, acks, requests, view>>

\* Mutant: any newcomer takes the keyboard.
TakesKeyboard_Always(c) == ~conn[c].watch
\* A newcomer gets the keyboard when it asks for it or nobody has it.
TakesKeyboard(c) == ~conn[c].watch /\ (op.take \/ owner = Nobody)

\* The pass is over.  reconcile_owner passes again while it lost its owner;
\* attach subscribes the newcomer after its first reconcile_owner, and
\* reconciles again.
EndPass ==
  /\ op.kind # "none" /\ op.left = {} /\ op.full = Nobody
  /\ \/ /\ op.kind = "WRITABLE" /\ owner # Nobody /\ owner \notin subscribers
        /\ owner' = NextOwner(subscribers, watchers)
        /\ op' = [op EXCEPT !.left = subscribers]
        /\ UNCHANGED <<subscribers, watchers, conn>>
     \/ /\ ~(op.kind = "WRITABLE" /\ owner # Nobody /\ owner \notin subscribers)
        /\ op.join # Nobody
        /\ LET c == op.join IN
           /\ conn' = [conn EXCEPT ![c].writer = "snapshot", ![c].snapshot = chunks]
           /\ BeginReconcile(subscribers \cup {c},
                IF conn[c].watch THEN watchers \cup {c} ELSE watchers,
                IF TakesKeyboard(c) THEN c ELSE owner,
                Nobody, FALSE)
     \/ /\ ~(op.kind = "WRITABLE" /\ owner # Nobody /\ owner \notin subscribers)
        /\ op.join = Nobody
        /\ op' = NoOp
        /\ UNCHANGED <<owner, subscribers, watchers, conn>>
  /\ UNCHANGED <<chunks, exited, lagged, queue, acks, requests, view>>

\* pump: a chunk is fed to the host's screen and broadcast.
Pump ==
  /\ Unlocked /\ chunks < MaxChunks
  /\ chunks' = chunks + 1
  /\ op' = [NoOp EXCEPT !.kind = "OUTPUT", !.left = subscribers]
  /\ UNCHANGED <<exited, owner, subscribers, watchers, lagged, queue, conn, acks,
                 requests, view>>

\* The wait thread saw the terminal's process end.
Exit ==
  /\ Unlocked /\ ~exited
  /\ exited' = TRUE
  /\ UNCHANGED <<chunks, owner, subscribers, watchers, lagged, queue, op, conn, acks,
                 requests, view>>

-----------------------------------------------------------------------------
(* Connections.                                                             *)

\* attach: `take` is an explicit takeover, a watcher never writes.
Attach(c, watch, take) ==
  /\ conn[c].link = "new" /\ Unlocked
  /\ conn' = [conn EXCEPT ![c].link = "open", ![c].watch = watch]
  /\ BeginReconcile(subscribers, watchers, owner, c, take)
  /\ UNCHANGED <<chunks, exited, lagged, queue, acks, requests, view>>

HangUp(c) ==
  /\ conn[c].link = "open"
  /\ conn' = [conn EXCEPT ![c].link = "hungup"]
  /\ UNCHANGED <<live, lagged, queue, op, acks, requests, view>>

\* Mutant: the connection is removed without passing the keyboard on.
Drop_Silently(c) ==
  /\ HungUp(c) /\ conn[c].writer # "none" /\ Unlocked
  /\ \A a \in acks : a.to # c
  /\ conn' = [conn EXCEPT ![c] = [Gone EXCEPT !.watch = conn[c].watch]]
  /\ subscribers' = subscribers \ {c} /\ watchers' = watchers \ {c}
  /\ queue' = [queue EXCEPT ![c] = <<>>]
  /\ lagged' = lagged \ {c} /\ role' = role \ {c}
  /\ screen' = [screen EXCEPT ![c] = 0]
  /\ UNCHANGED <<chunks, exited, owner, op, acks, requests>>

\* Attachment::drop, when the connection's own thread sees the end.
Drop(c) ==
  /\ HungUp(c) /\ conn[c].writer # "none" /\ Unlocked
  /\ \A a \in acks : a.to # c
  /\ conn' = [conn EXCEPT ![c] = [Gone EXCEPT !.watch = conn[c].watch]]
  /\ BeginReconcile(subscribers \ {c}, watchers, owner, Nobody, FALSE)
  /\ queue' = [queue EXCEPT ![c] = <<>>]
  /\ lagged' = lagged \ {c} /\ role' = role \ {c}
  /\ screen' = [screen EXCEPT ![c] = 0]
  /\ UNCHANGED <<chunks, exited, acks, requests>>

\* Input, resize or scheme from an attached client; every request is answered.
Ask(c) ==
  /\ c \in Attached /\ ~HungUp(c) /\ Unlocked /\ requests < MaxRequests
  /\ \A a \in acks : a.to # c
  /\ requests' = requests + 1
  /\ acks' = acks \cup {[to |-> c, full |-> FALSE]}
  /\ UNCHANGED <<live, lagged, queue, op, conn, view>>

\* The answer goes to the connection's own queue without the terminal lock;
\* a full queue drops it and marks the viewer lagged.
Answer(a) ==
  /\ a \in acks
  /\ \/ /\ ~a.full /\ conn[a.to].writer # "ended" /\ Full(a.to)
        /\ acks' = (acks \ {a}) \cup {[a EXCEPT !.full = TRUE]}
        /\ UNCHANGED <<queue, lagged>>
     \/ /\ ~a.full /\ conn[a.to].writer # "ended" /\ ~Full(a.to)
        /\ queue' = [queue EXCEPT ![a.to] = Append(@, Ack)]
        /\ acks' = acks \ {a}
        /\ UNCHANGED lagged
     \/ /\ ~a.full /\ conn[a.to].writer = "ended"
        /\ acks' = acks \ {a}
        /\ UNCHANGED <<queue, lagged>>
     \/ /\ a.full
        /\ lagged' = lagged \cup {a.to}
        /\ acks' = acks \ {a}
        /\ UNCHANGED queue
  /\ UNCHANGED <<live, op, conn, requests, view>>

-----------------------------------------------------------------------------
(* Writers: no terminal lock but in Resync.                                 *)

SendSnapshot(c) ==
  /\ conn[c].writer = "snapshot"
  /\ conn' = [conn EXCEPT ![c].writer = IF HungUp(c) THEN "ended" ELSE "waiting",
                          ![c].snapshot = 0]
  /\ screen' = [screen EXCEPT ![c] = conn[c].snapshot]
  /\ UNCHANGED <<live, lagged, queue, op, acks, requests, role>>

Take(c) ==
  /\ conn[c].writer = "waiting" /\ queue[c] # <<>>
  /\ conn' = [conn EXCEPT ![c].writer = "holding", ![c].frame = Head(queue[c])]
  /\ queue' = [queue EXCEPT ![c] = Tail(@)]
  /\ UNCHANGED <<live, lagged, op, acks, requests, view>>

Shown(f, old) ==
  IF f.kind # "OUTPUT" THEN old ELSE IF old = f.chunk - 1 THEN f.chunk ELSE Torn

\* The frame is sent unless frames were dropped behind it.
SendsFrame(c) == c \notin lagged

Send(c) ==
  /\ conn[c].writer = "holding"
  /\ LET f == conn[c].frame IN
     IF HungUp(c)
       THEN /\ conn' = [conn EXCEPT ![c].writer = "ended", ![c].frame = Ack]
            /\ UNCHANGED view
       ELSE IF SendsFrame(c)
         THEN /\ conn' = [conn EXCEPT ![c].writer = "waiting", ![c].frame = Ack]
              /\ screen' = [screen EXCEPT ![c] = Shown(f, @)]
              /\ role' = IF f.kind # "WRITABLE" THEN role
                         ELSE IF f.writable THEN role \cup {c} ELSE role \ {c}
         ELSE /\ conn' = [conn EXCEPT ![c].writer = "resync", ![c].frame = Ack]
              /\ UNCHANGED view
  /\ UNCHANGED <<live, lagged, queue, op, acks, requests>>

\* Mutant: the stale backlog is sent after the snapshot.
Backlog_Kept(c) == queue[c]
\* What resync leaves of the viewer's queue.
Backlog(c) == <<>>

\* Mutant: the mark stays after a resync.
Unmarked_Stays(c) == lagged
\* The marks left by a resync: a viewer no longer subscribed keeps its own.
Unmarked(c) == IF c \in subscribers THEN lagged \ {c} ELSE lagged

\* resync: under the terminal lock the backlog goes, the mark is cleared, and
\* the current screen and role are sent.
Resync(c) ==
  /\ conn[c].writer = "resync" /\ Unlocked
  /\ queue' = [queue EXCEPT ![c] = Backlog(c)]
  /\ lagged' = Unmarked(c)
  /\ conn' = [conn EXCEPT ![c].writer = IF HungUp(c) THEN "ended" ELSE "waiting"]
  /\ IF HungUp(c)
       THEN UNCHANGED view
       ELSE /\ screen' = [screen EXCEPT ![c] = chunks]
            /\ role' = IF owner = c /\ ~exited THEN role \cup {c} ELSE role \ {c}
  /\ UNCHANGED <<live, op, acks, requests>>

Next ==
  \/ \E c \in Conns : Offer(c)
  \/ MarkLagged
  \/ EndPass
  \/ Pump
  \/ Exit
  \/ \E c \in Conns, watch, take \in BOOLEAN : Attach(c, watch, take)
  \/ \E c \in Conns : HangUp(c)
  \/ \E c \in Conns : Drop(c)
  \/ \E c \in Conns : Ask(c)
  \/ \E a \in acks : Answer(a)
  \/ \E c \in Conns : SendSnapshot(c)
  \/ \E c \in Conns : Take(c)
  \/ \E c \in Conns : Send(c)
  \/ \E c \in Conns : Resync(c)

\* Threads that can go on do; the terminal lock is free between two chunks, so
\* a connection that ends or a writer that resyncs gets it; clients read what
\* is written to them.  Programs print, and clients ask and leave, at will.
Fairness ==
  /\ WF_vars(\E c \in Conns : Offer(c)) /\ WF_vars(MarkLagged) /\ WF_vars(EndPass)
  /\ WF_vars(\E a \in acks : Answer(a))
  /\ \A c \in Conns : /\ SF_vars(Drop(c)) /\ SF_vars(Resync(c))
                       /\ WF_vars(SendSnapshot(c)) /\ WF_vars(Take(c)) /\ WF_vars(Send(c))

Spec == Init /\ [][Next]_vars /\ Fairness

-----------------------------------------------------------------------------
(* What the code promises.                                                  *)

\* No viewer ever applies a chunk on top of anything but its predecessor:
\* every gap a full queue makes is covered by a snapshot first, and no chunk
\* the snapshot already shows follows it.
NoTornScreen == \A c \in Conns : screen[c] # Torn

\* A viewer whose writer waits on an empty queue, with no frame on its way and
\* no mark, shows the terminal as it is and knows its role.
CaughtUp(c) ==
  /\ Unlocked /\ c \in subscribers /\ c \notin lagged
  /\ conn[c].writer = "waiting" /\ queue[c] = <<>>
CaughtUpIsCurrent ==
  \A c \in Conns : CaughtUp(c) =>
    /\ screen[c] = chunks
    /\ c \in role => owner = c
    /\ owner = c /\ ~exited => c \in role

\* The keyboard belongs to a connection that is attached and may write, not to a
\* watcher nor to one that is gone, and while some viewer may write it is
\* somebody's.
KeyboardIsHeld ==
  /\ owner # Nobody => owner \in Attached /\ ~conn[owner].watch
  /\ Unlocked /\ (\E c \in subscribers : ~conn[c].watch) => owner # Nobody

\* A writer loses the keyboard only by leaving, or to an explicit takeover.
KeyboardKept ==
  [][owner # owner' /\ owner # Nobody =>
       \/ HungUp(owner) \/ op.take
       \/ conn[owner].writer = "ended"]_vars

\* A writer that hangs up does not keep the keyboard from the others.
KeyboardPassedOn ==
  \A c \in Conns : (owner = c /\ HungUp(c)) ~> (owner # c)

\* A viewer marked while frames still wait for it gets its fresh snapshot.
LaggedCatchesUp ==
  \A c \in Conns : (c \in lagged /\ queue[c] # <<>>) ~> (c \notin lagged \/ ~(c \in subscribers))

\* live.rs: a lagged viewer's "writer sends a fresh snapshot once it catches
\* up": no writer waits on an empty queue with the mark set.
LaggedIsResynced ==
  \A c \in Conns :
    Unlocked /\ c \in subscribers /\ conn[c].writer = "waiting" /\ queue[c] = <<>>
      => c \notin lagged
=============================================================================
