------------------------ MODULE TerminalViewersProofs ------------------------
(***************************************************************************)
(* TerminalViewers for any connections, queues and amount of output: who   *)
(* has the keyboard, and what a viewer shows.                              *)
(***************************************************************************)
EXTENDS TerminalViewers, Integers, NaturalsInduction, WellFoundedInduction, TLAPS

(***************************************************************************)
(* Types, as far as the proofs need them.                                  *)
(***************************************************************************)
LockTyped ==
    /\ owner \in Conns \cup {Nobody}
    /\ subscribers \subseteq Conns
    /\ {"kind", "left", "full", "join", "take"} \subseteq DOMAIN op
    /\ op.left \subseteq Conns
    /\ op.full \in Conns \cup {Nobody} /\ op.join \in Conns \cup {Nobody}
ConnTyped ==
    /\ DOMAIN conn = Conns
    /\ \A c \in Conns : {"link", "writer", "watch", "snapshot", "frame"} \subseteq DOMAIN conn[c]
AcksTyped == \A a \in acks : {"to", "full"} \subseteq DOMAIN a /\ a.to \in Conns

Typed == LockTyped /\ ConnTyped /\ AcksTyped

LEMMA NobodyIsNone == Nobody \notin Conns
  BY ConnsAssumption DEF Nobody

\* Every set of connections has a first one.
LEMMA FirstExists ==
  ASSUME NEW S \in SUBSET Nat, S # {}
  PROVE  \E u \in S : \A v \in S : u <= v
<1> DEFINE R == {ss \in Nat \X Nat : ss[1] < ss[2]}
<1>1. R = OpToRel(<, Nat)
  BY DEF OpToRel
<1>2. IsWellFoundedOn(R, Nat)
  BY <1>1, NatLessThanWellFounded
<1>3. ASSUME NEW x \in Nat, NEW y \in Nat, <<y, x>> \notin R PROVE x <= y
  <2>1. ~ (y < x)
    BY <1>3
  <2> QED BY <2>1
<1> HIDE DEF R
<1>4. PICK x \in S : \A y \in S : ~ (<<y, x>> \in R)
  BY <1>2, WFMin
<1>5. x \in Nat /\ \A y \in S : y \in Nat
  OBVIOUS
<1>6. \A y \in S : x <= y
  BY <1>3, <1>4, <1>5
<1> QED BY <1>6

\* Whoever is promoted may write, and somebody is if anybody may.
LEMMA Promoted ==
  ASSUME NEW subs \in SUBSET Conns, NEW watching
  PROVE  /\ NextOwner(subs, watching) \in (subs \ watching) \cup {Nobody}
         /\ subs \ watching # {} => NextOwner(subs, watching) \in subs \ watching
<1> DEFINE able == subs \ watching
<1>1. CASE able = {}
  BY <1>1 DEF NextOwner
<1>2. CASE able # {}
  <2>1. \E u \in able : \A v \in able : u <= v
    BY <1>2, ConnsAssumption, FirstExists
  <2> DEFINE first == CHOOSE u \in able : \A v \in able : u <= v
  <2>2. first \in able
    BY <2>1
  <2>3. NextOwner(subs, watching) = first
    BY <1>2 DEF NextOwner
  <2> HIDE DEF first
  <2> QED BY <2>2, <2>3
<1> QED BY <1>1, <1>2

(***************************************************************************)
(* The keyboard.  Who is subscribed is attached, who watches is known to   *)
(* (a connection keeps what it asked for when it attached), the owner is a *)
(* subscriber or on its way out, and a newcomer waits for its turn in `op`.*)
(***************************************************************************)
There(c) == conn[c].link \in {"open", "hungup"} /\ conn[c].writer # "none"

SubscribersAttached ==
    \A c \in subscribers : There(c) /\ (conn[c].watch => c \in watchers)
WatchersWatch == \A c \in watchers : c \in Conns /\ conn[c].link # "new" /\ conn[c].watch
OwnerMayType ==
    owner # Nobody => /\ There(owner) /\ ~conn[owner].watch
                      /\ \/ owner \in subscribers
                         \/ HungUp(owner)
                         \/ conn[owner].writer = "ended"
SomebodyTypes == (\E c \in subscribers : ~conn[c].watch) => owner # Nobody
NewcomerWaits ==
    op.join # Nobody => op.kind = "WRITABLE" /\ conn[op.join].link \in {"open", "hungup"}
WriterStarts ==
    \A c \in Conns : conn[c].writer = "none" <=> conn[c].link = "new" \/ op.join = c

Roles == SubscribersAttached /\ WatchersWatch /\ OwnerMayType /\ SomebodyTypes
Keyboard == Roles /\ NewcomerWaits /\ WriterStarts

LEMMA KeyboardInit == Init => Typed /\ Keyboard
<1> SUFFICES ASSUME Init PROVE Typed /\ Keyboard
  OBVIOUS
<1>1. Typed
  BY DEF Init, Typed, LockTyped, ConnTyped, AcksTyped, NoOp
<1>2. Keyboard
  BY NobodyIsNone DEF Init, Keyboard, Roles, SubscribersAttached, WatchersWatch, OwnerMayType, SomebodyTypes,
     NewcomerWaits, WriterStarts, NoOp
<1> QED BY <1>1, <1>2

\* reconcile_owner gives the keyboard to a subscriber that may type, if there is
\* one: to `who` if it stays, else to the one promoted.
LEMMA Reconciled ==
  ASSUME NEW subs \in SUBSET Conns, NEW watching, NEW who, NEW join \in Conns \cup {Nobody},
         NEW take, BeginReconcile(subs, watching, who, join, take)
  PROVE  /\ subscribers' = {c \in subs : ~HungUp(c)}
         /\ watchers' = watching \cap subscribers'
         /\ who \in subscribers' => owner' = who
         /\ who \notin subscribers' => owner' \in (subscribers' \ watching) \cup {Nobody}
         /\ who \notin subscribers' /\ subscribers' \ watching # {} => owner' \in subscribers' \ watching
         /\ op'.kind = "WRITABLE" /\ op'.left = subscribers' /\ op'.full = Nobody
         /\ op'.join = join /\ op'.take = take
         /\ LockTyped'
<1> DEFINE there == {c \in subs : ~HungUp(c)}
<1>1. there \in SUBSET Conns
  OBVIOUS
<1>2. /\ subscribers' = there /\ watchers' = watching \cap there
      /\ owner' = Settled(who, there, watching)
      /\ op' = [kind |-> "WRITABLE", left |-> there, full |-> Nobody, join |-> join, take |-> take]
  BY DEF BeginReconcile
<1>3. /\ NextOwner(there, watching) \in (there \ watching) \cup {Nobody}
      /\ there \ watching # {} => NextOwner(there, watching) \in there \ watching
  BY <1>1, Promoted
<1>4. owner' = IF who \in there THEN who ELSE NextOwner(there, watching)
  BY <1>2 DEF Settled
<1> HIDE DEF there
<1>5. LockTyped'
  BY <1>1, <1>2, <1>3, <1>4 DEF LockTyped
<1>6. subscribers' = {c \in subs : ~HungUp(c)}
  BY <1>2 DEF there
<1> QED BY <1>2, <1>3, <1>4, <1>5, <1>6

\* What the next step may rely on.
LEMMA ReconcileTyped ==
  ASSUME NEW subs \in SUBSET Conns, NEW watching, NEW who, NEW join \in Conns \cup {Nobody},
         NEW take, BeginReconcile(subs, watching, who, join, take)
  PROVE  /\ LockTyped' /\ op'.join = join
         /\ who \in subs /\ ~HungUp(who) => owner' = who
  BY Reconciled

LEMMA ReconcileKeeps ==
  ASSUME NEW subs \in SUBSET Conns, NEW watching, NEW who, NEW join \in Conns \cup {Nobody},
         NEW take, BeginReconcile(subs, watching, who, join, take),
         \A c \in subs : ~HungUp(c) => There(c)' /\ (conn'[c].watch <=> c \in watching),
         who \in subs /\ ~HungUp(who) => ~conn'[who].watch
  PROVE  Roles'
<1> USE Reconciled, NobodyIsNone
<1>1. SubscribersAttached'
  BY DEF SubscribersAttached
<1>2. WatchersWatch'
  BY DEF WatchersWatch, There
<1>3. OwnerMayType'
  BY DEF OwnerMayType
<1>4. SomebodyTypes'
  BY DEF SomebodyTypes
<1> QED BY <1>1, <1>2, <1>3, <1>4 DEF Roles

(***************************************************************************)
(* Steps that leave everybody's place alone.                               *)
(***************************************************************************)
Same(c) ==
    /\ \/ conn'[c].link = conn[c].link
       \/ conn[c].link = "open" /\ conn'[c].link = "hungup"
    /\ conn'[c].watch <=> conn[c].watch
    /\ conn'[c].writer = "none" <=> conn[c].writer = "none"
    /\ conn[c].writer = "ended" => conn'[c].writer = "ended"

LEMMA Undisturbed ==
  ASSUME Typed, Keyboard, Typed', \A c \in Conns : Same(c),
         subscribers' \subseteq subscribers,
         \A c \in subscribers \ subscribers' : conn[c].writer = "ended",
         watchers' = watchers, owner' = owner, op'.join = op.join,
         op.join # Nobody => op'.kind = op.kind
  PROVE  Keyboard'
<1> USE NobodyIsNone DEF Typed, LockTyped, Keyboard, Roles
<1>1. SubscribersAttached'
  BY DEF SubscribersAttached, There, Same
<1>2. WatchersWatch'
  BY DEF WatchersWatch, Same
<1>3. OwnerMayType'
  BY DEF OwnerMayType, There, Same, HungUp
<1>4. SomebodyTypes'
  BY DEF SomebodyTypes, Same
<1>5. NewcomerWaits'
  BY DEF NewcomerWaits, Same
<1>6. WriterStarts'
  BY DEF WriterStarts, Same
<1> QED BY <1>1, <1>2, <1>3, <1>4, <1>5, <1>6

\* The writers, and a peer that hangs up.
LEMMA WriterSteps ==
  ASSUME Typed, NEW c \in Conns, SendSnapshot(c) \/ Take(c) \/ Send(c) \/ Resync(c) \/ HangUp(c)
  PROVE  /\ ConnTyped' /\ \A d \in Conns : Same(d)
         /\ UNCHANGED <<chunks, exited, owner, subscribers, watchers, op, acks>>
<1> USE DEF Typed, ConnTyped, Same
<1>1. CASE SendSnapshot(c)
  BY <1>1 DEF SendSnapshot, live
<1>2. CASE Take(c)
  BY <1>2 DEF Take, live
<1>3. CASE Send(c)
  BY <1>3 DEF Send, live
<1>4. CASE Resync(c)
  BY <1>4 DEF Resync, live
<1>5. CASE HangUp(c)
  BY <1>5 DEF HangUp, live
<1> QED BY <1>1, <1>2, <1>3, <1>4, <1>5

\* An answer, sent or refused.
LEMMA AnswerSteps ==
  ASSUME Typed, NEW c \in Conns, NEW a, Ask(c) \/ Answer(a)
  PROVE  AcksTyped' /\ UNCHANGED <<chunks, exited, owner, subscribers, watchers, op, conn>>
<1>1. CASE Ask(c)
  BY <1>1 DEF Ask, live, Typed, AcksTyped
<1>2. CASE Answer(a)
  BY <1>2 DEF Answer, live, Typed, AcksTyped
<1> QED BY <1>1, <1>2

LEMMA QuietKeep ==
  ASSUME Typed, Keyboard, NEW c \in Conns,
         \/ SendSnapshot(c) \/ Take(c) \/ Send(c) \/ Resync(c) \/ HangUp(c)
         \/ Ask(c) \/ \E a \in acks : Answer(a)
  PROVE  Typed' /\ Keyboard'
<1>1. CASE SendSnapshot(c) \/ Take(c) \/ Send(c) \/ Resync(c) \/ HangUp(c)
  <2>1. Typed'
    BY <1>1, WriterSteps DEF Typed, LockTyped, AcksTyped
  <2> QED BY <1>1, <2>1, WriterSteps, Undisturbed
<1>2. CASE Ask(c) \/ \E a \in acks : Answer(a)
  <2>1. Typed' /\ UNCHANGED <<owner, subscribers, watchers, op, conn>>
    BY <1>2, AnswerSteps DEF Typed, LockTyped, ConnTyped
  <2> QED BY <2>1, Undisturbed DEF Same
<1> QED BY <1>1, <1>2

(***************************************************************************)
(* Steps under the terminal lock.                                          *)
(***************************************************************************)
LEMMA PassKeeps ==
  ASSUME Typed, Keyboard, Pump \/ Exit \/ MarkLagged \/ \E c \in Conns : Offer(c)
  PROVE  Typed' /\ Keyboard'
<1> USE DEF Typed, LockTyped, ConnTyped, AcksTyped
<1>1. CASE Pump
  <2>1. op.join = Nobody
    BY <1>1 DEF Pump, Unlocked, Keyboard, NewcomerWaits
  <2>2. Typed' /\ op'.join = Nobody
    BY <1>1 DEF Pump, NoOp, view
  <2> QED BY <1>1, <2>1, <2>2, Undisturbed DEF Pump, view, Same
<1>2. CASE MarkLagged
  <2>1. Typed' /\ op'.join = op.join /\ op'.kind = op.kind
    BY <1>2 DEF MarkLagged, live, view
  <2> QED BY <1>2, <2>1, Undisturbed DEF MarkLagged, live, view, Same
<1>3. ASSUME NEW c \in Conns, Offer(c) PROVE Typed' /\ Keyboard'
  <2>1. /\ Typed' /\ op'.join = op.join /\ op'.kind = op.kind
    BY <1>3 DEF Offer, view
  <2> QED BY <1>3, <2>1, Undisturbed DEF Offer, view, Same
<1>4. CASE Exit
  <2>1. Typed' /\ UNCHANGED <<owner, subscribers, watchers, op, conn>>
    BY <1>4 DEF Exit, view
  <2> QED BY <2>1, Undisturbed DEF Same
<1> QED BY <1>1, <1>2, <1>3, <1>4

\* A newcomer asks for its place.
LEMMA AttachKeeps ==
  ASSUME Typed, Keyboard, NEW c \in Conns, NEW watch \in BOOLEAN, NEW take \in BOOLEAN,
         Attach(c, watch, take)
  PROVE  Typed' /\ Keyboard'
<1> USE NobodyIsNone
<1>1. BeginReconcile(subscribers, watchers, owner, c, take)
  BY DEF Attach
<1>2. LockTyped' /\ op'.join = c /\ op'.kind = "WRITABLE"
  BY <1>1, Reconciled DEF Typed, LockTyped
<1>3. /\ ConnTyped' /\ conn'[c].link = "open" /\ conn[c].link = "new"
      /\ conn'[c].writer = conn[c].writer
      /\ \A d \in Conns \ {c} : conn'[d] = conn[d]
  BY DEF Attach, Typed, ConnTyped
<1>4. c \notin subscribers /\ owner # c
  BY <1>3 DEF Keyboard, Roles, SubscribersAttached, OwnerMayType, There
<1>5. Roles'
  <2>1. \A d \in subscribers : There(d)' /\ (conn'[d].watch <=> d \in watchers)
    BY <1>3, <1>4 DEF Keyboard, Roles, SubscribersAttached, WatchersWatch, There, Typed, LockTyped
  <2>2. owner \in subscribers => ~conn'[owner].watch
    BY <1>3, <1>4 DEF Keyboard, Roles, OwnerMayType, Typed, LockTyped
  <2> QED BY <1>1, <2>1, <2>2, ReconcileKeeps DEF Typed, LockTyped
<1>6. op.join = Nobody
  BY DEF Attach, Unlocked, Keyboard, NewcomerWaits
<1>7. WriterStarts' /\ NewcomerWaits'
  BY <1>2, <1>3, <1>6 DEF Keyboard, WriterStarts, NewcomerWaits
<1>8. AcksTyped'
  BY DEF Attach, Typed, AcksTyped
<1> QED BY <1>2, <1>3, <1>5, <1>7, <1>8 DEF Typed, Keyboard

\* A connection that ended goes.
LEMMA DropKeeps ==
  ASSUME Typed, Keyboard, NEW c \in Conns, Drop(c)
  PROVE  Typed' /\ Keyboard'
<1> USE NobodyIsNone
<1>1. BeginReconcile(subscribers \ {c}, watchers, owner, Nobody, FALSE)
  BY DEF Drop
<1>2. LockTyped' /\ op'.join = Nobody
  <2>1. subscribers \ {c} \in SUBSET Conns
    BY DEF Typed, LockTyped
  <2> QED BY <1>1, <2>1, ReconcileTyped
<1>3. /\ ConnTyped' /\ conn'[c].link = "closed" /\ conn'[c].writer = "ended"
      /\ \A d \in Conns \ {c} : conn'[d] = conn[d]
  BY DEF Drop, Gone, Typed, ConnTyped
<1>4. Roles'
  <2>1. \A d \in subscribers \ {c} : There(d)' /\ (conn'[d].watch <=> d \in watchers)
    BY <1>3 DEF Keyboard, Roles, SubscribersAttached, WatchersWatch, There, Typed, LockTyped
  <2>2. owner \in subscribers \ {c} => ~conn'[owner].watch
    BY <1>3 DEF Keyboard, Roles, OwnerMayType, Typed, LockTyped
  <2> QED BY <1>1, <2>1, <2>2, ReconcileKeeps DEF Typed, LockTyped
<1>5. op.join = Nobody
  BY DEF Drop, Unlocked, Keyboard, NewcomerWaits
<1>6. WriterStarts' /\ NewcomerWaits'
  BY <1>2, <1>3, <1>5 DEF Keyboard, WriterStarts, NewcomerWaits, Drop, HungUp
<1>7. AcksTyped'
  BY DEF Drop, Typed, AcksTyped
<1> QED BY <1>2, <1>3, <1>4, <1>6, <1>7 DEF Typed, Keyboard

\* A pass over the viewers ends: it is repeated for a new owner, it lets the
\* newcomer in, or the lock is given back.
Repeats ==
    /\ op.kind = "WRITABLE" /\ owner # Nobody /\ owner \notin subscribers
    /\ owner' = NextOwner(subscribers, watchers)
    /\ op' = [op EXCEPT !.left = subscribers]
    /\ UNCHANGED <<subscribers, watchers, conn>>
LetsIn(c) ==
    /\ ~(op.kind = "WRITABLE" /\ owner # Nobody /\ owner \notin subscribers)
    /\ c = op.join
    /\ conn' = [conn EXCEPT ![c].writer = "snapshot", ![c].snapshot = chunks]
    /\ BeginReconcile(subscribers \cup {c},
         IF conn[c].watch THEN watchers \cup {c} ELSE watchers,
         IF TakesKeyboard(c) THEN c ELSE owner, Nobody, FALSE)
Ends ==
    /\ op.join = Nobody
    /\ op' = NoOp
    /\ UNCHANGED <<owner, subscribers, watchers, conn>>

LEMMA EndPassIs ==
  ASSUME Typed, EndPass
  PROVE  /\ Repeats \/ Ends \/ \E c \in Conns : LetsIn(c)
         /\ op.kind # "none" /\ op.left = {} /\ op.full = Nobody
         /\ UNCHANGED <<chunks, exited, lagged, queue, acks, requests, view>>
  BY DEF EndPass, Repeats, Ends, LetsIn, Typed, LockTyped

LEMMA RepeatKeeps ==
  ASSUME Typed, Keyboard, Repeats, UNCHANGED acks
  PROVE  Typed' /\ Keyboard'
<1> USE NobodyIsNone
<1>1. /\ owner' \in (subscribers \ watchers) \cup {Nobody}
      /\ subscribers \ watchers # {} => owner' \in subscribers \ watchers
  BY Promoted DEF Repeats, Typed, LockTyped
<1>2. Typed' /\ op'.join = op.join /\ op'.kind = op.kind
  BY <1>1 DEF Repeats, Typed, LockTyped, ConnTyped, AcksTyped
<1>3. UNCHANGED <<subscribers, watchers, conn>>
  BY DEF Repeats
<1>4. OwnerMayType'
  BY <1>1, <1>3 DEF OwnerMayType, There, Keyboard, Roles, SubscribersAttached
<1>5. SomebodyTypes'
  BY <1>1, <1>3 DEF SomebodyTypes, Keyboard, Roles, WatchersWatch, Typed, LockTyped
<1> QED BY <1>2, <1>3, <1>4, <1>5
    DEF Keyboard, Roles, SubscribersAttached, WatchersWatch, There, NewcomerWaits, WriterStarts

LEMMA LetInKeeps ==
  ASSUME Typed, Keyboard, NEW c \in Conns, LetsIn(c), UNCHANGED acks
  PROVE  Typed' /\ Keyboard'
<1> USE NobodyIsNone
<1> DEFINE watching == IF conn[c].watch THEN watchers \cup {c} ELSE watchers
           who == IF TakesKeyboard(c) THEN c ELSE owner
<1>1. BeginReconcile(subscribers \cup {c}, watching, who, Nobody, FALSE)
  BY DEF LetsIn
<1>2. LockTyped' /\ op'.join = Nobody
  <2>1. subscribers \cup {c} \in SUBSET Conns
    BY DEF Typed, LockTyped
  <2> HIDE DEF watching, who
  <2> QED BY <1>1, <2>1, ReconcileTyped
<1>3. /\ ConnTyped' /\ conn'[c].link = conn[c].link /\ conn'[c].writer = "snapshot"
      /\ conn'[c].watch <=> conn[c].watch
      /\ \A d \in Conns \ {c} : conn'[d] = conn[d]
  BY DEF LetsIn, Typed, ConnTyped
<1>4. c \notin subscribers /\ owner # c /\ conn[c].link \in {"open", "hungup"}
  BY DEF LetsIn, Keyboard, Roles, WriterStarts, NewcomerWaits, SubscribersAttached, OwnerMayType,
         There
<1>5. Roles'
  <2>1. \A d \in subscribers \cup {c} : There(d)' /\ (conn'[d].watch <=> d \in watching)
    BY <1>3, <1>4 DEF Keyboard, Roles, SubscribersAttached, WatchersWatch, There, Typed, LockTyped
  <2>2. who \in subscribers \cup {c} => ~conn'[who].watch
    BY <1>3, <1>4 DEF Keyboard, Roles, OwnerMayType, Typed, LockTyped, TakesKeyboard
  <2> HIDE DEF watching, who
  <2> QED BY <1>1, <2>1, <2>2, ReconcileKeeps DEF Typed, LockTyped
<1>6. WriterStarts' /\ NewcomerWaits'
  <2>1. op.join = c
    BY DEF LetsIn
  <2>2. \A d \in Conns \ {c} : conn[d].writer = "none" <=> conn[d].link = "new"
    BY <2>1 DEF Keyboard, WriterStarts
  <2>3. WriterStarts'
    BY <1>2, <1>3, <1>4, <2>2 DEF WriterStarts
  <2> QED BY <1>2, <2>3 DEF NewcomerWaits
<1>7. AcksTyped'
  BY DEF Typed, AcksTyped
<1> QED BY <1>2, <1>3, <1>5, <1>6, <1>7 DEF Typed, Keyboard

LEMMA EndPassKeeps ==
  ASSUME Typed, Keyboard, EndPass PROVE Typed' /\ Keyboard'
<1>1. CASE Ends
  <2>1. Typed' /\ op'.join = op.join
    BY <1>1, EndPassIs DEF Ends, NoOp, Typed, LockTyped, ConnTyped, AcksTyped
  <2> QED BY <1>1, <2>1, Undisturbed DEF Ends, Same
<1> QED BY <1>1, EndPassIs, RepeatKeeps, LetInKeeps

LEMMA KeyboardNext == Typed /\ Keyboard /\ [Next]_vars => Typed' /\ Keyboard'
<1> SUFFICES ASSUME Typed, Keyboard, [Next]_vars PROVE Typed' /\ Keyboard'
  OBVIOUS
<1>1. CASE UNCHANGED vars
  BY <1>1 DEF vars, view, Typed, LockTyped, ConnTyped, AcksTyped, Keyboard, Roles,
     SubscribersAttached, WatchersWatch, OwnerMayType, SomebodyTypes, NewcomerWaits, WriterStarts,
     There, HungUp
<1>2. CASE Next
  <2>1. ASSUME NEW c \in Conns,
               \/ SendSnapshot(c) \/ Take(c) \/ Send(c) \/ Resync(c) \/ HangUp(c)
               \/ Ask(c)
        PROVE  Typed' /\ Keyboard'
    BY <2>1, QuietKeep
  <2>2. ASSUME NEW a \in acks, Answer(a) PROVE Typed' /\ Keyboard'
    <3>1. a.to \in Conns
      BY DEF Typed, AcksTyped
    <3> QED BY <2>2, <3>1, QuietKeep
  <2>3. ASSUME NEW c \in Conns, NEW watch \in BOOLEAN, NEW take \in BOOLEAN,
               Attach(c, watch, take)
        PROVE  Typed' /\ Keyboard'
    BY <2>3, AttachKeeps
  <2>4. ASSUME NEW c \in Conns, Drop(c) PROVE Typed' /\ Keyboard'
    BY <2>4, DropKeeps
  <2>5. CASE Pump \/ Exit \/ MarkLagged \/ \E c \in Conns : Offer(c)
    BY <2>5, PassKeeps
  <2> QED BY <1>2, <2>1, <2>2, <2>3, <2>4, <2>5, EndPassKeeps DEF Next
<1> QED BY <1>1, <1>2

\* The keyboard belongs to a connection that is attached and may write, and while
\* some viewer may write it is somebody's.
THEOREM KeyboardHeld == Spec => []KeyboardIsHeld
<1>1. Typed /\ Keyboard => KeyboardIsHeld
  BY NobodyIsNone DEF Typed, LockTyped, Keyboard, Roles, OwnerMayType, SomebodyTypes, There, KeyboardIsHeld,
     Attached
<1> QED BY <1>1, KeyboardInit, KeyboardNext, PTL DEF Spec

\* What a step does with the keyboard.
MayLose == HungUp(owner) \/ op.take \/ conn[owner].writer = "ended"

LEMMA LockLeaves ==
  ASSUME Typed, Keyboard, owner # Nobody, EndPass, owner' # owner
  PROVE  MayLose
<1> USE NobodyIsNone DEF MayLose
<1>1. CASE Repeats
  BY <1>1 DEF Repeats, Keyboard, Roles, OwnerMayType
<1>2. CASE Ends
  BY <1>2 DEF Ends
<1>3. ASSUME NEW c \in Conns, LetsIn(c) PROVE MayLose
  <2>1. CASE TakesKeyboard(c)
    BY <2>1 DEF TakesKeyboard
  <2>2. CASE ~TakesKeyboard(c)
    <3> DEFINE watching == IF conn[c].watch THEN watchers \cup {c} ELSE watchers
    <3>1. BeginReconcile(subscribers \cup {c}, watching, owner, Nobody, FALSE)
      BY <1>3, <2>2 DEF LetsIn
    <3>2. subscribers \cup {c} \in SUBSET Conns
      BY DEF Typed, LockTyped
    <3> HIDE DEF watching
    <3>3. ~(owner \in subscribers \cup {c} /\ ~HungUp(owner))
      BY <3>1, <3>2, ReconcileTyped
    <3> QED BY <3>3 DEF Keyboard, Roles, OwnerMayType
  <2> QED BY <2>1, <2>2
<1> QED BY <1>1, <1>2, <1>3, EndPassIs

LEMMA KeyboardStep ==
  ASSUME Typed, Keyboard, [Next]_vars, owner # Nobody, owner' # owner
  PROVE  MayLose
<1> USE NobodyIsNone
<1>1. ASSUME NEW c \in Conns, NEW watch \in BOOLEAN, NEW take \in BOOLEAN, Attach(c, watch, take)
      PROVE  MayLose
  <2>1. BeginReconcile(subscribers, watchers, owner, c, take)
    BY <1>1 DEF Attach
  <2>2. ~(owner \in subscribers /\ ~HungUp(owner))
    BY <2>1, ReconcileTyped DEF Typed, LockTyped
  <2> QED BY <2>2 DEF MayLose, Keyboard, Roles, OwnerMayType
<1>2. ASSUME NEW c \in Conns, Drop(c) PROVE MayLose
  <2>1. BeginReconcile(subscribers \ {c}, watchers, owner, Nobody, FALSE) /\ HungUp(c)
    BY <1>2 DEF Drop
  <2>2. subscribers \ {c} \in SUBSET Conns
    BY DEF Typed, LockTyped
  <2>3. ~(owner \in subscribers \ {c} /\ ~HungUp(owner))
    BY <2>1, <2>2, ReconcileTyped
  <2> QED BY <2>1, <2>3 DEF MayLose, Keyboard, Roles, OwnerMayType
<1>3. ASSUME NEW c \in Conns, Offer(c) \/ HangUp(c) \/ Ask(c) \/ SendSnapshot(c) \/ Take(c) \/ Send(c) \/ Resync(c)
      PROVE  FALSE
  BY <1>3 DEF Offer, HangUp, Ask, SendSnapshot, Take, Send, Resync, live
<1>4. ASSUME NEW a, Answer(a) PROVE FALSE
  BY <1>4 DEF Answer, live
<1>5. CASE MarkLagged \/ Pump \/ Exit \/ UNCHANGED vars
  BY <1>5 DEF MarkLagged, Pump, Exit, live, vars
<1> QED BY <1>1, <1>2, <1>3, <1>4, <1>5, LockLeaves DEF Next

\* A writer keeps the keyboard until it leaves or somebody takes it over.
THEOREM KeyboardStays == Spec => KeyboardKept
<1> DEFINE A == owner # owner' /\ owner # Nobody
                => HungUp(owner) \/ op.take \/ conn[owner].writer = "ended"
<1>1. Typed /\ Keyboard /\ [Next]_vars => [A]_vars
  BY KeyboardStep DEF MayLose, vars
<1> QED BY <1>1, KeyboardInit, KeyboardNext, PTL DEF Spec, KeyboardKept

(***************************************************************************)
(* What a viewer shows.  The frames on the way to a viewer lead, one by    *)
(* one, from what it shows to what the host shows, unless one was dropped; *)
(* then a mark stands until a snapshot has replaced them all.              *)
(***************************************************************************)
\* A frame takes a viewer from screen x, role v to screen y, role w.
Shows(f, x, y) == IF f.kind = "OUTPUT" THEN f.chunk = x + 1 /\ y = f.chunk ELSE y = x
Bit(b) == IF b THEN 1 ELSE 0
Tells(f, v, w) == IF f.kind = "WRITABLE" THEN w = Bit(f.writable) ELSE w = v

Chunks == 0 .. MaxChunks
Bits == {0, 1}

\* The frames of q, in turn, take a viewer from (x, v) to (y, w).
Leads(q, x, v, y, w) ==
    \E s \in [Nat -> Chunks], t \in [Nat -> Bits] :
       /\ s[0] = x /\ s[Len(q)] = y /\ t[0] = v /\ t[Len(q)] = w
       /\ \A i \in 1 .. Len(q) : Shows(q[i], s[i - 1], s[i]) /\ Tells(q[i], t[i - 1], t[i])

Frames == {Output(n) : n \in Chunks} \cup {Writable(TRUE), Writable(FALSE), Ack}

LEMMA LeadsNowhere ==
  ASSUME NEW x \in Chunks, NEW v \in Bits
  PROVE  /\ Leads(<<>>, x, v, x, v)
         /\ \A y, w : Leads(<<>>, x, v, y, w) => y = x /\ w = v
<1>1. Leads(<<>>, x, v, x, v)
  <2> DEFINE s == [i \in Nat |-> x]
             t == [i \in Nat |-> v]
  <2>1. s \in [Nat -> Chunks] /\ t \in [Nat -> Bits]
    OBVIOUS
  <2>2. s[0] = x /\ s[Len(<<>>)] = x /\ t[0] = v /\ t[Len(<<>>)] = v
    OBVIOUS
  <2>3. \A i \in 1 .. Len(<<>>) : FALSE
    OBVIOUS
  <2> HIDE DEF s, t
  <2> QED BY <2>1, <2>2, <2>3 DEF Leads
<1>2. ASSUME NEW y, NEW w, Leads(<<>>, x, v, y, w) PROVE y = x /\ w = v
  BY <1>2 DEF Leads
<1> QED BY <1>1, <1>2

LEMMA LeadsOn ==
  ASSUME NEW q \in Seq(Frames), NEW f \in Frames, NEW x, NEW v, NEW y, NEW w,
         Leads(q, x, v, y, w), NEW z \in Chunks, NEW u \in Bits, Shows(f, y, z), Tells(f, w, u)
  PROVE  Leads(Append(q, f), x, v, z, u)
<1>1. PICK s \in [Nat -> Chunks], t \in [Nat -> Bits] :
         /\ s[0] = x /\ s[Len(q)] = y /\ t[0] = v /\ t[Len(q)] = w
         /\ \A i \in 1 .. Len(q) : Shows(q[i], s[i - 1], s[i]) /\ Tells(q[i], t[i - 1], t[i])
  BY DEF Leads
<1> DEFINE n == Len(q) + 1
           s2 == [i \in Nat |-> IF i = n THEN z ELSE s[i]]
           t2 == [i \in Nat |-> IF i = n THEN u ELSE t[i]]
           q2 == Append(q, f)
<1>2. s2 \in [Nat -> Chunks] /\ t2 \in [Nat -> Bits]
  OBVIOUS
<1>3. Len(q) \in Nat /\ Len(q2) = n /\ q2[n] = f /\ \A i \in 1 .. Len(q) : q2[i] = q[i]
  OBVIOUS
<1>4. s2[n] = z /\ t2[n] = u /\ \A i \in 0 .. Len(q) : s2[i] = s[i] /\ t2[i] = t[i]
  BY <1>3
<1>5. n \in Nat /\ n - 1 = Len(q)
  BY <1>3
<1> HIDE DEF n, s2, t2, q2
<1>6. ASSUME NEW i \in 1 .. n PROVE Shows(q2[i], s2[i - 1], s2[i]) /\ Tells(q2[i], t2[i - 1], t2[i])
  <2>1. CASE i = n
    <3>1. s2[i - 1] = y /\ t2[i - 1] = w
      BY <2>1, <1>1, <1>3, <1>4, <1>5
    <3> QED BY <2>1, <3>1, <1>3, <1>4
  <2>2. CASE i # n
    <3>1. i \in 1 .. Len(q) /\ i \in 0 .. Len(q) /\ i - 1 \in 0 .. Len(q)
      BY <2>2, <1>3 DEF n
    <3> QED BY <3>1, <1>1, <1>3, <1>4
  <2> QED BY <2>1, <2>2
<1>7. s2[0] = x /\ t2[0] = v
  BY <1>1, <1>3, <1>4
<1> QED BY <1>2, <1>3, <1>4, <1>6, <1>7 DEF Leads, q2

LEMMA LeadsFirst ==
  ASSUME NEW q \in Seq(Frames), q # <<>>, NEW x, NEW v, NEW y, NEW w, Leads(q, x, v, y, w)
  PROVE  \E z \in Chunks, u \in Bits :
            Shows(Head(q), x, z) /\ Tells(Head(q), v, u) /\ Leads(Tail(q), z, u, y, w)
<1>1. PICK s \in [Nat -> Chunks], t \in [Nat -> Bits] :
         /\ s[0] = x /\ s[Len(q)] = y /\ t[0] = v /\ t[Len(q)] = w
         /\ \A i \in 1 .. Len(q) : Shows(q[i], s[i - 1], s[i]) /\ Tells(q[i], t[i - 1], t[i])
  BY DEF Leads
<1> DEFINE s2 == [i \in Nat |-> s[i + 1]]
           t2 == [i \in Nat |-> t[i + 1]]
           q2 == Tail(q)
<1>2. s2 \in [Nat -> Chunks] /\ t2 \in [Nat -> Bits]
  OBVIOUS
<1>3. /\ Len(q) \in Nat /\ Len(q) >= 1 /\ Len(q2) = Len(q) - 1 /\ Head(q) = q[1]
      /\ \A i \in 1 .. Len(q2) : q2[i] = q[i + 1]
  OBVIOUS
<1>4. \A i \in Nat : s2[i] = s[i + 1] /\ t2[i] = t[i + 1]
  OBVIOUS
<1> HIDE DEF s2, t2, q2
<1>5. ASSUME NEW i \in 1 .. Len(q2)
      PROVE  Shows(q2[i], s2[i - 1], s2[i]) /\ Tells(q2[i], t2[i - 1], t2[i])
  <2>1. /\ i + 1 \in 1 .. Len(q) /\ i \in Nat /\ i - 1 \in Nat /\ (i - 1) + 1 = i /\ (i + 1) - 1 = i
    BY <1>3
  <2>2. Shows(q[i + 1], s[i], s[i + 1]) /\ Tells(q[i + 1], t[i], t[i + 1])
    BY <2>1, <1>1
  <2> QED BY <2>1, <2>2, <1>3, <1>4
<1>6. s2[Len(q2)] = y /\ t2[Len(q2)] = w /\ s2[0] = s[1] /\ t2[0] = t[1]
  <2>1. Len(q2) \in Nat /\ Len(q2) + 1 = Len(q) /\ 0 \in Nat /\ 0 + 1 = 1
    BY <1>3
  <2>2. s2[Len(q2)] = s[Len(q)] /\ t2[Len(q2)] = t[Len(q)] /\ s2[0] = s[1] /\ t2[0] = t[1]
    BY <2>1, <1>4
  <2> QED BY <2>2, <1>1
<1>7. Leads(q2, s[1], t[1], y, w)
  BY <1>2, <1>5, <1>6 DEF Leads
<1>8. Shows(q[1], s[0], s[1]) /\ Tells(q[1], t[0], t[1])
  BY <1>1, <1>3
<1>9. /\ s[1] \in Chunks /\ t[1] \in Bits
      /\ Shows(Head(q), x, s[1]) /\ Tells(Head(q), v, t[1]) /\ Leads(Tail(q), s[1], t[1], y, w)
  BY <1>1, <1>3, <1>7, <1>8 DEF q2
<1> QED BY <1>9

(***************************************************************************)
(* What is on its way to a viewer.                                         *)
(***************************************************************************)
Writing(c) == conn[c].writer \in {"snapshot", "waiting", "holding"}

\* What a viewer shows once its writer has sent what it has in hand.
HeldScreen(c) ==
    IF conn[c].writer = "snapshot" THEN conn[c].snapshot
    ELSE IF conn[c].writer = "holding" /\ conn[c].frame.kind = "OUTPUT" THEN conn[c].frame.chunk
    ELSE screen[c]
HeldRole(c) ==
    IF conn[c].writer = "holding" /\ conn[c].frame.kind = "WRITABLE"
    THEN Bit(conn[c].frame.writable) ELSE Bit(c \in role)

\* The screen and the role that the frames already queued must lead to: the
\* host's, but for the frame that the viewer is still to be offered.
DueScreen(c) == IF op.kind = "OUTPUT" /\ c \in op.left THEN chunks - 1 ELSE chunks
DueRole(c, w) == (w = 1 => owner = c) /\ (owner = c /\ ~exited => w = 1)
Arrives(c, y, w) ==
    /\ op.full # c => y = DueScreen(c)
    /\ op.full # c /\ ~(op.kind = "WRITABLE" /\ c \in op.left) => DueRole(c, w)

Fed(c) ==
    c \in subscribers /\ c \notin lagged /\ Writing(c) =>
      /\ conn[c].writer = "holding" /\ conn[c].frame.kind = "OUTPUT" =>
            conn[c].frame.chunk = screen[c] + 1
      /\ \E y, w : Leads(queue[c], HeldScreen(c), HeldRole(c), y, w) /\ Arrives(c, y, w)

ViewTyped ==
    /\ chunks \in Chunks
    /\ screen \in [Conns -> Chunks]
    /\ queue \in [Conns -> Seq(Frames)]
    /\ \A c \in Conns : conn[c].snapshot \in Chunks
WriterQuiet == \A c \in Conns : conn[c].writer = "none" => queue[c] = <<>> /\ c \notin lagged
WriterServes ==
    \A c \in Conns : conn[c].writer \notin {"none", "ended"} /\ ~HungUp(c) => c \in subscribers
WriterThere ==
    /\ \A a \in acks : conn[a.to].writer # "none"
    /\ \A c \in Conns : c \in op.left \/ op.full = c => conn[c].writer # "none"
LockFree == op.kind = "none" => op.left = {} /\ op.full = Nobody

Viewers == ViewTyped /\ WriterQuiet /\ WriterServes /\ WriterThere /\ LockFree
Screens == Viewers /\ \A c \in Conns : Fed(c)

LEMMA FramesAre ==
  /\ \A n \in Chunks : Output(n) \in Frames
  /\ \A b \in BOOLEAN : Writable(b) \in Frames
  /\ Ack \in Frames
  BY DEF Frames

LEMMA BitIs == \A b : Bit(b) \in Bits
  BY DEF Bit, Bits

LEMMA ScreensInit == Init => Screens
<1> SUFFICES ASSUME Init PROVE Screens
  OBVIOUS
<1>1. chunks \in Chunks /\ screen \in [Conns -> Chunks] /\ queue \in [Conns -> Seq(Frames)]
  BY BoundsAssumption DEF Init, Chunks
<1>2. \A c \in Conns : conn[c].snapshot \in Chunks /\ conn[c].writer = "none"
  BY BoundsAssumption DEF Init, Chunks
<1>3. WriterQuiet /\ WriterServes /\ WriterThere /\ LockFree
  BY <1>2, NobodyIsNone DEF Init, WriterQuiet, WriterServes, WriterThere, LockFree, NoOp
<1>4. \A c \in Conns : Fed(c)
  BY <1>2 DEF Init, Fed, Writing
<1> QED BY <1>1, <1>2, <1>3, <1>4 DEF Screens, Viewers, ViewTyped

\* Nothing changed for a viewer.
Alike(c) ==
    /\ UNCHANGED <<queue[c], screen[c], conn[c].snapshot, conn[c].frame, conn[c].writer>>
    /\ c \in role' <=> c \in role
    /\ c \in lagged => c \in lagged'
    /\ c \in subscribers' => c \in subscribers

LEMMA Elsewhere ==
  ASSUME NEW d \in Conns, Fed(d), Alike(d),
         d \in subscribers' => \A y, w : Arrives(d, y, w) => Arrives(d, y, w)'
  PROVE  Fed(d)'
<1> SUFFICES ASSUME (d \in subscribers /\ d \notin lagged /\ Writing(d))' PROVE Fed(d)'
  BY DEF Fed
<1>1. d \in subscribers /\ d \notin lagged /\ Writing(d)
  BY DEF Alike, Writing
<1>2. HeldScreen(d)' = HeldScreen(d) /\ HeldRole(d)' = HeldRole(d)
  BY DEF Alike, HeldScreen, HeldRole, Bit
<1>3. PICK y, w : Leads(queue[d], HeldScreen(d), HeldRole(d), y, w) /\ Arrives(d, y, w)
  BY <1>1 DEF Fed
<1>4. Arrives(d, y, w)' /\ Leads(queue'[d], HeldScreen(d)', HeldRole(d)', y, w)
  BY <1>2, <1>3 DEF Alike
<1>5. (conn[d].writer = "holding" /\ conn[d].frame.kind = "OUTPUT" =>
         conn[d].frame.chunk = screen[d] + 1)'
  BY <1>1 DEF Fed, Alike
<1> QED BY <1>4, <1>5 DEF Fed

\* Everything is on offer again: what was due stays due.
LEMMA ReconcileFeeds ==
  ASSUME Typed, NEW subs \in SUBSET Conns, NEW watching, NEW who, NEW join \in Conns \cup {Nobody},
         NEW take, BeginReconcile(subs, watching, who, join, take),
         op.left = {}, op.full = Nobody, chunks' = chunks,
         NEW d \in Conns, Fed(d), Alike(d)
  PROVE  Fed(d)'
<1>1. /\ op'.kind = "WRITABLE" /\ op'.full = Nobody
      /\ d \in subscribers' => d \in op'.left
  BY Reconciled
<1>2. ASSUME NEW y, NEW w, Arrives(d, y, w), d \in subscribers' PROVE Arrives(d, y, w)'
  <2>1. y = chunks
    BY <1>2, NobodyIsNone DEF Arrives, DueScreen
  <2> QED BY <1>1, <1>2, <2>1 DEF Arrives, DueScreen
<1> QED BY <1>2, Elsewhere

(***************************************************************************)
(* Writers.                                                                *)
(***************************************************************************)
LEMMA WriterElsewhere ==
  ASSUME Typed, NEW c \in Conns, SendSnapshot(c) \/ Take(c) \/ Send(c) \/ Resync(c) \/ HangUp(c),
         NEW d \in Conns \ {c}, Fed(d), ViewTyped
  PROVE  Fed(d)'
<1>1. /\ UNCHANGED <<op, owner, exited, chunks, subscribers>>
      /\ conn'[d] = conn[d]
  BY DEF Typed, ConnTyped, SendSnapshot, Take, Send, Resync, HangUp, live
<1>2. Alike(d)
  <2>1. UNCHANGED <<queue[d], screen[d]>> /\ (d \in role' <=> d \in role) /\ (d \in lagged => d \in lagged')
    <3>1. CASE SendSnapshot(c)
      BY <3>1 DEF SendSnapshot
    <3>2. CASE Take(c)
      BY <3>2 DEF Take, view
    <3>3. CASE Send(c)
      BY <3>3 DEF Send, view, ViewTyped
    <3>4. CASE Resync(c)
      BY <3>4 DEF Resync, Unmarked, view, ViewTyped
    <3>5. CASE HangUp(c)
      BY <3>5 DEF HangUp, view
    <3> QED BY <3>1, <3>2, <3>3, <3>4, <3>5
  <2> QED BY <1>1, <2>1 DEF Alike
<1>3. \A y, w : Arrives(d, y, w) => Arrives(d, y, w)'
  BY <1>1 DEF Arrives, DueScreen, DueRole
<1> QED BY <1>2, <1>3, Elsewhere

LEMMA SnapshotFeeds ==
  ASSUME Typed, Screens, NEW c \in Conns, SendSnapshot(c) PROVE Screens'
<1> USE DEF Screens, Viewers
<1>1. /\ UNCHANGED <<chunks, queue, lagged, op, owner, exited, subscribers, acks, role>>
      /\ screen' = [screen EXCEPT ![c] = conn[c].snapshot]
      /\ conn[c].writer = "snapshot" /\ conn'[c].writer \in {"ended", "waiting"}
      /\ HungUp(c) => conn'[c].writer = "ended"
      /\ conn'[c].link = conn[c].link /\ conn'[c].snapshot = 0
      /\ \A d \in Conns \ {c} : conn'[d] = conn[d]
  BY DEF SendSnapshot, Typed, ConnTyped, live
<1>2. ViewTyped'
  <2>1. 0 \in Chunks
    BY BoundsAssumption DEF Chunks
  <2>2. screen' \in [Conns -> Chunks] /\ \A d \in Conns : conn'[d].snapshot \in Chunks
    BY <1>1, <2>1 DEF ViewTyped
  <2> QED BY <1>1, <2>2 DEF ViewTyped
<1>3. WriterQuiet' /\ WriterServes' /\ LockFree'
  BY <1>1 DEF WriterQuiet, WriterServes, LockFree, HungUp
<1>4. WriterThere'
  BY <1>1 DEF WriterThere, Typed, AcksTyped
<1>5. Fed(c)'
  <2> SUFFICES ASSUME (c \in subscribers /\ c \notin lagged /\ Writing(c))' PROVE Fed(c)'
    BY DEF Fed
  <2>1. c \in subscribers /\ c \notin lagged /\ Writing(c) /\ conn'[c].writer = "waiting"
    BY <1>1 DEF Writing
  <2>2. HeldScreen(c)' = HeldScreen(c) /\ HeldRole(c)' = HeldRole(c)
    BY <1>1, <2>1 DEF HeldScreen, HeldRole, ViewTyped, Bit
  <2>3. PICK y, w : Leads(queue[c], HeldScreen(c), HeldRole(c), y, w) /\ Arrives(c, y, w)
    BY <2>1 DEF Fed
  <2>4. Arrives(c, y, w)' /\ queue'[c] = queue[c]
    BY <1>1, <2>3 DEF Arrives, DueScreen, DueRole
  <2> QED BY <2>1, <2>2, <2>3, <2>4 DEF Fed
<1> QED BY <1>2, <1>3, <1>4, <1>5, WriterElsewhere

LEMMA TakeFeeds ==
  ASSUME Typed, Screens, NEW c \in Conns, Take(c) PROVE Screens'
<1> USE DEF Screens, Viewers
<1>1. /\ UNCHANGED <<chunks, lagged, op, owner, exited, subscribers, acks, role, screen>>
      /\ queue[c] # <<>> /\ queue' = [queue EXCEPT ![c] = Tail(queue[c])]
      /\ conn[c].writer = "waiting" /\ conn'[c].writer = "holding"
      /\ conn'[c].frame = Head(queue[c])
      /\ conn'[c].link = conn[c].link /\ conn'[c].snapshot = conn[c].snapshot
      /\ \A d \in Conns \ {c} : conn'[d] = conn[d]
  BY DEF Take, Typed, ConnTyped, live, view
<1>2. ViewTyped'
  <2>1. Tail(queue[c]) \in Seq(Frames)
    BY <1>1 DEF ViewTyped
  <2>2. queue' \in [Conns -> Seq(Frames)] /\ \A d \in Conns : conn'[d].snapshot \in Chunks
    BY <1>1, <2>1 DEF ViewTyped
  <2> QED BY <1>1, <2>2 DEF ViewTyped
<1>3. WriterQuiet' /\ WriterServes' /\ LockFree'
  BY <1>1 DEF WriterQuiet, WriterServes, LockFree, HungUp
<1>4. WriterThere'
  BY <1>1 DEF WriterThere, Typed, AcksTyped
<1>5. Fed(c)'
  <2> SUFFICES ASSUME (c \in subscribers /\ c \notin lagged /\ Writing(c))' PROVE Fed(c)'
    BY DEF Fed
  <2>1. c \in subscribers /\ c \notin lagged /\ Writing(c)
    BY <1>1 DEF Writing
  <2>2. HeldScreen(c) = screen[c] /\ HeldRole(c) = Bit(c \in role)
    BY <1>1 DEF HeldScreen, HeldRole
  <2>3. PICK y, w : Leads(queue[c], HeldScreen(c), HeldRole(c), y, w) /\ Arrives(c, y, w)
    BY <2>1 DEF Fed
  <2> DEFINE f == Head(queue[c])
  <2>4. PICK z \in Chunks, u \in Bits :
          /\ Shows(f, screen[c], z) /\ Tells(f, Bit(c \in role), u)
          /\ Leads(Tail(queue[c]), z, u, y, w)
    BY <1>1, <2>2, <2>3, LeadsFirst DEF ViewTyped
  <2>5. f.kind = "OUTPUT" => f.chunk = screen[c] + 1
    BY <2>4 DEF Shows
  <2>6. HeldScreen(c)' = z
    BY <1>1, <2>4 DEF HeldScreen, Shows
  <2>7. HeldRole(c)' = u
    BY <1>1, <2>4 DEF HeldRole, Tells
  <2>8. Arrives(c, y, w)' /\ queue'[c] = Tail(queue[c]) /\ conn'[c].frame = f /\ screen'[c] = screen[c]
    BY <1>1, <2>3 DEF Arrives, DueScreen, DueRole, ViewTyped
  <2> HIDE DEF f
  <2> QED BY <2>4, <2>5, <2>6, <2>7, <2>8 DEF Fed
<1> QED BY <1>2, <1>3, <1>4, <1>5, WriterElsewhere

LEMMA SendFeeds ==
  ASSUME Typed, Screens, NEW c \in Conns, Send(c) PROVE Screens'
<1> USE DEF Screens, Viewers
<1> DEFINE f == conn[c].frame
<1>1. /\ UNCHANGED <<chunks, lagged, op, owner, exited, subscribers, acks, queue>>
      /\ conn[c].writer = "holding" /\ conn'[c].writer \in {"ended", "waiting", "resync"}
      /\ conn'[c].link = conn[c].link /\ conn'[c].snapshot = conn[c].snapshot
      /\ \A d \in Conns \ {c} : conn'[d] = conn[d]
  BY DEF Send, Typed, ConnTyped, live
<1>2. CASE HungUp(c) \/ c \in lagged
  <2>1. /\ UNCHANGED view /\ conn'[c].writer \in {"ended", "resync"}
        /\ HungUp(c) => conn'[c].writer = "ended"
    BY <1>1, <1>2 DEF Send, SendsFrame, Typed, ConnTyped
  <2>2. ViewTyped'
    BY <1>1, <2>1 DEF ViewTyped, view
  <2>3. WriterQuiet' /\ WriterServes' /\ LockFree'
    BY <1>1, <2>1 DEF WriterQuiet, WriterServes, LockFree, HungUp
  <2>4. WriterThere'
    BY <1>1 DEF WriterThere, Typed, AcksTyped
  <2>5. Fed(c)'
    BY <2>1 DEF Fed, Writing
  <2> QED BY <2>2, <2>3, <2>4, <2>5, WriterElsewhere
<1>3. CASE ~HungUp(c) /\ c \notin lagged
  <2>1. /\ conn'[c].writer = "waiting"
        /\ screen' = [screen EXCEPT ![c] = Shown(f, screen[c])]
        /\ role' = IF f.kind # "WRITABLE" THEN role
                   ELSE IF f.writable THEN role \cup {c} ELSE role \ {c}
    BY <1>3 DEF Send, SendsFrame, Typed, ConnTyped
  <2>2. c \in subscribers
    BY <1>1, <1>3 DEF WriterServes
  <2>3. /\ f.kind = "OUTPUT" => f.chunk = screen[c] + 1
        /\ \E y, w : Leads(queue[c], HeldScreen(c), HeldRole(c), y, w) /\ Arrives(c, y, w)
    BY <1>1, <1>3, <2>2 DEF Fed, Writing
  <2>4. PICK y, w : Leads(queue[c], HeldScreen(c), HeldRole(c), y, w) /\ Arrives(c, y, w)
    BY <2>3
  <2>5. HeldScreen(c) \in Chunks
    BY <2>4 DEF Leads
  <2>6. screen[c] \in Chunks
    BY DEF ViewTyped
  <2>7. Shown(f, screen[c]) = HeldScreen(c)
    <3>1. CASE f.kind = "OUTPUT"
      BY <1>1, <2>3, <2>6, <3>1 DEF Shown, HeldScreen, Chunks
    <3>2. CASE f.kind # "OUTPUT"
      BY <1>1, <3>2 DEF Shown, HeldScreen
    <3> QED BY <3>1, <3>2
  <2>8. screen' = [screen EXCEPT ![c] = HeldScreen(c)]
    BY <2>1, <2>7
  <2>9. ViewTyped'
    <3>1. screen' \in [Conns -> Chunks]
      BY <2>5, <2>8 DEF ViewTyped
    <3> QED BY <1>1, <3>1 DEF ViewTyped
  <2>10. WriterQuiet' /\ WriterServes' /\ LockFree'
    BY <1>1, <2>1, <2>2 DEF WriterQuiet, WriterServes, LockFree, HungUp
  <2>11. WriterThere'
    BY <1>1 DEF WriterThere, Typed, AcksTyped
  <2>12. Fed(c)'
    <3>1. HeldScreen(c)' = HeldScreen(c)
      BY <2>1, <2>8 DEF HeldScreen, ViewTyped
    <3>2. Bit(c \in role)' = HeldRole(c)
      BY <1>1, <2>1 DEF HeldRole, Bit
    <3>3. HeldRole(c)' = Bit(c \in role)'
      BY <2>1 DEF HeldRole
    <3>4. Arrives(c, y, w)' /\ queue'[c] = queue[c]
      BY <1>1, <2>4 DEF Arrives, DueScreen, DueRole
    <3> QED BY <2>1, <2>4, <3>1, <3>2, <3>3, <3>4 DEF Fed
  <2> QED BY <2>9, <2>10, <2>11, <2>12, WriterElsewhere
<1> QED BY <1>2, <1>3

LEMMA ResyncFeeds ==
  ASSUME Typed, Screens, NEW c \in Conns, Resync(c) PROVE Screens'
<1> USE DEF Screens, Viewers
<1>1. /\ UNCHANGED <<chunks, op, owner, exited, subscribers, acks>>
      /\ queue' = [queue EXCEPT ![c] = <<>>] /\ lagged' \in SUBSET lagged
      /\ conn[c].writer = "resync" /\ op.kind = "none"
      /\ conn'[c].writer \in {"ended", "waiting"} /\ (HungUp(c) => conn'[c].writer = "ended")
      /\ conn'[c].link = conn[c].link /\ conn'[c].snapshot = conn[c].snapshot
      /\ \A d \in Conns \ {c} : conn'[d] = conn[d]
  BY DEF Resync, Backlog, Unmarked, Unlocked, Typed, ConnTyped, live
<1>2. /\ ~HungUp(c) => /\ screen' = [screen EXCEPT ![c] = chunks]
                        /\ role' = IF owner = c /\ ~exited THEN role \cup {c} ELSE role \ {c}
      /\ HungUp(c) => UNCHANGED <<screen, role>>
  BY DEF Resync, view
<1>3. ViewTyped'
  <2>1. screen' \in [Conns -> Chunks]
    BY <1>2 DEF ViewTyped
  <2>2. queue' \in [Conns -> Seq(Frames)] /\ \A d \in Conns : conn'[d].snapshot \in Chunks
    BY <1>1 DEF ViewTyped
  <2> QED BY <1>1, <2>1, <2>2 DEF ViewTyped
<1>4. WriterQuiet' /\ WriterServes' /\ LockFree'
  BY <1>1 DEF WriterQuiet, WriterServes, LockFree, HungUp, ViewTyped
<1>5. WriterThere'
  BY <1>1 DEF WriterThere, Typed, AcksTyped
<1>6. Fed(c)'
  <2> SUFFICES ASSUME (c \in subscribers /\ c \notin lagged /\ Writing(c))' PROVE Fed(c)'
    BY DEF Fed
  <2>1. ~HungUp(c) /\ conn'[c].writer = "waiting"
    BY <1>1 DEF Writing
  <2>2. HeldScreen(c)' = chunks /\ HeldRole(c)' = Bit(c \in role)' /\ queue'[c] = <<>>
    BY <1>1, <1>2, <2>1 DEF HeldScreen, HeldRole, ViewTyped
  <2> DEFINE w == Bit(c \in role')
  <2>3. w \in Bits /\ chunks \in Chunks
    BY BitIs DEF ViewTyped
  <2>4. Leads(queue'[c], HeldScreen(c)', HeldRole(c)', chunks, w)
    BY <2>2, <2>3, LeadsNowhere
  <2>5. (w = 1 => owner' = c) /\ (owner' = c /\ ~exited' => w = 1)
    BY <1>1, <1>2, <2>1 DEF Bit
  <2>6. op' = op /\ op.left = {}
    BY <1>1 DEF LockFree
  <2> HIDE DEF w
  <2>7. /\ op'.full # c => chunks = DueScreen(c)'
        /\ (w = 1 => owner' = c) /\ (owner' = c /\ ~exited' => w = 1)
    BY <1>1, <2>5, <2>6 DEF DueScreen
  <2>8. \E y, u : Leads(queue'[c], HeldScreen(c)', HeldRole(c)', y, u) /\ Arrives(c, y, u)'
    BY <2>4, <2>7 DEF Arrives, DueRole
  <2> QED BY <2>1, <2>8 DEF Fed
<1> QED BY <1>3, <1>4, <1>5, <1>6, WriterElsewhere

LEMMA HangUpFeeds ==
  ASSUME Typed, Screens, NEW c \in Conns, HangUp(c) PROVE Screens'
<1> USE DEF Screens, Viewers
<1>1. /\ UNCHANGED <<chunks, lagged, op, owner, exited, subscribers, acks, queue, screen, role>>
      /\ conn'[c].link = "hungup"
      /\ \A d \in Conns : UNCHANGED <<conn[d].writer, conn[d].snapshot, conn[d].frame>>
      /\ \A d \in Conns \ {c} : conn'[d] = conn[d]
  BY DEF HangUp, Typed, ConnTyped, live, view
<1>2. ViewTyped' /\ WriterQuiet' /\ WriterServes' /\ LockFree'
  BY <1>1 DEF ViewTyped, WriterQuiet, WriterServes, LockFree, HungUp
<1>3. WriterThere'
  BY <1>1 DEF WriterThere, Typed, AcksTyped
<1>4. ASSUME NEW d \in Conns PROVE Fed(d)'
  <2>1. Alike(d)
    BY <1>1 DEF Alike
  <2>2. \A y, w : Arrives(d, y, w) => Arrives(d, y, w)'
    BY <1>1 DEF Arrives, DueScreen, DueRole
  <2> QED BY <2>1, <2>2, Elsewhere
<1> QED BY <1>2, <1>3, <1>4

(***************************************************************************)
(* Answers and frames, queued or dropped.                                  *)
(***************************************************************************)
LEMMA AskFeeds ==
  ASSUME Typed, Screens, NEW c \in Conns, Ask(c) PROVE Screens'
<1> USE DEF Screens, Viewers
<1>1. /\ UNCHANGED <<chunks, lagged, op, owner, exited, subscribers, conn, queue, screen, role>>
      /\ \A a \in acks' : a \in acks \/ a.to = c
      /\ conn[c].writer # "none"
  BY DEF Ask, live, view, Attached
<1>2. ViewTyped' /\ WriterQuiet' /\ WriterServes' /\ LockFree' /\ WriterThere'
  BY <1>1 DEF ViewTyped, WriterQuiet, WriterServes, LockFree, HungUp, WriterThere
<1>3. ASSUME NEW d \in Conns PROVE Fed(d)'
  <2>1. Alike(d)
    BY <1>1 DEF Alike
  <2>2. \A y, w : Arrives(d, y, w) => Arrives(d, y, w)'
    BY <1>1 DEF Arrives, DueScreen, DueRole
  <2> QED BY <2>1, <2>2, Elsewhere
<1> QED BY <1>2, <1>3

\* One more frame in the queue of c leads it to (z, u).
LEMMA QueueFeeds ==
  ASSUME Typed, Screens, NEW c \in Conns, NEW f \in Frames,
         queue' = [queue EXCEPT ![c] = Append(queue[c], f)],
         UNCHANGED <<lagged, screen, role, conn>>, subscribers' \subseteq subscribers,
         \A y \in Chunks, w \in Bits : Arrives(c, y, w) =>
            \E z \in Chunks, u \in Bits : Shows(f, y, z) /\ Tells(f, w, u) /\ Arrives(c, z, u)'
  PROVE  Fed(c)'
<1> SUFFICES ASSUME (c \in subscribers /\ c \notin lagged /\ Writing(c))' PROVE Fed(c)'
  BY DEF Fed
<1>1. c \in subscribers /\ c \notin lagged /\ Writing(c)
  BY DEF Writing
<1>2. HeldScreen(c)' = HeldScreen(c) /\ HeldRole(c)' = HeldRole(c)
  BY DEF HeldScreen, HeldRole
<1>3. PICK y, w : Leads(queue[c], HeldScreen(c), HeldRole(c), y, w) /\ Arrives(c, y, w)
  BY <1>1 DEF Fed, Screens
<1>4. queue[c] \in Seq(Frames) /\ queue'[c] = Append(queue[c], f)
  BY DEF Screens, Viewers, ViewTyped
<1>5. y \in Chunks /\ w \in Bits
  <2>1. Len(queue[c]) \in Nat
    BY <1>4
  <2> QED BY <1>3, <2>1 DEF Leads
<1>6. PICK z \in Chunks, u \in Bits : Shows(f, y, z) /\ Tells(f, w, u) /\ Arrives(c, z, u)'
  BY <1>3, <1>5
<1>7. Leads(queue'[c], HeldScreen(c)', HeldRole(c)', z, u)
  BY <1>2, <1>3, <1>4, <1>6, LeadsOn
<1>8. conn'[c].writer = "holding" /\ conn'[c].frame.kind = "OUTPUT" =>
        conn'[c].frame.chunk = screen'[c] + 1
  BY <1>1 DEF Fed, Screens
<1> QED BY <1>6, <1>7, <1>8 DEF Fed

LEMMA AnswerFeeds ==
  ASSUME Typed, Screens, NEW a \in acks, Answer(a) PROVE Screens'
<1> USE DEF Screens, Viewers
<1> DEFINE c == a.to
<1>1. c \in Conns /\ conn[c].writer # "none"
  BY DEF Typed, AcksTyped, WriterThere
<1>2. /\ UNCHANGED <<chunks, op, owner, exited, subscribers, conn, screen, role>>
      /\ \A b \in acks' : b \in acks \/ b.to = c
      /\ \/ queue' = [queue EXCEPT ![c] = Append(queue[c], Ack)] /\ lagged' = lagged
         \/ queue' = queue /\ lagged' = lagged
         \/ queue' = queue /\ lagged' = lagged \cup {c}
  BY DEF Answer, live, view, Typed, AcksTyped
<1> HIDE DEF c
<1>3. ViewTyped'
  <2>1. queue' \in [Conns -> Seq(Frames)]
    <3>1. Append(queue[c], Ack) \in Seq(Frames)
      BY <1>1, FramesAre DEF ViewTyped
    <3> QED BY <1>1, <1>2, <3>1 DEF ViewTyped
  <2> QED BY <1>2, <2>1 DEF ViewTyped
<1>4. WriterQuiet'
  BY <1>1, <1>2 DEF WriterQuiet, ViewTyped
<1>5. WriterServes' /\ LockFree' /\ WriterThere'
  BY <1>1, <1>2 DEF WriterServes, LockFree, HungUp, WriterThere
<1>6. \A d \in Conns : \A y, w : Arrives(d, y, w) <=> Arrives(d, y, w)'
  BY <1>2 DEF Arrives, DueScreen, DueRole
<1>7. ASSUME NEW d \in Conns, d # c \/ queue' = queue PROVE Fed(d)'
  <2>1. queue'[d] = queue[d] /\ (d \in lagged => d \in lagged')
    BY <1>2, <1>7 DEF ViewTyped
  <2>2. Alike(d)
    BY <1>2, <2>1 DEF Alike
  <2> QED BY <1>6, <2>2, Elsewhere
<1>8. CASE queue' # queue
  <2>1. queue' = [queue EXCEPT ![c] = Append(queue[c], Ack)] /\ lagged' = lagged
    BY <1>2, <1>8
  <2>2. \A y \in Chunks, w \in Bits : Shows(Ack, y, y) /\ Tells(Ack, w, w)
    BY DEF Shows, Tells, Ack
  <2>3. Fed(c)'
    BY <1>1, <1>2, <1>6, <2>1, <2>2, FramesAre, QueueFeeds
  <2> QED BY <1>3, <1>4, <1>5, <1>7, <2>3
<1> QED BY <1>3, <1>4, <1>5, <1>7, <1>8

LEMMA MarkFeeds ==
  ASSUME Typed, Screens, MarkLagged PROVE Screens'
<1> USE DEF Screens, Viewers
<1>1. /\ UNCHANGED <<chunks, owner, exited, subscribers, conn, queue, acks, screen, role>>
      /\ op.full # Nobody /\ lagged' = lagged \cup {op.full}
      /\ op'.kind = op.kind /\ op'.left = op.left \ {op.full} /\ op'.full = Nobody
  BY DEF MarkLagged, Marks, live, view, Typed, LockTyped
<1>2. ViewTyped' /\ WriterServes' /\ LockFree' /\ WriterThere'
  BY <1>1, NobodyIsNone DEF ViewTyped, WriterServes, LockFree, HungUp, WriterThere
<1>3. WriterQuiet'
  BY <1>1 DEF WriterQuiet, WriterThere
<1>4. ASSUME NEW d \in Conns PROVE Fed(d)'
  <2>1. CASE d = op.full
    BY <1>1, <2>1 DEF Fed
  <2>2. CASE d # op.full
    <3>1. Alike(d)
      BY <1>1 DEF Alike
    <3>2. \A y, w : Arrives(d, y, w) => Arrives(d, y, w)'
      BY <1>1, <2>2 DEF Arrives, DueScreen, DueRole
    <3> QED BY <3>1, <3>2, Elsewhere
  <2> QED BY <2>1, <2>2
<1> QED BY <1>2, <1>3, <1>4

LEMMA OfferFeeds ==
  ASSUME Typed, Screens, NEW c \in Conns, Offer(c) PROVE Screens'
<1> USE NobodyIsNone DEF Screens, Viewers
<1>1. /\ UNCHANGED <<chunks, owner, exited, conn, lagged, acks, screen, role>>
      /\ c \in op.left /\ op.full = Nobody /\ op'.kind = op.kind /\ op.kind # "none"
  BY DEF Offer, view, Typed, LockTyped, LockFree
<1>2. CASE conn[c].writer = "ended"
  <2>1. /\ subscribers' = subscribers \ {c} /\ queue' = queue
        /\ op'.left = op.left \ {c} /\ op'.full = Nobody
    BY <1>2, <1>1 DEF Offer, Typed, LockTyped
  <2>2. Viewers'
    BY <1>1, <1>2, <2>1 DEF ViewTyped, WriterQuiet, WriterServes, LockFree, HungUp, WriterThere
  <2>3. ASSUME NEW d \in Conns, d # c PROVE Fed(d)'
    <3>1. Alike(d)
      BY <1>1, <2>1 DEF Alike
    <3>2. \A y, w : Arrives(d, y, w) => Arrives(d, y, w)'
      BY <1>1, <2>1, <2>3 DEF Arrives, DueScreen, DueRole
    <3> QED BY <3>1, <3>2, Elsewhere
  <2>4. Fed(c)'
    BY <2>1 DEF Fed
  <2> QED BY <2>2, <2>3, <2>4
<1>3. CASE conn[c].writer # "ended" /\ ~Full(c)
  <2> DEFINE f == FrameFor(c)
  <2>1. /\ subscribers' = subscribers /\ queue' = [queue EXCEPT ![c] = Append(queue[c], f)]
        /\ op'.left = op.left \ {c} /\ op'.full = Nobody
    BY <1>3, <1>1 DEF Offer, Typed, LockTyped
  <2>2. f \in Frames
    <3>1. chunks \in Chunks /\ (owner = c /\ ~exited) \in BOOLEAN
      BY DEF ViewTyped
    <3> QED BY <3>1, FramesAre DEF FrameFor
  <2>3. /\ op.kind = "OUTPUT" => f.kind = "OUTPUT" /\ f.chunk = chunks
        /\ op.kind # "OUTPUT" => f.kind = "WRITABLE" /\ Bit(f.writable) = Bit(owner = c /\ ~exited)
    BY DEF FrameFor, Output, Writable
  <2> HIDE DEF f
  <2>4. ViewTyped'
    <3>1. Append(queue[c], f) \in Seq(Frames)
      BY <2>2 DEF ViewTyped
    <3> QED BY <1>1, <2>1, <3>1 DEF ViewTyped
  <2>5. WriterQuiet' /\ WriterServes' /\ LockFree' /\ WriterThere'
    BY <1>1, <2>1 DEF WriterQuiet, WriterServes, LockFree, HungUp, WriterThere, ViewTyped
  <2>6. ASSUME NEW d \in Conns, d # c PROVE Fed(d)'
    <3>1. Alike(d)
      BY <1>1, <2>1, <2>6 DEF Alike, ViewTyped
    <3>2. \A y, w : Arrives(d, y, w) => Arrives(d, y, w)'
      BY <1>1, <2>1, <2>6 DEF Arrives, DueScreen, DueRole
    <3> QED BY <3>1, <3>2, Elsewhere
  <2>7. ASSUME NEW y \in Chunks, NEW w \in Bits, Arrives(c, y, w)
        PROVE  \E z \in Chunks, u \in Bits : Shows(f, y, z) /\ Tells(f, w, u) /\ Arrives(c, z, u)'
    <3>1. chunks \in Chunks /\ chunks \in Int
      BY DEF ViewTyped, Chunks
    <3>2. CASE op.kind = "OUTPUT"
      <4>1. y = chunks - 1 /\ DueRole(c, w)
        BY <1>1, <3>2, <2>7 DEF Arrives, DueScreen
      <4>2. PICK z \in Chunks : z = chunks
        BY <3>1
      <4>3. Shows(f, y, z) /\ Tells(f, w, w)
        BY <2>3, <3>1, <3>2, <4>1, <4>2 DEF Shows, Tells
      <4>4. Arrives(c, z, w)'
        BY <1>1, <2>1, <3>2, <4>1, <4>2 DEF Arrives, DueScreen, DueRole
      <4> QED BY <4>3, <4>4
    <3>3. CASE op.kind # "OUTPUT"
      <4>1. y = chunks
        BY <1>1, <3>3, <2>7 DEF Arrives, DueScreen
      <4>2. PICK u \in Bits : u = Bit(owner = c /\ ~exited)
        BY BitIs
      <4>3. Shows(f, y, y) /\ Tells(f, w, u)
        BY <2>3, <3>3, <4>1, <4>2 DEF Shows, Tells
      <4>4. DueRole(c, u)
        BY <4>2 DEF DueRole, Bit
      <4>5. Arrives(c, y, u)'
        BY <1>1, <2>1, <3>3, <4>1, <4>4 DEF Arrives, DueScreen, DueRole
      <4> QED BY <4>3, <4>5
    <3> QED BY <3>2, <3>3
  <2>8. Fed(c)'
    BY <1>1, <2>1, <2>2, <2>7, QueueFeeds
  <2> QED BY <2>4, <2>5, <2>6, <2>8
<1>4. CASE conn[c].writer # "ended" /\ Full(c)
  <2>1. UNCHANGED <<subscribers, queue>> /\ op'.left = op.left /\ op'.full = c
    BY <1>4, <1>1 DEF Offer, Typed, LockTyped
  <2>2. Viewers'
    BY <1>1, <1>4, <2>1 DEF ViewTyped, WriterQuiet, WriterServes, LockFree, HungUp, WriterThere
  <2>3. ASSUME NEW d \in Conns PROVE Fed(d)'
    <3>1. Alike(d)
      BY <1>1, <2>1 DEF Alike
    <3>2. \A y, w : Arrives(d, y, w) => Arrives(d, y, w)'
      BY <1>1, <2>1 DEF Arrives, DueScreen, DueRole
    <3> QED BY <3>1, <3>2, Elsewhere
  <2> QED BY <2>2, <2>3
<1> QED BY <1>2, <1>3, <1>4

LEMMA PumpFeeds ==
  ASSUME Typed, Keyboard, Screens, Pump \/ Exit PROVE Screens'
<1> USE NobodyIsNone DEF Screens, Viewers
<1>1. /\ UNCHANGED <<owner, conn, lagged, queue, subscribers, acks, screen, role>>
      /\ op.kind = "none" /\ op.left = {} /\ op.full = Nobody
      /\ \/ /\ chunks' = chunks + 1 /\ chunks < MaxChunks /\ exited' = exited
            /\ op'.kind = "OUTPUT" /\ op'.left = subscribers /\ op'.full = Nobody
         \/ chunks' = chunks /\ exited' = TRUE /\ op' = op
  BY DEF Pump, Exit, view, Unlocked, LockFree, NoOp
<1>2. chunks' \in Chunks /\ chunks \in Int
  BY <1>1, BoundsAssumption DEF ViewTyped, Chunks
<1>3. ViewTyped' /\ WriterQuiet' /\ WriterServes' /\ LockFree'
  BY <1>1, <1>2 DEF ViewTyped, WriterQuiet, WriterServes, LockFree, HungUp
<1>4. WriterThere'
  BY <1>1 DEF WriterThere, Keyboard, Roles, SubscribersAttached, There
<1>5. ASSUME NEW d \in Conns PROVE Fed(d)'
  <2>1. Alike(d)
    BY <1>1 DEF Alike
  <2>2. ASSUME NEW y, NEW w, Arrives(d, y, w), d \in subscribers' PROVE Arrives(d, y, w)'
    <3>1. y = chunks /\ DueRole(d, w)
      BY <1>1, <2>2 DEF Arrives, DueScreen
    <3>2. DueRole(d, w)' /\ y = DueScreen(d)'
      BY <1>1, <1>2, <2>2, <3>1 DEF DueScreen, DueRole
    <3> QED BY <3>2 DEF Arrives
  <2> QED BY <2>1, <2>2, Elsewhere
<1> QED BY <1>3, <1>4, <1>5

(***************************************************************************)
(* Connections that come and go.                                           *)
(***************************************************************************)
LEMMA AttachFeeds ==
  ASSUME Typed, Keyboard, Screens, NEW c \in Conns, NEW watch \in BOOLEAN, NEW take \in BOOLEAN,
         Attach(c, watch, take)
  PROVE  Screens'
<1> USE NobodyIsNone DEF Screens, Viewers
<1>1. /\ UNCHANGED <<chunks, exited, lagged, queue, acks, screen, role>>
      /\ op.left = {} /\ op.full = Nobody /\ conn[c].link = "new" /\ conn'[c].link = "open"
      /\ \A d \in Conns : UNCHANGED <<conn[d].writer, conn[d].snapshot, conn[d].frame>>
      /\ \A d \in Conns \ {c} : conn'[d] = conn[d]
  BY DEF Attach, Typed, ConnTyped, Unlocked, LockFree, view
<1>2. BeginReconcile(subscribers, watchers, owner, c, take) /\ subscribers \in SUBSET Conns
  BY DEF Attach, Typed, LockTyped
<1>3. /\ subscribers' = {d \in subscribers : ~HungUp(d)}
      /\ op'.kind = "WRITABLE" /\ op'.left = subscribers' /\ op'.full = Nobody
  BY <1>2, Reconciled
<1>4. conn[c].writer = "none"
  BY <1>1 DEF Keyboard, WriterStarts
<1>5. ViewTyped' /\ WriterQuiet' /\ LockFree'
  BY <1>1, <1>3 DEF ViewTyped, WriterQuiet, LockFree
<1>6. WriterServes'
  BY <1>1, <1>3, <1>4 DEF WriterServes, HungUp
<1>7. WriterThere'
  BY <1>1, <1>3 DEF WriterThere, Keyboard, Roles, SubscribersAttached, There, Typed, AcksTyped
<1>8. ASSUME NEW d \in Conns PROVE Fed(d)'
  <2>1. Alike(d)
    BY <1>1, <1>3 DEF Alike
  <2> QED BY <1>1, <1>2, <2>1, ReconcileFeeds
<1> QED BY <1>5, <1>6, <1>7, <1>8

LEMMA DropFeeds ==
  ASSUME Typed, Keyboard, Screens, NEW c \in Conns, Drop(c) PROVE Screens'
<1> USE NobodyIsNone DEF Screens, Viewers
<1>1. /\ UNCHANGED <<chunks, exited, acks>> /\ \A a \in acks : a.to # c
      /\ op.left = {} /\ op.full = Nobody /\ conn[c].link = "hungup"
      /\ queue' = [queue EXCEPT ![c] = <<>>] /\ lagged' = lagged \ {c} /\ role' = role \ {c}
      /\ screen' = [screen EXCEPT ![c] = 0]
      /\ conn'[c].writer = "ended" /\ conn'[c].snapshot = 0
      /\ \A d \in Conns \ {c} : conn'[d] = conn[d]
  BY DEF Drop, HungUp, Gone, Typed, ConnTyped, Unlocked, LockFree
<1>2. PICK subs \in SUBSET Conns, take \in BOOLEAN :
        subs = subscribers \ {c} /\ BeginReconcile(subs, watchers, owner, Nobody, take)
  BY DEF Drop, Typed, LockTyped
<1>3. /\ subscribers' = {d \in subs : ~HungUp(d)}
      /\ op'.kind = "WRITABLE" /\ op'.left = subscribers' /\ op'.full = Nobody
  BY <1>2, Reconciled
<1>4. ViewTyped'
  <2>1. 0 \in Chunks
    BY BoundsAssumption DEF Chunks
  <2>2. screen' \in [Conns -> Chunks] /\ queue' \in [Conns -> Seq(Frames)]
    BY <1>1, <2>1 DEF ViewTyped
  <2>3. \A d \in Conns : conn'[d].snapshot \in Chunks
    BY <1>1, <2>1 DEF ViewTyped
  <2> QED BY <1>1, <2>2, <2>3 DEF ViewTyped
<1>5. WriterQuiet' /\ LockFree'
  BY <1>1, <1>3 DEF ViewTyped, WriterQuiet, LockFree
<1>6. WriterServes'
  BY <1>1, <1>2, <1>3 DEF WriterServes, HungUp
<1>7. WriterThere'
  BY <1>1, <1>2, <1>3 DEF WriterThere, Keyboard, Roles, SubscribersAttached, There, Typed, AcksTyped
<1>8. ASSUME NEW d \in Conns PROVE Fed(d)'
  <2>1. CASE d = c
    BY <1>1, <2>1 DEF Fed, Writing
  <2>2. CASE d # c
    <3>1. Alike(d)
      BY <1>1, <1>2, <1>3, <2>2 DEF Alike, ViewTyped
    <3> QED BY <1>1, <1>2, <3>1, ReconcileFeeds
  <2> QED BY <2>1, <2>2
<1> QED BY <1>4, <1>5, <1>6, <1>7, <1>8

LEMMA LetInFeeds ==
  ASSUME Typed, Keyboard, Screens, NEW c \in Conns, LetsIn(c),
         op.left = {}, op.full = Nobody,
         UNCHANGED <<chunks, exited, lagged, queue, acks, requests, view>>
  PROVE  Screens'
<1> USE NobodyIsNone DEF Screens, Viewers
<1>1. /\ UNCHANGED <<screen, role>>
      /\ conn'[c].writer = "snapshot" /\ conn'[c].snapshot = chunks /\ conn'[c].link = conn[c].link
      /\ \A d \in Conns \ {c} : conn'[d] = conn[d]
  BY DEF LetsIn, Typed, ConnTyped, view
<1> DEFINE subs == subscribers \cup {c}
           watching == IF conn[c].watch THEN watchers \cup {c} ELSE watchers
           who == IF TakesKeyboard(c) THEN c ELSE owner
<1>2. subs \in SUBSET Conns /\ BeginReconcile(subs, watching, who, Nobody, FALSE)
  BY DEF LetsIn, Typed, LockTyped
<1> HIDE DEF watching, who
<1>3. /\ subscribers' = {d \in subs : ~HungUp(d)}
      /\ op'.kind = "WRITABLE" /\ op'.left = subscribers' /\ op'.full = Nobody
  <2> HIDE DEF subs
  <2>1. PICK take \in BOOLEAN : BeginReconcile(subs, watching, who, Nobody, take)
    BY <1>2
  <2> QED BY <1>2, <2>1, Reconciled
<1>4. conn[c].writer = "none" /\ c \notin subscribers
  BY DEF LetsIn, Keyboard, Roles, SubscribersAttached, WriterStarts, There
<1>5. ViewTyped'
  BY <1>1 DEF ViewTyped
<1>6. WriterQuiet' /\ LockFree'
  BY <1>1, <1>3 DEF ViewTyped, WriterQuiet, LockFree
<1>7. WriterServes'
  BY <1>1, <1>2, <1>3 DEF WriterServes, HungUp
<1>8. WriterThere'
  BY <1>1, <1>2, <1>3 DEF WriterThere, Keyboard, Roles, SubscribersAttached, There, Typed, AcksTyped
<1>9. Fed(c)'
  <2>1. PICK x \in Chunks : x = chunks
    BY DEF ViewTyped
  <2>2. PICK v \in Bits : v = Bit(c \in role)
    BY BitIs
  <2>3. queue'[c] = <<>> /\ HeldScreen(c)' = x /\ HeldRole(c)' = v
    BY <1>1, <1>4, <2>1, <2>2 DEF WriterQuiet, HeldScreen, HeldRole
  <2>4. Leads(queue'[c], HeldScreen(c)', HeldRole(c)', x, v)
    BY <2>3, LeadsNowhere
  <2>5. c \in subscribers' => Arrives(c, x, v)'
    BY <1>3, <2>1 DEF Arrives, DueScreen
  <2> QED BY <1>1, <2>4, <2>5 DEF Fed
<1>10. ASSUME NEW d \in Conns, d # c PROVE Fed(d)'
  <2>1. Alike(d)
    BY <1>1, <1>2, <1>3, <1>10 DEF Alike
  <2> HIDE DEF subs
  <2> QED BY <1>1, <1>2, <2>1, ReconcileFeeds
<1> QED BY <1>5, <1>6, <1>7, <1>8, <1>9, <1>10

LEMMA EndPassFeeds ==
  ASSUME Typed, Keyboard, Screens, EndPass PROVE Screens'
<1> USE NobodyIsNone DEF Screens, Viewers
<1>1. /\ Repeats \/ Ends \/ \E c \in Conns : LetsIn(c)
      /\ op.kind # "none" /\ op.left = {} /\ op.full = Nobody
      /\ UNCHANGED <<chunks, exited, lagged, queue, acks, requests, view>>
  BY EndPassIs
<1>2. CASE Repeats \/ Ends
  <2>1. /\ UNCHANGED <<subscribers, conn, screen, role>> /\ op'.full = Nobody
        /\ \/ op'.kind = "WRITABLE" /\ op'.left = subscribers
           \/ op'.kind = "none" /\ op'.left = {} /\ owner' = owner
    BY <1>1, <1>2 DEF Repeats, Ends, NoOp, view, Typed, LockTyped
  <2>2. ViewTyped' /\ WriterQuiet' /\ WriterServes' /\ LockFree'
    BY <1>1, <2>1 DEF ViewTyped, WriterQuiet, WriterServes, LockFree, HungUp
  <2>3. WriterThere'
    BY <1>1, <2>1 DEF WriterThere, Keyboard, Roles, SubscribersAttached, There
  <2>4. ASSUME NEW d \in Conns PROVE Fed(d)'
    <3>1. Alike(d)
      BY <1>1, <2>1 DEF Alike
    <3>2. ASSUME NEW y, NEW w, Arrives(d, y, w), d \in subscribers' PROVE Arrives(d, y, w)'
      <4>1. y = chunks /\ DueRole(d, w)
        BY <1>1, <3>2 DEF Arrives, DueScreen
      <4> QED BY <1>1, <2>1, <3>2, <4>1 DEF Arrives, DueScreen, DueRole
    <3> QED BY <3>1, <3>2, Elsewhere
  <2> QED BY <2>2, <2>3, <2>4
<1> QED BY <1>1, <1>2, LetInFeeds

(***************************************************************************)
(* The theorems.                                                           *)
(***************************************************************************)
LEMMA ScreensNext == Typed /\ Keyboard /\ Screens /\ [Next]_vars => Screens'
<1> SUFFICES ASSUME Typed, Keyboard, Screens, [Next]_vars PROVE Screens'
  OBVIOUS
<1>1. CASE UNCHANGED vars
  <2>1. Viewers'
    BY <1>1 DEF vars, Screens, Viewers, ViewTyped, WriterQuiet, WriterServes, WriterThere, LockFree, HungUp
  <2>2. ASSUME NEW d \in Conns PROVE Fed(d)'
    <3>1. Alike(d)
      BY <1>1 DEF vars, Alike
    <3>2. \A y, w : Arrives(d, y, w) => Arrives(d, y, w)'
      BY <1>1 DEF vars, Arrives, DueScreen, DueRole
    <3> QED BY <3>1, <3>2, Elsewhere DEF Screens
  <2> QED BY <2>1, <2>2 DEF Screens
<1>2. CASE Next
  <2>1. ASSUME NEW c \in Conns, NEW watch \in BOOLEAN, NEW take \in BOOLEAN, Attach(c, watch, take)
        PROVE  Screens'
    BY <2>1, AttachFeeds
  <2> QED BY <1>2, <2>1, OfferFeeds, MarkFeeds, EndPassFeeds, PumpFeeds, HangUpFeeds, DropFeeds,
             AskFeeds, AnswerFeeds, SnapshotFeeds, TakeFeeds, SendFeeds, ResyncFeeds DEF Next
<1> QED BY <1>1, <1>2

\* No viewer ever shows a chunk on top of anything but its predecessor, however
\* the frames dropped at a full queue, the writer and the resync interleave.
THEOREM NeverTorn == Spec => []NoTornScreen
<1>1. Screens => NoTornScreen
  BY BoundsAssumption DEF Screens, Viewers, ViewTyped, NoTornScreen, Torn, Chunks
<1> QED BY <1>1, KeyboardInit, KeyboardNext, ScreensInit, ScreensNext, PTL DEF Spec

\* A viewer that has read everything sent to it, and is not marked, shows the
\* terminal as it is and knows whether it may type.
THEOREM CaughtUpShowsAll == Spec => []CaughtUpIsCurrent
<1>1. ASSUME Screens, NEW c \in Conns, CaughtUp(c)
      PROVE  /\ screen[c] = chunks
             /\ c \in role => owner = c
             /\ owner = c /\ ~exited => c \in role
  <2>1. /\ op.kind = "none" /\ op.left = {} /\ op.full # c
        /\ c \in subscribers /\ c \notin lagged
        /\ conn[c].writer = "waiting" /\ queue[c] = <<>>
    BY <1>1, NobodyIsNone DEF CaughtUp, Unlocked, Screens, Viewers, LockFree
  <2>2. PICK y, w : Leads(<<>>, screen[c], Bit(c \in role), y, w) /\ Arrives(c, y, w)
    BY <1>1, <2>1 DEF Screens, Fed, Writing, HeldScreen, HeldRole
  <2>3. screen[c] \in Chunks /\ Bit(c \in role) \in Bits
    BY <1>1, BitIs DEF Screens, Viewers, ViewTyped
  <2>4. y = screen[c] /\ w = Bit(c \in role)
    BY <2>2, <2>3, LeadsNowhere
  <2>5. y = chunks /\ DueRole(c, w)
    BY <2>1, <2>2 DEF Arrives, DueScreen
  <2> QED BY <2>4, <2>5 DEF DueRole, Bit
<1>2. Screens => CaughtUpIsCurrent
  BY <1>1 DEF CaughtUpIsCurrent
<1> QED BY <1>2, KeyboardInit, KeyboardNext, ScreensInit, ScreensNext, PTL DEF Spec

(***************************************************************************)
(* The types.                                                              *)
(***************************************************************************)
LEMMA FramesTyped ==
  ASSUME TypeOK
  PROVE  /\ \A c : FrameFor(c) \in Frame
         /\ Ack \in Frame
<1>1. chunks \in 0..MaxChunks /\ 0 \in 0..MaxChunks
  BY BoundsAssumption DEF TypeOK
<1> QED BY <1>1 DEF FrameFor, Output, Writable, Ack, Frame

\* A frame that finds room keeps the queue within its capacity.
LEMMA QueueTyped ==
  ASSUME TypeOK, NEW c \in Conns, ~Full(c), NEW f \in Frame,
         queue' = [queue EXCEPT ![c] = Append(@, f)]
  PROVE  queue' \in [Conns -> Seq(Frame)] /\ \A d \in Conns : Len(queue'[d]) <= Capacity
<1>1. queue[c] \in Seq(Frame) /\ Len(queue[c]) \in Nat /\ Len(queue[c]) < Capacity
  BY CapacityAssumption DEF TypeOK, Full
<1>2. Append(queue[c], f) \in Seq(Frame) /\ Len(Append(queue[c], f)) <= Capacity
  BY <1>1, CapacityAssumption
<1>3. queue' \in [Conns -> Seq(Frame)]
  BY <1>2 DEF TypeOK
<1>4. \A d \in Conns : queue'[d] = IF d = c THEN Append(queue[c], f) ELSE queue[d]
  BY DEF TypeOK
<1> QED BY <1>2, <1>3, <1>4 DEF TypeOK

LEMMA QueueEmptied ==
  ASSUME TypeOK, NEW c \in Conns, queue' = [queue EXCEPT ![c] = <<>>]
  PROVE  queue' \in [Conns -> Seq(Frame)] /\ \A d \in Conns : Len(queue'[d]) <= Capacity
<1>1. <<>> \in Seq(Frame) /\ Len(<<>>) <= Capacity
  BY CapacityAssumption
<1>2. queue' \in [Conns -> Seq(Frame)]
  BY <1>1 DEF TypeOK
<1>3. \A d \in Conns : queue'[d] = IF d = c THEN <<>> ELSE queue[d]
  BY DEF TypeOK
<1> QED BY <1>1, <1>2, <1>3 DEF TypeOK

\* A connection moves on.
LEMMA ConnMoves ==
  ASSUME TypeOK, NEW c \in Conns, NEW v \in Conn, conn' = [conn EXCEPT ![c] = v]
  PROVE  conn' \in [Conns -> Conn]
<1>1. conn \in [Conns -> Conn]
  BY DEF TypeOK
<1> QED BY <1>1

LEMMA ConnIs ==
  ASSUME NEW k \in Conn
  PROVE  /\ \A x \in {"open", "hungup"} : [k EXCEPT !.link = x] \in Conn
         /\ \A x \in {"snapshot", "waiting", "holding", "resync", "ended"} :
              [k EXCEPT !.writer = x] \in Conn
         /\ \A x \in BOOLEAN : [k EXCEPT !.watch = x] \in Conn
         /\ \A x \in 0..MaxChunks : [k EXCEPT !.snapshot = x] \in Conn
         /\ \A x \in Frame : [k EXCEPT !.frame = x] \in Conn
  BY DEF Conn

\* reconcile_owner, whoever is there.
LEMMA ReconciledTypes ==
  ASSUME NEW subs \in SUBSET Conns, NEW watching \in SUBSET Conns,
         NEW who \in Conns \cup {Nobody}, NEW join \in Conns \cup {Nobody},
         NEW take \in BOOLEAN, BeginReconcile(subs, watching, who, join, take)
  PROVE  /\ owner' \in Conns \cup {Nobody} /\ subscribers' \subseteq Conns
         /\ watchers' \subseteq Conns /\ op' \in Op
<1>1. /\ subscribers' \subseteq Conns /\ watchers' \subseteq Conns
      /\ owner' \in Conns \cup {Nobody}
  BY Reconciled
<1>2. op' = [kind |-> "WRITABLE", left |-> subscribers', full |-> Nobody,
             join |-> join, take |-> take]
  BY DEF BeginReconcile
<1> QED BY <1>1, <1>2 DEF Op

LEMMA TypesInit == Init => TypeOK
<1> SUFFICES ASSUME Init PROVE TypeOK
  OBVIOUS
<1>1. 0 \in 0..MaxChunks /\ 0 \in 0..MaxRequests /\ 0 \in 0..Torn /\ Len(<<>>) <= Capacity
  BY BoundsAssumption, CapacityAssumption DEF Torn
<1>2. op \in Op
  BY DEF Init, NoOp, Op
<1>3. conn \in [Conns -> Conn]
  BY <1>1 DEF Init, Conn, Frame, Ack
<1>4. queue \in [Conns -> Seq(Frame)] /\ \A c \in Conns : Len(queue[c]) <= Capacity
  BY <1>1 DEF Init
<1> QED BY <1>1, <1>2, <1>3, <1>4 DEF Init, TypeOK

LEMMA OfferTypes ==
  ASSUME TypeOK, NEW c \in Conns, Offer(c) PROVE TypeOK'
<1>1. op \in Op /\ op' \in Op
  <2>1. op' = [op EXCEPT !.left = @ \ {c}] \/ op' = [op EXCEPT !.full = c]
    BY DEF Offer
  <2> QED BY <2>1 DEF TypeOK, Op
<1>2. CASE queue' = queue
  BY <1>1, <1>2 DEF Offer, TypeOK, view
<1>3. CASE queue' # queue
  <2>1. ~Full(c) /\ queue' = [queue EXCEPT ![c] = Append(@, FrameFor(c))]
        /\ subscribers' = subscribers
    BY <1>3 DEF Offer
  <2>2. queue' \in [Conns -> Seq(Frame)] /\ \A d \in Conns : Len(queue'[d]) <= Capacity
    BY <2>1, FramesTyped, QueueTyped
  <2> QED BY <1>1, <2>1, <2>2 DEF Offer, TypeOK, view
<1> QED BY <1>2, <1>3

LEMMA TypeOKIsTyped == TypeOK => Typed
  BY DEF TypeOK, Op, Conn, Typed, LockTyped, ConnTyped, AcksTyped

LEMMA PassTypes ==
  ASSUME TypeOK, MarkLagged \/ EndPass PROVE TypeOK'
<1>1. ASSUME MarkLagged PROVE TypeOK'
  <2>1. op.full \in Conns
    BY <1>1 DEF MarkLagged, TypeOK, Op
  <2>2. op' \in Op
    BY <1>1 DEF MarkLagged, TypeOK, Op
  <2> QED BY <1>1, <2>1, <2>2 DEF MarkLagged, Marks, TypeOK, live, view
<1>2. ASSUME EndPass PROVE TypeOK'
  <2>1. /\ Repeats \/ Ends \/ \E c \in Conns : LetsIn(c)
        /\ UNCHANGED <<chunks, exited, lagged, queue, acks, requests, view>>
    BY <1>2, EndPassIs, TypeOKIsTyped
  <2>2. CASE Repeats
    <3>1. op' \in Op
      BY <2>2 DEF Repeats, TypeOK, Op
    <3>2. owner' \in Conns \cup {Nobody}
      <4>1. subscribers \in SUBSET Conns /\ owner' = NextOwner(subscribers, watchers)
        BY <2>2 DEF Repeats, TypeOK
      <4>2. NextOwner(subscribers, watchers) \in (subscribers \ watchers) \cup {Nobody}
        BY <4>1, Promoted
      <4> QED BY <4>1, <4>2
    <3> QED BY <2>1, <2>2, <3>1, <3>2 DEF Repeats, TypeOK, view
  <2>3. CASE Ends
    BY <2>1, <2>3 DEF Ends, NoOp, TypeOK, Op, view
  <2>4. ASSUME NEW c \in Conns, LetsIn(c) PROVE TypeOK'
    <3> DEFINE subs == subscribers \cup {c}
               watching == IF conn[c].watch THEN watchers \cup {c} ELSE watchers
               who == IF TakesKeyboard(c) THEN c ELSE owner
    <3>1. /\ subs \in SUBSET Conns /\ watching \in SUBSET Conns
          /\ who \in Conns \cup {Nobody}
      BY DEF TypeOK
    <3>2. /\ BeginReconcile(subs, watching, who, Nobody, FALSE)
          /\ conn' = [conn EXCEPT ![c].writer = "snapshot", ![c].snapshot = chunks]
      BY <2>4 DEF LetsIn
    <3> HIDE DEF subs, watching, who
    <3>3. conn' \in [Conns -> Conn]
      <4>1. conn[c] \in Conn /\ chunks \in 0..MaxChunks
        BY DEF TypeOK
      <4>2. [[conn[c] EXCEPT !.writer = "snapshot"] EXCEPT !.snapshot = chunks] \in Conn
        BY <4>1, ConnIs
      <4>3. conn' = [conn EXCEPT ![c] = [[conn[c] EXCEPT !.writer = "snapshot"] EXCEPT !.snapshot = chunks]]
        BY <3>2 DEF TypeOK
      <4> QED BY <4>2, <4>3, ConnMoves
    <3>4. /\ owner' \in Conns \cup {Nobody} /\ subscribers' \subseteq Conns
          /\ watchers' \subseteq Conns /\ op' \in Op
      BY <3>1, <3>2, ReconciledTypes
    <3> QED BY <2>1, <3>3, <3>4 DEF TypeOK, view
  <2> QED BY <2>1, <2>2, <2>3, <2>4
<1> QED BY <1>1, <1>2

LEMMA ProgramTypes ==
  ASSUME TypeOK, Pump \/ Exit PROVE TypeOK'
<1>1. ASSUME Pump PROVE TypeOK'
  <2>1. chunks' \in 0..MaxChunks
    BY <1>1, BoundsAssumption DEF Pump, TypeOK
  <2>2. op' \in Op
    BY <1>1 DEF Pump, NoOp, TypeOK, Op
  <2> QED BY <1>1, <2>1, <2>2 DEF Pump, TypeOK, view
<1>2. ASSUME Exit PROVE TypeOK'
  BY <1>2 DEF Exit, TypeOK, view
<1> QED BY <1>1, <1>2

LEMMA AttachTypes ==
  ASSUME TypeOK, NEW c \in Conns, NEW watch \in BOOLEAN, NEW take \in BOOLEAN,
         Attach(c, watch, take)
  PROVE  TypeOK'
<1>1. conn' \in [Conns -> Conn]
  <2>1. conn[c] \in Conn
    BY DEF TypeOK
  <2>2. [[conn[c] EXCEPT !.link = "open"] EXCEPT !.watch = watch] \in Conn
    BY <2>1, ConnIs
  <2>3. conn' = [conn EXCEPT ![c] = [[conn[c] EXCEPT !.link = "open"] EXCEPT !.watch = watch]]
    BY DEF Attach, TypeOK
  <2> QED BY <2>2, <2>3, ConnMoves
<1>2. /\ owner' \in Conns \cup {Nobody} /\ subscribers' \subseteq Conns
      /\ watchers' \subseteq Conns /\ op' \in Op
  <2>1. subscribers \in SUBSET Conns /\ watchers \in SUBSET Conns /\ owner \in Conns \cup {Nobody}
    BY DEF TypeOK
  <2>2. BeginReconcile(subscribers, watchers, owner, c, take)
    BY DEF Attach
  <2> QED BY <2>1, <2>2, ReconciledTypes
<1> QED BY <1>1, <1>2 DEF Attach, TypeOK, view

LEMMA ConnectionTypes ==
  ASSUME TypeOK, NEW c \in Conns, HangUp(c) \/ Drop(c) \/ Ask(c) PROVE TypeOK'
<1>1. ASSUME HangUp(c) PROVE TypeOK'
  <2>1. conn' \in [Conns -> Conn]
    <3>1. conn[c] \in Conn
      BY DEF TypeOK
    <3>2. [conn[c] EXCEPT !.link = "hungup"] \in Conn
      BY <3>1, ConnIs
    <3>3. conn' = [conn EXCEPT ![c] = [conn[c] EXCEPT !.link = "hungup"]]
      BY <1>1 DEF HangUp
    <3> QED BY <3>2, <3>3, ConnMoves
  <2> QED BY <1>1, <2>1 DEF HangUp, TypeOK, live, view
<1>2. ASSUME Drop(c) PROVE TypeOK'
  <2>1. conn' \in [Conns -> Conn]
    <3>1. [Gone EXCEPT !.watch = conn[c].watch] \in Conn
      <4>1. Gone \in Conn
        BY FramesTyped, BoundsAssumption DEF Gone, Conn
      <4>2. conn[c].watch \in BOOLEAN
        BY DEF TypeOK, Conn
      <4> QED BY <4>1, <4>2, ConnIs
    <3>2. conn' = [conn EXCEPT ![c] = [Gone EXCEPT !.watch = conn[c].watch]]
      BY <1>2 DEF Drop
    <3> QED BY <3>1, <3>2, ConnMoves
  <2>2. /\ owner' \in Conns \cup {Nobody} /\ subscribers' \subseteq Conns
        /\ watchers' \subseteq Conns /\ op' \in Op
    <3>1. subscribers \ {c} \in SUBSET Conns /\ watchers \in SUBSET Conns
      BY DEF TypeOK
    <3>2. PICK subs \in SUBSET Conns : BeginReconcile(subs, watchers, owner, Nobody, FALSE)
      BY <1>2, <3>1 DEF Drop
    <3> QED BY <3>1, <3>2, ReconciledTypes DEF TypeOK
  <2>3. queue' \in [Conns -> Seq(Frame)] /\ \A d \in Conns : Len(queue'[d]) <= Capacity
    BY <1>2, QueueEmptied DEF Drop
  <2>4. screen' \in [Conns -> 0..Torn]
    BY <1>2, BoundsAssumption DEF Drop, TypeOK, Torn
  <2> QED BY <1>2, <2>1, <2>2, <2>3, <2>4 DEF Drop, TypeOK
<1>3. ASSUME Ask(c) PROVE TypeOK'
  <2>1. requests' \in 0..MaxRequests
    <3>1. requests \in 0..MaxRequests /\ requests < MaxRequests /\ requests' = requests + 1
      BY <1>3 DEF Ask, TypeOK
    <3> QED BY <3>1, BoundsAssumption
  <2>2. acks' \subseteq [to : Conns, full : BOOLEAN]
    <3>1. [to |-> c, full |-> FALSE] \in [to : Conns, full : BOOLEAN]
      OBVIOUS
    <3>2. acks \subseteq [to : Conns, full : BOOLEAN] /\ acks' = acks \cup {[to |-> c, full |-> FALSE]}
      BY <1>3 DEF Ask, TypeOK
    <3> QED BY <3>1, <3>2
  <2> QED BY <1>3, <2>1, <2>2 DEF Ask, TypeOK, live, view
<1> QED BY <1>1, <1>2, <1>3

LEMMA AnswerTypes ==
  ASSUME TypeOK, NEW a \in acks, Answer(a) PROVE TypeOK'
<1>1. a \in [to : Conns, full : BOOLEAN] /\ [a EXCEPT !.full = TRUE] \in [to : Conns, full : BOOLEAN]
  BY DEF TypeOK
<1>2. acks' \subseteq [to : Conns, full : BOOLEAN] /\ lagged' \subseteq Conns
  BY <1>1 DEF Answer, TypeOK
<1>3. queue' \in [Conns -> Seq(Frame)] /\ \A d \in Conns : Len(queue'[d]) <= Capacity
  <2>1. CASE queue' = queue
    BY <2>1 DEF TypeOK
  <2>2. CASE queue' # queue
    BY <1>1, <2>2, FramesTyped, QueueTyped DEF Answer
  <2> QED BY <2>1, <2>2
<1> QED BY <1>2, <1>3 DEF Answer, TypeOK, live, view

LEMMA WriterTypes ==
  ASSUME TypeOK, NEW c \in Conns, SendSnapshot(c) \/ Take(c) \/ Send(c) \/ Resync(c)
  PROVE  TypeOK'
<1>1. 0 \in 0..MaxChunks /\ 0..MaxChunks \subseteq 0..Torn /\ Torn \in 0..Torn
  BY BoundsAssumption DEF Torn
<1>2. ASSUME SendSnapshot(c) PROVE TypeOK'
  <2>1. conn' \in [Conns -> Conn]
    <3>1. conn[c] \in Conn
      BY DEF TypeOK
    <3>2. PICK w \in {"ended", "waiting"} :
            conn' = [conn EXCEPT ![c].writer = w, ![c].snapshot = 0]
      BY <1>2 DEF SendSnapshot
    <3>3. [[conn[c] EXCEPT !.writer = w] EXCEPT !.snapshot = 0] \in Conn
      BY <1>1, <3>1, ConnIs
    <3>4. conn' = [conn EXCEPT ![c] = [[conn[c] EXCEPT !.writer = w] EXCEPT !.snapshot = 0]]
      BY <3>2 DEF TypeOK
    <3> QED BY <3>3, <3>4, ConnMoves
  <2>2. screen' \in [Conns -> 0..Torn]
    BY <1>1, <1>2 DEF SendSnapshot, TypeOK, Conn
  <2> QED BY <1>2, <2>1, <2>2 DEF SendSnapshot, TypeOK, live
<1>3. ASSUME Take(c) PROVE TypeOK'
  <2>1. queue[c] \in Seq(Frame) /\ queue[c] # <<>> /\ Len(queue[c]) <= Capacity
    BY <1>3 DEF Take, TypeOK
  <2>2. Head(queue[c]) \in Frame /\ Tail(queue[c]) \in Seq(Frame) /\ Len(Tail(queue[c])) <= Capacity
    BY <2>1, CapacityAssumption
  <2>3. conn' \in [Conns -> Conn]
    <3>1. conn[c] \in Conn
      BY DEF TypeOK
    <3>2. [[conn[c] EXCEPT !.writer = "holding"] EXCEPT !.frame = Head(queue[c])] \in Conn
      BY <2>2, <3>1, ConnIs
    <3>3. conn' = [conn EXCEPT ![c] = [[conn[c] EXCEPT !.writer = "holding"]
                                         EXCEPT !.frame = Head(queue[c])]]
      BY <1>3 DEF Take, TypeOK
    <3> QED BY <3>2, <3>3, ConnMoves
  <2>4. queue' \in [Conns -> Seq(Frame)] /\ \A d \in Conns : Len(queue'[d]) <= Capacity
    BY <1>3, <2>2 DEF Take, TypeOK
  <2> QED BY <1>3, <2>3, <2>4 DEF Take, TypeOK, live, view
<1>4. ASSUME Send(c) PROVE TypeOK'
  <2>1. conn[c].frame.chunk \in 0..MaxChunks
    BY DEF TypeOK, Conn, Frame
  <2>2. conn' \in [Conns -> Conn]
    <3>1. conn[c] \in Conn
      BY DEF TypeOK
    <3>2. PICK w \in {"ended", "waiting", "resync"} :
            conn' = [conn EXCEPT ![c].writer = w, ![c].frame = Ack]
      BY <1>4 DEF Send
    <3>3. [[conn[c] EXCEPT !.writer = w] EXCEPT !.frame = Ack] \in Conn
      BY <3>1, ConnIs, FramesTyped
    <3>4. conn' = [conn EXCEPT ![c] = [[conn[c] EXCEPT !.writer = w] EXCEPT !.frame = Ack]]
      BY <3>2 DEF TypeOK
    <3> QED BY <3>3, <3>4, ConnMoves
  <2>3. screen' \in [Conns -> 0..Torn]
    <3>1. Shown(conn[c].frame, screen[c]) \in 0..Torn
      BY <1>1, <2>1 DEF Shown, TypeOK
    <3> QED BY <1>4, <3>1 DEF Send, view, TypeOK
  <2>4. role' \subseteq Conns
    BY <1>4 DEF Send, view, TypeOK
  <2> QED BY <1>4, <2>2, <2>3, <2>4 DEF Send, TypeOK, live
<1>5. ASSUME Resync(c) PROVE TypeOK'
  <2>1. conn' \in [Conns -> Conn]
    <3>1. conn[c] \in Conn
      BY DEF TypeOK
    <3>2. PICK w \in {"ended", "waiting"} : conn' = [conn EXCEPT ![c] = [conn[c] EXCEPT !.writer = w]]
      BY <1>5 DEF Resync
    <3>3. [conn[c] EXCEPT !.writer = w] \in Conn
      BY <3>1, ConnIs
    <3> QED BY <3>2, <3>3, ConnMoves
  <2>2. queue' \in [Conns -> Seq(Frame)] /\ \A d \in Conns : Len(queue'[d]) <= Capacity
    BY <1>5, QueueEmptied DEF Resync, Backlog
  <2>3. screen' \in [Conns -> 0..Torn] /\ role' \subseteq Conns
    BY <1>1, <1>5 DEF Resync, view, TypeOK
  <2> QED BY <1>5, <2>1, <2>2, <2>3 DEF Resync, Unmarked, TypeOK, live
<1> QED BY <1>2, <1>3, <1>4, <1>5

\* Every variable keeps its type: a queue its capacity, a writer the frame it
\* holds, and the lock its broadcast, whoever hangs up meanwhile.
THEOREM TypeCorrect == Spec => []TypeOK
<1>1. ASSUME TypeOK, [Next]_vars PROVE TypeOK'
  <2>1. CASE UNCHANGED vars
    <3>1. /\ UNCHANGED <<chunks, exited, owner, subscribers, watchers, lagged, op>>
          /\ UNCHANGED <<queue, conn, acks, requests, screen, role>>
      BY <2>1 DEF vars
    <3>2. queue' \in [Conns -> Seq(Frame)] /\ \A c \in Conns : Len(queue'[c]) <= Capacity
      BY <1>1, <3>1 DEF TypeOK
    <3> QED BY <1>1, <3>1, <3>2 DEF TypeOK
  <2>2. CASE Next
    <3>1. ASSUME NEW c \in Conns, NEW watch \in BOOLEAN, NEW take \in BOOLEAN, Attach(c, watch, take)
          PROVE  TypeOK'
      BY <1>1, <3>1, AttachTypes
    <3> QED BY <1>1, <2>2, <3>1, OfferTypes, PassTypes, ProgramTypes, ConnectionTypes,
               AnswerTypes, WriterTypes DEF Next
  <2> QED BY <1>1, <2>1, <2>2
<1> QED BY <1>1, TypesInit, PTL DEF Spec
=============================================================================
