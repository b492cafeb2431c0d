--------------------------- MODULE DeadlinesProofs ---------------------------
(***************************************************************************)
(* Deadlines for any conversations, to-dos, ages and bounds: every variable *)
(* keeps its type, and no deadline is slept through.                        *)
(***************************************************************************)
EXTENDS Deadlines, WellFoundedInduction, TLAPS

(***************************************************************************)
(* What the operators compute.                                             *)
(***************************************************************************)
LEMMA LaterType == ASSUME NEW m \in Nat, NEW n \in Nat PROVE Later(m, n) \in Nat
  BY DEF Later

\* Every set of seconds has a first one.
LEMMA FirstExists ==
  ASSUME NEW S \in SUBSET Nat, S # {}
  PROVE  \E u \in S : \A v \in S : u <= v
<1> DEFINE R == {ss \in Nat \X Nat : ss[1] < ss[2]}
<1>1. R = OpToRel(<, Nat)
  BY DEF OpToRel
<1>2. IsWellFoundedOn(R, Nat)
  BY <1>1, NatLessThanWellFounded
<1>3. ASSUME NEW x \in Nat, NEW y \in Nat, <<y, x>> \notin R PROVE x <= y
  <2>1. ~ (y < x)
    BY <1>3
  <2> QED BY <2>1
<1> HIDE DEF R
<1>4. PICK x \in S : \A y \in S : ~ (<<y, x>> \in R)
  BY <1>2, WFMin
<1>5. x \in Nat /\ \A y \in S : y \in Nat
  OBVIOUS
<1>6. \A y \in S : x <= y
  BY <1>3, <1>4, <1>5
<1> QED BY <1>6

LEMMA TimesType ==
  ASSUME NEW o \in [Items -> Outcome], NEW last \in [Sessions -> Nat]
  PROVE  Times(o, last) \subseteq Nat
<1>1. Deferrals(o) \subseteq Nat
  BY DEF Deferrals, Outcome
<1>2. \A s \in Sessions : {last[s] + a : a \in Ages} \subseteq Nat
  <2> SUFFICES ASSUME NEW s \in Sessions, NEW a \in Ages PROVE last[s] + a \in Nat
    OBVIOUS
  <2> QED BY AgesAssumption
<1>3. Aging(o, last) \subseteq Nat
  BY <1>2 DEF Aging
<1> QED BY <1>1, <1>3 DEF Times

\* The next deadline is the first second after t at which something changes,
\* and 0 when there is none: it is never late for any of them.
LEMMA NextDeadlineIsFirst ==
  ASSUME NEW o \in [Items -> Outcome], NEW last \in [Sessions -> Nat], NEW t \in Nat
  PROVE  /\ NextDeadline(o, last, t) \in Nat
         /\ \A u \in Times(o, last) :
              u > t => NextDeadline(o, last, t) > t /\ NextDeadline(o, last, t) <= u
<1> DEFINE after == {u \in Times(o, last) : u > t}
<1>1. after \subseteq Nat
  BY TimesType
<1>2. CASE after = {}
  BY <1>2 DEF NextDeadline
<1>3. CASE after # {}
  <2>1. \E u \in after : \A v \in after : u <= v
    BY <1>1, <1>3, FirstExists
  <2> DEFINE first == CHOOSE u \in after : \A v \in after : u <= v
  <2>2. first \in after /\ \A v \in after : first <= v
    BY <2>1
  <2>3. NextDeadline(o, last, t) = first
    BY <1>3 DEF NextDeadline
  <2> HIDE DEF first
  <2> QED BY <1>1, <2>2, <2>3
<1> QED BY <1>2, <1>3

\* Expiring leaves nothing deferred that is due, and keeps the types.
LEMMA ExpiredLeavesNothingDue ==
  ASSUME TypeOK, Expired
  PROVE  /\ outcome' \in [Items -> Outcome] /\ since' \in [Sessions -> Nat]
         /\ \A i \in Items : ~(outcome'[i].kind = "Deferred" /\ outcome'[i].until <= now)
<1>1. outcome' \in [Items -> Outcome]
  <2>1. Open \in Outcome
    BY DEF Outcome, Open
  <2> QED BY <2>1 DEF TypeOK, Expired
<1>2. since' \in [Sessions -> Nat]
  <2> SUFFICES ASSUME NEW s \in Sessions
               PROVE  (IF s \in DueAt(now) THEN Later(since[s], outcome[s].until)
                                           ELSE since[s]) \in Nat
    BY DEF Expired
  <2>1. since[s] \in Nat
    BY DEF TypeOK
  <2>2. s \in DueAt(now) => outcome[s].until \in Nat
    BY DEF TypeOK, DueAt, Outcome
  <2> QED BY <2>1, <2>2, LaterType
<1>3. \A i \in Items : ~(outcome'[i].kind = "Deferred" /\ outcome'[i].until <= now)
  BY DEF Expired, DueAt, Open
<1> QED BY <1>1, <1>2, <1>3

(***************************************************************************)
(* The invariant: types, and the deadline the thread waits for.            *)
(***************************************************************************)
THEOREM TypeCorrect == Spec => []TypeOK
<1>1. Init => TypeOK
  <2> SUFFICES ASSUME Init PROVE TypeOK
    OBVIOUS
  <2>1. Open \in Outcome
    BY DEF Outcome, Open
  <2>2. outcome \in [Items -> Outcome] /\ since \in [Sessions -> Nat]
    BY <2>1 DEF Init
  <2>3. edits \in 0..MaxEdits /\ faults \in 0..MaxFaults
    BY BoundsAssumption DEF Init
  <2> QED BY <2>2, <2>3 DEF Init, TypeOK
<1>2. TypeOK /\ [Next]_vars => TypeOK'
  <2> SUFFICES ASSUME TypeOK, [Next]_vars PROVE TypeOK'
    OBVIOUS
  <2> USE DEF TypeOK
  <2>1. CASE Tick
    BY <2>1 DEF Tick, workspace
  <2>2. CASE Sleep
    BY <2>2 DEF Sleep, workspace, thread
  <2>3. CASE Look
    <3>1. outcome' \in [Items -> Outcome] /\ since' \in [Sessions -> Nat]
      BY <2>3, ExpiredLeavesNothingDue DEF Look
    <3>2. armed' \in Nat
      BY <2>3, <3>1, NextDeadlineIsFirst DEF Look
    <3>3. left' \in Nat
      BY <2>3, <3>2 DEF Look, Remaining
    <3> QED BY <2>3, <3>1, <3>2, <3>3 DEF Look, Commit
  <2>4. CASE Woken
    BY <2>4 DEF Woken, workspace
  <2>5. CASE TimedOut
    BY <2>5 DEF TimedOut, workspace
  <2>6. CASE Expire
    <3>1. outcome' \in [Items -> Outcome] /\ since' \in [Sessions -> Nat]
      BY <2>6, ExpiredLeavesNothingDue DEF Expire
    <3> QED BY <2>6, <3>1 DEF Expire, Commit
  <2>7. CASE Fail
    BY <2>7, BoundsAssumption DEF Fail, workspace
  <2>8. ASSUME NEW i \in Items, Decide(i) PROVE TypeOK'
    <3>1. PICK o \in {Open, Closed} \cup {Deferred(u) : u \in 1..MaxTime} : Edit(i, o)
      BY <2>8 DEF Decide
    <3>2. o \in Outcome
      BY BoundsAssumption DEF Outcome, Open, Closed, Deferred
    <3> QED BY <3>1, <3>2, BoundsAssumption DEF Edit, Commit, thread
  <2>9. ASSUME NEW s \in Sessions, Turn(s) PROVE TypeOK'
    <3>1. s \in Items /\ Open \in Outcome
      BY DEF Items, Outcome, Open
    <3> QED BY <2>9, <3>1, BoundsAssumption DEF Turn, Commit, thread
  <2>10. CASE UNCHANGED vars
    BY <2>10 DEF vars, workspace, thread
  <2> QED BY <2>1, <2>2, <2>3, <2>4, <2>5, <2>6, <2>7, <2>8, <2>9, <2>10 DEF Next, Thread
<1> QED BY <1>1, <1>2, PTL DEF Spec

\* start_deadlines: whatever is committed while the thread looks, waits or
\* wakes up, it never waits past a deadline.
THEOREM NeverSleptThrough == Spec => []NoDeadlineSlept
<1>1. Init => NoDeadlineSlept
  BY DEF Init, NoDeadlineSlept
<1>2. TypeOK /\ NoDeadlineSlept /\ [Next]_vars => NoDeadlineSlept'
  <2> SUFFICES ASSUME TypeOK, NoDeadlineSlept, [Next]_vars PROVE NoDeadlineSlept'
    OBVIOUS
  <2>1. CASE Look
    <3>1. \A i \in Items : ~(outcome'[i].kind = "Deferred" /\ outcome'[i].until <= now)
      BY <2>1, ExpiredLeavesNothingDue DEF Look
    <3>2. looked' = now /\ armed' = NextDeadline(outcome', since', now)
      BY <2>1 DEF Look
    <3>3. DueAt(looked)' = {}
      BY <3>1, <3>2 DEF DueAt
    <3> QED BY <3>2, <3>3 DEF NoDeadlineSlept
  <2>2. CASE pc' # "wait" \/ wake'
    BY <2>2 DEF NoDeadlineSlept
  <2>3. CASE UNCHANGED <<outcome, since, looked, armed, pc, wake>>
    BY <2>3 DEF NoDeadlineSlept, DueAt
  <2>4. ASSUME NEW i \in Items, Decide(i) PROVE wake'
    BY <2>4 DEF Decide, Edit, Commit
  <2>5. ASSUME NEW s \in Sessions, Turn(s) PROVE wake'
    BY <2>5 DEF Turn, Commit
  <2>6. Tick \/ Sleep \/ UNCHANGED vars => UNCHANGED <<outcome, since, looked, armed, pc, wake>>
    BY DEF Tick, Sleep, vars, workspace, thread
  <2>7. Woken \/ TimedOut \/ Expire \/ Fail => pc' # "wait"
    BY DEF Woken, TimedOut, Expire, Fail
  <2> QED BY <2>1, <2>2, <2>3, <2>4, <2>5, <2>6, <2>7 DEF Next, Thread
<1> QED BY <1>1, <1>2, TypeCorrect, PTL DEF Spec

\* What NoDeadlineSlept is for: while the thread waits, an age that is reached
\* without a revision either runs its timer, which will announce it, or was
\* passed over by a look at that second or later.
SilentIsTimed ==
  \A s \in Sessions : \A u \in Nat :
    pc = "wait" /\ ~wake /\ Silent(s, u) /\ looked < u => armed > looked /\ armed <= u

THEOREM SilentWillBeTimed == Spec => []SilentIsTimed
<1>1. TypeOK /\ NoDeadlineSlept => SilentIsTimed
  <2> SUFFICES ASSUME TypeOK, NoDeadlineSlept, NEW s \in Sessions, NEW u \in Nat,
                      pc = "wait", ~wake, Silent(s, u), looked < u
               PROVE  armed > looked /\ armed <= u
    BY DEF SilentIsTimed
  <2>1. armed = NextDeadline(outcome, since, looked)
    BY DEF NoDeadlineSlept
  <2>2. u \in Times(outcome, since)
    BY DEF Silent, Times
  <2> QED BY <2>1, <2>2, NextDeadlineIsFirst DEF TypeOK
<1> QED BY <1>1, TypeCorrect, NeverSleptThrough, PTL
=============================================================================
