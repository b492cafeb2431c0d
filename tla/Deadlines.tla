------------------------------ MODULE Deadlines ------------------------------
(***************************************************************************)
(* What becomes due by itself: an outcome the person deferred, and the age *)
(* at which a conversation counts as stopped or stale.  One thread         *)
(* (start_deadlines, host/mod.rs) waits once, until the nearest deadline,  *)
(* and every commit wakes it through a channel of one.                     *)
(*                                                                         *)
(* `now` is the wall clock in seconds; the wait itself is measured by a    *)
(* clock that stands still while the machine sleeps.                       *)
(***************************************************************************)
EXTENDS Naturals, FiniteSetsExt

CONSTANTS Sessions,     \* conversations
          Tasks,        \* to-dos: they may be deferred, they do not age
          Ages,         \* seconds after which an open conversation changes state
          MaxTime,      \* bound: the last second
          MaxEdits,     \* bound: commits of others
          MaxFaults     \* bound: commits of the thread that fail

ASSUME ItemsAssumption == IsFiniteSet(Sessions) /\ IsFiniteSet(Tasks)
                          /\ Sessions \cap Tasks = {}
ASSUME AgesAssumption == Ages \subseteq Nat \ {0} /\ IsFiniteSet(Ages)
ASSUME BoundsAssumption == MaxTime \in Nat /\ MaxEdits \in Nat /\ MaxFaults \in Nat

Items == Sessions \cup Tasks

VARIABLES
  now,      \* the wall clock
  outcome,  \* what the person decided about each item
  since,    \* the last sign of each conversation: its turn, or its review
  revised,  \* when the workspace got its last revision
  wake,     \* a message in the channel
  pc,       \* the thread
  looked,   \* the second it computed its deadline in
  armed,    \* the deadline it waits for, 0 for none
  left,     \* seconds its timer still has to run
  edits, faults

workspace == <<outcome, since>>
thread == <<pc, looked, armed, left>>
vars == <<now, workspace, revised, wake, thread, edits, faults>>

Open == [kind |-> "Open", until |-> 0]
Closed == [kind |-> "Closed", until |-> 0]      \* Completed and Abandoned
Deferred(u) == [kind |-> "Deferred", until |-> u]
Outcome == [kind : {"Open", "Closed", "Deferred"}, until : Nat]

TypeOK ==
  /\ now \in Nat /\ revised \in Nat /\ looked \in Nat /\ armed \in Nat /\ left \in Nat
  /\ outcome \in [Items -> Outcome]
  /\ since \in [Sessions -> Nat]
  /\ wake \in BOOLEAN
  /\ pc \in {"look", "wait", "expire", "ended"}
  /\ edits \in 0..MaxEdits /\ faults \in 0..MaxFaults

Init ==
  /\ now = 0 /\ revised = 0 /\ wake = FALSE
  /\ outcome = [i \in Items |-> Open]
  /\ since = [s \in Sessions |-> 0]
  /\ pc = "look" /\ looked = 0 /\ armed = 0 /\ left = 0
  /\ edits = 0 /\ faults = 0

-----------------------------------------------------------------------------
(* The workspace.                                                           *)

DueAt(u) == {i \in Items : outcome[i].kind = "Deferred" /\ outcome[i].until <= u}

Later(m, n) == IF m < n THEN n ELSE m

\* expire_outcomes: what is due is open again; a conversation ages from the
\* moment its deferral ended.
Expired ==
  /\ outcome' = [i \in Items |-> IF i \in DueAt(now) THEN Open ELSE outcome[i]]
  /\ since' = [s \in Sessions |-> IF s \in DueAt(now)
                                  THEN Later(since[s], outcome[s].until)
                                  ELSE since[s]]

\* Ageing is for the conversations that still need the person.
Aging(o, last) ==
  UNION {{last[s] + a : a \in Ages} : s \in {s \in Sessions : o[s] = Open}}

Deferrals(o) == {o[i].until : i \in {i \in Items : o[i].kind = "Deferred"}}

\* Every second at which the workspace o, last changes by itself.
Times(o, last) == Deferrals(o) \cup Aging(o, last)

\* next_deadline: the first of them after t, 0 for none.
NextDeadline(o, last, t) ==
  LET after == {u \in Times(o, last) : u > t}
  IN  IF after = {} THEN 0 ELSE CHOOSE u \in after : \A v \in after : u <= v

\* Mutant: a commit does not wake the thread.
Commit_Silent == revised' = now /\ UNCHANGED wake
\* A commit: a revision for every client, and a try_send on the channel.
Commit == revised' = now /\ wake' = TRUE

-----------------------------------------------------------------------------
(* The world.                                                               *)

\* Time passes while the machine is awake; at the bound only the timer runs.
Tick ==
  /\ now < MaxTime \/ left > 0
  /\ now' = IF now < MaxTime THEN now + 1 ELSE now
  /\ left' = IF left > 0 THEN left - 1 ELSE 0
  /\ UNCHANGED <<workspace, revised, wake, pc, looked, armed, edits, faults>>

\* A second the machine sleeps through.
Sleep ==
  /\ now < MaxTime
  /\ now' = now + 1
  /\ UNCHANGED <<workspace, revised, wake, thread, edits, faults>>

Edit(i, o) ==
  /\ edits < MaxEdits /\ edits' = edits + 1
  /\ outcome' = [outcome EXCEPT ![i] = o]
  /\ Commit
  /\ UNCHANGED <<now, since, thread, faults>>

\* SetOutcome and SetTaskOutcome; nothing obliges a deferral to end later.
Decide(i) == \E o \in {Open, Closed} \cup {Deferred(u) : u \in 1..MaxTime} : Edit(i, o)

\* A new turn reopens its conversation.
Turn(s) ==
  /\ edits < MaxEdits /\ edits' = edits + 1
  /\ outcome' = [outcome EXCEPT ![s] = Open]
  /\ since' = [since EXCEPT ![s] = now]
  /\ Commit
  /\ UNCHANGED <<now, thread, faults>>

-----------------------------------------------------------------------------
(* The thread.                                                              *)

\* Mutant: the subtraction is not saturating.
Remaining_Wrapping(at) == at - now
\* at.saturating_sub(now).
Remaining(at) == IF at > now THEN at - now ELSE 0

\* Under the lock: expire, and find the next deadline.
Look ==
  /\ pc = "look"
  /\ Expired
  /\ IF DueAt(now) # {} THEN Commit ELSE UNCHANGED <<revised, wake>>
  /\ looked' = now
  /\ armed' = NextDeadline(outcome', since', now)
  /\ left' = Remaining(armed')
  /\ pc' = "wait"
  /\ UNCHANGED <<now, edits, faults>>

Woken ==
  /\ pc = "wait" /\ wake
  /\ wake' = FALSE
  /\ pc' = "look"
  /\ UNCHANGED <<now, workspace, revised, looked, armed, left, edits, faults>>

\* recv_timeout has nothing to take when its time is over.
TimedOut ==
  /\ pc = "wait" /\ ~wake
  /\ armed # 0 /\ left = 0
  /\ pc' = "expire"
  /\ UNCHANGED <<now, workspace, revised, wake, looked, armed, left, edits, faults>>

\* Mutant: nothing is committed when no outcome has changed.
Expire_IfChanged ==
  /\ pc = "expire"
  /\ Expired
  /\ IF DueAt(now) # {} THEN Commit ELSE UNCHANGED <<revised, wake>>
  /\ pc' = "look"
  /\ UNCHANGED <<now, looked, armed, left, edits, faults>>
\* Always a commit: an age is announced by the revision alone.
Expire ==
  /\ pc = "expire"
  /\ Expired
  /\ Commit
  /\ pc' = "look"
  /\ UNCHANGED <<now, looked, armed, left, edits, faults>>

\* A commit of the thread fails: it ends, and nobody starts another.
Fail ==
  /\ \/ pc = "expire"
     \/ pc = "look" /\ DueAt(now) # {}
  /\ faults < MaxFaults /\ faults' = faults + 1
  /\ pc' = "ended"
  /\ UNCHANGED <<now, workspace, revised, wake, looked, armed, left, edits>>

Thread == Look \/ Woken \/ TimedOut \/ Expire

Next ==
  \/ Tick \/ Sleep \/ Thread \/ Fail
  \/ \E i \in Items : Decide(i)
  \/ \E s \in Sessions : Turn(s)

\* The thread is scheduled, and the machine is not asleep for ever.
Fairness == WF_vars(Thread) /\ WF_vars(Tick)

Spec == Init /\ [][Next]_vars /\ Fairness

-----------------------------------------------------------------------------
(* Properties.                                                              *)

\* No deadline is slept through: a thread that waits with nothing in the
\* channel waits for the first deadline after its last look, and has left none
\* before it, whoever has changed the workspace since (start_deadlines, commit).
NoDeadlineSlept ==
  pc = "wait" /\ ~wake =>
    armed = NextDeadline(outcome, since, looked) /\ DueAt(looked) = {}

\* A deferral that is due ends, unless the thread has ended.
DeferralEnds ==
  \A i \in Items :
    i \in DueAt(now) ~> (outcome[i].kind # "Deferred" \/ i \notin DueAt(now) \/ pc = "ended")

\* The timer's commit is the only thing that tells clients and hooks of an age:
\* while the thread waits, one that is reached is announced by a revision.  (A
\* deadline that passes while the thread is on its way to look again is passed
\* over by next_deadline, and stays silent until the next commit.)
Silent(s, u) == outcome[s] = Open /\ u \in Aging(outcome, since) /\ revised < u /\ u <= now
AgeIsAnnounced ==
  \A s \in Sessions : \A u \in 1..MaxTime :
    (Silent(s, u) /\ pc = "wait" /\ ~wake /\ looked < u) ~> (~Silent(s, u) \/ pc = "ended")
=============================================================================
