---------------------------- MODULE HandoffProofs ----------------------------
(***************************************************************************)
(* The safety properties of Handoff, for any number of terminals and any   *)
(* amount of output, from one inductive invariant.                         *)
(***************************************************************************)
EXTENDS Handoff, TLAPS

\* Where a terminal's output is: with the old host until it is adopted, then on
\* the new one's screen, but for what the old reader has read and not fed.
Balance ==
  \A t \in Terminals :
    /\ t \in adopted => Shown("new", t) + reader["old"][t] = printed[t]
    /\ t \notin adopted => /\ Shown("old", t) = printed[t]
                           /\ reader["new"][t] = 0 /\ screen["new"][t] = 0

\* While it hands over, and after, the old host feeds no screen it has sent, and
\* the list stays that of the terminals it has not seen exit.
Frozen ==
  old # "serving" =>
    \A t \in Terminals :
      /\ t \in Listed <=> t \notin exited
      /\ t \in Listed => snapshot[t] = screen["old"][t]

\* Only what was handed over is adopted, and not before the old host is gone.
AdoptedListed == \A t \in adopted : t \in Listed /\ old = "exited"

\* The confirmation is in the socket only while both hosts stand by it.
Progress ==
  /\ ack => old = "handing" /\ new = "waits"
  /\ old = "exited" => new \in {"waits", "adopts", "blocked", "serves", "failed"}

\* Every PTY has a holder: the old host until it leaves, the new one from the
\* moment it has received the descriptors.  When both are gone nobody lives.
Held ==
  /\ old # "exited" => \A t \in Terminals : "old" \in fds[t]
  /\ (old = "handing" /\ new \in {"holds", "waits"}) \/ (old = "exited" /\ new # "failed") =>
       \A t \in Terminals : t \in Listed => "new" \in fds[t]
  /\ old = "exited" => \A t \in Terminals : "old" \notin fds[t]
  /\ \A t \in Terminals : "wire" \in fds[t] => new = "asked" /\ old = "handing" /\ t \in Listed
  /\ old = "exited" /\ new = "failed" => alive = {}
  /\ \A t \in exited : t \notin alive

\* The inductive invariant.
IInv ==
  /\ TypeOK /\ OneHost /\ Balance /\ Frozen /\ AdoptedListed /\ Progress /\ Held
  /\ UpdateInterruptsNobody

USE MaxChunksAssumption

LEMMA InitIInv == ASSUME Init PROVE IInv
<1>1. Hosts = {"old", "new"}
  BY DEF Hosts
<1>2. TypeOK
  <2>1. 0 \in 0..MaxChunks /\ Unsent \in 0..Unsent
    BY DEF Unsent
  <2>2. printed \in [Terminals -> 0..MaxChunks] /\ unread \in [Terminals -> 0..MaxChunks]
    BY <2>1 DEF Init
  <2>3. snapshot \in [Terminals -> 0..Unsent]
    BY <2>1 DEF Init
  <2>4. /\ reader \in [Hosts -> [Terminals -> 0..MaxChunks]]
        /\ screen \in [Hosts -> [Terminals -> 0..MaxChunks]]
    BY <2>1 DEF Init
  <2>5. fds \in [Terminals -> SUBSET {"old", "wire", "new"}]
    BY DEF Init
  <2>6. state \in [Terminals -> {"Running", "Exited", "Interrupted"}]
    BY DEF Init
  <2> QED BY <2>2, <2>3, <2>4, <2>5, <2>6 DEF Init, TypeOK
<1>3. OneHost /\ Progress /\ AdoptedListed /\ UpdateInterruptsNobody /\ Frozen
  BY DEF Init, OneHost, Progress, AdoptedListed, UpdateInterruptsNobody, Frozen
<1>4. Held
  BY DEF Init, Held
<1>5. Balance
  BY <1>1 DEF Init, Balance, Shown
<1> QED BY <1>2, <1>3, <1>4, <1>5 DEF IInv

-----------------------------------------------------------------------------
(* Programs and terminal threads.                                           *)

LEMMA PrintsIInv == ASSUME IInv, NEW t \in Terminals, Prints(t) PROVE IInv'
<1>1. /\ printed' = [printed EXCEPT ![t] = @ + 1] /\ unread' = [unread EXCEPT ![t] = @ + 1]
      /\ printed[t] < MaxChunks
      /\ UNCHANGED <<alive, old, new, ack, snapshot, fds, runtime, adopted, state, reader,
                     screen, exited, watched>>
  BY DEF Prints, hosts
<1>2. printed[t] \in 0..MaxChunks /\ unread[t] \in 0..MaxChunks /\ unread[t] <= printed[t]
  BY DEF IInv, TypeOK, Balance, Shown, Hosts
<1>3. TypeOK'
  BY <1>1, <1>2 DEF IInv, TypeOK
<1>4. Balance'
  <2> SUFFICES ASSUME NEW u \in Terminals
               PROVE  /\ u \in adopted => /\ screen["new"][u] + reader["new"][u] + unread'[u]
                                              + reader["old"][u] = printed'[u]
                      /\ u \notin adopted =>
                           /\ screen["old"][u] + reader["old"][u] + unread'[u] = printed'[u]
                           /\ reader["new"][u] = 0 /\ screen["new"][u] = 0
    BY <1>1 DEF Balance, Shown
  <2>1. /\ printed'[u] = printed[u] + (IF u = t THEN 1 ELSE 0)
        /\ unread'[u] = unread[u] + (IF u = t THEN 1 ELSE 0)
    BY <1>1 DEF IInv, TypeOK
  <2> QED BY <2>1 DEF IInv, TypeOK, Balance, Shown, Hosts
<1> QED BY <1>1, <1>3, <1>4 DEF IInv, OneHost, Frozen, AdoptedListed, Progress, Held,
        UpdateInterruptsNobody, Listed

LEMMA DieIInv == ASSUME IInv, NEW t \in Terminals, Die(t) PROVE IInv'
BY DEF Die, hosts, IInv, TypeOK, OneHost, Balance, Frozen, AdoptedListed, Progress, Held,
   UpdateInterruptsNobody, Listed, Shown

LEMMA ReadIInv == ASSUME IInv, NEW h \in Hosts, NEW t \in Terminals, Read(h, t) PROVE IInv'
<1>1. /\ reader' = [reader EXCEPT ![h][t] = unread[t]] /\ unread' = [unread EXCEPT ![t] = 0]
      /\ reader[h][t] = 0 /\ Reads(h, t)
      /\ UNCHANGED <<alive, printed, old, new, ack, snapshot, fds, runtime, adopted, state,
                     screen, exited, watched>>
  BY DEF Read, hosts, world
<1>2. TypeOK'
  BY <1>1 DEF IInv, TypeOK, Hosts
<1>3. Balance'
  BY <1>1 DEF IInv, TypeOK, Balance, Shown, Hosts, Reads, AdoptedListed
<1> QED BY <1>1, <1>2, <1>3 DEF IInv, OneHost, Frozen, AdoptedListed, Progress, Held,
        UpdateInterruptsNobody, Listed

LEMMA FeedIInv == ASSUME IInv, NEW h \in Hosts, NEW t \in Terminals, Feed(h, t) PROVE IInv'
<1>1. /\ screen' = [screen EXCEPT ![h][t] = @ + reader[h][t]]
      /\ reader' = [reader EXCEPT ![h][t] = 0]
      /\ Reads(h, t) /\ (h = "old" => old = "serving")
      /\ UNCHANGED <<alive, printed, unread, old, new, ack, snapshot, fds, runtime, adopted,
                     state, exited, watched>>
  BY DEF Feed, hosts, world, Unfed, LiveLockFree
<1>2. Balance'
  BY <1>1 DEF IInv, TypeOK, Balance, Shown, Hosts, Reads, AdoptedListed
<1>3. screen[h][t] + reader[h][t] <= MaxChunks
  BY <1>1 DEF IInv, TypeOK, Balance, Shown, Hosts, Reads, AdoptedListed
<1>4. TypeOK'
  BY <1>1, <1>3 DEF IInv, TypeOK, Hosts
<1>5. Frozen'
  BY <1>1 DEF IInv, TypeOK, Frozen, Listed, Hosts
<1> QED BY <1>1, <1>2, <1>4, <1>5 DEF IInv, OneHost, AdoptedListed, Progress, Held,
        UpdateInterruptsNobody, Listed

LEMMA ReapIInv == ASSUME IInv, NEW t \in Terminals, Reap(t) PROVE IInv'
BY DEF Reap, hosts, world, IInv, TypeOK, OneHost, Balance, Frozen, AdoptedListed, Progress,
   Held, UpdateInterruptsNobody, Listed, Shown

LEMMA RecordOldIInv == ASSUME IInv, NEW t \in Terminals, RecordOld(t) PROVE IInv'
BY DEF RecordOld, hosts, world, IInv, TypeOK, OneHost, Balance, Frozen, AdoptedListed, Progress,
   Held, UpdateInterruptsNobody, Listed, Shown

LEMMA RecordNewIInv == ASSUME IInv, NEW t \in Terminals, RecordNew(t) PROVE IInv'
BY DEF RecordNew, hosts, world, IInv, TypeOK, OneHost, Balance, Frozen, AdoptedListed, Progress,
   Held, UpdateInterruptsNobody, Listed, Shown

-----------------------------------------------------------------------------
(* The handoff.                                                             *)

LEMMA AskIInv == ASSUME IInv, Ask PROVE IInv'
BY DEF Ask, world, IInv, TypeOK, OneHost, Balance, Frozen, AdoptedListed, Progress, Held,
   UpdateInterruptsNobody, Listed, Shown

\* A screen the old host sends counts fewer chunks than Unsent: it is listed.
LEMMA HandIInv == ASSUME IInv, Hand PROVE IInv'
<1>1. /\ new = "asked" /\ old = "serving" /\ old' = "handing"
      /\ snapshot' = [t \in Terminals |-> IF t \in exited THEN Unsent ELSE screen["old"][t]]
      /\ fds' = [t \in Terminals |-> IF t \in exited THEN fds[t] ELSE fds[t] \cup {"wire"}]
      /\ UNCHANGED <<alive, printed, unread, new, ack, runtime, adopted, state, reader, screen,
                     exited, watched>>
  BY DEF Hand, world
<1>2. \A t \in Terminals : screen["old"][t] \in 0..Unsent /\ screen["old"][t] # Unsent
  BY DEF IInv, TypeOK, Hosts, Unsent
<1>3. Unsent \in 0..Unsent
  BY DEF Unsent
<1>4. TypeOK'
  <2>1. snapshot' \in [Terminals -> 0..Unsent]
    BY <1>1, <1>2, <1>3
  <2>2. fds' \in [Terminals -> SUBSET {"old", "wire", "new"}]
    BY <1>1 DEF IInv, TypeOK
  <2> QED BY <1>1, <2>1, <2>2 DEF IInv, TypeOK
<1>5. Frozen'
  BY <1>1, <1>2 DEF Frozen, Listed
<1>6. Balance' /\ UpdateInterruptsNobody'
  BY <1>1 DEF IInv, Balance, Shown, UpdateInterruptsNobody
<1>7. OneHost' /\ AdoptedListed' /\ Progress'
  BY <1>1 DEF IInv, OneHost, AdoptedListed, Progress
<1>8. \A t \in Terminals : "wire" \in fds'[t] => t \in Listed'
  BY <1>1, <1>2 DEF IInv, TypeOK, Held, Listed
<1>9. \A t \in Terminals : "old" \in fds'[t]
  BY <1>1 DEF IInv, TypeOK, Held
<1>10. Held'
  BY <1>1, <1>8, <1>9 DEF IInv, Held
<1> QED BY <1>4, <1>5, <1>6, <1>7, <1>10 DEF IInv

LEMMA ReceiveIInv == ASSUME IInv, Receive PROVE IInv'
<1>1. /\ new = "asked" /\ old = "handing" /\ new' = "holds"
      /\ fds' = [t \in Terminals |-> IF t \in Listed THEN (fds[t] \ {"wire"}) \cup {"new"}
                                                     ELSE fds[t]]
      /\ UNCHANGED <<alive, printed, unread, old, ack, snapshot, runtime, adopted, state,
                     reader, screen, exited, watched>>
  BY DEF Receive, world
<1>2. TypeOK'
  BY <1>1 DEF IInv, TypeOK
<1>3. Held'
  BY <1>1 DEF IInv, TypeOK, Held, Listed
<1> QED BY <1>1, <1>2, <1>3 DEF IInv, OneHost, Balance, Frozen, AdoptedListed, Progress,
        UpdateInterruptsNobody, Listed, Shown

\* The new host holds the descriptors when it confirms, so it confirms to a host
\* that is handing over or serves again, never to one that is gone.
LEMMA ConfirmIInv == ASSUME IInv, Confirm PROVE IInv'
BY DEF Confirm, world, IInv, TypeOK, OneHost, Balance, Frozen, AdoptedListed, Progress, Held,
   UpdateInterruptsNobody, Listed, Shown

LEMMA LeaveIInv == ASSUME IInv, Leave PROVE IInv'
<1>1. /\ old = "handing" /\ ack /\ old' = "exited" /\ ack' = FALSE /\ runtime' = "nobody"
      /\ fds' = [t \in Terminals |-> fds[t] \ {"old"}]
      /\ alive' \subseteq alive
      /\ UNCHANGED <<printed, unread, new, snapshot, adopted, state, reader, screen, exited,
                     watched>>
  BY DEF Leave, Confirmed, Close
<1>2. new = "waits"
  BY <1>1 DEF IInv, Progress
<1>3. TypeOK'
  BY <1>1 DEF IInv, TypeOK
<1>4. Held'
  BY <1>1, <1>2 DEF IInv, TypeOK, Held, Listed
<1> QED BY <1>1, <1>2, <1>3, <1>4 DEF IInv, OneHost, Balance, Frozen, AdoptedListed, Progress,
        UpdateInterruptsNobody, Listed, Shown

LEMMA TakeBackIInv == ASSUME IInv, TakeBack PROVE IInv'
<1>1. /\ old = "handing" /\ ~ack /\ old' = "serving"
      /\ snapshot' = [t \in Terminals |-> IF new = "asked" THEN Unsent ELSE snapshot[t]]
      /\ new' = IF new = "asked" THEN "failed" ELSE new
      /\ fds' = [t \in Terminals |-> fds[t] \ {"wire"}]
      /\ alive' \subseteq alive
      /\ UNCHANGED <<printed, unread, ack, runtime, adopted, state, reader, screen, exited,
                     watched>>
  BY DEF TakeBack, Close
<1>2. TypeOK'
  <2>1. snapshot' \in [Terminals -> 0..Unsent]
    BY <1>1 DEF IInv, TypeOK, Unsent
  <2> QED BY <1>1, <2>1 DEF IInv, TypeOK
<1>3. Held'
  BY <1>1 DEF IInv, TypeOK, Held
<1>4. OneHost' /\ Progress' /\ Frozen'
  BY <1>1 DEF IInv, OneHost, Progress, Frozen
<1>5. adopted' = {}
  BY <1>1 DEF IInv, TypeOK, AdoptedListed
<1>6. Balance' /\ AdoptedListed' /\ UpdateInterruptsNobody'
  BY <1>1, <1>5 DEF IInv, Balance, Shown, AdoptedListed, UpdateInterruptsNobody
<1> QED BY <1>2, <1>3, <1>4, <1>6 DEF IInv

\* A new host that fails has not confirmed to anyone who reads it.
LEMMA FailIInv == ASSUME IInv, Fail PROVE IInv'
<1>1. /\ new' = "failed"
      /\ fds' = [t \in Terminals |-> fds[t] \ {"new", "wire"}]
      /\ alive' \subseteq alive
      /\ UNCHANGED <<printed, unread, old, ack, snapshot, runtime, adopted, state, reader,
                     screen, exited, watched>>
  BY DEF Fail, Close
<1>2. old # "exited" /\ ~ack
  BY DEF Fail, IInv, Progress
<1>3. TypeOK'
  BY <1>1 DEF IInv, TypeOK
<1>4. Held'
  BY <1>1, <1>2 DEF IInv, TypeOK, Held
<1> QED BY <1>1, <1>2, <1>3, <1>4 DEF IInv, OneHost, Balance, Frozen, AdoptedListed, Progress,
        UpdateInterruptsNobody, Listed, Shown

LEMMA FailAloneIInv == ASSUME IInv, FailAlone PROVE IInv'
<1>1. /\ old = "exited" /\ new # "asked" /\ new' = "failed" /\ runtime' = "nobody"
      /\ fds' = [t \in Terminals |-> fds[t] \ {"new"}]
      /\ alive' = {t \in alive : fds[t] \ {"new"} # {}}
      /\ UNCHANGED <<printed, unread, old, ack, snapshot, adopted, state, reader, screen,
                     exited, watched>>
  BY DEF FailAlone, Close, IInv, TypeOK
<1>2. TypeOK'
  BY <1>1 DEF IInv, TypeOK
<1>3. alive' = {}
  BY <1>1 DEF IInv, TypeOK, Held
<1>4. Held'
  BY <1>1, <1>3 DEF IInv, TypeOK, Held, Listed
<1> QED BY <1>1, <1>2, <1>4 DEF IInv, OneHost, Balance, Frozen, AdoptedListed, Progress, Held,
        UpdateInterruptsNobody, Listed, Shown

\* What is not kept was not listed: the old host had seen it exit.
LEMMA OpenIInv == ASSUME IInv, Open PROVE IInv'
<1>1. /\ new = "waits" /\ runtime = "nobody" /\ new' = "adopts" /\ runtime' = "new"
      /\ state' = [t \in Terminals |-> IF t \notin Listed /\ state[t] = "Running"
                                         THEN "Interrupted" ELSE state[t]]
      /\ UNCHANGED <<alive, printed, unread, old, ack, snapshot, fds, adopted, reader, screen,
                     exited, watched>>
  BY DEF Open, RuntimeFree, Kept, world
<1>2. old = "exited"
  BY <1>1 DEF IInv, OneHost
<1>3. TypeOK'
  BY <1>1 DEF IInv, TypeOK
<1>4. UpdateInterruptsNobody'
  BY <1>1, <1>2 DEF IInv, UpdateInterruptsNobody, Frozen, TypeOK
<1>5. OneHost' /\ Progress' /\ Held'
  BY <1>1, <1>2 DEF IInv, OneHost, Progress, Held, Listed
<1>6. Balance' /\ Frozen' /\ AdoptedListed'
  BY <1>1 DEF IInv, Balance, Shown, Frozen, AdoptedListed, Listed
<1> QED BY <1>3, <1>4, <1>5, <1>6 DEF IInv

LEMMA AdoptIInv == ASSUME IInv, NEW t \in Terminals, Adopt(t) PROVE IInv'
<1>1. /\ new = "adopts" /\ t \in Listed \ adopted
      /\ adopted' = adopted \cup {t}
      /\ screen' = [screen EXCEPT !["new"][t] = snapshot[t]]
      /\ new' \in {"adopts", "blocked"}
      /\ watched' \in {watched, watched \cup {t}}
      /\ UNCHANGED <<alive, printed, unread, old, ack, snapshot, fds, runtime, state, reader,
                     exited>>
  BY DEF Adopt, WatchedWith, world
<1>2. old = "exited"
  BY <1>1 DEF IInv, OneHost
<1>3. snapshot[t] = screen["old"][t] /\ t \notin exited
  BY <1>1, <1>2 DEF IInv, Frozen
<1>4. /\ screen' \in [Hosts -> [Terminals -> 0..MaxChunks]]
      /\ screen'["old"] = screen["old"]
      /\ \A u \in Terminals :
           screen'["new"][u] = IF u = t THEN screen["old"][t] ELSE screen["new"][u]
  BY <1>1, <1>3 DEF IInv, TypeOK, Hosts
<1>5. TypeOK'
  BY <1>1, <1>4 DEF IInv, TypeOK
<1>6. Balance'
  <2> SUFFICES ASSUME NEW u \in Terminals
               PROVE  /\ u \in adopted' => Shown("new", u)' + reader["old"][u] = printed[u]
                      /\ u \notin adopted' => /\ Shown("old", u)' = printed[u]
                                              /\ reader["new"][u] = 0 /\ screen'["new"][u] = 0
    BY <1>1 DEF Balance
  <2>1. CASE u = t
    BY <1>1, <1>4, <2>1 DEF IInv, TypeOK, Balance, Shown, Hosts
  <2>2. CASE u # t
    BY <1>1, <1>4, <2>2 DEF IInv, Balance, Shown
  <2> QED BY <2>1, <2>2
<1>7. AdoptedListed' /\ UpdateInterruptsNobody'
  BY <1>1, <1>2, <1>3 DEF IInv, AdoptedListed, UpdateInterruptsNobody, Listed
<1>8. OneHost' /\ Progress' /\ Held' /\ Frozen'
  BY <1>1, <1>2, <1>4 DEF IInv, OneHost, Progress, Held, Frozen, Listed
<1> QED BY <1>5, <1>6, <1>7, <1>8 DEF IInv

LEMMA ServeIInv == ASSUME IInv, Serve PROVE IInv'
BY DEF Serve, world, IInv, TypeOK, OneHost, Balance, Frozen, AdoptedListed, Progress, Held,
   UpdateInterruptsNobody, Listed, Shown

LEMMA NextIInv == ASSUME IInv, [Next]_vars PROVE IInv'
<1>1. CASE UNCHANGED vars
  BY <1>1 DEF vars, IInv, TypeOK, OneHost, Balance, Frozen, AdoptedListed, Progress, Held,
     UpdateInterruptsNobody, Listed, Shown
<1>2. CASE Next
  BY <1>2, PrintsIInv, DieIInv, ReadIInv, FeedIInv, ReapIInv, RecordOldIInv, RecordNewIInv,
     AskIInv, HandIInv, ReceiveIInv, ConfirmIInv, LeaveIInv, TakeBackIInv, FailIInv, FailAloneIInv,
     OpenIInv, AdoptIInv, ServeIInv DEF Next
<1> QED BY <1>1, <1>2

LEMMA Inductive == Spec => []IInv
<1>1. Init => IInv
  BY InitIInv
<1>2. IInv /\ [Next]_vars => IInv'
  BY NextIInv
<1> QED BY <1>1, <1>2, PTL DEF Spec

-----------------------------------------------------------------------------
(* What the code promises.                                                  *)

\* In every reachable state the handoff's variables have their types: no screen
\* shows, and no reader holds, more than the program printed.
THEOREM TypeCorrect == Spec => []TypeOK
<1>1. IInv => TypeOK
  BY DEF IInv
<1> QED BY <1>1, Inductive, PTL

\* The new host neither opens the store nor adopts before the old one has left,
\* and the runtime lock is the old host's until then.
THEOREM OneHostServes == Spec => []OneHost
<1>1. IInv => OneHost
  BY DEF IInv
<1> QED BY <1>1, Inductive, PTL

\* The old host loses no output while it runs, and an adopted terminal misses
\* only what the old reader had taken and not fed.
THEOREM NoOutputLost == Spec => []OutputKept
<1>1. IInv => OutputKept
  BY DEF IInv, TypeOK, Balance, AdoptedListed, OutputKept
<1> QED BY <1>1, Inductive, PTL

\* No terminal is marked as interrupted by the update that carried it over.
THEOREM NobodyInterrupted == Spec => []UpdateInterruptsNobody
<1>1. IInv => UpdateInterruptsNobody
  BY DEF IInv
<1> QED BY <1>1, Inductive, PTL

\* A terminal that lives is held by the old host until it leaves and by the new
\* one from then on.
LEMMA LivingIsHeld ==
  ASSUME IInv, NEW t \in alive
  PROVE  /\ old # "exited" => "old" \in fds[t]
         /\ (old = "handing" /\ new \in {"holds", "waits"}) \/ (old = "exited" /\ new # "failed")
              => "new" \in fds[t]
BY DEF IInv, TypeOK, Held, Frozen

\* A step that takes a live terminal away is its own end or the end of the only
\* host that is left.
LEMMA StepHangsUpNobody ==
  ASSUME IInv, [Next]_vars
  PROVE  \A t \in alive : t \notin alive' => (fds[t] # {} /\ fds' = fds) \/ LostWithNew
<1> SUFFICES ASSUME NEW t \in alive, t \notin alive'
             PROVE  (fds[t] # {} /\ fds' = fds) \/ LostWithNew
  OBVIOUS
<1>1. t \in Terminals
  BY DEF IInv, TypeOK
<1>2. fds[t] # {}
  BY LivingIsHeld DEF IInv, TypeOK, Held
<1>3. CASE \E u \in Terminals : Die(u)
  BY <1>2, <1>3 DEF Die, hosts
<1>4. CASE Leave
  <2>1. "new" \in fds[t] \ {"old"}
    BY <1>4, LivingIsHeld DEF Leave, Confirmed, IInv, Progress
  <2> QED BY <1>1, <1>4, <2>1 DEF Leave, Close
<1>5. CASE TakeBack
  <2>1. "old" \in fds[t] \ {"wire"}
    BY <1>5, LivingIsHeld DEF TakeBack
  <2> QED BY <1>1, <1>5, <2>1 DEF TakeBack, Close
<1>6. CASE Fail
  <2>1. "old" \in fds[t] \ {"new", "wire"}
    BY <1>6, LivingIsHeld DEF Fail, IInv, Progress
  <2> QED BY <1>1, <1>6, <2>1 DEF Fail, Close
<1>7. CASE FailAlone
  BY <1>7 DEF FailAlone, LostWithNew
<1>8. CASE Ask \/ Hand \/ Receive \/ Confirm \/ Open \/ Serve \/ UNCHANGED vars
  BY <1>8 DEF Ask, Hand, Receive, Confirm, Open, Serve, vars, world
<1>9. CASE \E u \in Terminals : Prints(u) \/ Reap(u) \/ RecordOld(u) \/ RecordNew(u) \/ Adopt(u)
  BY <1>9 DEF Prints, Reap, RecordOld, RecordNew, Adopt, world
<1>10. CASE \E h \in Hosts, u \in Terminals : Read(h, u) \/ Feed(h, u)
  BY <1>10 DEF Read, Feed, world
<1> QED BY <1>3, <1>4, <1>5, <1>6, <1>7, <1>8, <1>9, <1>10
    DEF Next

\* No step of a handoff, of one taken back or of one that failed hangs up a
\* terminal that lives: a program that ends, ends by itself.
THEOREM HangsUpNobody == Spec => NoHangup
<1>1. IInv /\ [Next]_vars => [\A t \in alive : t \notin alive' => (fds[t] # {} /\ fds' = fds) \/ LostWithNew]_vars
  BY StepHangsUpNobody
<1> QED BY <1>1, Inductive, PTL DEF Spec, NoHangup
=============================================================================
