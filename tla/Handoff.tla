------------------------------ MODULE Handoff ------------------------------
(***************************************************************************)
(* A newer host takes the running terminals over from the one that serves  *)
(* (hand_over in host/client.rs, take_over and serve_runtime in            *)
(* host/mod.rs, handoff.rs, run_live in host/live.rs).                     *)
(*                                                                         *)
(* The old host keeps the host lock and the terminals' locks from the      *)
(* snapshots until it exits or takes the handoff back.  Its PTY readers    *)
(* read without those locks.  A terminal's program is hung up when the     *)
(* last descriptor of its PTY master closes.                               *)
(*                                                                         *)
(* Output is counted in chunks.  The 10 s and 15 s timeouts may expire at  *)
(* any time, but the new host does not give the runtime lock up while the  *)
(* old one may still take its confirmation.                                *)
(***************************************************************************)
EXTENDS Naturals, FiniteSets

CONSTANTS Terminals,   \* terminals the old host runs
          MaxChunks    \* bound: chunks each program prints

ASSUME MaxChunksAssumption == MaxChunks \in Nat

VARIABLES
  alive,     \* terminals whose own process lives
  printed,   \* chunks each program wrote to its PTY
  unread,    \* of those, how many wait in the kernel
  old,       \* the old host: serving, in hand_over, or gone
  new,       \* the new host: where serve_runtime is
  ack,       \* the confirmation in the socket
  snapshot,  \* the screens hand_over sent, for the terminals it listed
  fds,       \* who holds a PTY master: fds[t] \subseteq {"old", "wire", "new"}
  runtime,   \* who holds the flock on host.lock
  state,     \* Workspace.terminals[t].state, as stored
  reader,    \* chunks each host's PTY reader has read and not fed
  screen,    \* chunks each host's screen shows
  exited,    \* live.exited in the old host
  adopted,   \* terminals run_live registered in the new host
  watched    \* adopted terminals whose pid the new host's kqueue watches

vars == <<alive, printed, unread, old, new, ack, snapshot, fds, runtime, state, reader,
          screen, exited, adopted, watched>>
world == <<alive, printed>>
hosts == <<old, new, ack, snapshot, fds, runtime, adopted>>

Hosts == {"old", "new"}
Unsent == MaxChunks + 1       \* no snapshot

TypeOK ==
  /\ alive \subseteq Terminals
  /\ printed \in [Terminals -> 0..MaxChunks]
  /\ unread \in [Terminals -> 0..MaxChunks]
  /\ old \in {"serving", "handing", "exited"}
  /\ new \in {"idle", "asked", "holds", "waits", "adopts", "blocked", "serves", "failed"}
  /\ ack \in BOOLEAN
  /\ snapshot \in [Terminals -> 0..Unsent]
  /\ fds \in [Terminals -> SUBSET {"old", "wire", "new"}]
  /\ runtime \in {"old", "new", "nobody"}
  /\ state \in [Terminals -> {"Running", "Exited", "Interrupted"}]
  /\ reader \in [Hosts -> [Terminals -> 0..MaxChunks]]
  /\ screen \in [Hosts -> [Terminals -> 0..MaxChunks]]
  /\ exited \subseteq Terminals
  /\ adopted \subseteq Terminals
  /\ watched \subseteq adopted

Init ==
  /\ alive = Terminals
  /\ printed = [t \in Terminals |-> 0] /\ unread = [t \in Terminals |-> 0]
  /\ old = "serving" /\ new = "idle" /\ ack = FALSE
  /\ snapshot = [t \in Terminals |-> Unsent]
  /\ fds = [t \in Terminals |-> {"old"}] /\ runtime = "old"
  /\ state = [t \in Terminals |-> "Running"]
  /\ reader = [h \in Hosts |-> [t \in Terminals |-> 0]]
  /\ screen = [h \in Hosts |-> [t \in Terminals |-> 0]]
  /\ exited = {} /\ adopted = {} /\ watched = {}

Listed == {t \in Terminals : snapshot[t] # Unsent}

\* Closing descriptors hangs up the programs nobody holds any more.
Close(left) ==
  /\ fds' = left
  /\ alive' = {t \in alive : left[t] # {}}

-----------------------------------------------------------------------------
(* The programs and the two hosts' terminal threads.                        *)

Prints(t) ==
  /\ t \in alive /\ printed[t] < MaxChunks
  /\ printed' = [printed EXCEPT ![t] = @ + 1]
  /\ unread' = [unread EXCEPT ![t] = @ + 1]
  /\ UNCHANGED <<alive, hosts, state, reader, screen, exited, watched>>

Die(t) ==
  /\ t \in alive
  /\ alive' = alive \ {t}
  /\ UNCHANGED <<printed, unread, hosts, state, reader, screen, exited, watched>>

Reads(h, t) == IF h = "old" THEN old # "exited" ELSE t \in adopted /\ new # "failed"

\* pump: what is there is read (64 KiB at most), with no lock held.
Read(h, t) ==
  /\ Reads(h, t) /\ reader[h][t] = 0 /\ unread[t] > 0
  /\ reader' = [reader EXCEPT ![h][t] = unread[t]]
  /\ unread' = [unread EXCEPT ![t] = 0]
  /\ UNCHANGED <<world, hosts, state, screen, exited, watched>>

\* Mutant: the terminals' locks are not kept while the handoff lasts.
LiveLockFree_Always(h) == TRUE
\* The lock of a terminal the old host is handing over is taken.
LiveLockFree(h) == h = "old" => old = "serving"

\* Mutant: the chunk is fed again.
Unfed_Kept(h, t) == reader[h][t]
\* What is left of a chunk that was fed.
Unfed(h, t) == 0

\* pump: the terminal lock is taken and the host's screen is fed.
Feed(h, t) ==
  /\ Reads(h, t) /\ reader[h][t] > 0 /\ LiveLockFree(h)
  /\ screen' = [screen EXCEPT ![h][t] = @ + reader[h][t]]
  /\ reader' = [reader EXCEPT ![h][t] = Unfed(h, t)]
  /\ UNCHANGED <<world, unread, hosts, state, exited, watched>>

\* The old host's wait thread: live.exited under the terminal lock, then
\* record_exit under the host lock.
Reap(t) ==
  /\ old = "serving" /\ t \notin alive /\ t \notin exited
  /\ exited' = exited \cup {t}
  /\ UNCHANGED <<world, unread, hosts, state, reader, screen, watched>>
RecordOld(t) ==
  /\ old = "serving" /\ t \in exited /\ state[t] = "Running"
  /\ state' = [state EXCEPT ![t] = "Exited"]
  /\ UNCHANGED <<world, unread, hosts, reader, screen, exited, watched>>

\* The new host's kqueue reports the end of an adopted terminal: run_live's
\* `ended` needs the host lock, which an adoption does not let go when blocked.
RecordNew(t) ==
  /\ t \in watched /\ t \notin alive /\ new \in {"adopts", "serves"}
  /\ watched' = watched \ {t}
  /\ state' = [state EXCEPT ![t] = "Exited"]
  /\ UNCHANGED <<world, unread, hosts, reader, screen, exited>>

-----------------------------------------------------------------------------
(* The handoff.                                                             *)

\* take_over: Hello and Handoff.
Ask ==
  /\ new \in {"idle", "failed"} /\ old = "serving"
  /\ new' = "asked"
  /\ UNCHANGED <<world, unread, old, ack, snapshot, fds, runtime, adopted, state, reader,
                 screen, exited, watched>>

\* hand_over: the locks, the list, the snapshots and the descriptors of the
\* terminals that have not exited.
Hand ==
  /\ new = "asked" /\ old = "serving"
  /\ old' = "handing"
  /\ snapshot' = [t \in Terminals |-> IF t \in exited THEN Unsent ELSE screen["old"][t]]
  /\ fds' = [t \in Terminals |-> IF t \in exited THEN fds[t] ELSE fds[t] \cup {"wire"}]
  /\ UNCHANGED <<world, unread, new, ack, runtime, adopted, state, reader, screen, exited,
                 watched>>

\* take_over has every frame and every descriptor, and confirms.
Receive ==
  /\ new = "asked" /\ old = "handing"
  /\ new' = "holds"
  /\ fds' = [t \in Terminals |-> IF t \in Listed THEN (fds[t] \ {"wire"}) \cup {"new"}
                                                  ELSE fds[t]]
  /\ UNCHANGED <<world, unread, old, ack, snapshot, runtime, adopted, state, reader, screen,
                 exited, watched>>

\* A confirmation that comes after the old host took the handoff back is not
\* read by anyone.
Confirm ==
  /\ new = "holds"
  /\ new' = "waits"
  /\ ack' = (old = "handing")
  /\ UNCHANGED <<world, unread, old, snapshot, fds, runtime, adopted, state, reader, screen,
                 exited, watched>>

\* Mutant: sending the descriptors is enough.
Confirmed_BySending == new = "asked" => "wire" \in UNION {fds[t] : t \in Terminals}
\* read_frame returned the confirmation.
Confirmed == ack

\* hand_over exits without signalling anyone.
Leave ==
  /\ old = "handing" /\ Confirmed
  /\ old' = "exited" /\ ack' = FALSE
  /\ runtime' = "nobody"
  /\ Close([t \in Terminals |-> fds[t] \ {"old"}])
  /\ UNCHANGED <<printed, unread, new, snapshot, adopted, state, reader, screen, exited,
                 watched>>

\* No confirmation within 10 s, or the new host hung up: the locks are let go
\* and the old host serves on.  What was not received is closed.
TakeBack ==
  /\ old = "handing" /\ ~ack
  /\ old' = "serving"
  /\ snapshot' = [t \in Terminals |-> IF new = "asked" THEN Unsent ELSE snapshot[t]]
  /\ new' = IF new = "asked" THEN "failed" ELSE new
  /\ Close([t \in Terminals |-> fds[t] \ {"wire"}])
  /\ UNCHANGED <<printed, unread, ack, runtime, adopted, state, reader, screen, exited,
                 watched>>

\* The new host fails before it confirmed (an error of its own, a crash, a
\* stream that was closed), or waited 10 s for a host that serves on.
Fail ==
  /\ \/ new \in {"asked", "holds"}
     \/ new = "waits" /\ old = "serving"
  /\ new' = "failed"
  /\ Close([t \in Terminals |-> fds[t] \ {"new", "wire"}])
  /\ UNCHANGED <<printed, unread, old, ack, snapshot, runtime, adopted, state, reader,
                 screen, exited, watched>>

\* The new host fails when the old one is gone: its store does not open, or a
\* screen cannot be restored.  The descriptors it held were the last.
FailAlone ==
  /\ old = "exited" /\ new \in {"waits", "adopts"}
  /\ new' = "failed" /\ runtime' = "nobody"
  /\ Close([t \in Terminals |-> fds[t] \ {"new"}])
  /\ UNCHANGED <<printed, unread, old, ack, snapshot, adopted, state, reader, screen, exited,
                 watched>>

\* Mutant: the new host does not wait for host.lock.
RuntimeFree_Always == TRUE
\* flock(LOCK_EX | LOCK_NB) succeeds.
RuntimeFree == runtime = "nobody"

\* Mutant: a terminal that was handed over is interrupted like any other.
Kept_Nothing == {}
\* The terminals Store::open_keeping leaves Running.
Kept == Listed

\* serve_runtime: the runtime lock, then the store.
Open ==
  /\ new = "waits" /\ RuntimeFree
  /\ new' = "adopts" /\ runtime' = "new"
  /\ state' = [t \in Terminals |-> IF t \notin Kept /\ state[t] = "Running"
                                     THEN "Interrupted" ELSE state[t]]
  /\ UNCHANGED <<world, unread, old, ack, snapshot, fds, adopted, reader, screen, exited,
                 watched>>

\* Mutant: a terminal taken over is not watched.
WatchedWith_Skipped(t) == watched
\* ExitWatch::watch on the pid of a terminal that lives.
WatchedWith(t) == watched \cup {t}

\* serve_runtime calls run_live with its own guard on the host lock.  A process
\* that is gone is settled at once: record_exit, on the same thread, for which
\* that lock never becomes free.
Adopt(t) ==
  /\ new = "adopts" /\ t \in Listed \ adopted
  /\ adopted' = adopted \cup {t}
  /\ screen' = [screen EXCEPT !["new"][t] = snapshot[t]]
  /\ IF t \in alive
       THEN /\ watched' = WatchedWith(t)
            /\ UNCHANGED new
       ELSE /\ new' = "blocked"
            /\ UNCHANGED watched
  /\ UNCHANGED <<world, unread, old, ack, snapshot, fds, runtime, state, reader, exited>>

Serve ==
  /\ new = "adopts" /\ Listed \subseteq adopted
  /\ new' = "serves"
  /\ UNCHANGED <<world, unread, old, ack, snapshot, fds, runtime, adopted, state, reader,
                 screen, exited, watched>>

Next ==
  \/ \E t \in Terminals : Prints(t)
  \/ \E t \in Terminals : Die(t)
  \/ \E h \in Hosts, t \in Terminals : Read(h, t)
  \/ \E h \in Hosts, t \in Terminals : Feed(h, t)
  \/ \E t \in Terminals : Reap(t)
  \/ \E t \in Terminals : RecordOld(t)
  \/ \E t \in Terminals : RecordNew(t)
  \/ Ask
  \/ Hand
  \/ Receive
  \/ Confirm
  \/ Leave
  \/ TakeBack
  \/ Fail
  \/ FailAlone
  \/ Open
  \/ \E t \in Terminals : Adopt(t)
  \/ Serve

\* Threads that can go on do.  Programs print and die, and a new host comes or
\* fails, at will; a timeout ends what did not end by itself.
Fairness ==
  /\ \A h \in Hosts, t \in Terminals : WF_vars(Read(h, t)) /\ WF_vars(Feed(h, t))
  /\ \A t \in Terminals : WF_vars(Reap(t)) /\ WF_vars(RecordOld(t)) /\ WF_vars(RecordNew(t))
  /\ WF_vars(Confirm) /\ WF_vars(Leave) /\ WF_vars(TakeBack) /\ WF_vars(Open)
  /\ WF_vars(\E t \in Terminals : Adopt(t)) /\ WF_vars(Serve)

Spec == Init /\ [][Next]_vars /\ Fairness

-----------------------------------------------------------------------------
(* What the code promises.                                                  *)

\* client.rs: closing the old copies before the new host holds its own would
\* hang up every terminal.  A live terminal is taken away by its own end only, or
\* by a new host that had confirmed and fails when the old one is gone.
LostWithNew == old = "exited" /\ new \in {"waits", "adopts"} /\ new' = "failed"
NoHangup ==
  [][\A t \in alive : t \notin alive' => (fds[t] # {} /\ fds' = fds) \/ LostWithNew]_vars

\* The two hosts never serve, or write the store, at the same time.
OneHost ==
  /\ old # "exited" => new \notin {"adopts", "blocked", "serves"}
  /\ old # "exited" <=> runtime = "old"

\* Every chunk is on the host's screen or still to be fed, and a confirmed
\* handoff loses no more than what the old reader had read and not fed
\* (architecture.md names that loss).
Shown(h, t) == screen[h][t] + reader[h][t] + unread[t]
OutputKept ==
  /\ old # "exited" => \A t \in Terminals : Shown("old", t) = printed[t]
  /\ \A t \in adopted : Shown("new", t) + reader["old"][t] = printed[t]

\* A terminal the old host still ran is never shown as interrupted by its own
\* update, and one it had seen exit is never adopted.
UpdateInterruptsNobody ==
  \A t \in Terminals :
    /\ state[t] = "Interrupted" => t \in exited
    /\ t \in adopted => t \notin exited

\* After the update every terminal taken over that ends is recorded as ended,
\* unless the adoption blocked the new host or failed it.
AdoptedEndIsRecorded ==
  \A t \in Terminals :
    (t \in adopted /\ t \notin alive) ~> (state[t] # "Running" \/ new \in {"blocked", "failed"})

\* live.rs: "Gone before the watch began, or no watch at all: settle it now." A
\* terminal adopted after its process ended is recorded as ended, by a new host
\* that goes on.
GoneIsSettled ==
  \A t \in Terminals : (t \in adopted /\ t \notin alive) ~> (state[t] # "Running" \/ new = "failed")
=============================================================================
