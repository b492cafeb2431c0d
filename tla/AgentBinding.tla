---------------------------- MODULE AgentBinding ----------------------------
(***************************************************************************)
(* Which CLI conversation (Workspace::agent_sessions) runs in which        *)
(* managed terminal, and how the host learns that it stopped.              *)
(*                                                                         *)
(* Evidence reaches the host along three paths, each of which samples the  *)
(* world WITHOUT the host lock and applies the sample later WITH it:       *)
(*   - refresh_agents: processes and open transcripts (ps, lsof);          *)
(*   - Request::Hook: a CLI's own hook names its conversation;             *)
(*   - associate_screens: the newest prompt is on one managed screen.      *)
(* Agent exits arrive on a kqueue thread (process_exit.rs), terminal exits *)
(* on the terminal's own threads (record_exit), and the host itself may be *)
(* restarted or replaced (Store::open_keeping).                            *)
(*                                                                         *)
(* One CLI (runtime) is modelled.  Pids are not reused.                    *)
(***************************************************************************)
EXTENDS Naturals, FiniteSets

CONSTANTS Terminals,    \* managed terminals, all of them launched
          Sessions,     \* CLI conversations (runtime + cli_session_id)
          Pids,         \* Agent processes
          None,         \* no terminal, no conversation
          Evidence,     \* what processes show: "argv", "file", "silent"
          MaxMoves,     \* bound: hooks sent and conversations switched
          MaxJobs,      \* bound: samples in flight at once
          MaxReopens    \* bound: host restarts and handoffs

ASSUME NoneAssumption == None \notin Terminals \cup Sessions
ASSUME EvidenceAssumption == Evidence \subseteq {"argv", "file", "silent"}
ASSUME BoundsAssumption == {MaxMoves, MaxJobs, MaxReopens} \subseteq Nat

VARIABLES
  procs,       \* the Agent processes: alive or not, where, talking to what
  shells,      \* terminals whose own process (the PTY's child) is alive
  state,       \* Workspace.terminals[t].state
  book,        \* Workspace.agent_sessions: terminal, current, screen-bound
  agentPids,   \* Host.agent_pids
  unboundPids, \* Host.unbound_pids
  watched,     \* pids registered with the kqueue, one-shot
  exits,       \* exit events on their way to agent_exited
  todo,        \* observe_processes' loop: it holds the host lock while nonempty
  refresh,     \* refresh_agents between its sample and its lock
  hooks,       \* hook messages on their way
  hookJob,     \* Request::Hook between its sample and its lock
  panes,       \* associate_screens between its two locks
  moves,       \* hooks sent and conversations switched so far, for the bound
  reopens      \* host starts so far, for the bound

agents == <<agentPids, unboundPids, watched>>
jobs   == <<refresh, hooks, hookJob, panes, moves>>
vars   == <<procs, shells, state, book, agentPids, unboundPids, watched, exits,
            todo, refresh, hooks, hookJob, panes, moves, reopens>>

Conversation == Sessions \cup {None}
Place        == Terminals \cup {None}

Proc == [life : {"unborn", "alive", "dead"}, at : Place,
         talk : Conversation, argv : Conversation, open : BOOLEAN]
Link == [term : Place, current : BOOLEAN, screen : BOOLEAN]

\* One Agent process of a sample: its terminal by ancestry, the conversation
\* its command line (or its CLI's own list) names, the transcript it has open.
Seen == [pid : Pids, at : Terminals, argv : Conversation, file : Conversation]
Hook == [pid : Pids, at : Terminals, talk : Sessions, ended : BOOLEAN]
\* `shown` is the conversation bound to the pane, `prompt` the one on its screen.
Pane == [pid : Pids, at : Terminals, shown : Conversation, prompt : Sessions]

NoRefresh == [on |-> FALSE, seen |-> {}]
NoHook    == [on |-> FALSE, hook |-> None, traced |-> FALSE, seen |-> {}]
NoPanes   == [on |-> FALSE, seen |-> {}, held |-> {}]

TypeOK ==
  /\ procs \in [Pids -> Proc]
  /\ shells \subseteq Terminals
  /\ state \in [Terminals -> {"Running", "Exited", "Interrupted"}]
  /\ book \in [Sessions -> Link]
  /\ agentPids \in [Pids -> Conversation]
  /\ unboundPids \in [Pids -> Place]
  /\ watched \subseteq Pids
  /\ exits \subseteq Pids
  /\ todo \subseteq Seen
  /\ refresh \in [on : BOOLEAN, seen : SUBSET Seen]
  /\ hooks \subseteq Hook
  /\ hookJob \in [on : BOOLEAN, hook : Hook \cup {None}, traced : BOOLEAN,
                  seen : SUBSET Seen]
  /\ hookJob.on => hookJob.hook \in Hook
  /\ panes \in [on : BOOLEAN, seen : SUBSET Pane, held : SUBSET Sessions]
  /\ moves \in 0..MaxMoves
  /\ reopens \in 0..MaxReopens

Init ==
  /\ procs = [p \in Pids |-> [life |-> "unborn", at |-> None, talk |-> None,
                              argv |-> None, open |-> FALSE]]
  /\ shells = Terminals
  /\ state = [t \in Terminals |-> "Running"]
  /\ book = [s \in Sessions |-> [term |-> None, current |-> FALSE, screen |-> FALSE]]
  /\ agentPids = [p \in Pids |-> None]
  /\ unboundPids = [p \in Pids |-> None]
  /\ watched = {} /\ exits = {} /\ todo = {}
  /\ refresh = NoRefresh
  /\ hooks = {} /\ hookJob = NoHook
  /\ panes = NoPanes
  /\ moves = 0 /\ reopens = 0

Free == todo = {}                      \* the host lock can be taken
Alive(p) == procs[p].life = "alive"
Holds(b, s, t) == b[s].current /\ b[s].term = t
InFlight == Cardinality({j \in 1..3 : <<refresh.on, hookJob.on, panes.on>>[j]})
Bare(t) == \A s \in Sessions : ~Holds(book, s, t)        \* no current_agent

\* The conversation each terminal is shown to run.
Holder == [t \in Terminals |-> IF Bare(t) THEN None
                                ELSE CHOOSE s \in Sessions : Holds(book, s, t)]

-----------------------------------------------------------------------------
(* The world outside the host: CLIs start, change conversation and die.     *)

\* The user starts a CLI in a live terminal.
Start(p, t, s, kind) ==
  /\ procs[p].life = "unborn" /\ t \in shells
  /\ procs' = [procs EXCEPT ![p] =
       [life |-> "alive", at |-> t, talk |-> s,
        argv |-> IF kind = "argv" THEN s ELSE None, open |-> kind = "file"]]
  /\ UNCHANGED <<shells, state, book, agents, exits, todo, jobs, reopens>>

\* `/new`, `/clear`, `/resume` inside the TUI: its command line stays.
Switch(p, s) ==
  /\ Alive(p) /\ procs[p].talk # s /\ moves < MaxMoves
  /\ procs' = [procs EXCEPT ![p].talk = s]
  /\ moves' = moves + 1
  /\ UNCHANGED <<shells, state, book, agents, exits, todo, refresh, hooks, hookJob, panes,
                 reopens>>

\* NOTE_EXIT fires once, for a process that was registered.
Die(p) ==
  /\ Alive(p)
  /\ procs' = [procs EXCEPT ![p].life = "dead"]
  /\ watched' = watched \ {p}
  /\ exits' = exits \cup (watched \cap {p})
  /\ UNCHANGED <<shells, state, book, agentPids, unboundPids, todo, jobs, reopens>>

ShellDies(t) ==
  /\ t \in shells
  /\ shells' = shells \ {t}
  /\ UNCHANGED <<procs, state, book, agents, exits, todo, jobs, reopens>>

-----------------------------------------------------------------------------
(* Evidence.                                                                *)

\* Mutant: a process outside every managed terminal is not skipped.
Sample_Unmanaged(listed) ==
  {[pid |-> p, at |-> procs[p].at, argv |-> procs[p].argv, file |-> None] :
     p \in {q \in Pids : procs[q].at \in shells \cup {None}}}

\* What ps and lsof show now.  `listed` are the silent processes whose CLI
\* lists its live conversations (name_by_pid: only in a pane without one).
Sample(listed) ==
  {[pid |-> p, at |-> procs[p].at,
    argv |-> IF p \in listed THEN procs[p].talk ELSE procs[p].argv,
    file |-> IF procs[p].open THEN procs[p].talk ELSE None] :
     p \in {q \in Pids : Alive(q) /\ procs[q].at \in shells}}

Running(seen) == {r \in seen : state[r.at] = "Running"}

\* Mutant: the terminal's other conversations stay current.
Linked_KeepsOthers(b, links, viaScreen) ==
  [s \in Sessions |->
     IF \E t \in Terminals : <<t, s>> \in links
       THEN [term |-> CHOOSE t \in Terminals : <<t, s>> \in links,
             current |-> TRUE, screen |-> viaScreen]
       ELSE b[s]]

\* Workspace::observe_agent for a set of links in one commit: the terminal's
\* other conversations stop being current.
Linked(b, links, viaScreen) ==
  [s \in Sessions |->
     CASE \E t \in Terminals : <<t, s>> \in links ->
            [term |-> CHOOSE t \in Terminals : <<t, s>> \in links,
             current |-> TRUE, screen |-> viaScreen]
       [] OTHER ->
            [b[s] EXCEPT !.current = @ /\ \A x \in Sessions : <<b[s].term, x>> \notin links]]

\* Mutant: a conversation may be linked to a second terminal at any time.
Conflict_Ignored(b, l) == FALSE

\* observe_agent refuses a conversation still current in another terminal.
Conflict(b, l) == b[l[2]].current /\ b[l[2]].term # l[1]

\* The links that get through when they are tried in the order `rank`: a
\* conflict is gone when an earlier link gave its old terminal away.
Accepted(b, links, rank) ==
  {A \in SUBSET links :
     \A l \in links :
        l \in A <=> (Conflict(b, l) =>
                       \E k \in A : k[1] = b[l[2]].term /\ rank[k[1]] < rank[l[1]])}
Orders == {rank \in [Terminals -> 1..Cardinality(Terminals)] :
             \A t, u \in Terminals : t # u => rank[t] # rank[u]}

\* Mutant: an exit does not remove the process from unbound_pids.
Exited_KeepsUnbound(p) ==
  /\ UNCHANGED unboundPids
  /\ agentPids' = [agentPids EXCEPT ![p] = None]
  /\ book' = [s \in Sessions |->
                IF s = agentPids[p] THEN [book[s] EXCEPT !.current = FALSE] ELSE book[s]]

\* Host::agent_exited(p), as its effect on the three maps.
Exited(p) ==
  /\ unboundPids' = [unboundPids EXCEPT ![p] = None]
  /\ agentPids' = [agentPids EXCEPT ![p] = None]
  /\ book' = [s \in Sessions |->
                IF s = agentPids[p] THEN [book[s] EXCEPT !.current = FALSE] ELSE book[s]]

-----------------------------------------------------------------------------
(* refresh_agents (host/status.rs).                                         *)

BeginRefresh(listed) ==
  /\ ~refresh.on /\ Free /\ InFlight < MaxJobs
  /\ listed \subseteq {p \in Pids : procs[p].at # None /\ Bare(procs[p].at)
                                    /\ procs[p].argv = None /\ ~procs[p].open}
  /\ refresh' = [on |-> TRUE, seen |-> Sample(listed)]
  /\ UNCHANGED <<procs, shells, state, book, agents, exits, todo, hooks, hookJob,
                 panes, moves, reopens>>

\* recognition::reconcile: one indexed transcript per process, and only a
\* terminal with one such conversation and a conversation in one terminal.
Evident(seen, indexed) ==
  {<<r.at, s>> : r \in Running(seen), s \in indexed} \cap
  UNION {{<<r.at, IF r.argv # None THEN r.argv ELSE r.file>>} : r \in Running(seen)}
\* The conversations a sample speaks of; which of them are indexed is open.
Named(seen) == Sessions \cap ({r.argv : r \in seen} \cup {r.file : r \in seen})
Unambiguous(links) ==
  {l \in links : \A k \in links : k[1] = l[1] \/ k[2] = l[2] => k = l}

\* The first refused link aborts the whole refresh, observe_processes included.
ApplyRefresh(indexed, rank) ==
  /\ refresh.on /\ Free
  /\ LET links == Unambiguous(Evident(refresh.seen, indexed)) IN
     IF links \in Accepted(book, links, rank)
       THEN /\ book' = Linked(book, links, FALSE)
            /\ todo' = refresh.seen
       ELSE UNCHANGED <<book, todo>>
  /\ refresh' = NoRefresh
  /\ UNCHANGED <<procs, shells, state, agents, exits, hooks, hookJob, panes, moves, reopens>>

\* Mutant: a recorded process is not registered with the kqueue.
WatchedWith_Skipped(p) == watched
\* ExitWatch::watch, for a process that is alive.
WatchedWith(p) == watched \cup {p}

\* One turn of observe_processes' loop, under the lock of the refresh or hook
\* that started it: a process with evidence for its terminal's conversation
\* stands for it, one in a bare terminal waits unbound, and each is watched.
\* A process that is gone by now is treated as if its exit had been reported.
ObserveOne(r) ==
  /\ r \in todo
  /\ todo' = todo \ {r}
  /\ LET shown == {s \in {r.argv, r.file} \cap Sessions : Holds(book, s, r.at)}
         stands == \E s \in shown : agentPids[r.pid] # s
         waits  == Bare(r.at) /\ unboundPids[r.pid] = None
     IN
     IF state[r.at] = "Running" /\ (stands \/ waits)
       THEN IF Alive(r.pid)
              THEN /\ IF stands
                        THEN /\ agentPids' = [agentPids EXCEPT ![r.pid] =
                                                CHOOSE s \in shown : TRUE]
                             /\ UNCHANGED unboundPids
                        ELSE /\ unboundPids' = [unboundPids EXCEPT ![r.pid] = r.at]
                             /\ UNCHANGED agentPids
                   /\ watched' = WatchedWith(r.pid)
                   /\ UNCHANGED book
              ELSE /\ UNCHANGED watched
                   /\ IF stands
                        THEN /\ book' = [s \in Sessions |-> IF s \in shown
                                  THEN [book[s] EXCEPT !.current = FALSE] ELSE book[s]]
                             /\ agentPids' = [agentPids EXCEPT ![r.pid] = None]
                             /\ unboundPids' = [unboundPids EXCEPT ![r.pid] = None]
                        ELSE Exited(r.pid)
       ELSE UNCHANGED <<book, agents>>
  /\ UNCHANGED <<procs, shells, state, exits, jobs, reopens>>

-----------------------------------------------------------------------------
(* Request::Hook (host/client.rs).                                          *)

\* A CLI's hook reports its conversation from a background process.
SendHook(p, ended) ==
  /\ Alive(p) /\ moves < MaxMoves
  /\ hooks' = hooks \cup {[pid |-> p, at |-> procs[p].at, talk |-> procs[p].talk,
                           ended |-> ended]}
  /\ moves' = moves + 1
  /\ UNCHANGED <<procs, shells, state, book, agents, exits, todo, refresh, hookJob,
                 panes, reopens>>

\* `intact`: the hook's caller chain still reaches its CLI.
BeginHook(h, intact) ==
  /\ ~hookJob.on /\ Free /\ InFlight < MaxJobs /\ h \in hooks
  /\ hooks' = hooks \ {h}
  /\ hookJob' = IF state[h.at] = "Running"
                  THEN [on |-> TRUE, hook |-> h, seen |-> Sample({}),
                        traced |-> intact /\ Alive(h.pid) /\ h.at \in shells]
                  ELSE NoHook
  /\ UNCHANGED <<procs, shells, state, book, agents, exits, todo, refresh, panes,
                 moves, reopens>>

\* The processes the hook's transcript is shown by: the caller's CLI, or, when
\* the caller has left the process tree, the only such CLI in the terminal.
HookShownBy(job) ==
  IF job.traced THEN {job.hook.pid}
  ELSE LET runs == {r.pid : r \in {x \in job.seen : x.at = job.hook.at}} IN
       IF ~job.hook.ended /\ Cardinality(runs) = 1 THEN runs ELSE {}

\* Mutant: the terminal is only looked at when the hook arrives.
HookRefused_StaleTerminal(h) == ~h.ended /\ Conflict(book, <<h.at, h.talk>>)
\* What apply_hook and observe_agent refuse under the lock.
HookRefused(h) ==
  \/ state[h.at] # "Running"
  \/ ~h.ended /\ Conflict(book, <<h.at, h.talk>>)

\* recognition::apply_hook: the process tree and the name agree here; both
\* need the terminal Running when the lock is taken.
ApplyHook ==
  /\ hookJob.on /\ Free
  /\ LET h == hookJob.hook IN
     IF HookRefused(h)
       THEN UNCHANGED <<book, todo>>
       ELSE /\ book' = IF h.ended
                         THEN [book EXCEPT ![h.talk] =
                                 [term |-> h.at, current |-> FALSE, screen |-> FALSE]]
                         ELSE Linked(book, {<<h.at, h.talk>>}, FALSE)
            /\ todo' = {[r EXCEPT !.file = IF r.pid \in HookShownBy(hookJob)
                                             THEN h.talk ELSE None] : r \in hookJob.seen}
  /\ hookJob' = NoHook
  /\ UNCHANGED <<procs, shells, state, agents, exits, refresh, hooks, panes, moves, reopens>>

-----------------------------------------------------------------------------
(* Association::associate_screens (host/association.rs).                    *)

\* Panes: an unbound process in a bare terminal, or one whose conversation
\* only the screen tied to it.
ReadPanes ==
  /\ ~panes.on /\ Free /\ InFlight < MaxJobs
  /\ LET unbound == {[pid |-> p, at |-> unboundPids[p], shown |-> None,
                        prompt |-> procs[p].talk] :
                       p \in {q \in Pids : unboundPids[q] # None /\ Bare(unboundPids[q])}}
         drawn == {p \in Pids : \E s \in Sessions :
                     s = agentPids[p] /\ book[s].current /\ book[s].screen}
         bound == {[pid |-> p, at |-> book[agentPids[p]].term, shown |-> agentPids[p],
                      prompt |-> procs[p].talk] :
                     p \in drawn}
     IN /\ unbound \cup bound # {}
        /\ panes' = [on |-> TRUE, seen |-> unbound \cup bound,
                     held |-> {s \in Sessions : book[s].current}]
  /\ UNCHANGED <<procs, shells, state, book, agents, exits, todo, refresh, hooks,
                 hookJob, moves, reopens>>

\* screen_bindings: a free conversation on the screen of exactly one pane.
Matches ==
  {<<w.at, s>> : w \in panes.seen, s \in Sessions \ panes.held} \cap
  {<<w.at, w.prompt>> :
     w \in {x \in panes.seen : /\ x.shown # x.prompt
                               /\ \A y \in panes.seen : y.at = x.at => y = x}}

\* The panes' processes now stand for what was bound; nothing is watched here.
ApplyScreens(links, rank) ==
  /\ panes.on /\ Free
  /\ links \subseteq Matches
  /\ \A k, l \in links : k[2] = l[2] => k = l
  /\ \E got \in Accepted(book, links, rank) :
       LET moved == {w \in panes.seen : <<w.at, w.prompt>> \in got} IN
       /\ book' = Linked(book, got, TRUE)
       /\ agentPids' = [p \in Pids |-> IF \E w \in moved : w.pid = p
                                         THEN (CHOOSE w \in moved : w.pid = p).prompt
                                         ELSE agentPids[p]]
       /\ unboundPids' = [p \in Pids |-> IF \E w \in moved : w.pid = p
                                           THEN None ELSE unboundPids[p]]
  /\ panes' = NoPanes
  /\ UNCHANGED <<procs, shells, state, watched, exits, todo, refresh, hooks, hookJob,
                 moves, reopens>>

-----------------------------------------------------------------------------
(* Ends: of an Agent, of a terminal, of the host.                           *)

\* The kqueue thread hands an exit to Host::agent_exited.
AgentExit(p) ==
  /\ p \in exits /\ Free
  /\ exits' = exits \ {p}
  /\ Exited(p)
  /\ UNCHANGED <<procs, shells, state, watched, todo, jobs, reopens>>

\* record_exit (host/live.rs) after the terminal's process was reaped.
RecordExit(t) ==
  /\ t \notin shells /\ state[t] = "Running" /\ Free
  /\ state' = [state EXCEPT ![t] = "Exited"]
  /\ book' = [s \in Sessions |->
                IF book[s].term = t THEN [book[s] EXCEPT !.current = FALSE] ELSE book[s]]
  /\ UNCHANGED <<procs, shells, agents, exits, todo, jobs, reopens>>

\* Mutant: the next host starts with the recorded pids of the last one.
FreshPids_Inherited(pids) == pids
\* Host.agent_pids and unbound_pids of a host that starts.
FreshPids(pids) == [p \in Pids |-> None]

\* Store::open_keeping in the next host.  A handoff keeps the terminals that
\* run; after a crash their PTYs are gone with the host that held them.
Reopen(kept) ==
  /\ reopens < MaxReopens
  /\ \/ kept = {}
     \/ Free /\ kept = {t \in shells : state[t] = "Running"}
  /\ reopens' = reopens + 1
  /\ shells' = shells \cap kept
  /\ state' = [t \in Terminals |-> IF t \notin kept /\ state[t] = "Running"
                                     THEN "Interrupted" ELSE state[t]]
  /\ book' = [s \in Sessions |-> [book[s] EXCEPT !.current = @ /\ book[s].term \in kept]]
  /\ agentPids' = FreshPids(agentPids)
  /\ unboundPids' = FreshPids(unboundPids)
  /\ watched' = {} /\ exits' = {} /\ todo' = {}
  /\ refresh' = NoRefresh /\ hookJob' = NoHook /\ panes' = NoPanes
  /\ UNCHANGED <<procs, hooks, moves>>

Next ==
  \/ \E p \in Pids, t \in Terminals, s \in Sessions, k \in Evidence : Start(p, t, s, k)
  \/ \E p \in Pids, s \in Sessions : Switch(p, s)
  \/ \E p \in Pids : Die(p)
  \/ \E t \in Terminals : ShellDies(t)
  \/ \E listed \in SUBSET Pids : BeginRefresh(listed)
  \/ \E indexed \in SUBSET Named(refresh.seen), rank \in Orders : ApplyRefresh(indexed, rank)
  \/ \E r \in todo : ObserveOne(r)
  \/ \E p \in Pids, ended \in BOOLEAN : SendHook(p, ended)
  \/ \E h \in hooks, intact \in BOOLEAN : BeginHook(h, intact)
  \/ ApplyHook
  \/ ReadPanes
  \/ \E links \in SUBSET Matches, rank \in Orders : ApplyScreens(links, rank)
  \/ \E p \in Pids : AgentExit(p)
  \/ \E t \in Terminals : RecordExit(t)
  \/ \E kept \in SUBSET Terminals : Reopen(kept)

Spec == Init /\ [][Next]_vars

-----------------------------------------------------------------------------
(* What the code promises.                                                  *)

\* A terminal has at most one current conversation, whichever of the three
\* evidence paths, with whatever stale sample, linked it (the index
\* one_current_agent_per_terminal of store.rs would refuse the commit).
OneCurrentPerTerminal ==
  \A t \in Terminals : \A r, s \in Sessions : Holds(book, r, t) /\ Holds(book, s, t) => r = s

\* The host implements Ownership: no step takes a current conversation away
\* to another terminal unless it gives that conversation's terminal to another
\* one (observe_agent's refusal, through stale samples, late hooks, several
\* links in one commit, and host restarts).
Own == INSTANCE Ownership WITH holder <- Holder
OwnershipSpec == Own!Init /\ [][Own!Next]_Holder

\* A live process that stands for a conversation, or waits for one, is
\* registered for its exit: through a handoff, a stale sample, a rebinding by
\* the screen or the exit of another process, no live Agent loses its watch.
LiveAgentIsWatched ==
  \A p \in Pids : Alive(p) /\ (agentPids[p] # None \/ unboundPids[p] # None) => p \in watched

\* A pid is only ever waiting unbound with its exit still to come, so that no
\* pane keeps the hint of a process that is gone (agent_exited's unhint).
UnboundPidWillExit ==
  \A p \in Pids : unboundPids[p] # None => p \in watched \cup exits

\* Nothing but the screen links a conversation to a terminal that no longer
\* runs: hooks and refreshes look at the terminal again under the lock.
EndedTerminalHoldsScreenOnly ==
  \A t \in Terminals : \A s \in Sessions :
    state[t] # "Running" /\ Holds(book, s, t) => book[s].screen
=============================================================================
