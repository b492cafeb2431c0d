------------------------- MODULE AgentBindingProofs -------------------------
(***************************************************************************)
(* The safety invariants of AgentBinding, for every value of its           *)
(* constants, from one inductive invariant, and that it implements         *)
(* Ownership.                                                              *)
(***************************************************************************)
EXTENDS AgentBinding, TLAPS

\* A process that was born is somewhere and talks to something.
Lived ==
  \A p \in Pids : procs[p].life # "unborn" =>
    procs[p].at \in Terminals /\ procs[p].talk \in Sessions

\* Only processes that were born are recorded, or in a sample of the panes.
Born ==
  /\ \A p \in Pids : agentPids[p] # None \/ unboundPids[p] # None => procs[p].life # "unborn"
  /\ \A w \in panes.seen : procs[w.pid].life # "unborn"

\* A live process in a sample of the panes is watched: it stands for a
\* conversation, or waits for one, when the sample is taken, and keeps its watch.
PanesWatched == \A w \in panes.seen : Alive(w.pid) => w.pid \in watched

\* A current conversation has a terminal.
CurrentHasTerminal == \A s \in Sessions : book[s].current => book[s].term \in Terminals

\* The inductive invariant.
Inv ==
  /\ TypeOK /\ Lived /\ Born /\ PanesWatched /\ CurrentHasTerminal
  /\ OneCurrentPerTerminal /\ LiveAgentIsWatched /\ UnboundPidWillExit
  /\ EndedTerminalHoldsScreenOnly

-----------------------------------------------------------------------------
(* What observe_agent's links do to the book.                               *)

\* Linking keeps the type of the book.
LEMMA LinkedType ==
  ASSUME NEW b \in [Sessions -> Link], NEW links \in SUBSET (Terminals \X Sessions),
         NEW viaScreen \in BOOLEAN
  PROVE  Linked(b, links, viaScreen) \in [Sessions -> Link]
<1> SUFFICES ASSUME NEW s \in Sessions
             PROVE  Linked(b, links, viaScreen)[s] \in Link
  BY DEF Linked
<1>1. CASE \E t \in Terminals : <<t, s>> \in links
  <2>1. (CHOOSE t \in Terminals : <<t, s>> \in links) \in Terminals
    BY <1>1
  <2> QED BY <1>1, <2>1 DEF Linked, Link, Place
<1>2. CASE ~ \E t \in Terminals : <<t, s>> \in links
  BY <1>2 DEF Linked, Link, Place
<1> QED BY <1>1, <1>2

\* A conversation is current after linking because it was linked, or because it
\* was current and no link touched it or its terminal.
LEMMA LinkedCurrent ==
  ASSUME NEW b \in [Sessions -> Link], NEW links \in SUBSET (Terminals \X Sessions),
         NEW viaScreen, NEW s \in Sessions, NEW t \in Place,
         Holds(Linked(b, links, viaScreen), s, t)
  PROVE  \/ /\ t \in Terminals /\ <<t, s>> \in links
            /\ Linked(b, links, viaScreen)[s].screen = viaScreen
         \/ /\ Holds(b, s, t) /\ \A x \in Sessions : <<t, x>> \notin links
            /\ Linked(b, links, viaScreen)[s].screen = b[s].screen
<1>1. CASE \E u \in Terminals : <<u, s>> \in links
  <2>1. <<CHOOSE u \in Terminals : <<u, s>> \in links, s>> \in links
        /\ (CHOOSE u \in Terminals : <<u, s>> \in links) \in Terminals
    BY <1>1
  <2> QED BY <1>1, <2>1 DEF Linked, Holds
<1>2. CASE ~ \E u \in Terminals : <<u, s>> \in links
  BY <1>2 DEF Linked, Holds, Link
<1> QED BY <1>1, <1>2

\* Links with one conversation per terminal keep one per terminal.
LEMMA LinkedOne ==
  ASSUME NEW b \in [Sessions -> Link], NEW links \in SUBSET (Terminals \X Sessions),
         NEW viaScreen \in BOOLEAN,
         \A k, l \in links : k[1] = l[1] => k = l,
         \A t \in Terminals : \A r, s \in Sessions : Holds(b, r, t) /\ Holds(b, s, t) => r = s
  PROVE  \A t \in Terminals : \A r, s \in Sessions :
           Holds(Linked(b, links, viaScreen), r, t) /\ Holds(Linked(b, links, viaScreen), s, t)
             => r = s
<1> SUFFICES ASSUME NEW t \in Terminals, NEW r \in Sessions, NEW s \in Sessions,
                    Holds(Linked(b, links, viaScreen), r, t),
                    Holds(Linked(b, links, viaScreen), s, t)
             PROVE  r = s
  OBVIOUS
<1>0. t \in Place
  BY DEF Place
<1>1. <<t, r>> \in links \/ (Holds(b, r, t) /\ \A x \in Sessions : <<t, x>> \notin links)
  BY <1>0, LinkedCurrent
<1>2. <<t, s>> \in links \/ (Holds(b, s, t) /\ \A x \in Sessions : <<t, x>> \notin links)
  BY <1>0, LinkedCurrent
<1>3. CASE <<t, r>> \in links /\ <<t, s>> \in links
  <2>1. <<t, r>>[1] = <<t, s>>[1] => <<t, r>> = <<t, s>>
    BY <1>3
  <2> QED BY <2>1
<1> QED BY <1>1, <1>2, <1>3

\* A current conversation has a terminal after linking, too.
LEMMA LinkedHasTerminal ==
  ASSUME NEW b \in [Sessions -> Link], NEW links \in SUBSET (Terminals \X Sessions),
         NEW viaScreen \in BOOLEAN,
         \A s \in Sessions : b[s].current => b[s].term \in Terminals
  PROVE  \A s \in Sessions : Linked(b, links, viaScreen)[s].current =>
           Linked(b, links, viaScreen)[s].term \in Terminals
<1> SUFFICES ASSUME NEW s \in Sessions, Linked(b, links, viaScreen)[s].current
             PROVE  Linked(b, links, viaScreen)[s].term \in Terminals
  OBVIOUS
<1> DEFINE t == Linked(b, links, viaScreen)[s].term
<1>1. t \in Place
  <2>1. Linked(b, links, viaScreen)[s] \in Link
    BY LinkedType
  <2> QED BY <2>1 DEF Link
<1>2. Holds(Linked(b, links, viaScreen), s, t)
  BY DEF Holds
<1>3. t \in Terminals \/ Holds(b, s, t)
  BY <1>1, <1>2, LinkedCurrent
<1> QED BY <1>3 DEF Holds

\* What a commit of links keeps, whichever path of evidence made it: one
\* conversation per terminal, and none in an ended terminal but by the screen.
LEMMA LinkedInv ==
  ASSUME Inv, NEW links \in SUBSET (Terminals \X Sessions), NEW viaScreen \in BOOLEAN,
         \A k, l \in links : k[1] = l[1] => k = l,
         viaScreen \/ \A l \in links : state[l[1]] = "Running",
         book' = Linked(book, links, viaScreen), UNCHANGED state
  PROVE  /\ book' \in [Sessions -> Link]
         /\ CurrentHasTerminal' /\ OneCurrentPerTerminal' /\ EndedTerminalHoldsScreenOnly'
<1>0. book \in [Sessions -> Link]
  BY DEF Inv, TypeOK
<1>1. book' \in [Sessions -> Link]
  BY <1>0, LinkedType
<1>2. CurrentHasTerminal'
  BY <1>0, LinkedHasTerminal DEF Inv, CurrentHasTerminal
<1>3. OneCurrentPerTerminal'
  BY <1>0, LinkedOne DEF Inv, OneCurrentPerTerminal
<1>4. EndedTerminalHoldsScreenOnly'
  <2> SUFFICES ASSUME NEW t \in Terminals, NEW s \in Sessions, state[t] # "Running",
                      Holds(Linked(book, links, viaScreen), s, t)
               PROVE  Linked(book, links, viaScreen)[s].screen
    BY DEF EndedTerminalHoldsScreenOnly, Holds
  <2>1. t \in Place
    BY DEF Place
  <2>2. \/ <<t, s>> \in links /\ Linked(book, links, viaScreen)[s].screen = viaScreen
        \/ Holds(book, s, t) /\ Linked(book, links, viaScreen)[s].screen = book[s].screen
    BY <1>0, <2>1, LinkedCurrent
  <2>3. CASE <<t, s>> \in links /\ Linked(book, links, viaScreen)[s].screen = viaScreen
    <3>1. <<t, s>>[1] = t
      OBVIOUS
    <3> QED BY <2>3, <3>1
  <2>4. CASE Holds(book, s, t) /\ Linked(book, links, viaScreen)[s].screen = book[s].screen
    BY <2>4 DEF Inv, EndedTerminalHoldsScreenOnly
  <2> QED BY <2>2, <2>3, <2>4
<1> QED BY <1>1, <1>2, <1>3, <1>4

-----------------------------------------------------------------------------
(* The initial state.                                                       *)

LEMMA InitInv == ASSUME Init PROVE Inv
<1>1. TypeOK
  BY BoundsAssumption DEF Init, TypeOK, Proc, Link, Place, Conversation, Seen, Hook, Pane,
     NoRefresh, NoHook, NoPanes
<1>2. Lived /\ Born /\ PanesWatched /\ CurrentHasTerminal
  BY DEF Init, Lived, Born, PanesWatched, CurrentHasTerminal, NoPanes
<1>3. OneCurrentPerTerminal /\ LiveAgentIsWatched /\ UnboundPidWillExit
      /\ EndedTerminalHoldsScreenOnly
  BY DEF Init, OneCurrentPerTerminal, LiveAgentIsWatched, UnboundPidWillExit,
     EndedTerminalHoldsScreenOnly, Holds, Alive
<1> QED BY <1>1, <1>2, <1>3 DEF Inv

-----------------------------------------------------------------------------
(* The world outside the host.                                              *)

LEMMA StartInv ==
  ASSUME Inv, NEW p \in Pids, NEW t \in Terminals, NEW s \in Sessions, NEW k \in Evidence,
         Start(p, t, s, k)
  PROVE  Inv'
<1> USE DEF Inv, Start, agents, jobs
<1>1. TypeOK'
  BY DEF TypeOK, Proc, Place, Conversation
<1>2. Lived' /\ Born' /\ CurrentHasTerminal'
  BY DEF TypeOK, Lived, Born, CurrentHasTerminal
<1>3. PanesWatched'
  BY DEF TypeOK, Born, PanesWatched, Alive
<1>4. OneCurrentPerTerminal' /\ UnboundPidWillExit' /\ EndedTerminalHoldsScreenOnly'
  BY DEF OneCurrentPerTerminal, UnboundPidWillExit, EndedTerminalHoldsScreenOnly, Holds
<1>5. LiveAgentIsWatched'
  BY DEF TypeOK, Born, LiveAgentIsWatched, Alive
<1> QED BY <1>1, <1>2, <1>3, <1>4, <1>5 DEF Inv

LEMMA SwitchInv ==
  ASSUME Inv, NEW p \in Pids, NEW s \in Sessions, Switch(p, s)
  PROVE  Inv'
<1> USE DEF Inv, Switch, agents
<1>1. TypeOK'
  BY BoundsAssumption DEF TypeOK, Proc, Place, Conversation
<1>2. Lived' /\ Born' /\ CurrentHasTerminal'
  BY DEF TypeOK, Lived, Born, CurrentHasTerminal
<1>3. PanesWatched' /\ LiveAgentIsWatched'
  BY DEF TypeOK, PanesWatched, LiveAgentIsWatched, Alive
<1>4. OneCurrentPerTerminal' /\ UnboundPidWillExit' /\ EndedTerminalHoldsScreenOnly'
  BY DEF OneCurrentPerTerminal, UnboundPidWillExit, EndedTerminalHoldsScreenOnly, Holds
<1> QED BY <1>1, <1>2, <1>3, <1>4 DEF Inv

LEMMA DieInv ==
  ASSUME Inv, NEW p \in Pids, Die(p)
  PROVE  Inv'
<1> USE DEF Inv, Die, jobs
<1>1. TypeOK'
  BY DEF TypeOK, Proc
<1>2. Lived' /\ Born' /\ CurrentHasTerminal'
  BY DEF TypeOK, Lived, Born, CurrentHasTerminal, Alive
<1>3. PanesWatched' /\ LiveAgentIsWatched'
  BY DEF TypeOK, PanesWatched, LiveAgentIsWatched, Alive
<1>4. OneCurrentPerTerminal' /\ UnboundPidWillExit' /\ EndedTerminalHoldsScreenOnly'
  BY DEF OneCurrentPerTerminal, UnboundPidWillExit, EndedTerminalHoldsScreenOnly, Holds
<1> QED BY <1>1, <1>2, <1>3, <1>4 DEF Inv

LEMMA ShellDiesInv ==
  ASSUME Inv, NEW t \in Terminals, ShellDies(t)
  PROVE  Inv'
BY DEF Inv, ShellDies, agents, jobs, TypeOK, Lived, Born, PanesWatched, CurrentHasTerminal,
   OneCurrentPerTerminal, LiveAgentIsWatched, UnboundPidWillExit,
   EndedTerminalHoldsScreenOnly, Holds, Alive

-----------------------------------------------------------------------------
(* Evidence: the processes, the hooks.                                      *)

\* A sample holds live processes in live terminals.
LEMMA SampleType ==
  ASSUME TypeOK, Lived, NEW listed \in SUBSET Pids
  PROVE  Sample(listed) \in SUBSET Seen
BY DEF TypeOK, Lived, Sample, Seen, Proc, Place, Conversation, Alive

LEMMA BeginRefreshInv ==
  ASSUME Inv, NEW listed \in SUBSET Pids, BeginRefresh(listed)
  PROVE  Inv'
<1> USE DEF Inv, BeginRefresh, agents
<1>1. Sample(listed) \in SUBSET Seen
  BY SampleType
<1>2. TypeOK'
  BY <1>1 DEF TypeOK
<1>3. Lived' /\ Born' /\ CurrentHasTerminal' /\ PanesWatched' /\ LiveAgentIsWatched'
  BY DEF Lived, Born, CurrentHasTerminal, PanesWatched, LiveAgentIsWatched, Alive
<1>4. OneCurrentPerTerminal' /\ UnboundPidWillExit' /\ EndedTerminalHoldsScreenOnly'
  BY DEF OneCurrentPerTerminal, UnboundPidWillExit, EndedTerminalHoldsScreenOnly, Holds
<1> QED BY <1>2, <1>3, <1>4 DEF Inv

\* What the evidence of a sample links: one conversation per terminal, and only
\* terminals that run when the sample is applied.
LEMMA EvidentLinks ==
  ASSUME NEW seen \in SUBSET Seen, NEW indexed \in SUBSET Sessions
  PROVE  /\ Unambiguous(Evident(seen, indexed)) \in SUBSET (Terminals \X Sessions)
         /\ \A k, l \in Unambiguous(Evident(seen, indexed)) : k[1] = l[1] => k = l
         /\ \A l \in Unambiguous(Evident(seen, indexed)) : state[l[1]] = "Running"
<1>1. Evident(seen, indexed) \in SUBSET (Terminals \X Sessions)
  BY DEF Evident, Running, Seen
<1>2. \A l \in Evident(seen, indexed) : state[l[1]] = "Running"
  BY DEF Evident, Running
<1> QED BY <1>1, <1>2 DEF Unambiguous

LEMMA ApplyRefreshInv ==
  ASSUME Inv, NEW indexed \in SUBSET Sessions, NEW rank, ApplyRefresh(indexed, rank)
  PROVE  Inv'
<1> DEFINE links == Unambiguous(Evident(refresh.seen, indexed))
<1>0. PICK viaScreen \in BOOLEAN : viaScreen = FALSE
  OBVIOUS
<1>1. /\ links \in SUBSET (Terminals \X Sessions)
      /\ \A k, l \in links : k[1] = l[1] => k = l
      /\ \A l \in links : state[l[1]] = "Running"
  BY EvidentLinks DEF Inv, TypeOK
<1>2. \/ book' = Linked(book, links, viaScreen) /\ todo' = refresh.seen
      \/ UNCHANGED <<book, todo>>
  BY <1>0 DEF ApplyRefresh
<1>3. /\ refresh' = NoRefresh
      /\ UNCHANGED <<procs, shells, state, agents, exits, hooks, hookJob, panes, moves, reopens>>
  BY DEF ApplyRefresh
<1> HIDE DEF links
<1>4. /\ book' \in [Sessions -> Link]
      /\ CurrentHasTerminal' /\ OneCurrentPerTerminal' /\ EndedTerminalHoldsScreenOnly'
  <2>1. CASE UNCHANGED book
    BY <2>1, <1>3 DEF Inv, TypeOK, CurrentHasTerminal, OneCurrentPerTerminal,
       EndedTerminalHoldsScreenOnly, Holds
  <2>2. CASE book' = Linked(book, links, viaScreen)
    BY <2>2, <1>1, <1>3, LinkedInv
  <2> QED BY <1>2, <2>1, <2>2
<1>5. TypeOK'
  BY <1>2, <1>3, <1>4 DEF Inv, TypeOK, NoRefresh, agents
<1>6. Lived' /\ Born' /\ PanesWatched' /\ LiveAgentIsWatched' /\ UnboundPidWillExit'
  BY <1>3 DEF Inv, Lived, Born, PanesWatched, LiveAgentIsWatched, UnboundPidWillExit, Alive,
     agents
<1> QED BY <1>4, <1>5, <1>6 DEF Inv

LEMMA SendHookInv ==
  ASSUME Inv, NEW p \in Pids, NEW ended \in BOOLEAN, SendHook(p, ended)
  PROVE  Inv'
<1> USE DEF Inv, SendHook, agents
<1>1. TypeOK'
  BY BoundsAssumption DEF TypeOK, Lived, Hook, Alive
<1>2. Lived' /\ Born' /\ CurrentHasTerminal' /\ PanesWatched' /\ LiveAgentIsWatched'
  BY DEF Lived, Born, CurrentHasTerminal, PanesWatched, LiveAgentIsWatched, Alive
<1>3. OneCurrentPerTerminal' /\ UnboundPidWillExit' /\ EndedTerminalHoldsScreenOnly'
  BY DEF OneCurrentPerTerminal, UnboundPidWillExit, EndedTerminalHoldsScreenOnly, Holds
<1> QED BY <1>1, <1>2, <1>3 DEF Inv

LEMMA BeginHookInv ==
  ASSUME Inv, NEW h \in hooks, NEW intact \in BOOLEAN, BeginHook(h, intact)
  PROVE  Inv'
<1> USE DEF Inv, BeginHook, agents
<1>1. TypeOK'
  <2>1. Sample({}) \in SUBSET Seen
    BY SampleType
  <2>2. h \in Hook /\ (intact /\ Alive(h.pid) /\ h.at \in shells) \in BOOLEAN
    BY DEF TypeOK, Alive
  <2> QED BY <2>1, <2>2 DEF TypeOK, NoHook
<1>2. Lived' /\ Born' /\ CurrentHasTerminal' /\ PanesWatched' /\ LiveAgentIsWatched'
  BY DEF Lived, Born, CurrentHasTerminal, PanesWatched, LiveAgentIsWatched, Alive
<1>3. OneCurrentPerTerminal' /\ UnboundPidWillExit' /\ EndedTerminalHoldsScreenOnly'
  BY DEF OneCurrentPerTerminal, UnboundPidWillExit, EndedTerminalHoldsScreenOnly, Holds
<1> QED BY <1>1, <1>2, <1>3 DEF Inv

-----------------------------------------------------------------------------
(* Under the lock: the loop over a sample, the hooks.                       *)

\* A step that only ends conversations keeps what the book promises.
LEMMA EndedInv ==
  ASSUME Inv, UNCHANGED state, book' \in [Sessions -> Link],
         \A s \in Sessions : book'[s].current =>
           book[s].current /\ book'[s].term = book[s].term /\ book'[s].screen = book[s].screen
  PROVE  CurrentHasTerminal' /\ OneCurrentPerTerminal' /\ EndedTerminalHoldsScreenOnly'
BY DEF Inv, TypeOK, CurrentHasTerminal, OneCurrentPerTerminal, EndedTerminalHoldsScreenOnly,
   Holds

\* An exit forgets its process and ends what the process stood for.
LEMMA ExitedBook ==
  ASSUME TypeOK, NEW p \in Pids, Exited(p)
  PROVE  /\ book' \in [Sessions -> Link]
         /\ \A s \in Sessions : book'[s].current =>
              book[s].current /\ book'[s].term = book[s].term /\ book'[s].screen = book[s].screen
         /\ agentPids' = [agentPids EXCEPT ![p] = None]
         /\ unboundPids' = [unboundPids EXCEPT ![p] = None]
<1>1. book \in [Sessions -> Link]
  BY DEF TypeOK
<1>2. book' = [s \in Sessions |->
                IF s = agentPids[p] THEN [book[s] EXCEPT !.current = FALSE] ELSE book[s]]
  BY DEF Exited
<1>3. /\ book' \in [Sessions -> Link]
      /\ \A s \in Sessions : book'[s].current =>
           book[s].current /\ book'[s].term = book[s].term /\ book'[s].screen = book[s].screen
  BY <1>1, <1>2 DEF Link
<1> QED BY <1>3 DEF Exited

LEMMA ObserveOneInv ==
  ASSUME Inv, NEW r \in todo, ObserveOne(r)
  PROVE  Inv'
<1> DEFINE shown == {s \in {r.argv, r.file} \cap Sessions : Holds(book, s, r.at)}
           stands == \E s \in shown : agentPids[r.pid] # s
           waits  == Bare(r.at) /\ unboundPids[r.pid] = None
<1>1. /\ r \in Seen /\ r.pid \in Pids /\ r.at \in Terminals /\ r.at \in Place
      /\ None \in Place /\ None \in Conversation
      /\ (CHOOSE s \in shown : TRUE) \in Conversation \/ ~stands
  BY DEF Inv, TypeOK, Seen, Place, Conversation
<1>2. /\ todo' = todo \ {r}
      /\ UNCHANGED <<procs, shells, state, exits, jobs, reopens>>
  BY DEF ObserveOne
<1>3. \/ /\ Alive(r.pid) /\ stands
         /\ agentPids' = [agentPids EXCEPT ![r.pid] = CHOOSE s \in shown : TRUE]
         /\ watched' = watched \cup {r.pid} /\ UNCHANGED <<unboundPids, book>>
      \/ /\ Alive(r.pid) /\ ~stands
         /\ unboundPids' = [unboundPids EXCEPT ![r.pid] = r.at]
         /\ watched' = watched \cup {r.pid} /\ UNCHANGED <<agentPids, book>>
      \/ /\ UNCHANGED watched
         /\ book' = [s \in Sessions |-> IF s \in shown
                       THEN [book[s] EXCEPT !.current = FALSE] ELSE book[s]]
         /\ agentPids' = [agentPids EXCEPT ![r.pid] = None]
         /\ unboundPids' = [unboundPids EXCEPT ![r.pid] = None]
      \/ UNCHANGED watched /\ Exited(r.pid)
      \/ UNCHANGED <<book, agents>>
  BY DEF ObserveOne, WatchedWith
<1> HIDE DEF shown, stands, waits
<1>4. /\ book' \in [Sessions -> Link]
      /\ \A s \in Sessions : book'[s].current =>
           book[s].current /\ book'[s].term = book[s].term /\ book'[s].screen = book[s].screen
  <2>1. book \in [Sessions -> Link] /\ TypeOK
    BY DEF Inv, TypeOK
  <2>2. CASE UNCHANGED book
    BY <2>1, <2>2
  <2>3. CASE book' = [s \in Sessions |-> IF s \in shown
                       THEN [book[s] EXCEPT !.current = FALSE] ELSE book[s]]
    BY <2>1, <2>3 DEF Link
  <2>4. CASE Exited(r.pid)
    BY <1>1, <2>1, <2>4, ExitedBook
  <2> QED BY <1>3, <2>2, <2>3, <2>4
<1>5. \/ /\ Alive(r.pid) /\ stands /\ watched' = watched \cup {r.pid}
         /\ agentPids' = [agentPids EXCEPT ![r.pid] = CHOOSE s \in shown : TRUE]
         /\ UNCHANGED unboundPids
      \/ /\ Alive(r.pid) /\ ~stands /\ watched' = watched \cup {r.pid}
         /\ unboundPids' = [unboundPids EXCEPT ![r.pid] = r.at]
         /\ UNCHANGED agentPids
      \/ /\ UNCHANGED watched
         /\ agentPids' = [agentPids EXCEPT ![r.pid] = None]
         /\ unboundPids' = [unboundPids EXCEPT ![r.pid] = None]
      \/ UNCHANGED agents
  BY <1>1, <1>3, ExitedBook DEF Inv, agents
<1>6. TypeOK'
  <2>1. /\ agentPids \in [Pids -> Conversation] /\ unboundPids \in [Pids -> Place]
        /\ watched \subseteq Pids
    BY DEF Inv, TypeOK
  <2>2. /\ agentPids' \in [Pids -> Conversation] /\ unboundPids' \in [Pids -> Place]
        /\ watched' \subseteq Pids
    BY <2>1, <1>1, <1>5 DEF agents
  <2> QED BY <1>2, <1>4, <2>2 DEF Inv, TypeOK, jobs
<1>7. Lived' /\ Born'
  BY <1>1, <1>2, <1>5 DEF Inv, TypeOK, Lived, Born, Alive, agents, jobs
<1>8. PanesWatched' /\ LiveAgentIsWatched' /\ UnboundPidWillExit'
  BY <1>1, <1>2, <1>5 DEF Inv, TypeOK, PanesWatched, LiveAgentIsWatched, UnboundPidWillExit,
     Alive, agents, jobs
<1>9. CurrentHasTerminal' /\ OneCurrentPerTerminal' /\ EndedTerminalHoldsScreenOnly'
  BY <1>2, <1>4, EndedInv
<1> QED BY <1>6, <1>7, <1>8, <1>9 DEF Inv

LEMMA ApplyHookInv ==
  ASSUME Inv, ApplyHook
  PROVE  Inv'
<1> DEFINE h == hookJob.hook
           seen == {[r EXCEPT !.file = IF r.pid \in HookShownBy(hookJob)
                                         THEN h.talk ELSE None] : r \in hookJob.seen}
<1>0. PICK viaScreen \in BOOLEAN : viaScreen = FALSE
  OBVIOUS
<1>1. /\ h \in Hook /\ h.at \in Terminals /\ h.talk \in Sessions
      /\ seen \in SUBSET Seen
  BY DEF Inv, TypeOK, ApplyHook, Hook, Seen, Conversation
<1>2. /\ hookJob' = NoHook
      /\ UNCHANGED <<procs, shells, state, agents, exits, refresh, hooks, panes, moves, reopens>>
  BY DEF ApplyHook
<1>3. \/ UNCHANGED <<book, todo>>
      \/ /\ todo' = seen /\ state[h.at] = "Running"
         /\ \/ book' = [book EXCEPT ![h.talk] =
                          [term |-> h.at, current |-> FALSE, screen |-> FALSE]]
            \/ book' = Linked(book, {<<h.at, h.talk>>}, viaScreen)
  BY <1>0 DEF ApplyHook, HookRefused
<1> HIDE DEF h, seen
<1>4. /\ book' \in [Sessions -> Link]
      /\ CurrentHasTerminal' /\ OneCurrentPerTerminal' /\ EndedTerminalHoldsScreenOnly'
  <2>1. CASE UNCHANGED book
    BY <2>1, <1>2, EndedInv DEF Inv, TypeOK
  <2>2. CASE book' = [book EXCEPT ![h.talk] =
                        [term |-> h.at, current |-> FALSE, screen |-> FALSE]]
    <3>1. book' \in [Sessions -> Link]
      BY <1>1, <2>2 DEF Inv, TypeOK, Link, Place
    <3> QED BY <1>1, <1>2, <2>2, <3>1, EndedInv DEF Inv, TypeOK, Link
  <2>3. CASE /\ book' = Linked(book, {<<h.at, h.talk>>}, viaScreen)
             /\ state[h.at] = "Running"
    <3> DEFINE links == {<<h.at, h.talk>>}
    <3>1. /\ links \in SUBSET (Terminals \X Sessions)
          /\ \A k, l \in links : k[1] = l[1] => k = l
          /\ \A l \in links : state[l[1]] = "Running"
      BY <1>1, <2>3
    <3>2. book' = Linked(book, links, viaScreen)
      BY <2>3
    <3> HIDE DEF links
    <3> QED BY <3>1, <3>2, <1>2, LinkedInv
  <2> QED BY <1>3, <2>1, <2>2, <2>3
<1>5. TypeOK'
  BY <1>1, <1>2, <1>3, <1>4 DEF Inv, TypeOK, NoHook, agents
<1>6. Lived' /\ Born' /\ PanesWatched' /\ LiveAgentIsWatched' /\ UnboundPidWillExit'
  BY <1>2 DEF Inv, Lived, Born, PanesWatched, LiveAgentIsWatched, UnboundPidWillExit, Alive,
     agents
<1> QED BY <1>4, <1>5, <1>6 DEF Inv

-----------------------------------------------------------------------------
(* The screens.                                                             *)

LEMMA ReadPanesInv ==
  ASSUME Inv, ReadPanes
  PROVE  Inv'
<1> DEFINE unbound == {[pid |-> p, at |-> unboundPids[p], shown |-> None,
                          prompt |-> procs[p].talk] :
                         p \in {q \in Pids : unboundPids[q] # None /\ Bare(unboundPids[q])}}
           drawn == {p \in Pids : \E s \in Sessions :
                       s = agentPids[p] /\ book[s].current /\ book[s].screen}
           bound == {[pid |-> p, at |-> book[agentPids[p]].term, shown |-> agentPids[p],
                        prompt |-> procs[p].talk] : p \in drawn}
           held == {s \in Sessions : book[s].current}
<1>1. /\ panes' = [on |-> TRUE, seen |-> unbound \cup bound, held |-> held]
      /\ UNCHANGED <<procs, shells, state, book, agents, exits, todo, refresh, hooks,
                     hookJob, moves, reopens>>
  BY DEF ReadPanes
<1>2. unbound \in SUBSET Pane
  BY DEF Inv, TypeOK, Born, Lived, Pane, Place, Conversation
<1>3. \A p \in drawn : /\ agentPids[p] \in Sessions /\ agentPids[p] # None
                       /\ book[agentPids[p]].term \in Terminals /\ procs[p].talk \in Sessions
  <2> SUFFICES ASSUME NEW p \in drawn
               PROVE  /\ agentPids[p] \in Sessions /\ agentPids[p] # None
                      /\ book[agentPids[p]].term \in Terminals /\ procs[p].talk \in Sessions
    OBVIOUS
  <2>1. /\ agentPids[p] \in Sessions /\ agentPids[p] # None
        /\ book[agentPids[p]].term \in Terminals
    BY NoneAssumption DEF Inv, CurrentHasTerminal
  <2> QED BY <2>1 DEF Inv, Born, Lived
<1>4. bound \in SUBSET Pane
  BY <1>3 DEF Pane, Conversation
<1>5. \A w \in unbound \cup bound :
        w.pid \in Pids /\ (agentPids[w.pid] # None \/ unboundPids[w.pid] # None)
  BY <1>3
<1> HIDE DEF unbound, bound, held
<1>6. TypeOK'
  <2>1. held \in SUBSET Sessions
    BY DEF held
  <2> QED BY <1>1, <1>2, <1>4, <2>1 DEF Inv, TypeOK, agents
<1>7. Lived' /\ Born' /\ PanesWatched' /\ LiveAgentIsWatched' /\ UnboundPidWillExit'
  BY <1>1, <1>5 DEF Inv, Lived, Born, PanesWatched, LiveAgentIsWatched, UnboundPidWillExit,
     Alive, agents
<1>8. CurrentHasTerminal' /\ OneCurrentPerTerminal' /\ EndedTerminalHoldsScreenOnly'
  BY <1>1 DEF Inv, CurrentHasTerminal, OneCurrentPerTerminal, EndedTerminalHoldsScreenOnly,
     Holds
<1> QED BY <1>6, <1>7, <1>8 DEF Inv

\* Panes that are alone in their terminal give it one link at most.
LEMMA MatchesLinks ==
  ASSUME TypeOK
  PROVE  /\ Matches \in SUBSET (Terminals \X Sessions)
         /\ \A k, l \in Matches : k[1] = l[1] => k = l
<1>1. panes.seen \in SUBSET Pane
  BY DEF TypeOK
<1>2. \A w \in panes.seen : w.at \in Terminals /\ w.prompt \in Sessions
  BY <1>1 DEF Pane
<1>3. \A l \in Matches : \E w \in panes.seen :
        /\ l = <<w.at, w.prompt>>
        /\ \A y \in panes.seen : y.at = w.at => y = w
  BY DEF Matches
<1>4. Matches \in SUBSET (Terminals \X Sessions)
  BY <1>2, <1>3
<1>5. ASSUME NEW k \in Matches, NEW l \in Matches, k[1] = l[1]
      PROVE  k = l
  <2>1. PICK v \in panes.seen : k = <<v.at, v.prompt>>
    BY <1>3
  <2>2. PICK w \in panes.seen : /\ l = <<w.at, w.prompt>>
                                /\ \A y \in panes.seen : y.at = w.at => y = w
    BY <1>3
  <2>3. v.at = w.at
    BY <1>5, <2>1, <2>2
  <2> QED BY <2>1, <2>2, <2>3
<1> QED BY <1>4, <1>5

LEMMA ApplyScreensInv ==
  ASSUME Inv, NEW links \in SUBSET Matches, NEW rank, ApplyScreens(links, rank)
  PROVE  Inv'
<1> DEFINE Moved(got) == {w \in panes.seen : <<w.at, w.prompt>> \in got}
<1>0. PICK viaScreen \in BOOLEAN : viaScreen = TRUE
  OBVIOUS
<1>1. PICK got \in Accepted(book, links, rank) :
        /\ book' = Linked(book, got, viaScreen)
        /\ agentPids' = [p \in Pids |-> IF \E w \in Moved(got) : w.pid = p
                             THEN (CHOOSE w \in Moved(got) : w.pid = p).prompt
                             ELSE agentPids[p]]
        /\ unboundPids' = [p \in Pids |-> IF \E w \in Moved(got) : w.pid = p
                             THEN None ELSE unboundPids[p]]
  BY <1>0 DEF ApplyScreens
<1>2. /\ panes' = NoPanes
      /\ UNCHANGED <<procs, shells, state, watched, exits, todo, refresh, hooks, hookJob,
                     moves, reopens>>
  BY DEF ApplyScreens
<1>3. /\ got \in SUBSET (Terminals \X Sessions)
      /\ \A k, l \in got : k[1] = l[1] => k = l
  <2>1. got \in SUBSET Matches
    BY DEF Accepted
  <2> QED BY <2>1, MatchesLinks DEF Inv
<1>4. /\ book' \in [Sessions -> Link]
      /\ CurrentHasTerminal' /\ OneCurrentPerTerminal' /\ EndedTerminalHoldsScreenOnly'
  BY <1>0, <1>1, <1>2, <1>3, LinkedInv
<1>5. \A p \in Pids :
        \/ agentPids'[p] = agentPids[p] /\ unboundPids'[p] = unboundPids[p]
        \/ /\ agentPids'[p] \in Conversation /\ unboundPids'[p] = None
           /\ \E w \in panes.seen : w.pid = p
  <2> SUFFICES ASSUME NEW p \in Pids, NEW v \in Moved(got), v.pid = p
               PROVE  /\ agentPids'[p] \in Conversation /\ unboundPids'[p] = None
                      /\ \E w \in panes.seen : w.pid = p
    BY <1>1
  <2>1. (CHOOSE w \in Moved(got) : w.pid = p) \in panes.seen
    OBVIOUS
  <2>2. (CHOOSE w \in Moved(got) : w.pid = p).prompt \in Sessions
    BY <2>1 DEF Inv, TypeOK, Pane
  <2> QED BY <1>1, <2>2 DEF Conversation
<1> HIDE DEF Moved
<1>6. TypeOK'
  <2>1. agentPids' \in [Pids -> Conversation] /\ unboundPids' \in [Pids -> Place]
    BY <1>1, <1>5 DEF Inv, TypeOK, Place
  <2> QED BY <1>2, <1>4, <2>1 DEF Inv, TypeOK, NoPanes
<1>7. Lived' /\ Born' /\ PanesWatched'
  BY <1>2, <1>5 DEF Inv, Lived, Born, PanesWatched, NoPanes
<1>8. LiveAgentIsWatched' /\ UnboundPidWillExit'
  BY <1>2, <1>5 DEF Inv, LiveAgentIsWatched, UnboundPidWillExit, PanesWatched, Alive
<1> QED BY <1>4, <1>6, <1>7, <1>8 DEF Inv

-----------------------------------------------------------------------------
(* Ends.                                                                    *)

LEMMA AgentExitInv ==
  ASSUME Inv, NEW p \in Pids, AgentExit(p)
  PROVE  Inv'
<1>1. /\ book' \in [Sessions -> Link]
      /\ \A s \in Sessions : book'[s].current =>
           book[s].current /\ book'[s].term = book[s].term /\ book'[s].screen = book[s].screen
      /\ agentPids' = [agentPids EXCEPT ![p] = None]
      /\ unboundPids' = [unboundPids EXCEPT ![p] = None]
  BY ExitedBook DEF Inv, AgentExit
<1>2. /\ exits' = exits \ {p}
      /\ UNCHANGED <<procs, shells, state, watched, todo, jobs, reopens>>
  BY DEF AgentExit
<1>3. TypeOK'
  BY <1>1, <1>2 DEF Inv, TypeOK, jobs, Conversation, Place
<1>4. Lived' /\ Born' /\ PanesWatched' /\ LiveAgentIsWatched' /\ UnboundPidWillExit'
  BY <1>1, <1>2 DEF Inv, TypeOK, Lived, Born, PanesWatched, LiveAgentIsWatched,
     UnboundPidWillExit, Alive, jobs
<1>5. CurrentHasTerminal' /\ OneCurrentPerTerminal' /\ EndedTerminalHoldsScreenOnly'
  BY <1>1, <1>2, EndedInv
<1> QED BY <1>3, <1>4, <1>5 DEF Inv

LEMMA RecordExitInv ==
  ASSUME Inv, NEW t \in Terminals, RecordExit(t)
  PROVE  Inv'
<1>1. /\ state' = [state EXCEPT ![t] = "Exited"]
      /\ book' = [s \in Sessions |->
           IF book[s].term = t THEN [book[s] EXCEPT !.current = FALSE] ELSE book[s]]
      /\ UNCHANGED <<procs, shells, agents, exits, todo, jobs, reopens>>
  BY DEF RecordExit
<1>2. book \in [Sessions -> Link]
  BY DEF Inv, TypeOK
<1>3. /\ book' \in [Sessions -> Link]
      /\ \A s \in Sessions : book'[s].current =>
           /\ book[s].current /\ book'[s].term = book[s].term
           /\ book'[s].screen = book[s].screen /\ book[s].term # t
  BY <1>1, <1>2 DEF Link
<1>4. TypeOK'
  BY <1>1, <1>3 DEF Inv, TypeOK, jobs, agents
<1>5. Lived' /\ Born' /\ PanesWatched' /\ LiveAgentIsWatched' /\ UnboundPidWillExit'
  BY <1>1 DEF Inv, Lived, Born, PanesWatched, LiveAgentIsWatched, UnboundPidWillExit, Alive,
     agents, jobs
<1>6. CurrentHasTerminal' /\ OneCurrentPerTerminal' /\ EndedTerminalHoldsScreenOnly'
  BY <1>1, <1>3 DEF Inv, TypeOK, CurrentHasTerminal, OneCurrentPerTerminal,
     EndedTerminalHoldsScreenOnly, Holds
<1> QED BY <1>4, <1>5, <1>6 DEF Inv

LEMMA ReopenInv ==
  ASSUME Inv, NEW kept \in SUBSET Terminals, Reopen(kept)
  PROVE  Inv'
<1>1. /\ book \in [Sessions -> Link]
      /\ state \in [Terminals -> {"Running", "Exited", "Interrupted"}]
      /\ shells \subseteq Terminals
  BY DEF Inv, TypeOK
<1>2. /\ book' = [s \in Sessions |-> [book[s] EXCEPT !.current = @ /\ book[s].term \in kept]]
      /\ state' = [t \in Terminals |-> IF t \notin kept /\ state[t] = "Running"
                                        THEN "Interrupted" ELSE state[t]]
      /\ \A t \in kept : state[t] = "Running"
      /\ agentPids' = [p \in Pids |-> None] /\ unboundPids' = [p \in Pids |-> None]
      /\ watched' = {} /\ exits' = {} /\ todo' = {} /\ shells' \subseteq Terminals
      /\ refresh' = NoRefresh /\ hookJob' = NoHook /\ panes' = NoPanes
      /\ reopens < MaxReopens /\ reopens' = reopens + 1
      /\ UNCHANGED <<procs, hooks, moves>>
  BY <1>1 DEF Reopen, FreshPids
<1>3. /\ book' \in [Sessions -> Link]
      /\ \A s \in Sessions : book'[s].current =>
           /\ book[s].current /\ book'[s].term = book[s].term
           /\ book'[s].screen = book[s].screen /\ book[s].term \in kept
  BY <1>1, <1>2 DEF Link
<1>4. TypeOK'
  <2>1. state' \in [Terminals -> {"Running", "Exited", "Interrupted"}]
    BY <1>1, <1>2
  <2>2. reopens' \in 0..MaxReopens
    BY <1>2, BoundsAssumption DEF Inv, TypeOK
  <2>3. agentPids' \in [Pids -> Conversation] /\ unboundPids' \in [Pids -> Place]
    BY <1>2 DEF Conversation, Place
  <2> QED BY <1>2, <1>3, <2>1, <2>2, <2>3 DEF Inv, TypeOK, NoRefresh, NoHook, NoPanes
<1>5. Lived' /\ Born' /\ PanesWatched' /\ LiveAgentIsWatched' /\ UnboundPidWillExit'
  BY <1>2 DEF Inv, Lived, Born, PanesWatched, LiveAgentIsWatched, UnboundPidWillExit, Alive,
     NoPanes
<1>6. CurrentHasTerminal'
  BY <1>3 DEF Inv, CurrentHasTerminal
<1>7. OneCurrentPerTerminal'
  BY <1>3 DEF Inv, OneCurrentPerTerminal, Holds
<1>8. EndedTerminalHoldsScreenOnly'
  <2>1. \A t \in Terminals : t \in kept => state'[t] = "Running"
    BY <1>1, <1>2
  <2>2. \A t \in Terminals, s \in Sessions : Holds(book', s, t) => t \in kept
    BY <1>3 DEF Holds
  <2> QED BY <2>1, <2>2 DEF EndedTerminalHoldsScreenOnly, Holds
<1> QED BY <1>4, <1>5, <1>6, <1>7, <1>8 DEF Inv

-----------------------------------------------------------------------------
(* Every step, and the theorems.                                            *)

LEMMA NextInv == ASSUME Inv, [Next]_vars PROVE Inv'
<1>1. CASE UNCHANGED vars
  BY <1>1 DEF vars, Inv, TypeOK, Lived, Born, PanesWatched, CurrentHasTerminal,
     OneCurrentPerTerminal, LiveAgentIsWatched, UnboundPidWillExit,
     EndedTerminalHoldsScreenOnly, Holds, Alive
<1>2. CASE Next
  <2>1. \A p \in Pids, t \in Terminals, s \in Sessions, k \in Evidence :
          Start(p, t, s, k) => Inv'
    BY StartInv
  <2>2. \A p \in Pids, s \in Sessions : Switch(p, s) => Inv'
    BY SwitchInv
  <2>3. \A p \in Pids : Die(p) \/ AgentExit(p) => Inv'
    BY DieInv, AgentExitInv
  <2>4. \A t \in Terminals : ShellDies(t) \/ RecordExit(t) => Inv'
    BY ShellDiesInv, RecordExitInv
  <2>5. \A listed \in SUBSET Pids : BeginRefresh(listed) => Inv'
    BY BeginRefreshInv
  <2>6. \A indexed \in SUBSET Named(refresh.seen), rank \in Orders :
          ApplyRefresh(indexed, rank) => Inv'
    BY ApplyRefreshInv DEF Named
  <2>7. \A r \in todo : ObserveOne(r) => Inv'
    BY ObserveOneInv
  <2>8. \A p \in Pids, ended \in BOOLEAN : SendHook(p, ended) => Inv'
    BY SendHookInv
  <2>9. \A h \in hooks, intact \in BOOLEAN : BeginHook(h, intact) => Inv'
    BY BeginHookInv
  <2>10. ApplyHook \/ ReadPanes => Inv'
    BY ApplyHookInv, ReadPanesInv
  <2>11. \A links \in SUBSET Matches, rank \in Orders : ApplyScreens(links, rank) => Inv'
    BY ApplyScreensInv
  <2>12. \A kept \in SUBSET Terminals : Reopen(kept) => Inv'
    BY ReopenInv
  <2> QED
    BY <1>2, <2>1, <2>2, <2>3, <2>4, <2>5, <2>6, <2>7, <2>8, <2>9, <2>10, <2>11, <2>12
    DEF Next
<1> QED BY <1>1, <1>2

\* The invariant holds of every behaviour of the host, whatever the number of
\* terminals, conversations and processes, and whatever the bounds.
THEOREM Invariant == Spec => []Inv
<1>1. Init => Inv
  BY InitInv
<1>2. Inv /\ [Next]_vars => Inv'
  BY NextInv
<1> QED BY <1>1, <1>2, PTL DEF Spec

\* The host's state keeps its type: a sample taken before the lock never names
\* a process, terminal or conversation the host cannot record.
THEOREM TypeCorrect == Spec => []TypeOK
<1>1. Inv => TypeOK
  BY DEF Inv
<1> QED BY <1>1, Invariant, PTL

\* A terminal never has two current conversations (model.rs observe_agent and
\* the unique index of store.rs), through any interleaving of the three paths.
THEOREM OneCurrent == Spec => []OneCurrentPerTerminal
<1>1. Inv => OneCurrentPerTerminal
  BY DEF Inv
<1> QED BY <1>1, Invariant, PTL

\* A live process the host has recorded is always registered with the kqueue,
\* so its exit is never missed (host/mod.rs observe_processes, association.rs).
THEOREM LiveWatched == Spec => []LiveAgentIsWatched
<1>1. Inv => LiveAgentIsWatched
  BY DEF Inv
<1> QED BY <1>1, Invariant, PTL

\* A process that waits unbound always has its exit to come, so no pane keeps
\* the hint of a process that is gone (host/mod.rs agent_exited).
THEOREM UnboundWillExit == Spec => []UnboundPidWillExit
<1>1. Inv => UnboundPidWillExit
  BY DEF Inv
<1> QED BY <1>1, Invariant, PTL

\* A terminal that ended holds no conversation linked by a hook or a refresh:
\* both look at its state again under the lock (recognition.rs).
THEOREM EndedHoldsScreenOnly == Spec => []EndedTerminalHoldsScreenOnly
<1>1. Inv => EndedTerminalHoldsScreenOnly
  BY DEF Inv
<1> QED BY <1>1, Invariant, PTL

(***************************************************************************)
(* Ownership: whatever step the host takes, the conversations the          *)
(* terminals are shown to run are handed on by its rules.                  *)
(***************************************************************************)
\* The conversations of the terminals, for any book.
HolderOf(b) == [t \in Terminals |->
  IF \A s \in Sessions : ~Holds(b, s, t) THEN None
  ELSE CHOOSE s \in Sessions : Holds(b, s, t)]

\* With one current conversation per terminal it is the terminal's holder.
LEMMA HolderOfIs ==
  ASSUME NEW b,
         \A t \in Terminals : \A r, s \in Sessions : Holds(b, r, t) /\ Holds(b, s, t) => r = s
  PROVE  \A t \in Terminals :
           /\ HolderOf(b)[t] \in Sessions \cup {None}
           /\ \A s \in Sessions : HolderOf(b)[t] = s <=> Holds(b, s, t)
<1> SUFFICES ASSUME NEW t \in Terminals
             PROVE  /\ HolderOf(b)[t] \in Sessions \cup {None}
                    /\ \A s \in Sessions : HolderOf(b)[t] = s <=> Holds(b, s, t)
  OBVIOUS
<1>1. CASE \A s \in Sessions : ~Holds(b, s, t)
  BY <1>1, NoneAssumption DEF HolderOf
<1>2. CASE \E s \in Sessions : Holds(b, s, t)
  <2> DEFINE h == CHOOSE s \in Sessions : Holds(b, s, t)
  <2>1. h \in Sessions /\ Holds(b, h, t)
    BY <1>2
  <2>2. HolderOf(b)[t] = h
    BY <1>2 DEF HolderOf
  <2> HIDE DEF h
  <2> QED BY <2>1, <2>2
<1> QED BY <1>1, <1>2

\* Holder, before and after a step that keeps the invariant.
LEMMA HolderIs ==
  ASSUME Inv, Inv'
  PROVE  /\ Holder = [t \in Terminals |-> Holder[t]]
         /\ Holder' = [t \in Terminals |-> Holder'[t]]
         /\ \A t \in Terminals :
              /\ Holder[t] \in Sessions \cup {None} /\ Holder'[t] \in Sessions \cup {None}
              /\ \A s \in Sessions : /\ Holder[t] = s <=> Holds(book, s, t)
                                     /\ Holder'[t] = s <=> Holds(book', s, t)
<1>1. Holder = HolderOf(book) /\ Holder' = HolderOf(book')
  BY DEF Holder, HolderOf, Bare, Holds
<1>2. \A t \in Terminals : \A r, s \in Sessions :
        Holds(book, r, t) /\ Holds(book, s, t) => r = s
  BY DEF Inv, OneCurrentPerTerminal
<1>3. \A t \in Terminals : \A r, s \in Sessions :
        Holds(book', r, t) /\ Holds(book', s, t) => r = s
  BY DEF Inv, OneCurrentPerTerminal, Holds
<1>4. HolderOf(book) = [t \in Terminals |-> HolderOf(book)[t]]
      /\ HolderOf(book') = [t \in Terminals |-> HolderOf(book')[t]]
  BY DEF HolderOf
<1> QED BY <1>1, <1>2, <1>3, <1>4, HolderOfIs

\* A step that only ends conversations releases their terminals.
LEMMA Released ==
  ASSUME Inv, Inv', NEW ended \in SUBSET Sessions,
         \A s \in Sessions, t \in Terminals :
           Holds(book', s, t) <=> Holds(book, s, t) /\ s \notin ended
  PROVE  Own!Next
<1> DEFINE ts == {t \in Terminals : Holder[t] \in ended}
<1>1. \A t \in Terminals : Holder'[t] = IF t \in ts THEN None ELSE Holder[t]
  <2> SUFFICES ASSUME NEW t \in Terminals
               PROVE  Holder'[t] = IF t \in ts THEN None ELSE Holder[t]
    OBVIOUS
  <2>1. /\ Holder[t] \in Sessions \cup {None} /\ Holder'[t] \in Sessions \cup {None}
        /\ \A s \in Sessions : /\ Holder[t] = s <=> Holds(book, s, t)
                               /\ Holder'[t] = s <=> Holds(book', s, t)
    BY HolderIs
  <2> QED BY <2>1, NoneAssumption
<1>2. Holder' = [t \in Terminals |-> IF t \in ts THEN None ELSE Holder[t]]
  BY <1>1, HolderIs
<1>3. Own!Release(ts)
  BY <1>2 DEF Own!Release
<1> QED BY <1>3 DEF Own!Next

\* A step that changes no current conversation changes no holder.
LEMMA HolderKept == ASSUME UNCHANGED book PROVE UNCHANGED Holder
BY DEF Holder, Bare, Holds

\* A commit of links, each of a conversation that is free, held by the same
\* terminal, or held by one the commit gives away, assigns them.
LEMMA Assigned ==
  ASSUME Inv, Inv', NEW links \in SUBSET (Terminals \X Sessions), NEW viaScreen \in BOOLEAN,
         book' = Linked(book, links, viaScreen),
         \A k, l \in links : k[1] = l[1] \/ k[2] = l[2] => k = l,
         \A l \in links : Conflict(book, l) => \E k \in links : k[1] = book[l[2]].term
  PROVE  Own!Next
<1>0. book \in [Sessions -> Link]
  BY DEF Inv, TypeOK
<1>1. Own!OneToOne(links)
  BY DEF Own!OneToOne
<1>2. Own!Allowed(links)
  <2> SUFFICES ASSUME NEW l \in links, NEW u \in Terminals, Holder[u] = l[2], u # l[1]
               PROVE  \E k \in links : k[1] = u
    BY DEF Own!Allowed
  <2>1. l[2] \in Sessions
    OBVIOUS
  <2>2. Holds(book, l[2], u)
    BY <2>1, HolderIs
  <2> QED BY <2>2 DEF Conflict, Holds
<1>3. \A l \in links : Holder'[l[1]] = l[2]
  <2> SUFFICES ASSUME NEW l \in links PROVE Holder'[l[1]] = l[2]
    OBVIOUS
  <2>1. l[1] \in Terminals /\ l[2] \in Sessions /\ l = <<l[1], l[2]>>
    OBVIOUS
  <2>2. (CHOOSE t \in Terminals : <<t, l[2]>> \in links) = l[1]
    <3> DEFINE c == CHOOSE t \in Terminals : <<t, l[2]>> \in links
    <3>1. c \in Terminals /\ <<c, l[2]>> \in links
      BY <2>1
    <3>2. <<c, l[2]>>[2] = l[2] /\ <<c, l[2]>>[1] = c
      OBVIOUS
    <3>3. <<c, l[2]>> = l
      BY <3>1, <3>2
    <3> QED BY <3>2, <3>3
  <2>3. Holds(book', l[2], l[1])
    BY <2>1, <2>2 DEF Linked, Holds
  <2> QED BY <2>1, <2>3, HolderIs
<1>4. \A t \in Terminals : (\A l \in links : l[1] # t) => Holder'[t] = Holder[t]
  <2> SUFFICES ASSUME NEW t \in Terminals, \A l \in links : l[1] # t
               PROVE  Holder'[t] = Holder[t]
    OBVIOUS
  <2>1. \A s \in Sessions : <<t, s>> \notin links
    <3> SUFFICES ASSUME NEW s \in Sessions, <<t, s>> \in links PROVE FALSE
      OBVIOUS
    <3>1. <<t, s>>[1] # t
      OBVIOUS
    <3> QED BY <3>1
  <2>2. \A s \in Sessions : Holds(book', s, t) => Holds(book, s, t)
    BY <1>0, <2>1, LinkedCurrent DEF Place
  <2>3. \A s \in Sessions : Holds(book, s, t) => Holds(book', s, t)
    <3> SUFFICES ASSUME NEW s \in Sessions, Holds(book, s, t) PROVE Holds(book', s, t)
      OBVIOUS
    <3>1. \A u \in Terminals : <<u, s>> \notin links
      <4> SUFFICES ASSUME NEW u \in Terminals, <<u, s>> \in links PROVE FALSE
        OBVIOUS
      <4>1. <<u, s>>[1] = u /\ <<u, s>>[2] = s
        OBVIOUS
      <4>2. u # t
        BY <4>1
      <4>3. Conflict(book, <<u, s>>)
        BY <4>1, <4>2 DEF Conflict, Holds
      <4>4. PICK k \in links : k[1] = book[<<u, s>>[2]].term
        BY <4>3
      <4> QED BY <4>1, <4>4 DEF Holds
    <3> QED BY <1>0, <2>1, <3>1 DEF Linked, Holds, Link
  <2> QED BY <2>2, <2>3, HolderIs
<1>5. Holder' = [t \in Terminals |->
         IF \E l \in links : l[1] = t THEN (CHOOSE l \in links : l[1] = t)[2] ELSE Holder[t]]
  <2>1. \A t \in Terminals : (\E l \in links : l[1] = t) =>
          Holder'[t] = (CHOOSE l \in links : l[1] = t)[2]
    <3> SUFFICES ASSUME NEW t \in Terminals, \E l \in links : l[1] = t
                 PROVE  Holder'[t] = (CHOOSE l \in links : l[1] = t)[2]
      OBVIOUS
    <3> DEFINE c == CHOOSE l \in links : l[1] = t
    <3>1. c \in links /\ c[1] = t
      OBVIOUS
    <3> HIDE DEF c
    <3>2. Holder'[c[1]] = c[2]
      BY <1>3, <3>1
    <3>3. Holder'[t] = c[2]
      BY <3>1, <3>2
    <3> QED BY <3>3 DEF c
  <2> QED BY <1>4, <2>1, HolderIs
<1>6. Own!Assign(links)
  BY <1>1, <1>2, <1>5 DEF Own!Assign
<1> QED BY <1>6 DEF Own!Next

-----------------------------------------------------------------------------
(* The steps.                                                               *)

\* agent_exited ends the conversation its process stood for.
LEMMA ExitedReleases ==
  ASSUME Inv, Inv', NEW p \in Pids,
         book' = [s \in Sessions |->
                    IF s = agentPids[p] THEN [book[s] EXCEPT !.current = FALSE] ELSE book[s]]
  PROVE  Own!Next
<1>1. {agentPids[p]} \cap Sessions \in SUBSET Sessions
  OBVIOUS
<1>2. \A s \in Sessions, t \in Terminals :
        Holds(book', s, t) <=> Holds(book, s, t) /\ s \notin {agentPids[p]} \cap Sessions
  BY DEF Holds, Inv, TypeOK, Link
<1> QED BY <1>1, <1>2, Released

LEMMA ObserveOneOwns ==
  ASSUME Inv, Inv', NEW r \in todo, ObserveOne(r)
  PROVE  Own!Next \/ UNCHANGED Holder
<1> DEFINE shown == {s \in {r.argv, r.file} \cap Sessions : Holds(book, s, r.at)}
<1>0. r.pid \in Pids
  BY DEF Inv, TypeOK, Seen
<1>1. \/ UNCHANGED book
      \/ book' = [s \in Sessions |->
                    IF s \in shown THEN [book[s] EXCEPT !.current = FALSE] ELSE book[s]]
      \/ book' = [s \in Sessions |->
                    IF s = agentPids[r.pid] THEN [book[s] EXCEPT !.current = FALSE]
                                            ELSE book[s]]
  BY DEF ObserveOne, Exited
<1>2. CASE UNCHANGED book
  BY <1>2, HolderKept
<1>3. CASE book' = [s \in Sessions |->
                      IF s \in shown THEN [book[s] EXCEPT !.current = FALSE] ELSE book[s]]
  <2>1. shown \in SUBSET Sessions
    OBVIOUS
  <2> HIDE DEF shown
  <2>2. \A s \in Sessions, t \in Terminals :
          Holds(book', s, t) <=> Holds(book, s, t) /\ s \notin shown
    BY <1>3 DEF Holds, Inv, TypeOK, Link
  <2> QED BY <2>1, <2>2, Released
<1>4. CASE book' = [s \in Sessions |->
                      IF s = agentPids[r.pid] THEN [book[s] EXCEPT !.current = FALSE]
                                              ELSE book[s]]
  BY <1>0, <1>4, ExitedReleases
<1> QED BY <1>1, <1>2, <1>3, <1>4

\* What passes in one commit has, for each conflict, a link that resolves it.
LEMMA AcceptedResolves ==
  ASSUME NEW links, NEW rank, NEW got \in Accepted(book, links, rank)
  PROVE  /\ got \in SUBSET links
         /\ \A l \in got : Conflict(book, l) => \E k \in got : k[1] = book[l[2]].term
BY DEF Accepted

LEMMA ApplyRefreshOwns ==
  ASSUME Inv, Inv', NEW indexed \in SUBSET Sessions, NEW rank, ApplyRefresh(indexed, rank)
  PROVE  Own!Next \/ UNCHANGED Holder
<1> DEFINE links == Unambiguous(Evident(refresh.seen, indexed))
<1>1. UNCHANGED book \/ (links \in Accepted(book, links, rank) /\ book' = Linked(book, links, FALSE))
  BY DEF ApplyRefresh
<1>2. CASE UNCHANGED book
  BY <1>2, HolderKept
<1>3. CASE links \in Accepted(book, links, rank) /\ book' = Linked(book, links, FALSE)
  <2>1. links \in SUBSET (Terminals \X Sessions)
    <3>1. refresh.seen \in SUBSET Seen
      BY DEF Inv, TypeOK
    <3> QED BY <3>1, EvidentLinks
  <2>2. \A k, l \in links : k[1] = l[1] \/ k[2] = l[2] => k = l
    BY DEF Unambiguous
  <2>3. \A l \in links : Conflict(book, l) => \E k \in links : k[1] = book[l[2]].term
    BY <1>3, AcceptedResolves
  <2>4. FALSE \in BOOLEAN
    OBVIOUS
  <2> HIDE DEF links
  <2> QED BY <1>3, <2>1, <2>2, <2>3, <2>4, Assigned
<1> QED BY <1>1, <1>2, <1>3

LEMMA ApplyHookOwns ==
  ASSUME Inv, Inv', ApplyHook
  PROVE  Own!Next \/ UNCHANGED Holder
<1> DEFINE h == hookJob.hook
           links == {<<h.at, h.talk>>}
<1>0. h \in Hook /\ h.at \in Terminals /\ h.talk \in Sessions
  BY DEF ApplyHook, Inv, TypeOK, Hook
<1>1. \/ UNCHANGED book
      \/ ~HookRefused(h) /\ ~h.ended /\ book' = Linked(book, links, FALSE)
      \/ book' = [book EXCEPT ![h.talk] = [term |-> h.at, current |-> FALSE, screen |-> FALSE]]
  BY DEF ApplyHook
<1>2. CASE UNCHANGED book
  BY <1>2, HolderKept
<1>3. CASE ~HookRefused(h) /\ ~h.ended /\ book' = Linked(book, links, FALSE)
  <2>1. links \in SUBSET (Terminals \X Sessions)
    BY <1>0
  <2>2. \A k, l \in links : k[1] = l[1] \/ k[2] = l[2] => k = l
    OBVIOUS
  <2>3. \A l \in links : ~Conflict(book, l)
    BY <1>3 DEF HookRefused
  <2>4. FALSE \in BOOLEAN
    OBVIOUS
  <2> HIDE DEF links, h
  <2> QED BY <1>3, <2>1, <2>2, <2>3, <2>4, Assigned
<1>4. CASE book' = [book EXCEPT ![h.talk] = [term |-> h.at, current |-> FALSE, screen |-> FALSE]]
  <2>1. {h.talk} \in SUBSET Sessions
    BY <1>0
  <2> HIDE DEF h
  <2>2. \A s \in Sessions, t \in Terminals :
          Holds(book', s, t) <=> Holds(book, s, t) /\ s \notin {h.talk}
    BY <1>0, <1>4 DEF Holds, Inv, TypeOK, Link
  <2> QED BY <2>1, <2>2, Released
<1> QED BY <1>1, <1>2, <1>3, <1>4

LEMMA ApplyScreensOwns ==
  ASSUME Inv, Inv', NEW links \in SUBSET Matches, NEW rank, ApplyScreens(links, rank)
  PROVE  Own!Next
<1>1. PICK got \in Accepted(book, links, rank) : book' = Linked(book, got, TRUE)
  BY DEF ApplyScreens
<1>2. got \in SUBSET links
  BY <1>1, AcceptedResolves
<1>3. /\ got \in SUBSET (Terminals \X Sessions)
      /\ \A k, l \in got : k[1] = l[1] => k = l
  <2>1. got \in SUBSET Matches
    BY <1>2
  <2> QED BY <2>1, MatchesLinks DEF Inv
<1>4. \A k, l \in got : k[2] = l[2] => k = l
  BY <1>2 DEF ApplyScreens
<1>5. \A l \in got : Conflict(book, l) => \E k \in got : k[1] = book[l[2]].term
  BY <1>1, AcceptedResolves
<1>6. TRUE \in BOOLEAN
  OBVIOUS
<1> QED BY <1>1, <1>3, <1>4, <1>5, <1>6, Assigned

LEMMA RecordExitOwns ==
  ASSUME Inv, Inv', NEW t \in Terminals, RecordExit(t)
  PROVE  Own!Next
<1> DEFINE ended == {s \in Sessions : book[s].term = t}
<1>1. \A s \in Sessions, u \in Terminals :
        Holds(book', s, u) <=> Holds(book, s, u) /\ s \notin ended
  BY DEF RecordExit, Holds, Inv, TypeOK, Link
<1>2. ended \in SUBSET Sessions
  OBVIOUS
<1> QED BY <1>1, <1>2, Released

LEMMA ReopenOwns ==
  ASSUME Inv, Inv', NEW kept \in SUBSET Terminals, Reopen(kept)
  PROVE  Own!Next
<1> DEFINE ended == {s \in Sessions : book[s].term \notin kept}
<1>1. \A s \in Sessions, u \in Terminals :
        Holds(book', s, u) <=> Holds(book, s, u) /\ s \notin ended
  BY DEF Reopen, Holds, Inv, TypeOK, Link
<1>2. ended \in SUBSET Sessions
  OBVIOUS
<1> QED BY <1>1, <1>2, Released

\* Every step of the host is a step of Ownership, or changes no holder.
LEMMA NextOwns == ASSUME Inv, Inv', [Next]_vars PROVE [Own!Next]_Holder
<1>1. CASE UNCHANGED book
  BY <1>1, HolderKept
<1>2. CASE Next /\ ~ UNCHANGED book
  <2>1. \A indexed \in SUBSET Named(refresh.seen), rank \in Orders :
          ApplyRefresh(indexed, rank) => Own!Next \/ UNCHANGED Holder
    BY ApplyRefreshOwns DEF Named
  <2>2. \A r \in todo : ObserveOne(r) => Own!Next \/ UNCHANGED Holder
    BY ObserveOneOwns
  <2>3. ApplyHook => Own!Next \/ UNCHANGED Holder
    BY ApplyHookOwns
  <2>4. \A links \in SUBSET Matches, rank \in Orders : ApplyScreens(links, rank) => Own!Next
    BY ApplyScreensOwns
  <2>5. \A p \in Pids : AgentExit(p) => Own!Next
    BY ExitedReleases DEF AgentExit, Exited
  <2>6. \A t \in Terminals : RecordExit(t) => Own!Next
    BY RecordExitOwns
  <2>7. \A kept \in SUBSET Terminals : Reopen(kept) => Own!Next
    BY ReopenOwns
  <2>8. \/ \E indexed \in SUBSET Named(refresh.seen), rank \in Orders : ApplyRefresh(indexed, rank)
        \/ \E r \in todo : ObserveOne(r)
        \/ ApplyHook
        \/ \E links \in SUBSET Matches, rank \in Orders : ApplyScreens(links, rank)
        \/ \E p \in Pids : AgentExit(p)
        \/ \E t \in Terminals : RecordExit(t)
        \/ \E kept \in SUBSET Terminals : Reopen(kept)
    BY <1>2 DEF Next, Start, Switch, Die, ShellDies, BeginRefresh, SendHook, BeginHook, ReadPanes
  <2> QED BY <2>1, <2>2, <2>3, <2>4, <2>5, <2>6, <2>7, <2>8
<1>3. [Next]_vars => Next \/ UNCHANGED book
  BY DEF vars
<1> QED BY <1>1, <1>2, <1>3

\* The host implements Ownership: stale samples, late hooks, screens, exits and
\* restarts hand conversations on by its rules (model.rs observe_agent).
THEOREM Implements == Spec => OwnershipSpec
<1>1. Init => Own!Init
  BY DEF Init, Own!Init, Holder, Bare, Holds
<1>2. Inv /\ Inv' /\ [Next]_vars => [Own!Next]_Holder
  BY NextOwns
<1> QED BY <1>1, <1>2, Invariant, PTL DEF Spec, OwnershipSpec

-----------------------------------------------------------------------------
(* What Ownership gives: no conversation is in two terminals.               *)

\* The holders are a function on the terminals, none of them twice.
OInv == Holder = [t \in Terminals |-> Holder[t]] /\ Own!HeldOnce

\* Links that are one to one, and take a held conversation only from a terminal
\* they give away, keep it so.
LEMMA AssignKeeps ==
  ASSUME OInv, NEW links \in SUBSET (Terminals \X Sessions), Own!Assign(links)
  PROVE  OInv'
<1> DEFINE link(t) == CHOOSE l \in links : l[1] = t
           Given(t) == \E l \in links : l[1] = t
<1>1. Holder' = [t \in Terminals |-> IF Given(t) THEN link(t)[2] ELSE Holder[t]]
  BY DEF Own!Assign
<1>2. \A t : Given(t) => link(t) \in links /\ link(t)[1] = t
  OBVIOUS
<1>3. \A k, l \in links : k[1] = l[1] \/ k[2] = l[2] => k = l
  BY DEF Own!Assign, Own!OneToOne
<1>4. \A l \in links : \A u \in Terminals : Holder[u] = l[2] /\ u # l[1] => Given(u)
  BY DEF Own!Assign, Own!Allowed
<1> HIDE DEF link, Given
<1>5. SUFFICES ASSUME NEW t \in Terminals, NEW u \in Terminals,
                      Holder'[t] = Holder'[u], Holder'[t] # None
               PROVE  t = u
  BY <1>1 DEF OInv, Own!HeldOnce
<1>6. CASE Given(t) /\ Given(u)
  <2>1. link(t)[2] = link(u)[2]
    BY <1>1, <1>5, <1>6
  <2>2. link(t) = link(u)
    BY <1>2, <1>3, <1>6, <2>1
  <2> QED BY <1>2, <1>6, <2>2
<1>7. CASE Given(t) /\ ~Given(u)
  BY <1>1, <1>2, <1>4, <1>5, <1>7
<1>8. CASE ~Given(t) /\ Given(u)
  BY <1>1, <1>2, <1>4, <1>5, <1>8
<1>9. CASE ~Given(t) /\ ~Given(u)
  BY <1>1, <1>5, <1>9 DEF OInv, Own!HeldOnce
<1> QED BY <1>6, <1>7, <1>8, <1>9

\* Any host that hands conversations on by the rules of Ownership, as this one
\* does, never shows a conversation to run in two terminals.
THEOREM HeldInOne == Spec => []Own!HeldOnce
<1>1. Own!Init => OInv
  BY DEF Own!Init, OInv, Own!HeldOnce
<1>2. OInv /\ [Own!Next]_Holder => OInv'
  <2> SUFFICES ASSUME OInv, [Own!Next]_Holder PROVE OInv'
    OBVIOUS
  <2>1. CASE UNCHANGED Holder
    BY <2>1 DEF OInv, Own!HeldOnce
  <2>2. ASSUME NEW links \in SUBSET (Terminals \X Sessions), Own!Assign(links) PROVE OInv'
    BY <2>2, AssignKeeps
  <2>3. ASSUME NEW ts \in SUBSET Terminals, Own!Release(ts) PROVE OInv'
    BY <2>3 DEF OInv, Own!HeldOnce, Own!Release
  <2> QED BY <2>1, <2>2, <2>3 DEF Own!Next
<1>3. OInv => Own!HeldOnce
  BY DEF OInv
<1> QED BY <1>1, <1>2, <1>3, Implements, PTL DEF OwnershipSpec
=============================================================================
