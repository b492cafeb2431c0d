----------------------------- MODULE ReportBack -----------------------------
(***************************************************************************)
(* `keepline run`'s report back (host/report_back.rs): an Agent started    *)
(* for another one reports what it did into its starter's input.           *)
(*                                                                         *)
(* Every change of what the host shows is a commit, and every commit plans *)
(* under the host lock: news of the children go to their starters'         *)
(* outboxes, and an idle starter's outbox is handed to a thread that types *)
(* it WITHOUT that lock (send_text).  A turn's end can be known (a Stop    *)
(* hook) before its reply is read from the log, and a question is known    *)
(* from the screen before the log records it, if it ever does.             *)
(*                                                                         *)
(* Errors, background tasks and outcomes the user set are left out.        *)
(***************************************************************************)
EXTENDS Naturals, Sequences, FiniteSets, SequencesExt

CONSTANTS Terminals,
          Words,      \* what a reply or a question can say
          None,       \* no starter, no words
          QUEUE,      \* waiting reports per starter (20 in the code)
          MaxTurns,   \* bound: turns of one CLI
          MaxAsks,    \* bound: questions in one turn
          MaxLinks    \* bound: ReportTo requests

ASSUME NoneAssumption == None \notin Terminals \cup Words
ASSUME QueueAssumption == QUEUE \in Nat \ {0}
ASSUME BoundsAssumption == {MaxTurns, MaxAsks, MaxLinks} \subseteq Nat

VARIABLES
  cli,      \* the CLIs: turn, its number, its questions so far, its last words
  card,     \* Workspace.content of each terminal's conversation
  waits,    \* Host.screen_waits: the question on each terminal's screen
  running,  \* terminals whose state is Running
  bound,    \* those with a current conversation
  links,    \* ReportBack.links, by child
  outbox,   \* ReportBack.outbox
  typing,   \* the threads in send_text
  made,     \* how often each report entered an outbox since its child was linked
  linked    \* ReportTo requests so far, for the bound

vars == <<cli, card, waits, running, bound, links, outbox, typing, made, linked>>

Turns == {"Idle", "Running", "Waiting", "Completed"}
Cli == [turn : Turns, n : 0..MaxTurns, asks : 0..MaxAsks, says : Words \cup {None}]
\* `settled`: the turn's key has moved with a later read of the log.  `ask` is
\* the question the log waits on.  `reply` outlives its turn.
Episodes == 0..(MaxTurns * MaxAsks + 1)
Card == [turn : Turns, n : 0..MaxTurns, settled : BOOLEAN, episode : Episodes,
         ask : 0..MaxAsks, asked : Words \cup {None}, reply : Words \cup {None}]
Key == [event : {"none", "done", "waiting"}, n : 0..MaxTurns, settled : BOOLEAN,
        episode : Episodes]
Said == [event : {"none", "done", "waiting"}, words : Words \cup {None}, screen : BOOLEAN]
NoKey  == [event |-> "none", n |-> 0, settled |-> FALSE, episode |-> 0]
NoSaid == [event |-> "none", words |-> None, screen |-> FALSE]
Link == [parent : Terminals \cup {None}, last : Key, said : Said]
NoLink == [parent |-> None, last |-> NoKey, said |-> NoSaid]
\* Which question of the turn, and what it says.
Seen == [ask : 0..MaxAsks, words : Words \cup {None}]
NoQuestion == [ask |-> 0, words |-> None]
\* A report: the end of a child's turn (ask = 0), or one of its questions.
Report == [child : Terminals, n : 0..MaxTurns, ask : 0..MaxAsks, words : Words \cup {None}]
Thread == [to : Terminals, step : {"paste", "clear", "enter"}, reports : Seq(Report)]

TypeOK ==
  /\ cli \in [Terminals -> Cli]
  /\ card \in [Terminals -> Card]
  /\ waits \in [Terminals -> Seen]
  /\ running \subseteq Terminals /\ bound \subseteq running
  /\ links \in [Terminals -> Link]
  /\ outbox \in [Terminals -> Seq(Report)]
  /\ \A t \in Terminals : Len(outbox[t]) <= QUEUE
  /\ \A j \in typing : j \in Thread
  /\ made \in [Report -> Nat]
  /\ linked \in 0..MaxLinks

Init ==
  /\ cli = [t \in Terminals |-> [turn |-> "Idle", n |-> 0, asks |-> 0, says |-> None]]
  /\ card = [t \in Terminals |-> [turn |-> "Idle", n |-> 0, settled |-> FALSE,
               episode |-> 0, ask |-> 0, asked |-> None, reply |-> None]]
  /\ waits = [t \in Terminals |-> NoQuestion]
  /\ running = Terminals /\ bound = Terminals
  /\ links = [t \in Terminals |-> NoLink]
  /\ outbox = [t \in Terminals |-> <<>>]
  /\ typing = {} /\ made = [r \in Report |-> 0] /\ linked = 0

-----------------------------------------------------------------------------
(* What a commit shows and plans.                                           *)

\* Host::snapshot: a question on the screen outranks a log that does not wait,
\* under the episode the log would give it.
Asks(c, w) == c.turn = "Waiting" \/ w # NoQuestion
Busy(c, w) == c.turn = "Running" \/ Asks(c, w)

NoEnd == [key |-> NoKey, said |-> NoSaid, ask |-> 0]

\* turn_end: nothing while the turn runs, and nothing of an ended turn without
\* a reply.
TurnEnd(c, w) ==
  IF Asks(c, w)
    THEN LET screen == c.turn # "Waiting" IN
         [key |-> [event |-> "waiting", n |-> c.n, settled |-> c.settled,
                   episode |-> IF screen THEN c.episode + 1 ELSE c.episode],
          said |-> [event |-> "waiting", words |-> IF screen THEN w.words ELSE c.asked,
                   screen |-> screen],
          ask |-> IF screen THEN w.ask ELSE c.ask]
  ELSE IF c.turn = "Completed" /\ c.reply # None
    THEN [key |-> [event |-> "done", n |-> c.n, settled |-> c.settled, episode |-> 0],
          said |-> [event |-> "done", words |-> c.reply, screen |-> FALSE],
          ask |-> 0]
  ELSE NoEnd

\* Mutant: a repeated report is sent again.
Repeats_Never(link, end) == FALSE
\* The report says what the last one said: a key that moved is no news.
Repeats(link, end) == link.said = end.said

\* Mutant: the key is only noted with a report.
Noted_WithReport(link, end) ==
  IF Repeats(link, end) THEN link ELSE [link EXCEPT !.last = end.key, !.said = end.said]
\* The turn end last seen, reported or not.
Noted(link, end) == [link EXCEPT !.last = end.key, !.said = end.said]

\* Mutant: a full outbox refuses the newest report.
Trimmed_Newest(q) == IF Len(q) > QUEUE THEN SubSeq(q, 1, QUEUE) ELSE q
\* Past QUEUE the oldest goes.
Trimmed(q) == IF Len(q) > QUEUE THEN SubSeq(q, Len(q) - QUEUE + 1, Len(q)) ELSE q

\* Mutant: only a starter that just got a report is looked at.
Due_OnlyNews(q, news, idle) == idle /\ news # {}
\* An idle starter with reports waiting gets them.
Due(q, news, idle) == idle /\ q # <<>>

\* ReportBack::plan and deliver_reports, on what the commit made of the cards,
\* screens and terminals; `threads` are the ones in send_text.
Plan(cards, screens, run, bnd, threads) ==
  LET kept == {c \in run : links[c].parent \in run}
      End(c) == IF c \in bnd THEN TurnEnd(cards[c], screens[c]) ELSE NoEnd
      fresh == {c \in kept : End(c) # NoEnd /\ End(c).key # links[c].last}
      told == {c \in fresh : ~Repeats(links[c], End(c))}
      Of(c) == [child |-> c, n |-> cards[c].n, ask |-> End(c).ask, words |-> End(c).said.words]
      News(p) == {Of(c) : c \in {x \in told : links[x].parent = p}}
      Queued(p) == Trimmed(outbox[p] \o SetToSeq(News(p)))
      due == {p \in run : Due(Queued(p), News(p), p \in bnd /\ ~Busy(cards[p], screens[p]))}
  IN /\ links' = [c \in Terminals |-> IF c \notin kept THEN NoLink
                                      ELSE IF c \in fresh THEN Noted(links[c], End(c))
                                      ELSE links[c]]
     /\ outbox' = [p \in Terminals |-> IF p \in run \ due THEN Queued(p) ELSE <<>>]
     /\ typing' = threads \cup {[to |-> p, step |-> "paste", reports |-> Queued(p)] : p \in due}
     /\ made' = [r \in Report |-> made[r] + Cardinality({c \in told : Of(c) = r})]

NoPlan == UNCHANGED <<links, outbox, typing, made>>

-----------------------------------------------------------------------------
(* The CLIs, and what the host gets to know of them.                        *)

Begun(t) == [cli[t] EXCEPT !.turn = "Running", !.n = @ + 1, !.asks = 0, !.says = None]

Prompt(t) ==
  /\ t \in running /\ cli[t].turn \in {"Idle", "Completed"} /\ cli[t].n < MaxTurns
  /\ cli' = [cli EXCEPT ![t] = Begun(t)]
  /\ NoPlan /\ UNCHANGED <<card, waits, running, bound, linked>>

Question(t, w) ==
  /\ t \in running /\ cli[t].turn = "Running" /\ cli[t].asks < MaxAsks
  /\ cli' = [cli EXCEPT ![t].turn = "Waiting", ![t].asks = @ + 1, ![t].says = w]
  /\ NoPlan /\ UNCHANGED <<card, waits, running, bound, linked>>

Finish(t, w) ==
  /\ t \in running /\ cli[t].turn = "Running"
  /\ cli' = [cli EXCEPT ![t].turn = "Completed", ![t].says = w]
  /\ NoPlan /\ UNCHANGED <<card, waits, running, bound, linked>>

Wording(screens) == [t \in Terminals |-> screens[t].words]

\* A host with a changed view commits and plans; set_screen_wait compares what
\* the questions say.
Show(cards, screens, bnd, threads) ==
  /\ card' = cards /\ waits' = screens /\ bound' = bnd
  /\ IF <<cards, Wording(screens), bnd>> = <<card, Wording(waits), bound>>
       THEN typing' = threads /\ UNCHANGED <<links, outbox, made>>
       ELSE Plan(cards, screens, running, bnd, threads)

\* The user answers in the terminal: input ends the wait seen on its screen.
Answer(t) ==
  /\ t \in running /\ cli[t].turn = "Waiting"
  /\ cli' = [cli EXCEPT ![t].turn = "Running", ![t].says = None]
  /\ Show(card, [waits EXCEPT ![t] = NoQuestion], bound, typing)
  /\ UNCHANGED <<running, linked>>

\* What log and hooks can make of a card: the question of the CLI may be
\* missing, the reply of a turn that ended may not be read yet, and an ended
\* turn may get another key.
Readings(t) ==
  LET c == cli[t]
      d == card[t]
      same == d.n = c.n
      base == [d EXCEPT !.turn = c.turn, !.n = c.n, !.settled = same /\ @,
                        !.ask = 0, !.asked = None]
      new == ~(same /\ d.turn = "Waiting" /\ d.ask = c.asks)
      ended == same /\ d.turn = "Completed"
      replies == IF ended /\ d.reply = c.says THEN {c.says} ELSE {d.reply, c.says}
      closed == {[base EXCEPT !.reply = r] : r \in replies}
      moved == {[x EXCEPT !.settled = TRUE] : x \in closed}
  IN IF c.turn = "Waiting"
       THEN {[base EXCEPT !.ask = c.asks, !.asked = c.says,
                          !.episode = IF new THEN @ + 1 ELSE @]} \cup
            (IF new THEN {[base EXCEPT !.turn = "Running"]} ELSE {})
     ELSE IF c.turn = "Completed"
       THEN closed \cup (IF ended THEN moved ELSE {})
     ELSE {base}

ReadLog(t) ==
  /\ t \in bound
  /\ \E c \in Readings(t) : Show([card EXCEPT ![t] = c], waits, bound, typing)
  /\ UNCHANGED <<cli, running, linked>>

\* check_screen_wait: the screen is still, and shows a question or none.
CheckScreen(t) ==
  /\ t \in bound
  /\ Show(card, [waits EXCEPT ![t] =
               IF cli[t].turn = "Waiting" THEN [ask |-> cli[t].asks, words |-> cli[t].says]
                                          ELSE NoQuestion], bound, typing)
  /\ UNCHANGED <<cli, running, linked>>

\* The terminal's conversation gets known, or its process ends.
Bind(t) ==
  /\ t \in running
  /\ Show(card, waits, IF t \in bound THEN bound \ {t} ELSE bound \cup {t}, typing)
  /\ UNCHANGED <<cli, running, linked>>

ExitTerminal(t) ==
  /\ t \in running
  /\ running' = running \ {t} /\ bound' = bound \ {t}
  /\ Plan(card, waits, running', bound', typing)
  /\ UNCHANGED <<cli, card, waits, linked>>

\* Request::ReportTo: what the child shows now is not news.
ReportTo(child, parent) ==
  /\ child # parent /\ linked < MaxLinks
  /\ linked' = linked + 1
  /\ LET end == IF child \in bound THEN TurnEnd(card[child], waits[child]) ELSE NoEnd IN
     links' = [links EXCEPT ![child] = [parent |-> parent, last |-> end.key, said |-> end.said]]
  /\ made' = [r \in Report |-> IF r.child = child THEN 0 ELSE made[r]]
  /\ UNCHANGED <<cli, card, waits, running, bound, outbox, typing>>

-----------------------------------------------------------------------------
(* send_text, one step per lock it takes.                                   *)

\* The paste, refused by a terminal that exited or does not take a paste of
\* several lines: then the reports are gone.
Paste(j, taken) ==
  /\ j.step = "paste" /\ taken => j.to \in running
  /\ typing' = (typing \ {j}) \cup IF taken THEN {[j EXCEPT !.step = "clear"]} ELSE {}
  /\ UNCHANGED <<cli, card, waits, running, bound, links, outbox, made, linked>>

\* set_screen_wait(None), with its commit.
ClearWait(j) ==
  /\ j.step = "clear"
  /\ Show(card, [waits EXCEPT ![j.to] = NoQuestion], bound,
          (typing \ {j}) \cup {[j EXCEPT !.step = "enter"]})
  /\ UNCHANGED <<cli, running, linked>>

\* 150 ms later, whatever the program is doing by then.
Enter(j) ==
  /\ j.step = "enter"
  /\ typing' = typing \ {j}
  /\ LET t == j.to IN
     cli' = [cli EXCEPT ![t] =
       IF t \in running /\ @.turn = "Waiting" THEN [@ EXCEPT !.turn = "Running", !.says = None]
       ELSE IF t \in running /\ @.turn \in {"Idle", "Completed"} /\ @.n < MaxTurns THEN Begun(t)
       ELSE @]
  /\ UNCHANGED <<card, waits, running, bound, links, outbox, made, linked>>

Next ==
  \/ \E t \in Terminals : Prompt(t)
  \/ \E t \in Terminals, w \in Words : Question(t, w)
  \/ \E t \in Terminals, w \in Words : Finish(t, w)
  \/ \E t \in Terminals : Answer(t)
  \/ \E t \in Terminals : ReadLog(t)
  \/ \E t \in Terminals : CheckScreen(t)
  \/ \E t \in Terminals : Bind(t)
  \/ \E t \in Terminals : ExitTerminal(t)
  \/ \E child, parent \in Terminals : ReportTo(child, parent)
  \/ \E j \in typing, taken \in BOOLEAN : Paste(j, taken)
  \/ \E j \in typing : ClearWait(j)
  \/ \E j \in typing : Enter(j)

Spec == Init /\ [][Next]_vars

-----------------------------------------------------------------------------
(* What the code promises.                                                  *)

Linked(c) == {c, links[c].parent} \subseteq running
Shows(c) == IF c \in bound THEN TurnEnd(card[c], waits[c]) ELSE NoEnd

\* However often its log is read and its key moves, a child that is linked reports
\* the same words for the same turn at most once, as long as it reports no question.
TurnIsReportedOnce ==
  \A r \in Report :
    made[r] > 1 => \E q \in Report : q.child = r.child /\ q.ask > 0 /\ made[q] > 0

\* No commit misses an end: what a linked child shows is the end last noted.
EndIsNoted == \A c \in Terminals : Linked(c) /\ Shows(c) # NoEnd => links[c].last = Shows(c).key

\* "It goes in once it is idle": no path on which a starter becomes idle
\* (log, screen, typing, a conversation found) leaves its reports waiting.
IdleStarterHasNoMail ==
  \A p \in bound : ~Busy(card[p], waits[p]) => outbox[p] = <<>>

\* A report that was made or waited leaves only into a typing thread, with its
\* starter's terminal, or as the oldest of a full outbox.
OnlyOldestIsDropped ==
  [][\A p \in running' : \A r \in Report :
       LET waited == r \in Range(outbox[p]) \/ (made'[r] > made[r] /\ links[r.child].parent = p)
           waiting == r \in Range(outbox'[p])
           typed == \E j \in typing' : j.to = p /\ r \in Range(j.reports)
       IN waited /\ ~waiting /\ ~typed =>
            outbox[p] # <<>> /\ r = Head(outbox[p]) /\ Len(outbox'[p]) = QUEUE]_vars

\* report_back.rs: "The turn ended before its reply was read: report it once the
\* reply is."  A child that reported its last turn has reported the reply it
\* shows at the end of this one.
ReplyIsReported ==
  \A c \in Terminals :
    LET end == Shows(c)
        before == {r \in Report : r.child = c /\ r.n = card[c].n - 1 /\ r.ask = 0 /\ made[r] > 0}
    IN Linked(c) /\ end.key.event = "done" /\ before # {}
         => links[c].said = end.said
=============================================================================
