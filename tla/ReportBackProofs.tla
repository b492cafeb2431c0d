-------------------------- MODULE ReportBackProofs --------------------------
(***************************************************************************)
(* ReportBack for any terminals, words, turns, questions and links: no end *)
(* is missed, none is reported twice, and no report waits for an idle      *)
(* starter.                                                                *)
(***************************************************************************)
EXTENDS ReportBack, FiniteSetTheorems, TLAPS

(***************************************************************************)
(* Types, as far as the proofs need them.                                  *)
(***************************************************************************)
Told == Words \cup {None}

\* A CLI says something when it asks or has finished.
CliTyped ==
    /\ DOMAIN cli = Terminals
    /\ \A t \in Terminals :
         /\ {"turn", "n", "asks", "says"} \subseteq DOMAIN cli[t]
         /\ cli[t].n \in 0 .. MaxTurns /\ cli[t].asks \in 0 .. MaxAsks
         /\ cli[t].says \in Told
         /\ cli[t].turn = "Waiting" => cli[t].says \in Words /\ cli[t].asks > 0
         /\ cli[t].turn = "Completed" => cli[t].says \in Words

CardFields == {"turn", "n", "settled", "episode", "ask", "asked", "reply"}
IsCard(c) ==
    /\ CardFields \subseteq DOMAIN c
    /\ c.n \in 0 .. MaxTurns /\ c.ask \in 0 .. MaxAsks /\ c.asked \in Told /\ c.reply \in Told
    /\ c.turn = "Waiting" => c.ask > 0
CardTyped == DOMAIN card = Terminals /\ \A t \in Terminals : IsCard(card[t])

\* The words of a question tell whether there is one.
IsSeen(w) ==
    \/ w = NoQuestion
    \/ {"ask", "words"} \subseteq DOMAIN w /\ w.words \in Words /\ w.ask \in 1 .. MaxAsks
WaitsTyped == DOMAIN waits = Terminals /\ \A t \in Terminals : IsSeen(waits[t])

LinksTyped ==
    /\ DOMAIN links = Terminals
    /\ \A c \in Terminals : {"parent", "last", "said"} \subseteq DOMAIN links[c]
MailTyped ==
    /\ running \subseteq Terminals /\ bound \subseteq running
    /\ made \in [Report -> Nat]
    /\ typing \subseteq Thread

Typed == CliTyped /\ CardTyped /\ WaitsTyped /\ LinksTyped /\ MailTyped

LEMMA NoQuestionIs == NoQuestion.words = None /\ IsSeen(NoQuestion) /\ None \notin Words
  BY NoneAssumption DEF NoQuestion, IsSeen

LEMMA InitTyped == Init => Typed
<1> SUFFICES ASSUME Init PROVE Typed
  OBVIOUS
<1>1. 0 \in 0 .. MaxTurns /\ 0 \in 0 .. MaxAsks
  BY BoundsAssumption
<1>2. CliTyped /\ CardTyped
  BY <1>1 DEF Init, CliTyped, CardTyped, IsCard, CardFields, Told
<1>3. WaitsTyped /\ LinksTyped
  BY NoQuestionIs DEF Init, WaitsTyped, LinksTyped, NoLink
<1>4. MailTyped
  BY QueueAssumption DEF Init, MailTyped
<1> QED BY <1>2, <1>3, <1>4 DEF Typed

(***************************************************************************)
(* The kinds of step.                                                      *)
(***************************************************************************)
\* A CLI's words change only while its turn is under way, or with its turn.
CliStep ==
    /\ CliTyped'
    /\ \A t \in Terminals :
         \/ cli'[t] = cli[t]
         \/ cli'[t].n = cli[t].n + 1
         \/ cli[t].turn \in {"Running", "Waiting"} /\ cli'[t].n = cli[t].n

\* What log and hooks make of card d of CLI c.
IsRead(c, d, x) ==
    /\ IsCard(x) /\ x.n = c.n
    /\ x.turn = "Completed" <=> c.turn = "Completed"
    /\ c.turn = "Completed" => x.reply \in {d.reply, c.says}
    /\ c.turn = "Completed" /\ d.n = c.n /\ d.turn = "Completed" /\ d.reply = c.says
         => x.reply = c.says

\* Nothing is planned: no card, wording or conversation changed.
Quiet ==
    /\ card' = card /\ Wording(waits') = Wording(waits)
    /\ UNCHANGED <<running, bound, links, outbox, made>>
    /\ typing' \subseteq Thread

\* A commit after a change at one terminal.
CommitsAt(t) ==
    /\ DOMAIN card' = Terminals
    /\ \A c \in Terminals \ {t} :
         card'[c] = card[c] /\ waits'[c] = waits[c] /\ (c \in bound' <=> c \in bound)
    /\ card'[t] = card[t] \/ (cli'[t] = cli[t] /\ IsRead(cli[t], card[t], card'[t]))
    /\ running' \subseteq running /\ bound' \subseteq running'
    /\ \E threads : /\ threads \subseteq Thread
                    /\ Plan(card', waits', running', bound', threads)

Relinks == \E child, parent \in Terminals : ReportTo(child, parent)

Steps == CliStep /\ WaitsTyped' /\ (Quiet \/ (\E t \in Terminals : CommitsAt(t)) \/ Relinks)

LEMMA ReadingIsRead ==
  ASSUME Typed, NEW t \in Terminals, NEW x \in Readings(t)
  PROVE  IsRead(cli[t], card[t], x)
<1> DEFINE c == cli[t]
           d == card[t]
           same == d.n = c.n
           base == [d EXCEPT !.turn = c.turn, !.n = c.n, !.settled = same /\ @,
                             !.ask = 0, !.asked = None]
           new == ~(same /\ d.turn = "Waiting" /\ d.ask = c.asks)
<1>1. /\ CardFields \subseteq DOMAIN d /\ d.reply \in Told
      /\ c.n \in 0 .. MaxTurns /\ c.asks \in 0 .. MaxAsks /\ c.says \in Told
      /\ c.turn = "Waiting" => c.asks > 0
  BY DEF Typed, CliTyped, CardTyped, IsCard
<1>2. /\ CardFields \subseteq DOMAIN base /\ base.turn = c.turn /\ base.n = c.n
      /\ base.ask = 0 /\ base.asked = None /\ base.reply = d.reply
  <2>1. \A b : base = [d EXCEPT !.turn = c.turn, !.n = c.n, !.settled = b, !.ask = 0, !.asked = None]
          => /\ CardFields \subseteq DOMAIN base /\ base.turn = c.turn /\ base.n = c.n
             /\ base.ask = 0 /\ base.asked = None /\ base.reply = d.reply
    BY <1>1 DEF CardFields
  <2> QED BY <2>1
<1> DEFINE replies == IF same /\ d.turn = "Completed" /\ d.reply = c.says
                        THEN {c.says} ELSE {d.reply, c.says}
           closed == {[base EXCEPT !.reply = r] : r \in replies}
<1>3. CASE c.turn = "Waiting"
  <2>1. \/ x = [base EXCEPT !.ask = c.asks, !.asked = c.says, !.episode = IF new THEN @ + 1 ELSE @]
        \/ x = [base EXCEPT !.turn = "Running"]
    <3>1. Readings(t) = {[base EXCEPT !.ask = c.asks, !.asked = c.says,
                                      !.episode = IF new THEN @ + 1 ELSE @]} \cup
                        (IF new THEN {[base EXCEPT !.turn = "Running"]} ELSE {})
      BY <1>3 DEF Readings
    <3> HIDE DEF base, new
    <3> QED BY <3>1
  <2> HIDE DEF base, new
  <2>2. CASE x = [base EXCEPT !.ask = c.asks, !.asked = c.says, !.episode = IF new THEN @ + 1 ELSE @]
    <3>1. /\ CardFields \subseteq DOMAIN x /\ x.turn = c.turn /\ x.n = c.n
          /\ x.ask = c.asks /\ x.asked = c.says /\ x.reply = d.reply
      BY <1>2, <2>2 DEF CardFields
    <3> QED BY <1>1, <1>3, <3>1 DEF IsRead, IsCard
  <2>3. CASE x = [base EXCEPT !.turn = "Running"]
    <3>1. /\ CardFields \subseteq DOMAIN x /\ x.turn = "Running" /\ x.n = c.n
          /\ x.ask = 0 /\ x.asked = None /\ x.reply = d.reply
      BY <1>2, <2>3 DEF CardFields
    <3> QED BY <1>1, <1>3, <3>1, BoundsAssumption DEF IsRead, IsCard, Told
  <2> QED BY <2>1, <2>2, <2>3
<1>4. CASE c.turn = "Completed"
  <2>1. x \in closed \cup {[y EXCEPT !.settled = TRUE] : y \in closed}
    BY <1>4 DEF Readings
  <2>2. PICK r \in replies, y \in closed : /\ y = [base EXCEPT !.reply = r]
                                           /\ x = y \/ x = [y EXCEPT !.settled = TRUE]
    <3> HIDE DEF base, replies
    <3> QED BY <2>1
  <2> HIDE DEF base
  <2>3. /\ CardFields \subseteq DOMAIN y /\ y.turn = c.turn /\ y.n = c.n
        /\ y.ask = 0 /\ y.asked = None /\ y.reply = r
    BY <1>2, <2>2 DEF CardFields
  <2>4. /\ CardFields \subseteq DOMAIN x /\ x.turn = c.turn /\ x.n = c.n
        /\ x.ask = 0 /\ x.asked = None /\ x.reply = r
    BY <2>2, <2>3 DEF CardFields
  <2> QED BY <1>1, <1>4, <2>2, <2>4, BoundsAssumption DEF IsRead, IsCard, Told
<1>5. CASE c.turn \notin {"Waiting", "Completed"}
  <2>1. x = base
    BY <1>5 DEF Readings
  <2> HIDE DEF base
  <2> QED BY <1>1, <1>2, <1>5, <2>1, BoundsAssumption DEF IsRead, IsCard, Told
<1> QED BY <1>3, <1>4, <1>5

\* What Show leaves for its caller to say.
LEMMA ShowSteps ==
  ASSUME Typed, NEW t \in Terminals, NEW cards, NEW screens, NEW bnd, NEW threads,
         running' = running, bnd \subseteq running, DOMAIN cards = Terminals,
         Show(cards, screens, bnd, threads),
         threads \subseteq Thread,
         \A c \in Terminals \ {t} :
           cards[c] = card[c] /\ screens[c] = waits[c] /\ (c \in bnd <=> c \in bound),
         cards[t] = card[t] \/ (cli'[t] = cli[t] /\ IsRead(cli[t], card[t], cards[t]))
  PROVE  Quiet \/ CommitsAt(t)
<1>1. card' = cards /\ waits' = screens /\ bound' = bnd
  BY DEF Show
<1>2. CASE <<cards, Wording(screens), bnd>> = <<card, Wording(waits), bound>>
  BY <1>1, <1>2 DEF Show, Quiet
<1>3. CASE Plan(cards, screens, running, bnd, threads)
  <2>1. Plan(card', waits', running', bound', threads)
    BY <1>1, <1>3
  <2> QED BY <1>1, <2>1 DEF CommitsAt
<1> QED BY <1>2, <1>3 DEF Show

LEMMA ThreadsTyped ==
  ASSUME Typed, NEW j \in typing
  PROVE  /\ j.to \in Terminals
         /\ \A x \in {"clear", "enter"} : [j EXCEPT !.step = x] \in Thread
BY DEF Typed, MailTyped, Thread

LEMMA SameCli == Typed /\ cli' = cli => CliStep
  BY DEF Typed, CliStep, CliTyped

LEMMA SameWaits == Typed /\ waits' = waits => WaitsTyped' 
  BY DEF Typed, WaitsTyped

\* One terminal's CLI moves on.
LEMMA OneCliMoves ==
  ASSUME Typed, NEW t \in Terminals, NEW v, cli' = [cli EXCEPT ![t] = v],
         {"turn", "n", "asks", "says"} \subseteq DOMAIN v,
         v.n \in 0 .. MaxTurns, v.asks \in 0 .. MaxAsks, v.says \in Told,
         v.turn = "Waiting" => v.says \in Words /\ v.asks > 0,
         v.turn = "Completed" => v.says \in Words,
         \/ v = cli[t]
         \/ v.n = cli[t].n + 1
         \/ cli[t].turn \in {"Running", "Waiting"} /\ v.n = cli[t].n
  PROVE  CliStep
BY DEF Typed, CliStep, CliTyped

LEMMA BegunIs ==
  ASSUME Typed, NEW t \in Terminals, cli[t].n < MaxTurns
  PROVE  LET v == Begun(t) IN
         /\ {"turn", "n", "asks", "says"} \subseteq DOMAIN v
         /\ v.n = cli[t].n + 1 /\ v.n \in 0 .. MaxTurns /\ v.asks \in 0 .. MaxAsks
         /\ v.says \in Told /\ v.turn = "Running"
BY BoundsAssumption DEF Typed, CliTyped, Begun, Told

LEMMA CliActionsStep ==
  ASSUME Typed, NEW t \in Terminals, NEW w \in Words,
         Question(t, w) \/ Finish(t, w)
  PROVE  Steps
<1>1. Quiet /\ waits' = waits
  BY DEF Question, Finish, NoPlan, Quiet, Typed, MailTyped
<1>2. cli[t].n \in 0 .. MaxTurns /\ cli[t].asks \in 0 .. MaxAsks
      /\ {"turn", "n", "asks", "says"} \subseteq DOMAIN cli[t] /\ DOMAIN cli = Terminals
  BY DEF Typed, CliTyped
<1>3. CASE Question(t, w)
  <2> DEFINE v == [cli[t] EXCEPT !.turn = "Waiting", !.asks = @ + 1, !.says = w]
  <2>1. cli' = [cli EXCEPT ![t] = v] /\ cli[t].turn = "Running" /\ cli[t].asks < MaxAsks
    BY <1>2, <1>3 DEF Question
  <2>2. /\ {"turn", "n", "asks", "says"} \subseteq DOMAIN v
        /\ v.n = cli[t].n /\ v.asks \in 0 .. MaxAsks /\ v.asks > 0
        /\ v.says = w /\ v.turn = "Waiting"
    BY <1>2, <2>1, BoundsAssumption
  <2> HIDE DEF v
  <2>3. CliStep
    BY <1>2, <2>1, <2>2, OneCliMoves DEF Told
  <2> QED BY <1>1, <2>3, SameWaits DEF Steps
<1>4. CASE Finish(t, w)
  <2> DEFINE v == [cli[t] EXCEPT !.turn = "Completed", !.says = w]
  <2>1. cli' = [cli EXCEPT ![t] = v] /\ cli[t].turn = "Running"
    BY <1>2, <1>4 DEF Finish
  <2>2. /\ {"turn", "n", "asks", "says"} \subseteq DOMAIN v
        /\ v.n = cli[t].n /\ v.asks = cli[t].asks /\ v.says = w /\ v.turn = "Completed"
    BY <1>2
  <2> HIDE DEF v
  <2>3. CliStep
    BY <1>2, <2>1, <2>2, OneCliMoves DEF Told
  <2> QED BY <1>1, <2>3, SameWaits DEF Steps
<1> QED BY <1>3, <1>4

\* Input ends the wait seen on a screen, and a still screen sets it.
LEMMA OneWaitMoves ==
  ASSUME Typed, NEW t \in Terminals, NEW w, IsSeen(w), waits' = [waits EXCEPT ![t] = w]
  PROVE  WaitsTyped'
BY DEF Typed, WaitsTyped

\* A CLI whose question is answered.
LEMMA AnsweredCli ==
  ASSUME Typed, NEW t \in Terminals, cli[t].turn = "Waiting",
         cli' = [cli EXCEPT ![t] = [cli[t] EXCEPT !.turn = "Running", !.says = None]]
  PROVE  CliStep
<1> DEFINE v == [cli[t] EXCEPT !.turn = "Running", !.says = None]
<1>1. cli' = [cli EXCEPT ![t] = v]
  OBVIOUS
<1>2. cli[t].n \in 0 .. MaxTurns /\ cli[t].asks \in 0 .. MaxAsks
      /\ {"turn", "n", "asks", "says"} \subseteq DOMAIN cli[t]
  BY DEF Typed, CliTyped
<1>3. /\ {"turn", "n", "asks", "says"} \subseteq DOMAIN v
      /\ v.n = cli[t].n /\ v.asks = cli[t].asks /\ v.says = None /\ v.turn = "Running"
  BY <1>2
<1> HIDE DEF v
<1> QED BY <1>1, <1>2, <1>3, OneCliMoves DEF Told

LEMMA AnswerSteps ==
  ASSUME Typed, NEW t \in Terminals, Answer(t)
  PROVE  Steps
<1> DEFINE screens == [waits EXCEPT ![t] = NoQuestion]
<1>1. /\ Show(card, screens, bound, typing) /\ running' = running /\ waits' = screens
      /\ cli[t].turn = "Waiting" /\ DOMAIN cli = Terminals
      /\ cli' = [cli EXCEPT ![t].turn = "Running", ![t].says = None]
  BY DEF Answer, Show, Typed, CliTyped
<1>2. cli' = [cli EXCEPT ![t] = [cli[t] EXCEPT !.turn = "Running", !.says = None]]
  BY <1>1
<1>3. CliStep
  BY <1>1, <1>2, AnsweredCli
<1>4. WaitsTyped'
  BY <1>1, OneWaitMoves, NoQuestionIs
<1>5. /\ DOMAIN card = Terminals /\ bound \subseteq running
      /\ \A c \in Terminals \ {t} : screens[c] = waits[c]
      /\ typing \subseteq Thread
  BY DEF Typed, CardTyped, MailTyped, WaitsTyped
<1> HIDE DEF screens
<1>6. Quiet \/ CommitsAt(t)
  BY <1>1, <1>5, ShowSteps
<1> QED BY <1>3, <1>4, <1>6 DEF Steps

LEMMA ReadLogSteps ==
  ASSUME Typed, NEW t \in Terminals, ReadLog(t)
  PROVE  Steps
<1>1. PICK x \in Readings(t) : Show([card EXCEPT ![t] = x], waits, bound, typing)
  BY DEF ReadLog
<1> DEFINE cards == [card EXCEPT ![t] = x]
<1>2. IsRead(cli[t], card[t], x)
  BY ReadingIsRead
<1>3. /\ DOMAIN cards = Terminals /\ cards[t] = x /\ bound \subseteq running
      /\ \A c \in Terminals \ {t} : cards[c] = card[c]
      /\ typing \subseteq Thread
  BY DEF Typed, CardTyped, MailTyped
<1>4. Show(cards, waits, bound, typing) /\ running' = running /\ cli' = cli /\ waits' = waits
  BY <1>1 DEF ReadLog, Show
<1> HIDE DEF cards
<1>5. Quiet \/ CommitsAt(t)
  BY <1>2, <1>3, <1>4, ShowSteps
<1> QED BY <1>4, <1>5, SameCli, SameWaits DEF Steps

LEMMA CheckScreenSteps ==
  ASSUME Typed, NEW t \in Terminals, CheckScreen(t)
  PROVE  Steps
<1> DEFINE w == IF cli[t].turn = "Waiting" THEN [ask |-> cli[t].asks, words |-> cli[t].says]
                                           ELSE NoQuestion
           screens == [waits EXCEPT ![t] = w]
<1>1. /\ Show(card, screens, bound, typing) /\ running' = running /\ cli' = cli
      /\ waits' = screens
  BY DEF CheckScreen, Show
<1>2. IsSeen(w)
  BY NoQuestionIs DEF Typed, CliTyped, IsSeen
<1>3. /\ DOMAIN card = Terminals /\ bound \subseteq running
      /\ \A c \in Terminals \ {t} : screens[c] = waits[c]
      /\ typing \subseteq Thread
  BY DEF Typed, CardTyped, MailTyped, WaitsTyped
<1> HIDE DEF w
<1>4. WaitsTyped'
  BY <1>1, <1>2, OneWaitMoves
<1> HIDE DEF screens
<1>5. Quiet \/ CommitsAt(t)
  BY <1>1, <1>3, ShowSteps
<1> QED BY <1>1, <1>4, <1>5, SameCli DEF Steps

LEMMA BindSteps ==
  ASSUME Typed, NEW t \in Terminals, Bind(t)
  PROVE  Steps
<1> DEFINE bnd == IF t \in bound THEN bound \ {t} ELSE bound \cup {t}
<1>1. /\ Show(card, waits, bnd, typing) /\ running' = running /\ cli' = cli /\ waits' = waits
  BY DEF Bind, Show
<1>2. /\ DOMAIN card = Terminals /\ bnd \subseteq running
      /\ \A c \in Terminals \ {t} : c \in bnd <=> c \in bound
      /\ typing \subseteq Thread
  BY DEF Typed, CardTyped, MailTyped, Bind
<1> HIDE DEF bnd
<1>3. Quiet \/ CommitsAt(t)
  BY <1>1, <1>2, ShowSteps
<1> QED BY <1>1, <1>3, SameCli, SameWaits DEF Steps

LEMMA ExitTerminalSteps ==
  ASSUME Typed, NEW t \in Terminals, ExitTerminal(t)
  PROVE  Steps
<1>1. /\ card' = card /\ waits' = waits /\ cli' = cli
      /\ running' = running \ {t} /\ bound' = bound \ {t}
      /\ Plan(card, waits, running', bound', typing)
  BY DEF ExitTerminal
<1>2. Plan(card', waits', running', bound', typing)
  BY <1>1
<1>3. /\ DOMAIN card = Terminals /\ bound \subseteq running
      /\ typing \subseteq Thread
  BY DEF Typed, CardTyped, MailTyped
<1>4. CommitsAt(t)
  BY <1>1, <1>2, <1>3 DEF CommitsAt
<1> QED BY <1>1, <1>4, SameCli, SameWaits DEF Steps

LEMMA ClearWaitSteps ==
  ASSUME Typed, NEW j \in typing, ClearWait(j)
  PROVE  Steps
<1> DEFINE t == j.to
           screens == [waits EXCEPT ![t] = NoQuestion]
           threads == (typing \ {j}) \cup {[j EXCEPT !.step = "enter"]}
<1>1. /\ Show(card, screens, bound, threads) /\ running' = running /\ cli' = cli
      /\ waits' = screens
  BY DEF ClearWait, Show
<1>2. t \in Terminals
  BY ThreadsTyped
<1>3. /\ DOMAIN card = Terminals /\ bound \subseteq running
      /\ \A c \in Terminals \ {t} : screens[c] = waits[c]
  BY DEF Typed, CardTyped, MailTyped, WaitsTyped
<1>4. threads \subseteq Thread
  BY ThreadsTyped DEF Typed, MailTyped
<1>5. WaitsTyped'
  BY <1>1, <1>2, OneWaitMoves, NoQuestionIs
<1> HIDE DEF screens, threads, t
<1>6. Quiet \/ CommitsAt(t)
  BY <1>1, <1>2, <1>3, <1>4, ShowSteps
<1> QED BY <1>1, <1>2, <1>5, <1>6, SameCli DEF Steps

\* An Enter answers, begins a turn, or finds the program busy.
LEMMA EnteredCli ==
  ASSUME Typed, NEW t \in Terminals,
         cli' = [cli EXCEPT ![t] =
           IF t \in running /\ cli[t].turn = "Waiting"
             THEN [cli[t] EXCEPT !.turn = "Running", !.says = None]
           ELSE IF t \in running /\ cli[t].turn \in {"Idle", "Completed"} /\ cli[t].n < MaxTurns
             THEN Begun(t) ELSE cli[t]]
  PROVE  CliStep
<1>1. CASE cli' = [cli EXCEPT ![t] = cli[t]]
  <2>1. \A c \in Terminals : cli'[c] = cli[c]
    BY <1>1 DEF Typed, CliTyped
  <2>2. DOMAIN cli' = Terminals
    BY <1>1 DEF Typed, CliTyped
  <2> QED BY <2>1, <2>2 DEF Typed, CliStep, CliTyped
<1>2. CASE cli[t].n < MaxTurns /\ cli' = [cli EXCEPT ![t] = Begun(t)]
  BY <1>2, BegunIs, OneCliMoves
<1>3. CASE /\ cli[t].turn = "Waiting"
           /\ cli' = [cli EXCEPT ![t] = [cli[t] EXCEPT !.turn = "Running", !.says = None]]
  BY <1>3, AnsweredCli
<1> QED BY <1>1, <1>2, <1>3

LEMMA EnterSteps ==
  ASSUME Typed, NEW j \in typing, Enter(j)
  PROVE  Steps
<1>1. Quiet /\ waits' = waits /\ j.to \in Terminals
  BY ThreadsTyped DEF Enter, Quiet, Typed, MailTyped
<1>2. CliStep
  BY <1>1, EnteredCli DEF Enter
<1> QED BY <1>1, <1>2, SameWaits DEF Steps

LEMMA NextSteps == Typed /\ [Next]_vars => Steps
<1> SUFFICES ASSUME Typed, [Next]_vars PROVE Steps
  OBVIOUS
<1>1. CASE UNCHANGED vars
  BY <1>1, SameCli, SameWaits DEF vars, Steps, Quiet, Typed, MailTyped
<1>2. ASSUME NEW t \in Terminals, Prompt(t) PROVE Steps
  <2>1. Quiet /\ waits' = waits /\ cli' = [cli EXCEPT ![t] = Begun(t)] /\ cli[t].n < MaxTurns
    BY <1>2 DEF Prompt, NoPlan, Quiet, Typed, MailTyped
  <2> QED BY <2>1, BegunIs, OneCliMoves, SameWaits DEF Steps
<1>3. ASSUME NEW t \in Terminals, NEW w \in Words, Question(t, w) \/ Finish(t, w) PROVE Steps
  BY <1>3, CliActionsStep
<1>4. ASSUME NEW child \in Terminals, NEW parent \in Terminals, ReportTo(child, parent) PROVE Steps
  BY <1>4, SameCli, SameWaits DEF ReportTo, Relinks, Steps
<1>5. ASSUME NEW j \in typing, NEW taken \in BOOLEAN, Paste(j, taken) PROVE Steps
  <2>1. typing' \subseteq Thread
    BY <1>5, ThreadsTyped DEF Paste, Typed, MailTyped
  <2> QED BY <1>5, <2>1, SameCli, SameWaits DEF Paste, Quiet, Steps
<1> QED BY <1>1, <1>2, <1>3, <1>4, <1>5, AnswerSteps, ReadLogSteps, CheckScreenSteps,
           BindSteps, ExitTerminalSteps, ClearWaitSteps, EnterSteps DEF Next

(***************************************************************************)
(* What one commit plans.                                                  *)
(***************************************************************************)
\* Whether c's link is kept, and an end that was not noted, or not said.
Kept(run, c) == {c, links[c].parent} \subseteq run
Fresh(end, c) == end # NoEnd /\ end.key # links[c].last
IsTold(c) == Kept(running', c) /\ Fresh(Shows(c)', c) /\ ~Repeats(links[c], Shows(c)')
ReportOf(c) == [child |-> c, n |-> card'[c].n, ask |-> Shows(c)'.ask, words |-> Shows(c)'.said.words]

\* Every end a kept link shows is noted, and an idle starter's outbox is handed over.
LEMMA CommitNotes ==
  ASSUME Typed, NEW t \in Terminals, CommitsAt(t)
  PROVE  /\ DOMAIN links' = Terminals
         /\ \A c \in Terminals :
              links'[c] = IF ~Kept(running', c) THEN NoLink
                          ELSE IF Fresh(Shows(c)', c) THEN Noted(links[c], Shows(c)')
                          ELSE links[c]
         /\ \A p \in bound' : ~Busy(card'[p], waits'[p]) => outbox'[p] = <<>>
<1>1. PICK threads : Plan(card', waits', running', bound', threads)
  BY DEF CommitsAt
<1>2. running' \subseteq Terminals /\ bound' \subseteq running'
  BY DEF CommitsAt, Typed, MailTyped
<1> DEFINE kept == {c \in running' : links[c].parent \in running'}
           End(c) == IF c \in bound' THEN TurnEnd(card'[c], waits'[c]) ELSE NoEnd
           fresh == {c \in kept : End(c) # NoEnd /\ End(c).key # links[c].last}
           told == {c \in fresh : ~Repeats(links[c], End(c))}
           Of(c) == [child |-> c, n |-> card'[c].n, ask |-> End(c).ask, words |-> End(c).said.words]
           News(p) == {Of(c) : c \in {x \in told : links[x].parent = p}}
           Queued(p) == Trimmed(outbox[p] \o SetToSeq(News(p)))
           due == {p \in running' : Due(Queued(p), News(p), p \in bound' /\ ~Busy(card'[p], waits'[p]))}
<1>3. /\ links' = [c \in Terminals |-> IF c \notin kept THEN NoLink
                                       ELSE IF c \in fresh THEN Noted(links[c], End(c))
                                       ELSE links[c]]
      /\ outbox' = [p \in Terminals |-> IF p \in running' \ due THEN Queued(p) ELSE <<>>]
      /\ typing' = threads \cup {[to |-> p, step |-> "paste", reports |-> Queued(p)] : p \in due}
  BY <1>1 DEF Plan
<1>4. \A c : End(c) = Shows(c)'
  BY DEF Shows
<1>5. \A c \in Terminals : (c \in kept <=> Kept(running', c))
                           /\ (c \in fresh <=> Kept(running', c) /\ Fresh(Shows(c)', c))
  <2> HIDE DEF End
  <2> QED BY <1>2, <1>4 DEF Kept, Fresh
<1>6. /\ DOMAIN links' = Terminals
      /\ \A c \in Terminals :
           links'[c] = IF ~Kept(running', c) THEN NoLink
                       ELSE IF Fresh(Shows(c)', c) THEN Noted(links[c], Shows(c)')
                       ELSE links[c]
  <2> HIDE DEF End, kept, fresh
  <2> QED BY <1>3, <1>4, <1>5
<1>7. ASSUME NEW p \in bound', ~Busy(card'[p], waits'[p]) PROVE outbox'[p] = <<>>
  <2> HIDE DEF News, Queued
  <2> QED BY <1>2, <1>3, <1>7 DEF Due
<1> QED BY <1>6, <1>7

(***************************************************************************)
(* No end is missed.                                                       *)
(***************************************************************************)
\* Only whether there is a question tells what a terminal shows as its end.
LEMMA SameWordingSameEnd ==
  ASSUME NEW c, NEW v, NEW w, IsSeen(v), IsSeen(w), v.words = w.words
  PROVE  /\ (v = NoQuestion) <=> (w = NoQuestion)
         /\ (TurnEnd(c, v) = NoEnd) <=> (TurnEnd(c, w) = NoEnd)
         /\ TurnEnd(c, v).key = TurnEnd(c, w).key
         /\ Busy(c, v) <=> Busy(c, w)
<1>1. (v = NoQuestion) <=> (w = NoQuestion)
  BY NoQuestionIs DEF IsSeen
<1>2. Asks(c, v) <=> Asks(c, w)
  BY <1>1 DEF Asks
<1>3. CASE Asks(c, v)
  <2>1. TurnEnd(c, v).key = TurnEnd(c, w).key
    BY <1>2, <1>3 DEF TurnEnd
  <2>2. TurnEnd(c, v).key.event = "waiting" /\ TurnEnd(c, w).key.event = "waiting"
    BY <1>2, <1>3 DEF TurnEnd
  <2>3. NoEnd.key.event = "none"
    BY DEF NoEnd, NoKey
  <2> QED BY <1>1, <1>2, <2>1, <2>2, <2>3 DEF Busy
<1>4. CASE ~Asks(c, v)
  <2>1. TurnEnd(c, v) = TurnEnd(c, w)
    BY <1>2, <1>4 DEF TurnEnd
  <2> QED BY <1>1, <1>2, <2>1 DEF Busy
<1> QED BY <1>3, <1>4

LEMMA QuietShows ==
  ASSUME Typed, WaitsTyped', Quiet, NEW c \in Terminals
  PROVE  /\ (Shows(c)' = NoEnd) <=> (Shows(c) = NoEnd)
         /\ Shows(c)'.key = Shows(c).key
         /\ Busy(card'[c], waits'[c]) <=> Busy(card[c], waits[c])
<1>1. /\ IsSeen(waits[c]) /\ IsSeen(waits'[c]) /\ waits[c].words = waits'[c].words
      /\ card' = card /\ bound' = bound
  BY DEF Typed, WaitsTyped, Quiet, Wording
<1> QED BY <1>1, SameWordingSameEnd DEF Shows

LEMMA NoLinkIs == NoLink.parent \notin Terminals
  BY NoneAssumption DEF NoLink

LEMMA EndStaysNoted ==
  ASSUME Typed, EndIsNoted, Steps
  PROVE  EndIsNoted'
<1> SUFFICES ASSUME NEW c \in Terminals, Linked(c)', Shows(c)' # NoEnd
             PROVE  links'[c].last = Shows(c)'.key
  BY DEF EndIsNoted
<1>1. CASE Quiet
  <2>1. Linked(c)
    BY <1>1 DEF Quiet, Linked
  <2> QED BY <1>1, <2>1, QuietShows DEF EndIsNoted, Steps, Quiet
<1>2. ASSUME NEW t \in Terminals, CommitsAt(t) PROVE links'[c].last = Shows(c)'.key
  <2>1. running' \subseteq Terminals
    BY <1>2 DEF CommitsAt, Typed, MailTyped
  <2>2. links'[c] = IF ~Kept(running', c) THEN NoLink
                    ELSE IF Fresh(Shows(c)', c) THEN Noted(links[c], Shows(c)')
                    ELSE links[c]
    BY <1>2, CommitNotes
  <2>3. links'[c] # NoLink
    BY <2>1, NoLinkIs DEF Linked
  <2>4. {"parent", "last", "said"} \subseteq DOMAIN links[c]
    BY DEF Typed, LinksTyped
  <2> QED BY <2>2, <2>3, <2>4 DEF Fresh, Noted
<1>3. ASSUME NEW child \in Terminals, NEW parent \in Terminals, ReportTo(child, parent)
      PROVE  links'[c].last = Shows(c)'.key
  <2> DEFINE end == IF child \in bound THEN TurnEnd(card[child], waits[child]) ELSE NoEnd
  <2>1. links' = [links EXCEPT ![child] = [parent |-> parent, last |-> end.key, said |-> end.said]]
    BY <1>3 DEF ReportTo
  <2>2. Shows(c)' = Shows(c) /\ running' = running
    BY <1>3 DEF ReportTo, Shows
  <2>3. Shows(child) = end
    BY DEF Shows
  <2> HIDE DEF end
  <2>4. CASE c = child
    BY <2>1, <2>2, <2>3, <2>4 DEF Typed, LinksTyped
  <2>5. CASE c # child
    <3>1. links'[c] = links[c]
      BY <2>1, <2>5 DEF Typed, LinksTyped
    <3> QED BY <2>2, <3>1 DEF EndIsNoted, Linked
  <2> QED BY <2>4, <2>5
<1> QED BY <1>1, <1>2, <1>3 DEF Steps, Relinks

(***************************************************************************)
(* No report waits for an idle starter.                                    *)
(***************************************************************************)
LEMMA IdleStaysWithoutMail ==
  ASSUME Typed, IdleStarterHasNoMail, Steps
  PROVE  IdleStarterHasNoMail'
<1> SUFFICES ASSUME NEW p \in bound', ~Busy(card'[p], waits'[p]) PROVE outbox'[p] = <<>>
  BY DEF IdleStarterHasNoMail
<1>1. CASE Quiet
  <2>1. p \in bound /\ p \in Terminals /\ outbox'[p] = outbox[p]
    BY <1>1 DEF Quiet, Typed, MailTyped
  <2> QED BY <1>1, <2>1, QuietShows DEF IdleStarterHasNoMail, Steps
<1>2. ASSUME NEW t \in Terminals, CommitsAt(t) PROVE outbox'[p] = <<>>
  BY <1>2, CommitNotes
<1>3. ASSUME NEW child \in Terminals, NEW parent \in Terminals, ReportTo(child, parent)
      PROVE  outbox'[p] = <<>>
  BY <1>3 DEF ReportTo, IdleStarterHasNoMail
<1> QED BY <1>1, <1>2, <1>3 DEF Steps, Relinks

(***************************************************************************)
(* A commit has news of one child at most.                                 *)
(***************************************************************************)
LEMMA OthersHaveNoNews ==
  ASSUME Typed, EndIsNoted, NEW t \in Terminals, CommitsAt(t), NEW c \in Terminals \ {t}
  PROVE  Kept(running', c) => ~Fresh(Shows(c)', c)
<1> SUFFICES ASSUME Kept(running', c) PROVE ~Fresh(Shows(c)', c)
  OBVIOUS
<1>1. Linked(c)
  BY DEF Kept, Linked, CommitsAt
<1>2. card'[c] = card[c] /\ waits'[c] = waits[c] /\ (c \in bound' <=> c \in bound)
  BY DEF CommitsAt
<1>3. Shows(c)' = Shows(c)
  BY <1>2 DEF Shows
<1> QED BY <1>1, <1>3 DEF EndIsNoted, Fresh

LEMMA CommitMakes ==
  ASSUME Typed, EndIsNoted, NEW t \in Terminals, CommitsAt(t)
  PROVE  made' = [r \in Report |-> IF IsTold(t) /\ r = ReportOf(t) THEN made[r] + 1 ELSE made[r]]
<1>1. PICK threads : Plan(card', waits', running', bound', threads)
  BY DEF CommitsAt
<1>2. running' \subseteq Terminals
  BY DEF CommitsAt, Typed, MailTyped
<1> DEFINE kept == {c \in running' : links[c].parent \in running'}
           End(c) == IF c \in bound' THEN TurnEnd(card'[c], waits'[c]) ELSE NoEnd
           fresh == {c \in kept : End(c) # NoEnd /\ End(c).key # links[c].last}
           told == {c \in fresh : ~Repeats(links[c], End(c))}
           Of(c) == [child |-> c, n |-> card'[c].n, ask |-> End(c).ask, words |-> End(c).said.words]
<1>3. made' = [r \in Report |-> made[r] + Cardinality({c \in told : Of(c) = r})]
  BY <1>1 DEF Plan
<1>4. \A c : End(c) = Shows(c)'
  BY DEF Shows
<1>5. \A c \in Terminals : c \in told <=> IsTold(c)
  <2> HIDE DEF End
  <2> QED BY <1>2, <1>4 DEF Kept, Fresh, IsTold
<1>6. told \subseteq {t}
  <2>1. \A c \in Terminals \ {t} : ~IsTold(c)
    BY OthersHaveNoNews DEF IsTold
  <2>2. told \subseteq Terminals
    BY <1>2
  <2> HIDE DEF told
  <2> QED BY <1>5, <2>1, <2>2
<1>7. Of(t) = ReportOf(t)
  BY <1>4 DEF ReportOf
<1>8. ASSUME NEW r \in Report
      PROVE made[r] + Cardinality({c \in told : Of(c) = r})
              = IF IsTold(t) /\ r = ReportOf(t) THEN made[r] + 1 ELSE made[r]
  <2> HIDE DEF told, Of
  <2>1. made[r] \in Nat
    BY DEF Typed, MailTyped
  <2>2. CASE IsTold(t) /\ r = ReportOf(t)
    <3>1. {c \in told : Of(c) = r} = {t}
      BY <1>5, <1>6, <1>7, <2>2
    <3> QED BY <2>2, <3>1, FS_Singleton
  <2>3. CASE ~(IsTold(t) /\ r = ReportOf(t))
    <3>1. {c \in told : Of(c) = r} = {}
      BY <1>5, <1>6, <1>7, <2>3
    <3> QED BY <2>1, <2>3, <3>1, FS_EmptySet
  <2> QED BY <2>2, <2>3
<1> HIDE DEF told, Of
<1> QED BY <1>3, <1>8

\* What a question's end says of itself.
LEMMA EndTyped ==
  ASSUME NEW c, NEW w, IsCard(c), IsSeen(w)
  PROVE  LET end == TurnEnd(c, w) IN
         /\ end.ask \in 0 .. MaxAsks /\ end.said.words \in Told
         /\ end.said.event = "waiting" => end.ask > 0
         /\ end # NoEnd => end.said.event \in {"done", "waiting"}
         /\ end.said.event = "done" =>
              /\ c.turn = "Completed" /\ c.reply \in Words /\ end.ask = 0
              /\ end.said = [event |-> "done", words |-> c.reply, screen |-> FALSE]
<1>1. NoQuestion.ask = 0 /\ NoQuestion.words = None /\ 0 \in 0 .. MaxAsks /\ None \in Told
  BY BoundsAssumption DEF NoQuestion, Told
<1>2. CASE Asks(c, w)
  <2>1. CASE c.turn = "Waiting"
    BY <1>2, <2>1 DEF TurnEnd, IsCard
  <2>2. CASE c.turn # "Waiting"
    <3>1. w.words \in Words /\ w.ask \in 1 .. MaxAsks
      BY <1>2, <2>2 DEF Asks, IsSeen
    <3> QED BY <1>2, <2>2, <3>1 DEF TurnEnd, Told
  <2> QED BY <2>1, <2>2
<1>3. CASE ~Asks(c, w) /\ c.turn = "Completed" /\ c.reply # None
  BY <1>1, <1>3 DEF TurnEnd, IsCard, Told
<1>4. CASE ~Asks(c, w) /\ ~(c.turn = "Completed" /\ c.reply # None)
  BY <1>1, <1>4 DEF TurnEnd, NoEnd, NoSaid
<1> QED BY <1>2, <1>3, <1>4

LEMMA ToldShows ==
  ASSUME Typed, Steps, NEW t \in Terminals, CommitsAt(t), IsTold(t)
  PROVE  /\ IsCard(card'[t]) /\ IsSeen(waits'[t]) /\ t \in bound'
         /\ Shows(t)' = TurnEnd(card'[t], waits'[t]) /\ Shows(t)' # NoEnd
         /\ ReportOf(t) \in Report /\ ReportOf(t).child = t /\ ReportOf(t).n = card'[t].n
         /\ ReportOf(t).ask = Shows(t)'.ask /\ ReportOf(t).words = Shows(t)'.said.words
<1>1. IsCard(card'[t]) /\ IsSeen(waits'[t])
  BY DEF CommitsAt, IsRead, Typed, CardTyped, Steps, WaitsTyped
<1>2. Shows(t)' # NoEnd
  BY DEF IsTold, Fresh
<1>3. t \in bound' /\ Shows(t)' = TurnEnd(card'[t], waits'[t])
  BY <1>2 DEF Shows
<1>4. Shows(t)'.ask \in 0 .. MaxAsks /\ Shows(t)'.said.words \in Words \cup {None}
  BY <1>1, <1>3, EndTyped DEF Told
<1>5. \A a \in 0 .. MaxAsks, v \in Words \cup {None} :
        [child |-> t, n |-> card'[t].n, ask |-> a, words |-> v] \in Report
  BY <1>1 DEF Report, IsCard
<1>6. ReportOf(t) \in Report
  BY <1>4, <1>5 DEF ReportOf
<1> QED BY <1>1, <1>2, <1>3, <1>6 DEF ReportOf

(***************************************************************************)
(* No end is reported twice.                                               *)
(***************************************************************************)
\* A child no question of which was reported since it was linked.
Silent(c) == \A q \in Report : q.child = c /\ q.ask > 0 => made[q] = 0

\* The words of the card's turn are the last: the CLI's own, or of a turn it left.
Final(c) == cli[c].n = card[c].n => card[c].reply = cli[c].says
DoneWith(w) == [event |-> "done", words |-> w, screen |-> FALSE]

CardBehind ==
    \A t \in Terminals :
      /\ card[t].n <= cli[t].n
      /\ card[t].turn = "Completed" /\ card[t].n = cli[t].n => cli[t].turn = "Completed"

\* A turn has at most two wordings, the reply before it and its own: what was
\* said last is either the card's reply, or superseded for good.
SaidOnce(r) ==
    LET c == r.child IN
    /\ made[r] = 1 /\ r.n <= card[c].n
    /\ links[c].parent # None /\ r.n = card[c].n =>
         /\ card[c].turn = "Completed"
         /\ \E s \in Words : /\ links[c].said = DoneWith(s)
                             /\ r.words = s \/ (Final(c) /\ s = card[c].reply)
                             /\ s = card[c].reply \/ Final(c)
Once == \A r \in Report : made[r] > 0 /\ Silent(r.child) => SaidOnce(r)

LEMMA CardStaysBehind ==
  ASSUME Typed, CardBehind, Steps
  PROVE  CardBehind'
<1>1. ASSUME NEW t \in Terminals
      PROVE  /\ card'[t].n <= cli'[t].n
             /\ card'[t].turn = "Completed" /\ card'[t].n = cli'[t].n => cli'[t].turn = "Completed"
  <2>1. /\ card[t].n \in Nat /\ cli[t].n \in Nat /\ cli'[t].n \in Nat
        /\ card[t].n <= cli[t].n
        /\ card[t].turn = "Completed" /\ card[t].n = cli[t].n => cli[t].turn = "Completed"
    BY BoundsAssumption DEF Typed, CliTyped, CardTyped, IsCard, CardBehind, Steps, CliStep
  <2>2. \/ cli'[t] = cli[t]
        \/ cli'[t].n = cli[t].n + 1
        \/ cli[t].turn \in {"Running", "Waiting"} /\ cli'[t].n = cli[t].n
    BY DEF Steps, CliStep
  <2>3. card'[t] = card[t] \/ (cli'[t] = cli[t] /\ IsRead(cli[t], card[t], card'[t]))
    BY DEF Steps, Quiet, CommitsAt, Relinks, ReportTo
  <2> QED BY <2>1, <2>2, <2>3 DEF IsRead
<1> QED BY <1>1 DEF CardBehind

\* The card of a turn with a final wording keeps it, and a wording that changes
\* is final afterwards.
LEMMA WordingsOfOneTurn ==
  ASSUME Typed, CardBehind, Steps, NEW c \in Terminals,
         card[c].turn = "Completed", card'[c].n = card[c].n
  PROVE  /\ card'[c].turn = "Completed"
         /\ Final(c) => Final(c)' /\ card'[c].reply = card[c].reply
         /\ card'[c].reply # card[c].reply => Final(c)'
<1>1. /\ card[c].n \in Nat /\ cli[c].n \in Nat /\ cli'[c].n \in Nat
      /\ card[c].n <= cli[c].n
      /\ card[c].n = cli[c].n => cli[c].turn = "Completed"
  BY BoundsAssumption DEF Typed, CliTyped, CardTyped, IsCard, CardBehind, Steps, CliStep
<1>2. \/ cli'[c] = cli[c]
      \/ cli'[c].n = cli[c].n + 1
      \/ cli[c].turn \in {"Running", "Waiting"} /\ cli'[c].n = cli[c].n
  BY DEF Steps, CliStep
<1>3. card'[c] = card[c] \/ (cli'[c] = cli[c] /\ IsRead(cli[c], card[c], card'[c]))
  BY DEF Steps, Quiet, CommitsAt, Relinks, ReportTo
<1>4. CASE card'[c] = card[c]
  BY <1>1, <1>2, <1>4 DEF Final
<1>5. CASE cli'[c] = cli[c] /\ IsRead(cli[c], card[c], card'[c])
  BY <1>1, <1>5 DEF IsRead, Final
<1> QED BY <1>3, <1>4, <1>5

\* A card never goes back to an earlier turn.
LEMMA CardAdvances ==
  ASSUME Typed, CardBehind, Steps, NEW c \in Terminals
  PROVE  card[c].n \in Nat /\ card'[c].n \in Nat /\ card[c].n <= card'[c].n
<1>1. card[c].n \in Nat /\ cli[c].n \in Nat /\ card[c].n <= cli[c].n
  BY BoundsAssumption DEF Typed, CliTyped, CardTyped, IsCard, CardBehind
<1>2. card'[c] = card[c] \/ IsRead(cli[c], card[c], card'[c])
  BY DEF Steps, Quiet, CommitsAt, Relinks, ReportTo
<1> QED BY <1>1, <1>2 DEF IsRead

\* As long as nothing is said, what was said stays true of the card.
LEMMA UnsaidStays ==
  ASSUME Typed, CardBehind, Steps, NEW r \in Report, SaidOnce(r),
         made'[r] = made[r],
         links'[r.child].parent # None =>
           links[r.child].parent # None /\ links'[r.child].said = links[r.child].said
  PROVE  SaidOnce(r)'
<1> DEFINE c == r.child
<1>1. c \in Terminals /\ r.n \in Nat
  BY BoundsAssumption DEF Report
<1>2. card[c].n \in Nat /\ card'[c].n \in Nat /\ card[c].n <= card'[c].n
  BY <1>1, CardAdvances
<1>3. made'[r] = 1 /\ r.n <= card[c].n /\ r.n <= card'[c].n
  BY <1>1, <1>2 DEF SaidOnce
<1>4. ASSUME links'[c].parent # None, r.n = card'[c].n
      PROVE  /\ card'[c].turn = "Completed"
             /\ \E s \in Words : /\ links'[c].said = DoneWith(s)
                                 /\ r.words = s \/ (Final(c)' /\ s = card'[c].reply)
                                 /\ s = card'[c].reply \/ Final(c)'
  <2>1. card'[c].n = card[c].n /\ links[c].parent # None /\ links'[c].said = links[c].said
    BY <1>1, <1>2, <1>3, <1>4
  <2>2. PICK s \in Words : /\ card[c].turn = "Completed"
                           /\ links[c].said = DoneWith(s)
                           /\ r.words = s \/ (Final(c) /\ s = card[c].reply)
                           /\ s = card[c].reply \/ Final(c)
    BY <1>4, <2>1 DEF SaidOnce
  <2>3. /\ card'[c].turn = "Completed"
        /\ Final(c) => Final(c)' /\ card'[c].reply = card[c].reply
        /\ card'[c].reply # card[c].reply => Final(c)'
    BY <1>1, <2>1, <2>2, WordingsOfOneTurn
  <2> QED BY <2>1, <2>2, <2>3
<1> QED BY <1>3, <1>4 DEF SaidOnce

LEMMA OnceStays ==
  ASSUME Typed, EndIsNoted, CardBehind, Once, Steps
  PROVE  Once'
<1> SUFFICES ASSUME NEW r \in Report, made'[r] > 0, Silent(r.child)' PROVE SaidOnce(r)'
  BY DEF Once
<1> DEFINE c == r.child
<1>0. c \in Terminals /\ r.n \in Nat
  BY BoundsAssumption DEF Report
<1>1. CASE Quiet
  <2>1. made' = made /\ links' = links
    BY <1>1 DEF Quiet
  <2>2. SaidOnce(r)
    BY <2>1 DEF Once, Silent
  <2> QED BY <2>1, <2>2, UnsaidStays
<1>2. ASSUME NEW child \in Terminals, NEW parent \in Terminals, ReportTo(child, parent)
      PROVE  SaidOnce(r)'
  <2>1. made' = [q \in Report |-> IF q.child = child THEN 0 ELSE made[q]]
    BY <1>2 DEF ReportTo
  <2>2. c # child
    BY <2>1
  <2>3. links'[c] = links[c] /\ made'[r] = made[r]
    BY <1>0, <1>2, <2>1, <2>2 DEF ReportTo, Typed, LinksTyped
  <2>4. Silent(c)
    BY <2>1, <2>2 DEF Silent
  <2>5. SaidOnce(r)
    BY <2>3, <2>4 DEF Once
  <2> QED BY <2>3, <2>5, UnsaidStays
<1>3. ASSUME NEW t \in Terminals, CommitsAt(t) PROVE SaidOnce(r)'
  <2>1. made' = [q \in Report |-> IF IsTold(t) /\ q = ReportOf(t) THEN made[q] + 1 ELSE made[q]]
    BY <1>3, CommitMakes
  <2>2. links'[c] = IF ~Kept(running', c) THEN NoLink
                    ELSE IF Fresh(Shows(c)', c) THEN Noted(links[c], Shows(c)')
                    ELSE links[c]
    BY <1>0, <1>3, CommitNotes
  <2>3. Silent(c)
    BY <2>1 DEF Silent, Typed, MailTyped
  <2>4. NoLink.parent = None
    BY DEF NoLink
  <2>5. CASE ~(IsTold(t) /\ c = t)
    <3>1. made'[r] = made[r]
      BY <2>1, <2>5 DEF ReportOf
    <3>2. SaidOnce(r)
      BY <2>3, <3>1 DEF Once
    <3>3. {"parent", "last", "said"} \subseteq DOMAIN links[c]
      BY <1>0 DEF Typed, LinksTyped
    <3>4. Kept(running', c) /\ Fresh(Shows(c)', c) => c = t /\ Repeats(links[c], Shows(c)')
      BY <1>0, <1>3, <2>5, OthersHaveNoNews DEF IsTold
    <3>5. links'[c].parent # None =>
            links[c].parent # None /\ links'[c].said = links[c].said
      BY <2>2, <2>4, <3>3, <3>4 DEF Noted, Repeats
    <3> QED BY <3>1, <3>2, <3>5, UnsaidStays
  <2>6. CASE IsTold(t) /\ c = t
    <3> DEFINE w == card'[t].reply
               q == ReportOf(t)
    <3>1. /\ IsCard(card'[t]) /\ IsSeen(waits'[t]) /\ t \in bound'
          /\ Shows(t)' = TurnEnd(card'[t], waits'[t]) /\ Shows(t)' # NoEnd
          /\ q \in Report /\ q.child = t /\ q.n = card'[t].n
          /\ q.ask = Shows(t)'.ask /\ q.words = Shows(t)'.said.words
      BY <1>3, <2>6, ToldShows
    <3>2. q \in Report /\ q.child = t /\ q.n = card'[t].n
      BY <3>1
    <3>3. /\ card'[t].turn = "Completed" /\ w \in Words /\ q.words = w
          /\ Shows(t)'.said = DoneWith(w)
      <4>1. made'[q] > 0
        BY <2>1, <2>6, <3>2 DEF Typed, MailTyped
      <4>2. ~(q.ask > 0)
        BY <2>6, <3>2, <4>1 DEF Silent
      <4>3. Shows(t)'.said.event = "done"
        <5>1. Shows(t)'.said.event \in {"done", "waiting"}
          BY <3>1, EndTyped
        <5>2. Shows(t)'.said.event = "waiting" => Shows(t)'.ask > 0
          BY <3>1, EndTyped
        <5> QED BY <3>1, <4>2, <5>1, <5>2
      <4> QED BY <3>1, <3>2, <4>3, EndTyped DEF DoneWith
    <3>4. links'[t].said = DoneWith(w) /\ links[t].said # DoneWith(w) /\ links[t].parent # None
      <4>1. links'[t] = Noted(links[t], Shows(t)')
        BY <2>2, <2>6 DEF IsTold
      <4>2. {"parent", "last", "said"} \subseteq DOMAIN links[t]
        BY DEF Typed, LinksTyped
      <4>3. links[t].parent \in Terminals
        BY <1>3, <2>6 DEF IsTold, Kept, CommitsAt, Typed, MailTyped
      <4> QED BY <2>6, <3>3, <4>1, <4>2, <4>3, NoneAssumption DEF IsTold, Noted, Repeats
    <3>5. card[t].n \in Nat /\ card'[t].n \in Nat /\ card[t].n <= card'[t].n
      BY CardAdvances
    \* What another report of this turn says is superseded now.
    <3>6. ASSUME SaidOnce(r), r.n = card'[t].n
          PROVE  Final(t)' /\ r.words # w
      <4>1. card'[t].n = card[t].n
        BY <2>6, <3>5, <3>6 DEF SaidOnce
      <4>2. PICK s \in Words : /\ card[t].turn = "Completed"
                               /\ links[t].said = DoneWith(s)
                               /\ r.words = s \/ (Final(t) /\ s = card[t].reply)
                               /\ s = card[t].reply \/ Final(t)
        BY <2>6, <3>4, <3>6, <4>1 DEF SaidOnce
      <4>3. /\ Final(t) => Final(t)' /\ card'[t].reply = card[t].reply
            /\ card'[t].reply # card[t].reply => Final(t)'
        BY <4>1, <4>2, WordingsOfOneTurn
      <4>4. s # w
        BY <3>4, <4>2
      <4> QED BY <4>2, <4>3, <4>4
    <3>7. CASE r = q
      <4>1. made[r] = 0
        <5> SUFFICES ASSUME made[r] # 0 PROVE FALSE
          OBVIOUS
        <5>1. made[r] > 0
          BY DEF Typed, MailTyped
        <5>2. SaidOnce(r)
          BY <2>3, <5>1 DEF Once
        <5> QED BY <3>2, <3>3, <3>6, <3>7, <5>2
      <4>2. made'[r] = 1
        BY <2>1, <2>6, <3>7, <4>1
      <4> QED BY <2>6, <3>2, <3>3, <3>4, <3>5, <3>7, <4>2 DEF SaidOnce
    <3>8. CASE r # q
      <4>1. made'[r] = made[r]
        BY <2>1, <3>8
      <4>2. SaidOnce(r)
        BY <2>3, <4>1 DEF Once
      <4>3. made'[r] = 1 /\ r.n <= card'[t].n
        BY <1>0, <2>6, <3>5, <4>1, <4>2 DEF SaidOnce
      <4>4. r.n = card'[t].n => Final(t)'
        BY <3>6, <4>2
      <4> QED BY <2>6, <3>3, <3>4, <4>3, <4>4 DEF SaidOnce
    <3> QED BY <3>7, <3>8
  <2> QED BY <2>5, <2>6
<1> QED BY <1>1, <1>2, <1>3 DEF Steps, Relinks

(***************************************************************************)
(* No report is lost on the way but the oldest.                            *)
(***************************************************************************)
OutboxTyped ==
    /\ outbox \in [Terminals -> Seq(Report)]
    /\ \A p \in Terminals : Len(outbox[p]) <= QUEUE
NoOneTellsItself == \A c \in Terminals : links[c].parent # c

LEMMA OneToSeq ==
  /\ SetToSeq({}) = <<>>
  /\ \A x : SetToSeq({x}) = <<x>>
<1>1. SetToSeq({}) = <<>>
  <2>1. Cardinality({}) = 0 /\ 1 .. 0 = {}
    BY FS_EmptySet
  <2>2. \A f : f \in [{} -> {}] => f = <<>>
    OBVIOUS
  <2>3. <<>> \in {f \in [1 .. Cardinality({}) -> {}] : IsInjective(f)}
    BY <2>1 DEF IsInjective
  <2> QED BY <2>1, <2>2, <2>3 DEF SetToSeq
<1>2. ASSUME NEW x PROVE SetToSeq({x}) = <<x>>
  <2>1. Cardinality({x}) = 1 /\ 1 .. 1 = {1}
    BY FS_Singleton
  <2>2. \A f \in [{1} -> {x}] : f = <<x>>
    OBVIOUS
  <2>3. <<x>> \in [{1} -> {x}] /\ IsInjective(<<x>>)
    BY DEF IsInjective
  <2> QED BY <2>1, <2>2, <2>3 DEF SetToSeq
<1> QED BY <1>1, <1>2

LEMMA TrimmedIs ==
  ASSUME NEW q \in Seq(Report), Len(q) <= QUEUE, NEW r \in Report
  PROVE  /\ Trimmed(q) = q
         /\ LET s == Trimmed(Append(q, r)) IN
            /\ s \in Seq(Report) /\ Len(s) <= QUEUE /\ r \in Range(s)
            /\ \A x \in Range(q) : x \notin Range(s) =>
                 q # <<>> /\ x = Head(q) /\ Len(s) = QUEUE
<1>1. Trimmed(q) = q
  BY QueueAssumption DEF Trimmed
<1> DEFINE a == Append(q, r)
<1>2. /\ a \in Seq(Report) /\ Len(a) = Len(q) + 1 /\ a[Len(q) + 1] = r
      /\ \A i \in 1 .. Len(q) : a[i] = q[i]
  OBVIOUS
<1>3. CASE Len(a) <= QUEUE
  <2>1. Trimmed(a) = a
    BY <1>2, <1>3, QueueAssumption DEF Trimmed
  <2>2. r \in Range(a)
    BY <1>2 DEF Range
  <2>3. \A x \in Range(q) : x \in Range(a)
    BY <1>2 DEF Range
  <2> QED BY <1>1, <1>2, <1>3, <2>1, <2>2, <2>3
<1>4. CASE Len(a) > QUEUE
  <2> DEFINE s == SubSeq(a, Len(a) - QUEUE + 1, Len(a))
  <2>1. Len(q) = QUEUE /\ Len(a) - QUEUE + 1 = 2 /\ Len(a) = QUEUE + 1
    BY <1>2, <1>4, QueueAssumption
  <2>2. Trimmed(a) = s
    BY <1>4 DEF Trimmed
  <2>3. /\ s \in Seq(Report) /\ Len(s) = QUEUE
        /\ \A i \in 1 .. QUEUE : s[i] = a[i + 1]
    BY <1>2, <2>1, QueueAssumption
  <2> HIDE DEF s, a
  <2>4. r \in Range(s)
    <3>1. s[QUEUE] = r /\ QUEUE \in DOMAIN s
      BY <1>2, <2>1, <2>3, QueueAssumption
    <3> QED BY <3>1 DEF Range
  <2>5. ASSUME NEW x \in Range(q), x \notin Range(s) PROVE q # <<>> /\ x = Head(q)
    <3>1. PICK i \in 1 .. Len(q) : x = q[i]
      BY DEF Range
    <3>2. CASE i = 1
      BY <3>1, <3>2
    <3>3. CASE i # 1
      <4>1. i - 1 \in 1 .. QUEUE /\ s[i - 1] = a[i] /\ a[i] = x
        BY <1>2, <2>1, <2>3, <3>1, <3>3
      <4>2. i - 1 \in DOMAIN s
        BY <2>3, <4>1
      <4>3. x \in Range(s)
        BY <4>1, <4>2 DEF Range
      <4> QED BY <2>5, <4>3
    <3> QED BY <3>2, <3>3
  <2> QED BY <1>1, <2>1, <2>2, <2>3, <2>4, <2>5 DEF a
<1>5. Len(a) \in Nat /\ QUEUE \in Nat
  BY <1>2, QueueAssumption
<1> QED BY <1>3, <1>4, <1>5

\* A starter's reports, with those of the child whose terminal changed.
Mail(t, p) ==
    IF IsTold(t) /\ links[t].parent = p THEN Trimmed(Append(outbox[p], ReportOf(t)))
    ELSE outbox[p]

LEMMA MailIs ==
  ASSUME Typed, Steps, OutboxTyped, NEW t \in Terminals, CommitsAt(t), NEW p \in Terminals
  PROVE  Mail(t, p) \in Seq(Report) /\ Len(Mail(t, p)) <= QUEUE
<1>1. outbox[p] \in Seq(Report) /\ Len(outbox[p]) <= QUEUE
  BY DEF OutboxTyped
<1> QED BY <1>1, ToldShows, TrimmedIs DEF Mail

\* Whose outbox is handed to a thread, and what is in the others.
LEMMA CommitPlans ==
  ASSUME Typed, EndIsNoted, OutboxTyped, NEW t \in Terminals, CommitsAt(t),
         NEW threads, Plan(card', waits', running', bound', threads)
  PROVE  \E due \in SUBSET running' :
           /\ \A p \in due : p \in bound' /\ ~Busy(card'[p], waits'[p])
           /\ \A p \in running' : outbox'[p] = IF p \in due THEN <<>> ELSE Mail(t, p)
           /\ typing' = threads \cup {[to |-> p, step |-> "paste", reports |-> Mail(t, p)] : p \in due}
<1>1. running' \subseteq Terminals
  BY DEF CommitsAt, Typed, MailTyped
<1> DEFINE kept == {c \in running' : links[c].parent \in running'}
           End(c) == IF c \in bound' THEN TurnEnd(card'[c], waits'[c]) ELSE NoEnd
           fresh == {c \in kept : End(c) # NoEnd /\ End(c).key # links[c].last}
           told == {c \in fresh : ~Repeats(links[c], End(c))}
           Of(c) == [child |-> c, n |-> card'[c].n, ask |-> End(c).ask, words |-> End(c).said.words]
           News(x) == {Of(c) : c \in {y \in told : links[y].parent = x}}
           Queued(x) == Trimmed(outbox[x] \o SetToSeq(News(x)))
           due == {x \in running' : Due(Queued(x), News(x), x \in bound' /\ ~Busy(card'[x], waits'[x]))}
<1>2. /\ outbox' = [x \in Terminals |-> IF x \in running' \ due THEN Queued(x) ELSE <<>>]
      /\ typing' = threads \cup {[to |-> x, step |-> "paste", reports |-> Queued(x)] : x \in due}
  BY DEF Plan
<1>3. \A c : End(c) = Shows(c)'
  BY DEF Shows
<1>4. \A c \in Terminals : c \in told <=> IsTold(c)
  <2> HIDE DEF End
  <2> QED BY <1>1, <1>3 DEF Kept, Fresh, IsTold
<1>5. told \subseteq {t}
  <2>1. \A c \in Terminals \ {t} : ~IsTold(c)
    BY OthersHaveNoNews DEF IsTold
  <2>2. told \subseteq Terminals
    BY <1>1
  <2> HIDE DEF told
  <2> QED BY <1>4, <2>1, <2>2
<1>6. Of(t) = ReportOf(t)
  BY <1>3 DEF ReportOf
<1>7. ASSUME NEW p \in running' PROVE Queued(p) = Mail(t, p)
  <2>1. outbox[p] \in Seq(Report) /\ Len(outbox[p]) <= QUEUE
    BY <1>1 DEF OutboxTyped
  <2>2. CASE IsTold(t) /\ links[t].parent = p
    <3>1. News(p) = {ReportOf(t)}
      <4>1. {y \in told : links[y].parent = p} = {t}
        <5> HIDE DEF told
        <5> QED BY <1>4, <1>5, <2>2
      <4> HIDE DEF told, Of
      <4> QED BY <1>6, <4>1
    <3>2. SetToSeq(News(p)) = <<ReportOf(t)>>
      BY <3>1, OneToSeq
    <3>3. outbox[p] \o <<ReportOf(t)>> = Append(outbox[p], ReportOf(t))
      BY <2>1
    <3> HIDE DEF News
    <3> QED BY <2>2, <3>2, <3>3 DEF Mail
  <2>3. CASE ~(IsTold(t) /\ links[t].parent = p)
    <3>1. News(p) = {}
      <4>1. {y \in told : links[y].parent = p} = {}
        <5> HIDE DEF told
        <5> QED BY <1>4, <1>5, <2>3
      <4> HIDE DEF told, Of
      <4> QED BY <4>1
    <3>2. SetToSeq(News(p)) = <<>>
      BY <3>1, OneToSeq
    <3>3. outbox[p] \o <<>> = outbox[p] /\ Trimmed(outbox[p]) = outbox[p]
      BY <2>1, QueueAssumption DEF Trimmed
    <3> HIDE DEF News
    <3> QED BY <2>3, <3>2, <3>3 DEF Mail
  <2> QED BY <2>2, <2>3
<1> HIDE DEF Queued, News
<1>8. due \subseteq running' /\ \A p \in due : p \in bound' /\ ~Busy(card'[p], waits'[p])
  BY DEF Due
<1> HIDE DEF due
<1>9. \A p \in running' : outbox'[p] = IF p \in due THEN <<>> ELSE Mail(t, p)
  BY <1>1, <1>2, <1>7
<1>10. {[to |-> x, step |-> "paste", reports |-> Queued(x)] : x \in due}
         = {[to |-> x, step |-> "paste", reports |-> Mail(t, x)] : x \in due}
  BY <1>7, <1>8
<1> QED BY <1>2, <1>8, <1>9, <1>10

LEMMA CommitSends ==
  ASSUME Typed, EndIsNoted, OutboxTyped, NEW t \in Terminals, CommitsAt(t), NEW p \in running'
  PROVE  \/ outbox'[p] = Mail(t, p)
         \/ /\ outbox'[p] = <<>>
            /\ p \in bound' /\ ~Busy(card'[p], waits'[p])
            /\ \E j \in typing' : j.to = p /\ j.reports = Mail(t, p)
<1>1. PICK threads : Plan(card', waits', running', bound', threads)
  BY DEF CommitsAt
<1>2. PICK due \in SUBSET running' :
        /\ \A x \in due : x \in bound' /\ ~Busy(card'[x], waits'[x])
        /\ \A x \in running' : outbox'[x] = IF x \in due THEN <<>> ELSE Mail(t, x)
        /\ typing' = threads \cup {[to |-> x, step |-> "paste", reports |-> Mail(t, x)] : x \in due}
  BY <1>1, CommitPlans
<1>3. p \in due => [to |-> p, step |-> "paste", reports |-> Mail(t, p)] \in typing'
  BY <1>2
<1> QED BY <1>2, <1>3

LEMMA CommitHands ==
  ASSUME Typed, EndIsNoted, OutboxTyped, Steps, NEW t \in Terminals, CommitsAt(t)
  PROVE  typing' \subseteq Thread
<1>1. PICK threads : threads \subseteq Thread /\ Plan(card', waits', running', bound', threads)
  BY DEF CommitsAt
<1>2. PICK due \in SUBSET running' :
        typing' = threads \cup {[to |-> x, step |-> "paste", reports |-> Mail(t, x)] : x \in due}
  BY <1>1, CommitPlans
<1>3. ASSUME NEW x \in due
      PROVE  [to |-> x, step |-> "paste", reports |-> Mail(t, x)] \in Thread
  <2>1. x \in Terminals
    BY DEF CommitsAt, Typed, MailTyped
  <2> QED BY <2>1, MailIs DEF Thread
<1> QED BY <1>1, <1>2, <1>3

LEMMA TypedStays ==
  ASSUME Typed, EndIsNoted, OutboxTyped, [Next]_vars
  PROVE  Typed'
<1>1. Steps
  BY NextSteps
<1>2. CliTyped' /\ WaitsTyped'
  BY <1>1 DEF Steps, CliStep
<1>3. CASE UNCHANGED vars
  BY <1>2, <1>3 DEF vars, Typed, CardTyped, LinksTyped, MailTyped
<1>4. ASSUME Quiet PROVE Typed'
  BY <1>2, <1>4 DEF Quiet, Typed, CardTyped, LinksTyped, MailTyped
<1>5. ASSUME NEW t \in Terminals, CommitsAt(t) PROVE Typed'
  <2>1. CardTyped'
    <3>1. ASSUME NEW c \in Terminals PROVE IsCard(card'[c])
      BY <1>5 DEF CommitsAt, IsRead, Typed, CardTyped
    <3> QED BY <1>5, <3>1 DEF CardTyped, CommitsAt
  <2>2. LinksTyped'
    BY <1>5, CommitNotes DEF Typed, LinksTyped, Noted, NoLink
  <2>3. MailTyped'
    <3>1. made' \in [Report -> Nat]
      BY <1>5, CommitMakes DEF Typed, MailTyped
    <3> QED BY <1>1, <1>5, <3>1, CommitHands DEF Typed, MailTyped, CommitsAt
  <2> QED BY <1>2, <2>1, <2>2, <2>3 DEF Typed
<1>6. ASSUME NEW child \in Terminals, NEW parent \in Terminals, ReportTo(child, parent)
      PROVE  Typed'
  BY <1>2, <1>6 DEF ReportTo, Typed, CardTyped, LinksTyped, MailTyped
<1> QED BY <1>1, <1>3, <1>4, <1>5, <1>6 DEF Steps, Relinks

LEMMA CommitEmpties ==
  ASSUME Typed, NEW t \in Terminals, CommitsAt(t)
  PROVE  /\ outbox' = [p \in Terminals |-> outbox'[p]]
         /\ \A p \in Terminals \ running' : outbox'[p] = <<>>
BY DEF CommitsAt, Plan

LEMMA OutboxStays ==
  ASSUME Typed, EndIsNoted, OutboxTyped, NoOneTellsItself, Steps
  PROVE  OutboxTyped' /\ NoOneTellsItself'
<1>1. CASE Quiet
  BY <1>1 DEF Quiet, OutboxTyped, NoOneTellsItself
<1>2. ASSUME NEW child \in Terminals, NEW parent \in Terminals, ReportTo(child, parent)
      PROVE  OutboxTyped' /\ NoOneTellsItself'
  <2>1. \A c \in Terminals : links'[c].parent = IF c = child THEN parent ELSE links[c].parent
    BY <1>2 DEF ReportTo, Typed, LinksTyped
  <2>2. child # parent /\ outbox' = outbox
    BY <1>2 DEF ReportTo
  <2> QED BY <2>1, <2>2 DEF OutboxTyped, NoOneTellsItself
<1>3. ASSUME NEW t \in Terminals, CommitsAt(t) PROVE OutboxTyped' /\ NoOneTellsItself'
  <2>1. ASSUME NEW p \in Terminals PROVE outbox'[p] \in Seq(Report) /\ Len(outbox'[p]) <= QUEUE
    <3>1. <<>> \in Seq(Report) /\ Len(<<>>) <= QUEUE
      BY QueueAssumption
    <3>2. CASE p \notin running'
      BY <1>3, <3>1, <3>2, CommitEmpties
    <3>3. CASE p \in running'
      <4>1. Mail(t, p) \in Seq(Report) /\ Len(Mail(t, p)) <= QUEUE
        BY <1>3, MailIs
      <4>2. outbox'[p] = Mail(t, p) \/ outbox'[p] = <<>>
        BY <1>3, <3>3, CommitSends
      <4> QED BY <3>1, <4>1, <4>2
    <3> QED BY <3>2, <3>3
  <2>2. OutboxTyped'
    BY <1>3, <2>1, CommitEmpties DEF OutboxTyped
  <2>3. ASSUME NEW c \in Terminals PROVE links'[c].parent # c
    <3>1. links'[c] = NoLink \/ links'[c] = links[c] \/ links'[c] = Noted(links[c], Shows(c)')
      BY <1>3, CommitNotes
    <3>2. {"parent", "last", "said"} \subseteq DOMAIN links[c] /\ links[c].parent # c
      BY DEF Typed, LinksTyped, NoOneTellsItself
    <3> QED BY <3>1, <3>2, NoLinkIs DEF Noted
  <2> QED BY <2>2, <2>3 DEF NoOneTellsItself
<1> QED BY <1>1, <1>2, <1>3 DEF Steps, Relinks

\* The body of OnlyOldestIsDropped.
OldestOnly ==
    \A p \in running' : \A r \in Report :
       LET waited == r \in Range(outbox[p]) \/ (made'[r] > made[r] /\ links[r.child].parent = p)
           waiting == r \in Range(outbox'[p])
           typed == \E j \in typing' : j.to = p /\ r \in Range(j.reports)
       IN waited /\ ~waiting /\ ~typed =>
            outbox[p] # <<>> /\ r = Head(outbox[p]) /\ Len(outbox'[p]) = QUEUE

LEMMA StepsDropOldest ==
  ASSUME Typed, EndIsNoted, IdleStarterHasNoMail, OutboxTyped, NoOneTellsItself, Steps
  PROVE  OldestOnly
<1> SUFFICES ASSUME NEW p \in running', NEW r \in Report,
                    r \in Range(outbox[p]) \/ (made'[r] > made[r] /\ links[r.child].parent = p),
                    r \notin Range(outbox'[p]),
                    ~ \E j \in typing' : j.to = p /\ r \in Range(j.reports)
             PROVE  outbox[p] # <<>> /\ r = Head(outbox[p]) /\ Len(outbox'[p]) = QUEUE
  BY DEF OldestOnly
<1>1. made[r] \in Nat
  BY DEF Typed, MailTyped
<1>2. CASE Quiet
  BY <1>1, <1>2 DEF Quiet
<1>3. ASSUME NEW child \in Terminals, NEW parent \in Terminals, ReportTo(child, parent)
      PROVE  FALSE
  <2>1. outbox' = outbox /\ ~(made'[r] > made[r])
    BY <1>1, <1>3 DEF ReportTo
  <2> QED BY <2>1
<1>4. ASSUME NEW t \in Terminals, CommitsAt(t)
      PROVE  outbox[p] # <<>> /\ r = Head(outbox[p]) /\ Len(outbox'[p]) = QUEUE
  <2>0. p \in Terminals
    BY <1>4 DEF CommitsAt, Typed, MailTyped
  <2>1. outbox[p] \in Seq(Report) /\ Len(outbox[p]) <= QUEUE
    BY <2>0 DEF OutboxTyped
  <2> DEFINE news == IsTold(t) /\ links[t].parent = p
             q == Mail(t, p)
  <2>2. \/ outbox'[p] = q
        \/ /\ outbox'[p] = <<>>
           /\ p \in bound' /\ ~Busy(card'[p], waits'[p])
           /\ \E j \in typing' : j.to = p /\ j.reports = q
    BY <1>4, CommitSends
  <2>3. r \notin Range(q)
    <3> HIDE DEF q
    <3> QED BY <2>2
  <2>4. made'[r] > made[r] => IsTold(t) /\ r = ReportOf(t)
    BY <1>1, <1>4, CommitMakes
  <2>5. news /\ ReportOf(t) \in Report /\ ReportOf(t).child = t
    <3>1. IsTold(t) => ReportOf(t) \in Report /\ ReportOf(t).child = t
      BY <1>4, ToldShows
    <3>2. r \in Range(outbox[p]) => news
      BY <2>3 DEF Mail
    <3> QED BY <2>4, <3>1, <3>2
  <2>6. r \in Range(outbox[p])
    <3>1. ReportOf(t) \in Range(q)
      BY <2>1, <2>5, TrimmedIs DEF Mail
    <3> QED BY <2>3, <2>4, <3>1
  <2>7. outbox[p] # <<>> /\ r = Head(outbox[p]) /\ Len(q) = QUEUE
    BY <2>1, <2>3, <2>5, <2>6, TrimmedIs DEF Mail
  \* A starter that was idle before its child's news has no other mail.
  <2>8. ~(p \in bound' /\ ~Busy(card'[p], waits'[p]))
    <3> SUFFICES ASSUME p \in bound', ~Busy(card'[p], waits'[p]) PROVE FALSE
      OBVIOUS
    <3>1. p # t
      BY <2>5 DEF NoOneTellsItself
    <3>2. p \in bound /\ card'[p] = card[p] /\ waits'[p] = waits[p]
      BY <1>4, <2>0, <3>1 DEF CommitsAt
    <3> QED BY <2>7, <3>2 DEF IdleStarterHasNoMail
  <2> HIDE DEF q, news
  <2> QED BY <2>2, <2>7, <2>8
<1> QED BY <1>2, <1>3, <1>4 DEF Steps, Relinks

(***************************************************************************)
(* The theorems.                                                           *)
(***************************************************************************)
IInv == /\ Typed /\ EndIsNoted /\ IdleStarterHasNoMail
        /\ CardBehind /\ Once
        /\ OutboxTyped /\ NoOneTellsItself

LEMMA InitIInv == Init => IInv
<1> SUFFICES ASSUME Init PROVE IInv
  OBVIOUS
<1>1. Typed
  BY InitTyped
<1>2. \A c \in Terminals : links[c].parent = None /\ outbox[c] = <<>>
                           /\ card[c].n = 0 /\ cli[c].n = 0 /\ card[c].turn = "Idle"
  BY DEF Init, NoLink
<1>3. EndIsNoted
  BY <1>1, <1>2, NoneAssumption DEF EndIsNoted, Linked, Typed, MailTyped
<1>4. IdleStarterHasNoMail /\ NoOneTellsItself /\ CardBehind
  BY <1>2, NoneAssumption DEF Init, IdleStarterHasNoMail, NoOneTellsItself, CardBehind
<1>5. Once
  BY DEF Init, Once
<1>6. OutboxTyped
  BY QueueAssumption DEF Init, OutboxTyped
<1> QED BY <1>1, <1>3, <1>4, <1>5, <1>6 DEF IInv

LEMMA NextIInv == IInv /\ [Next]_vars => IInv'
<1> SUFFICES ASSUME IInv, [Next]_vars PROVE IInv'
  OBVIOUS
<1>1. Steps
  BY NextSteps DEF IInv
<1> QED BY <1>1, TypedStays, EndStaysNoted, IdleStaysWithoutMail, CardStaysBehind,
           OnceStays, OutboxStays DEF IInv

THEOREM Invariants == Spec => []IInv
BY InitIInv, NextIInv, PTL DEF Spec

\* No commit misses an end: what a linked child shows is the end last noted.
THEOREM NoEndIsMissed == Spec => []EndIsNoted
<1>1. IInv => EndIsNoted
  BY DEF IInv
<1> QED BY <1>1, Invariants, PTL

\* No report waits for a starter that is idle.
THEOREM MailGoesInOnceIdle == Spec => []IdleStarterHasNoMail
<1>1. IInv => IdleStarterHasNoMail
  BY DEF IInv
<1> QED BY <1>1, Invariants, PTL

\* However often its log is read, a child reports the same words of the same turn once.
THEOREM NoTurnIsReportedTwice == Spec => []TurnIsReportedOnce
<1>1. IInv => TurnIsReportedOnce
  <2> SUFFICES ASSUME IInv, NEW r \in Report, made[r] > 1
               PROVE  \E q \in Report : q.child = r.child /\ q.ask > 0 /\ made[q] > 0
    BY DEF TurnIsReportedOnce
  <2>1. made \in [Report -> Nat]
    BY DEF IInv, Typed, MailTyped
  <2>2. ~Silent(r.child)
    BY <2>1 DEF IInv, Once, SaidOnce
  <2> QED BY <2>1, <2>2 DEF Silent
<1> QED BY <1>1, Invariants, PTL

\* No report that was made is lost before its starter's input, except the oldest
\* of a full outbox.
THEOREM OnlyTheOldestIsDropped == Spec => OnlyOldestIsDropped
<1>1. IInv /\ [Next]_vars => [OldestOnly]_vars
  BY NextSteps, StepsDropOldest DEF IInv
<1>2. OnlyOldestIsDropped <=> [][OldestOnly]_vars
  BY DEF OnlyOldestIsDropped, OldestOnly
<1> QED BY <1>1, <1>2, Invariants, PTL DEF Spec

(***************************************************************************)
(* The types in full.  A card counts its questions up, and never beyond    *)
(* those its CLI has asked: a read that counts one up is of a question the *)
(* card does not show yet, and it shows it afterwards.                     *)
(***************************************************************************)
CardRecord == [turn : Turns, n : 0 .. MaxTurns, settled : BOOLEAN, episode : Nat,
               ask : 0 .. MaxAsks, asked : Told, reply : Told]
Records ==
    /\ cli \in [Terminals -> Cli] /\ card \in [Terminals -> CardRecord]
    /\ waits \in [Terminals -> Seen]

\* Questions of the turns before turn n.
Before(n) == IF n = 0 THEN 0 ELSE (n - 1) * MaxAsks
Shown(c, d) == d.n = c.n /\ d.turn = "Waiting" /\ d.ask = c.asks
Counts(c, d) ==
    /\ c.n = 0 => c.turn = "Idle" /\ c.asks = 0
    /\ d.episode + (IF c.turn = "Waiting" /\ ~Shown(c, d) THEN 1 ELSE 0) <= Before(c.n) + c.asks
QuestionsCounted == \A t \in Terminals : Counts(cli[t], card[t])

LEMMA BeforeIs ==
  ASSUME NEW n \in 0 .. MaxTurns, NEW a \in 0 .. MaxAsks, n = 0 => a = 0
  PROVE  /\ Before(n) \in Nat
         /\ Before(n) + a <= Before(n + 1)
         /\ Before(n) + a <= MaxTurns * MaxAsks
<1>1. MaxTurns \in Nat /\ MaxAsks \in Nat
  BY BoundsAssumption
<1>2. \A x, y \in Nat : x * y \in Nat /\ (x + 1) * y = x * y + y
  OBVIOUS
<1>3. \A x, y, z \in Nat : x <= y => x * z <= y * z
  OBVIOUS
<1>4. CASE n = 0
  <2>1. Before(n) = 0 /\ a = 0
    BY <1>4 DEF Before
  <2>2. Before(n + 1) = 0 * MaxAsks
    BY <1>4 DEF Before
  <2> QED BY <1>1, <1>2, <2>1, <2>2
<1>5. CASE n # 0
  <2>1. n - 1 \in Nat /\ n \in Nat /\ (n - 1) + 1 = n /\ (n + 1) - 1 = n /\ n <= MaxTurns /\ n + 1 # 0
    BY <1>1, <1>5
  <2>2. Before(n) = (n - 1) * MaxAsks /\ Before(n + 1) = n * MaxAsks
    BY <1>5, <2>1 DEF Before
  <2>3. n * MaxAsks = (n - 1) * MaxAsks + MaxAsks /\ (n - 1) * MaxAsks \in Nat
    BY <1>1, <1>2, <2>1
  <2>4. n * MaxAsks <= MaxTurns * MaxAsks /\ MaxTurns * MaxAsks \in Nat
    BY <1>1, <1>2, <1>3, <2>1
  <2> DEFINE x == (n - 1) * MaxAsks
             y == n * MaxAsks
             z == MaxTurns * MaxAsks
  <2>5. a <= MaxAsks /\ a \in Nat
    BY <1>1
  <2> HIDE DEF x, y, z
  <2>6. x \in Nat /\ y = x + MaxAsks /\ y <= z /\ z \in Nat
    BY <2>3, <2>4 DEF x, y, z
  <2>7. x + a <= y /\ x + a <= z
    BY <1>1, <2>5, <2>6
  <2> QED BY <2>2, <2>6, <2>7 DEF x, y, z
<1> QED BY <1>4, <1>5

LEMMA InitRecords == Init => Records /\ QuestionsCounted
<1> SUFFICES ASSUME Init PROVE Records /\ QuestionsCounted
  OBVIOUS
<1>1. 0 \in 0 .. MaxTurns /\ 0 \in 0 .. MaxAsks /\ 0 \in Nat
  BY BoundsAssumption
<1>2. Records
  BY <1>1 DEF Init, Records, Cli, CardRecord, Seen, NoQuestion, Turns, Told
<1>3. Before(0) = 0
  BY DEF Before
<1>4. ASSUME NEW t \in Terminals PROVE Counts(cli[t], card[t])
  <2>1. cli[t].n = 0 /\ cli[t].turn = "Idle" /\ cli[t].asks = 0 /\ card[t].episode = 0
    BY DEF Init
  <2> QED BY <1>3, <2>1 DEF Counts
<1> QED BY <1>2, <1>4 DEF QuestionsCounted

LEMMA CliWritten ==
  ASSUME Records, QuestionsCounted, NEW t \in Terminals, NEW v \in Cli, Counts(v, card[t]),
         cli' = [cli EXCEPT ![t] = v], card' = card, waits' \in [Terminals -> Seen]
  PROVE  Records' /\ QuestionsCounted'
<1>1. Records'
  BY DEF Records
<1>2. \A c \in Terminals : cli'[c] = IF c = t THEN v ELSE cli[c]
  BY DEF Records
<1> QED BY <1>1, <1>2 DEF QuestionsCounted

LEMMA SeenIs ==
  ASSUME Records, NEW t \in Terminals, NEW w \in Seen
  PROVE  [waits EXCEPT ![t] = w] \in [Terminals -> Seen]
BY DEF Records

LEMMA NothingSeen == NoQuestion \in Seen
  BY BoundsAssumption DEF Seen, NoQuestion

\* The numbers of one terminal.
LEMMA NumbersAre ==
  ASSUME Records, QuestionsCounted, NEW t \in Terminals
  PROVE  LET c == cli[t] d == card[t] IN
         /\ c \in Cli /\ d \in CardRecord /\ Counts(c, d)
         /\ c.n \in 0 .. MaxTurns /\ c.asks \in 0 .. MaxAsks /\ d.episode \in Nat
         /\ c.asks \in Nat /\ Before(c.n) \in Nat
         /\ d.episode <= Before(c.n) + c.asks
         /\ Before(c.n) + c.asks <= Before(c.n + 1)
         /\ Before(c.n) + c.asks <= MaxTurns * MaxAsks
<1> DEFINE c == cli[t]
           d == card[t]
<1>1. c \in Cli /\ d \in CardRecord /\ Counts(c, d)
  BY DEF Records, QuestionsCounted
<1> HIDE DEF c, d
<1>2. c.n \in 0 .. MaxTurns /\ c.asks \in 0 .. MaxAsks /\ d.episode \in Nat /\ c.asks \in Nat
  BY <1>1, BoundsAssumption DEF Cli, CardRecord
<1>3. c.n = 0 => c.asks = 0
  BY <1>1 DEF Counts
<1>4. /\ Before(c.n) \in Nat /\ Before(c.n) + c.asks <= Before(c.n + 1)
      /\ Before(c.n) + c.asks <= MaxTurns * MaxAsks
  BY <1>2, <1>3, BeforeIs
<1>5. d.episode <= Before(c.n) + c.asks
  BY <1>1, <1>2, <1>4 DEF Counts
<1> QED BY <1>1, <1>2, <1>4, <1>5 DEF c, d

LEMMA BegunCounts ==
  ASSUME Records, QuestionsCounted, NEW t \in Terminals, cli[t].n < MaxTurns
  PROVE  Begun(t) \in Cli /\ Counts(Begun(t), card[t])
<1> DEFINE v == Begun(t)
<1>0. cli[t] \in Cli /\ cli[t].n + 1 \in 0 .. MaxTurns /\ 0 \in 0 .. MaxAsks
  BY NumbersAre, BoundsAssumption
<1>1. v \in Cli /\ v.n = cli[t].n + 1 /\ v.asks = 0 /\ v.turn = "Running"
  BY <1>0 DEF Cli, Begun, Turns
<1> HIDE DEF v
<1>2. Before(cli[t].n + 1) \in Nat
  <2>1. cli[t].n + 1 \in 0 .. MaxTurns /\ 0 \in 0 .. MaxAsks
    BY NumbersAre, BoundsAssumption
  <2> QED BY <2>1, BeforeIs
<1>3. card[t].episode <= Before(v.n) + v.asks
  BY <1>1, <1>2, NumbersAre
<1>4. v.n # 0
  BY <1>1, NumbersAre
<1> QED BY <1>1, <1>2, <1>3, <1>4, NumbersAre DEF Counts, v

\* A CLI in a turn asks, answers or ends.
LEMMA GoesOn ==
  ASSUME Records, QuestionsCounted, NEW t \in Terminals, cli[t].turn \in {"Running", "Waiting"},
         NEW w \in Told
  PROVE  /\ \A x \in {"Running", "Completed"} :
              LET v == [cli[t] EXCEPT !.turn = x, !.says = w] IN v \in Cli /\ Counts(v, card[t])
         /\ cli[t].asks < MaxAsks =>
              LET v == [cli[t] EXCEPT !.turn = "Waiting", !.asks = @ + 1, !.says = w] IN
              v \in Cli /\ Counts(v, card[t])
<1>1. cli[t].n # 0
  BY NumbersAre DEF Counts
<1>2. ASSUME NEW x \in {"Running", "Completed"}
      PROVE  LET v == [cli[t] EXCEPT !.turn = x, !.says = w] IN v \in Cli /\ Counts(v, card[t])
  <2> DEFINE v == [cli[t] EXCEPT !.turn = x, !.says = w]
  <2>1. v \in Cli /\ v.n = cli[t].n /\ v.asks = cli[t].asks /\ v.turn # "Waiting"
    BY NumbersAre DEF Cli, Turns, Told
  <2> HIDE DEF v
  <2>2. Counts(v, card[t])
    BY <1>1, <2>1, NumbersAre DEF Counts
  <2> QED BY <2>1, <2>2 DEF v
<1>3. ASSUME cli[t].asks < MaxAsks
      PROVE  LET v == [cli[t] EXCEPT !.turn = "Waiting", !.asks = @ + 1, !.says = w] IN
             v \in Cli /\ Counts(v, card[t])
  <2> DEFINE v == [cli[t] EXCEPT !.turn = "Waiting", !.asks = @ + 1, !.says = w]
  <2>0. cli[t] \in Cli /\ cli[t].asks + 1 \in 0 .. MaxAsks
    BY <1>3, NumbersAre, BoundsAssumption
  <2>1. v \in Cli /\ v.n = cli[t].n /\ v.asks = cli[t].asks + 1
    BY <2>0 DEF Cli, Turns, Told
  <2> HIDE DEF v
  <2>2. Counts(v, card[t])
    BY <1>1, <2>1, NumbersAre DEF Counts
  <2> QED BY <2>1, <2>2 DEF v
<1> QED BY <1>2, <1>3

LEMMA ReadingCounts ==
  ASSUME Records, QuestionsCounted, NEW t \in Terminals, NEW x \in Readings(t)
  PROVE  x \in CardRecord /\ Counts(cli[t], x)
<1> DEFINE c == cli[t]
           d == card[t]
           same == d.n = c.n
           settled == same /\ d.settled
           base == [d EXCEPT !.turn = c.turn, !.n = c.n, !.settled = same /\ @,
                             !.ask = 0, !.asked = None]
           new == ~(same /\ d.turn = "Waiting" /\ d.ask = c.asks)
           replies == IF same /\ d.turn = "Completed" /\ d.reply = c.says
                        THEN {c.says} ELSE {d.reply, c.says}
           closed == {[base EXCEPT !.reply = r] : r \in replies}
<1>1. c \in Cli /\ d \in CardRecord /\ Counts(c, d)
  BY NumbersAre
<1>2. base \in CardRecord /\ base.turn = c.turn /\ base.n = c.n /\ base.episode = d.episode
  <2>1. base = [d EXCEPT !.turn = c.turn, !.n = c.n, !.settled = settled, !.ask = 0, !.asked = None]
    BY <1>1 DEF CardRecord
  <2>2. settled \in BOOLEAN
    OBVIOUS
  <2>3. \A s \in BOOLEAN :
          LET b == [d EXCEPT !.turn = c.turn, !.n = c.n, !.settled = s, !.ask = 0, !.asked = None] IN
          b \in CardRecord /\ b.turn = c.turn /\ b.n = c.n /\ b.episode = d.episode
    <3>1. /\ c.turn \in Turns /\ c.n \in 0 .. MaxTurns /\ 0 \in 0 .. MaxAsks /\ None \in Told
      BY <1>1, BoundsAssumption DEF Cli, Told
    <3> HIDE DEF c, d
    <3> QED BY <1>1, <3>1 DEF CardRecord
  <2> HIDE DEF settled, base
  <2> QED BY <2>1, <2>2, <2>3
<1>3. c.turn = "Waiting" => d.episode + (IF new THEN 1 ELSE 0) <= Before(c.n) + c.asks
  BY <1>1 DEF Counts, Shown
<1>4. /\ c.says \in Told /\ d.reply \in Told /\ (c.n = 0 => c.turn = "Idle" /\ c.asks = 0)
      /\ d.episode \in Nat /\ c.asks \in 0 .. MaxAsks /\ Before(c.n) \in Nat /\ c.asks \in Nat
      /\ d.episode <= Before(c.n) + c.asks
  BY <1>1, NumbersAre DEF Cli, CardRecord, Counts, Told
<1>5. CASE c.turn = "Waiting"
  <2>1. \/ x = [base EXCEPT !.ask = c.asks, !.asked = c.says, !.episode = IF new THEN @ + 1 ELSE @]
        \/ new /\ x = [base EXCEPT !.turn = "Running"]
    <3>1. Readings(t) = {[base EXCEPT !.ask = c.asks, !.asked = c.says,
                                      !.episode = IF new THEN @ + 1 ELSE @]} \cup
                        (IF new THEN {[base EXCEPT !.turn = "Running"]} ELSE {})
      BY <1>5 DEF Readings
    <3> HIDE DEF base, new
    <3> QED BY <3>1
  <2> HIDE DEF base, new, c, d
  <2>2. CASE x = [base EXCEPT !.ask = c.asks, !.asked = c.says, !.episode = IF new THEN @ + 1 ELSE @]
    <3>1. /\ x \in CardRecord /\ x.turn = c.turn /\ x.n = c.n /\ x.ask = c.asks
          /\ x.episode = d.episode + (IF new THEN 1 ELSE 0)
      <4> DEFINE e == d.episode + (IF new THEN 1 ELSE 0)
      <4>1. e \in Nat /\ x = [base EXCEPT !.ask = c.asks, !.asked = c.says, !.episode = e]
        <5>1. base.episode = d.episode /\ d.episode \in Nat
          BY <1>2, <1>4
        <5>2. CASE new
          BY <2>2, <5>1, <5>2
        <5>3. CASE ~new
          <6>1. e = d.episode
            BY <5>1, <5>3
          <6>2. x = [base EXCEPT !.ask = c.asks, !.asked = c.says, !.episode = base.episode]
            BY <2>2, <5>3
          <6> QED BY <5>1, <6>1, <6>2
        <5> QED BY <5>2, <5>3
      <4> HIDE DEF e
      <4>2. x \in CardRecord /\ x.turn = c.turn /\ x.n = c.n /\ x.ask = c.asks /\ x.episode = e
        BY <1>2, <1>4, <4>1 DEF CardRecord
      <4> QED BY <4>2 DEF e
    <3>2. Counts(c, x)
      BY <1>3, <1>4, <1>5, <3>1 DEF Counts, Shown
    <3> QED BY <3>1, <3>2 DEF c
  <2>3. CASE new /\ x = [base EXCEPT !.turn = "Running"]
    <3>1. x \in CardRecord /\ x.episode = d.episode /\ x.turn = "Running"
      BY <1>2, <2>3 DEF CardRecord, Turns
    <3>2. Counts(c, x)
      BY <1>3, <1>4, <1>5, <2>3, <3>1 DEF Counts, Shown
    <3> QED BY <3>1, <3>2 DEF c
  <2> QED BY <2>1, <2>2, <2>3
<1>6. CASE c.turn # "Waiting"
  <2>1. \A y \in CardRecord : y.episode = d.episode => Counts(c, y)
    BY <1>4, <1>6 DEF Counts
  <2>2. CASE c.turn = "Completed"
    <3>1. x \in closed \cup {[y EXCEPT !.settled = TRUE] : y \in closed}
      BY <2>2 DEF Readings
    <3>2. PICK r \in replies, y \in closed : /\ y = [base EXCEPT !.reply = r]
                                             /\ x = y \/ x = [y EXCEPT !.settled = TRUE]
      <4> HIDE DEF base, replies
      <4> QED BY <3>1
    <3>3. r \in Told
      BY <1>4, <3>2
    <3> HIDE DEF base, closed, replies, c, d
    <3>4. y \in CardRecord /\ y.episode = d.episode
      BY <1>2, <3>2, <3>3 DEF CardRecord
    <3>5. x \in CardRecord /\ x.episode = d.episode
      BY <3>2, <3>4 DEF CardRecord
    <3> QED BY <2>1, <3>5 DEF c
  <2>3. CASE c.turn # "Completed"
    <3>1. x = base
      BY <1>6, <2>3 DEF Readings
    <3> QED BY <1>2, <2>1, <3>1
  <2> QED BY <2>2, <2>3
<1> QED BY <1>5, <1>6

LEMMA ShowWrites ==
  ASSUME NEW cards, NEW screens, NEW bnd, NEW threads, Show(cards, screens, bnd, threads)
  PROVE  card' = cards /\ waits' = screens
BY DEF Show

\* Only a CLI, a card or the question of a screen is written, one at a time.
LEMMA NextRecords ==
  ASSUME Typed, Records, QuestionsCounted, [Next]_vars
  PROVE  Records' /\ QuestionsCounted'
<1>0. cli \in [Terminals -> Cli] /\ card \in [Terminals -> CardRecord] /\ waits \in [Terminals -> Seen]
  BY DEF Records
<1>1. CASE UNCHANGED <<cli, card, waits>>
  BY <1>1 DEF Records, QuestionsCounted
<1>2. ASSUME NEW t \in Terminals, Prompt(t) PROVE Records' /\ QuestionsCounted'
  BY <1>0, <1>2, BegunCounts, CliWritten DEF Prompt
<1>3. ASSUME NEW t \in Terminals, NEW w \in Words, Question(t, w)
      PROVE  Records' /\ QuestionsCounted'
  <2> DEFINE v == [cli[t] EXCEPT !.turn = "Waiting", !.asks = @ + 1, !.says = w]
  <2>1. v \in Cli /\ Counts(v, card[t])
    BY <1>3, GoesOn DEF Question, Told
  <2>2. cli' = [cli EXCEPT ![t] = v] /\ card' = card /\ waits' = waits
    BY <1>0, <1>3 DEF Question
  <2> HIDE DEF v
  <2> QED BY <1>0, <2>1, <2>2, CliWritten
<1>4. ASSUME NEW t \in Terminals, NEW w \in Words, Finish(t, w)
      PROVE  Records' /\ QuestionsCounted'
  <2> DEFINE v == [cli[t] EXCEPT !.turn = "Completed", !.says = w]
  <2>1. v \in Cli /\ Counts(v, card[t])
    BY <1>4, GoesOn DEF Finish, Told
  <2>2. cli' = [cli EXCEPT ![t] = v] /\ card' = card /\ waits' = waits
    BY <1>0, <1>4 DEF Finish
  <2> HIDE DEF v
  <2> QED BY <1>0, <2>1, <2>2, CliWritten
<1>5. ASSUME NEW t \in Terminals, cli[t].turn = "Waiting", card' = card,
             waits' \in [Terminals -> Seen],
             cli' = [cli EXCEPT ![t] = [cli[t] EXCEPT !.turn = "Running", !.says = None]]
      PROVE  Records' /\ QuestionsCounted'
  <2> DEFINE v == [cli[t] EXCEPT !.turn = "Running", !.says = None]
  <2>1. v \in Cli /\ Counts(v, card[t])
    BY <1>5, GoesOn DEF Told
  <2>2. cli' = [cli EXCEPT ![t] = v]
    BY <1>5
  <2> HIDE DEF v
  <2> QED BY <1>5, <2>1, <2>2, CliWritten
<1>6. ASSUME NEW t \in Terminals, Answer(t) PROVE Records' /\ QuestionsCounted'
  <2>1. card' = card /\ waits' = [waits EXCEPT ![t] = NoQuestion]
    BY <1>6, ShowWrites DEF Answer
  <2>2. cli[t].turn = "Waiting" /\ cli' = [cli EXCEPT ![t] = [cli[t] EXCEPT !.turn = "Running", !.says = None]]
    BY <1>0, <1>6 DEF Answer
  <2>3. waits' \in [Terminals -> Seen]
    BY <1>0, <2>1, SeenIs, NothingSeen
  <2> QED BY <1>5, <2>1, <2>2, <2>3
<1>7. ASSUME NEW t \in Terminals, ReadLog(t) PROVE Records' /\ QuestionsCounted'
  <2>1. PICK x \in Readings(t) : card' = [card EXCEPT ![t] = x] /\ waits' = waits
    BY <1>7, ShowWrites DEF ReadLog
  <2>2. cli' = cli
    BY <1>7 DEF ReadLog
  <2>3. x \in CardRecord /\ Counts(cli[t], x)
    BY ReadingCounts
  <2>4. \A c \in Terminals : card'[c] = IF c = t THEN x ELSE card[c]
    BY <1>0, <2>1
  <2> QED BY <1>0, <2>1, <2>2, <2>3, <2>4 DEF Records, QuestionsCounted
<1>8. ASSUME NEW t \in Terminals, NEW w \in Seen, waits' = [waits EXCEPT ![t] = w],
             card' = card, cli' = cli
      PROVE  Records' /\ QuestionsCounted'
  BY <1>0, <1>8, SeenIs DEF Records, QuestionsCounted
<1>9. ASSUME NEW t \in Terminals, CheckScreen(t) PROVE Records' /\ QuestionsCounted'
  <2> DEFINE w == IF cli[t].turn = "Waiting" THEN [ask |-> cli[t].asks, words |-> cli[t].says]
                  ELSE NoQuestion
  <2>1. w \in Seen
    BY <1>0, NothingSeen DEF Cli, Seen
  <2>2. cli' = cli /\ card' = card /\ waits' = [waits EXCEPT ![t] = w]
    BY <1>9, ShowWrites DEF CheckScreen
  <2> HIDE DEF w
  <2> QED BY <1>8, <2>1, <2>2
<1>10. ASSUME NEW t \in Terminals, Bind(t) \/ ExitTerminal(t) PROVE UNCHANGED <<cli, card, waits>>
  BY <1>10, ShowWrites DEF Bind, ExitTerminal
<1>11. ASSUME NEW j \in typing, ClearWait(j) PROVE Records' /\ QuestionsCounted'
  <2>1. cli' = cli /\ card' = card /\ waits' = [waits EXCEPT ![j.to] = NoQuestion]
    BY <1>11, ShowWrites DEF ClearWait
  <2>2. j.to \in Terminals /\ NoQuestion \in Seen
    BY ThreadsTyped, NothingSeen
  <2> QED BY <1>8, <2>1, <2>2
<1>12. ASSUME NEW j \in typing, Enter(j) PROVE Records' /\ QuestionsCounted'
  <2> DEFINE t == j.to
  <2>1. t \in Terminals
    BY ThreadsTyped
  <2>2. /\ card' = card /\ waits' = waits
        /\ cli' = [cli EXCEPT ![t] =
             IF t \in running /\ cli[t].turn = "Waiting"
               THEN [cli[t] EXCEPT !.turn = "Running", !.says = None]
             ELSE IF t \in running /\ cli[t].turn \in {"Idle", "Completed"} /\ cli[t].n < MaxTurns
               THEN Begun(t) ELSE cli[t]]
    BY <1>12 DEF Enter
  <2> HIDE DEF t
  <2>3. CASE /\ cli[t].turn = "Waiting"
             /\ cli' = [cli EXCEPT ![t] = [cli[t] EXCEPT !.turn = "Running", !.says = None]]
    BY <1>0, <1>5, <2>1, <2>2, <2>3
  <2>4. CASE cli[t].n < MaxTurns /\ cli' = [cli EXCEPT ![t] = Begun(t)]
    BY <1>0, <2>1, <2>2, <2>4, BegunCounts, CliWritten
  <2>5. CASE cli' = [cli EXCEPT ![t] = cli[t]]
    BY <1>0, <1>1, <2>1, <2>2, <2>5
  <2> QED BY <2>2, <2>3, <2>4, <2>5
<1>13. ASSUME NEW child \in Terminals, NEW parent \in Terminals, ReportTo(child, parent)
       PROVE  UNCHANGED <<cli, card, waits>>
  BY <1>13 DEF ReportTo
<1>14. ASSUME NEW j \in typing, NEW taken \in BOOLEAN, Paste(j, taken)
       PROVE  UNCHANGED <<cli, card, waits>>
  BY <1>14 DEF Paste
<1>15. UNCHANGED vars => UNCHANGED <<cli, card, waits>>
  BY DEF vars
<1> QED BY <1>1, <1>2, <1>3, <1>4, <1>6, <1>7, <1>9, <1>10, <1>11, <1>12, <1>13, <1>14, <1>15 DEF Next

LEMMA CardIs ==
  ASSUME NEW c \in Cli, NEW d \in CardRecord, Counts(c, d)
  PROVE  d \in Card /\ d.episode \in 0 .. MaxTurns * MaxAsks
<1>1. c.n \in 0 .. MaxTurns /\ c.asks \in 0 .. MaxAsks /\ d.episode \in Nat
      /\ (c.n = 0 => c.asks = 0) /\ c.asks \in Nat
  BY BoundsAssumption DEF Cli, CardRecord, Counts
<1>2. Before(c.n) \in Nat /\ Before(c.n) + c.asks <= MaxTurns * MaxAsks /\ MaxTurns * MaxAsks \in Nat
  BY <1>1, BeforeIs, BoundsAssumption
<1>3. d.episode <= Before(c.n) + c.asks
  BY <1>1, <1>2 DEF Counts
<1>4. d.episode \in 0 .. MaxTurns * MaxAsks
  <2> DEFINE m == MaxTurns * MaxAsks
  <2> HIDE DEF m
  <2>1. m \in Nat /\ Before(c.n) + c.asks <= m
    BY <1>2 DEF m
  <2>2. d.episode \in 0 .. m
    BY <1>1, <1>2, <1>3, <2>1
  <2> QED BY <2>2 DEF m
<1>5. d.episode \in Episodes
  <2>1. MaxTurns * MaxAsks \in Nat
    BY <1>2
  <2> QED BY <1>4, <2>1 DEF Episodes
<1> HIDE DEF Episodes
<1> QED BY <1>4, <1>5 DEF CardRecord, Card, Told

LEMMA NoneIs == NoKey \in Key /\ NoSaid \in Said
<1>1. 0 \in 0 .. MaxTurns /\ MaxTurns * MaxAsks \in Nat
  BY BoundsAssumption
<1>2. 0 \in Episodes
  BY <1>1 DEF Episodes
<1> HIDE DEF Episodes
<1> QED BY <1>1, <1>2 DEF NoKey, NoSaid, Key, Said

\* What a terminal shows can be noted.
LEMMA EndIs ==
  ASSUME NEW c \in Cli, NEW d \in CardRecord, Counts(c, d), NEW w \in Seen
  PROVE  /\ TurnEnd(d, w).key \in Key /\ TurnEnd(d, w).said \in Said
         /\ NoEnd.key \in Key /\ NoEnd.said \in Said
<1>1. d \in Card /\ d.episode \in 0 .. MaxTurns * MaxAsks
  BY CardIs
<1>2. 0 \in Episodes /\ d.episode \in Episodes /\ d.episode + 1 \in Episodes
  <2>1. MaxTurns * MaxAsks \in Nat
    BY BoundsAssumption
  <2> QED BY <1>1, <2>1 DEF Episodes
<1>3. /\ d.n \in 0 .. MaxTurns /\ d.settled \in BOOLEAN
      /\ d.asked \in Words \cup {None} /\ d.reply \in Words \cup {None}
      /\ w.words \in Words \cup {None}
  BY <1>1 DEF Card, Seen
<1> HIDE DEF Episodes
<1>4. ASSUME NEW e \in {"done", "waiting"}, NEW p \in Episodes, NEW v \in Words \cup {None},
             NEW s \in BOOLEAN
      PROVE  /\ [event |-> e, n |-> d.n, settled |-> d.settled, episode |-> p] \in Key
             /\ [event |-> e, words |-> v, screen |-> s] \in Said
  BY <1>3 DEF Key, Said
<1>5. NoEnd.key \in Key /\ NoEnd.said \in Said
  BY NoneIs DEF NoEnd
<1>6. TurnEnd(d, w).key \in Key /\ TurnEnd(d, w).said \in Said
  <2>1. CASE Asks(d, w)
    <3> DEFINE screen == d.turn # "Waiting"
               p == IF screen THEN d.episode + 1 ELSE d.episode
               v == IF screen THEN w.words ELSE d.asked
    <3>1. TurnEnd(d, w).key = [event |-> "waiting", n |-> d.n, settled |-> d.settled, episode |-> p]
          /\ TurnEnd(d, w).said = [event |-> "waiting", words |-> v, screen |-> screen]
      BY <2>1 DEF TurnEnd
    <3>2. p \in Episodes /\ v \in Words \cup {None} /\ screen \in BOOLEAN
      BY <1>2, <1>3
    <3> HIDE DEF p, v, screen
    <3> QED BY <1>4, <3>1, <3>2
  <2>2. CASE ~Asks(d, w) /\ d.turn = "Completed" /\ d.reply # None
    <3>1. TurnEnd(d, w).key = [event |-> "done", n |-> d.n, settled |-> d.settled, episode |-> 0]
          /\ TurnEnd(d, w).said = [event |-> "done", words |-> d.reply, screen |-> FALSE]
      BY <2>2 DEF TurnEnd
    <3> QED BY <1>2, <1>3, <1>4, <3>1
  <2>3. CASE ~Asks(d, w) /\ ~(d.turn = "Completed" /\ d.reply # None)
    <3>1. TurnEnd(d, w) = NoEnd
      BY <2>3 DEF TurnEnd
    <3> QED BY <1>5, <3>1
  <2> QED BY <2>1, <2>2, <2>3
<1> QED BY <1>5, <1>6

LinksAre == links \in [Terminals -> Link] /\ linked \in 0 .. MaxLinks

LEMMA NextLinks ==
  ASSUME Typed, Steps, Records, QuestionsCounted, Records', QuestionsCounted', LinksAre, [Next]_vars
  PROVE  LinksAre'
<1>1. linked' \in 0 .. MaxLinks
  <2>1. linked' = linked \/ (linked < MaxLinks /\ linked' = linked + 1)
    BY DEF Next, vars, Prompt, Question, Finish, Answer, ReadLog, CheckScreen, Bind, ExitTerminal,
       ReportTo, Paste, ClearWait, Enter
  <2> QED BY <2>1, BoundsAssumption DEF LinksAre
<1>2. CASE Quiet
  BY <1>1, <1>2 DEF Quiet, LinksAre
<1>3. ASSUME NEW child \in Terminals, NEW parent \in Terminals, ReportTo(child, parent)
      PROVE  LinksAre'
  <2>1. links' = [links EXCEPT ![child] =
                    [parent |-> parent, last |-> Shows(child).key, said |-> Shows(child).said]]
    BY <1>3 DEF ReportTo, Shows
  <2>2. Shows(child).key \in Key /\ Shows(child).said \in Said
    <3>1. cli[child] \in Cli /\ card[child] \in CardRecord /\ waits[child] \in Seen
          /\ Counts(cli[child], card[child])
      BY DEF Records, QuestionsCounted
    <3> QED BY <3>1, EndIs DEF Shows
  <2>3. [parent |-> parent, last |-> Shows(child).key, said |-> Shows(child).said] \in Link
    BY <2>2 DEF Link
  <2> QED BY <1>1, <2>1, <2>3 DEF LinksAre
<1>4. ASSUME NEW t \in Terminals, CommitsAt(t) PROVE LinksAre'
  <2>1. ASSUME NEW c \in Terminals PROVE links'[c] \in Link
    <3>1. links'[c] = NoLink \/ links'[c] = links[c] \/ links'[c] = Noted(links[c], Shows(c)')
      BY <1>4, CommitNotes
    <3>2. Shows(c)'.key \in Key /\ Shows(c)'.said \in Said
      <4>1. cli'[c] \in Cli /\ card'[c] \in CardRecord /\ waits'[c] \in Seen
            /\ Counts(cli'[c], card'[c])
        BY DEF Records, QuestionsCounted
      <4> QED BY <4>1, EndIs DEF Shows
    <3>3. NoLink \in Link
      BY NoneIs DEF NoLink, Link
    <3>4. links[c] \in Link
      BY DEF LinksAre
    <3>5. Noted(links[c], Shows(c)') \in Link
      BY <3>2, <3>4 DEF Noted, Link
    <3> QED BY <3>1, <3>3, <3>4, <3>5
  <2>2. DOMAIN links' = Terminals /\ links' = [c \in Terminals |-> links'[c]]
    BY <1>4, CommitNotes DEF CommitsAt, Plan
  <2> QED BY <1>1, <2>1, <2>2 DEF LinksAre
<1> QED BY <1>2, <1>3, <1>4 DEF Steps, Relinks

\* Every variable keeps its type: a card never counts more questions than were
\* asked, an outbox never holds more than QUEUE reports, and a thread types only
\* reports.
THEOREM TypeCorrect == Spec => []TypeOK
<1> DEFINE All == IInv /\ Records /\ QuestionsCounted /\ LinksAre
<1>1. Init => All
  <2>1. Init => LinksAre
    BY NoneIs, BoundsAssumption DEF Init, LinksAre, Link, NoLink
  <2> QED BY <2>1, InitIInv, InitRecords
<1>2. All /\ [Next]_vars => All'
  <2> SUFFICES ASSUME All, [Next]_vars PROVE All'
    OBVIOUS
  <2>1. Steps
    BY NextSteps DEF IInv
  <2>2. Records' /\ QuestionsCounted'
    BY NextRecords DEF IInv
  <2>3. LinksAre'
    BY <2>1, <2>2, NextLinks DEF IInv
  <2> QED BY <2>2, <2>3, NextIInv
<1>3. All => TypeOK
  <2> SUFFICES ASSUME All PROVE TypeOK
    OBVIOUS
  <2>1. card \in [Terminals -> Card]
    BY CardIs DEF Records, QuestionsCounted
  <2> QED BY <2>1 DEF IInv, Records, LinksAre, Typed, MailTyped, OutboxTyped, TypeOK
<1> QED BY <1>1, <1>2, <1>3, PTL DEF Spec
=============================================================================
