-------------------------------- MODULE Relay --------------------------------
(***************************************************************************)
(* Remote access: a machine dials out to a relay and keeps one socket to   *)
(* it; each phone that calls is bridged over that socket (wopen, wopened,  *)
(* werr, wmsg, wclose) to a session of the machine.  The relay holds the   *)
(* bridges, the machine the sessions, and every socket can die at any      *)
(* moment: the two tables must come to agree again.                        *)
(*                                                                         *)
(* The relay is keepline-relay/src/server.rs, the machine's end            *)
(* keeplined/src/relay.rs.  One machine, which dials again whenever it     *)
(* has lost its link; phones are outside this repository's Rust code and   *)
(* follow the steps of examples/phone.rs.  A message has size 1.           *)
(***************************************************************************)
EXTENDS Naturals, Sequences, FiniteSets

CONSTANTS
    Phones,       \* sockets of phones, one call each
    Stalled,      \* of these, phones that may stop reading
    MaxLinks,     \* bound: times the machine dials
    MaxSaid,      \* bound: requests of a phone
    MaxReplies,   \* bound: messages of a session
    Window,       \* unacknowledged messages of a session
    Buffer,       \* how far a phone may be behind at the relay
    Room,         \* messages queued toward a machine before phones wait
    OpenQueue,    \* messages a phone may send before the machine answers
    MaxSessions,  \* phones one machine serves
    MaxFaults     \* bound: sockets lost, sessions ended early, ...

ASSUME RelayAssumption ==
    /\ Stalled \subseteq Phones
    /\ {MaxLinks, MaxSaid, MaxReplies, MaxSessions, MaxFaults} \subseteq Nat
    /\ {Window, Buffer, Room, OpenQueue} \subseteq Nat \ {0}
    /\ Window < Buffer

VARIABLES
    \* The relay
    reg,      \* agents: the link registered for the machine, or 0
    run,      \* run_agent of each link
    room,     \* Agent.room: free places toward the machine
    call,     \* run_phone of each phone: its link, where it is, what it holds
    bridge,   \* Agent.sockets: the bridge of each phone, if it is in the table
    line,     \* each phone's cut, to_phone channel and writer
    \* The sockets between relay and machine
    broken,   \* links whose socket is dead, noticed or not
    down,     \* to the machine: the relay's outbox and the socket
    up,       \* to the relay
    \* The machine
    mlink,    \* the link it is connected on, or 0
    session,  \* sessions, by phone
    paired,   \* phones in remote-devices.json
    \* The phones
    phone,
    faults

relay   == <<reg, run, room, call, bridge, line>>
sockets == <<broken, down, up>>
machine == <<mlink, session, paired>>
vars    == <<relay, sockets, machine, phone, faults>>

Links == 1 .. MaxLinks

(* A frame names its phone.  From the relay: wopen (with whether the path  *)
(* is the machine's), msg, wclose; `permit` is the place it takes in room. *)
(* From the machine: wopened, werr, msg, wclose.                           *)
Said    == {"hello", "early", "request", "ack"}
Told    == {"answer", "data", "close"}
Frames  == {"wopen", "wopened", "werr", "msg", "wclose"}
Frame   == [t : Frames, p : Phones, what : Said \cup Told \cup {""}, permit : BOOLEAN,
            ours : BOOLEAN]
Plain(t, p)       == [t |-> t, p |-> p, what |-> "", permit |-> FALSE, ours |-> FALSE]
Wopen(p, ours)    == [Plain("wopen", p) EXCEPT !.ours = ours]
Msg(p, what, pay) == [Plain("msg", p) EXCEPT !.what = what, !.permit = pay]

NoBridge  == [on |-> FALSE, opened |-> FALSE, pending |-> <<>>, behind |-> 0]
NoSession == [stage |-> "none", said |-> 0, credit |-> 0, over |-> FALSE]

TypeOK ==
    /\ reg \in {0} \cup Links
    /\ run \in [Links -> {"none", "up", "leaving", "gone", "drained"}]
    /\ room \in [Links -> 0 .. Room]
    /\ call \in [Phones -> [link : {0} \cup Links, held : Said \cup {""},
                  stage : {"away", "upgrading", "on", "waiting", "left", "done"}]]
    /\ bridge \in [Phones -> [on : BOOLEAN, opened : BOOLEAN, pending : Seq(Said),
                              behind : Nat]]
    /\ line \in [Phones -> [cut : {0, 1009, 1012, 1013}, inbox : Seq(Told),
                            writer : Told \cup {"idle", "ended"}]]
    /\ broken \in SUBSET Links
    /\ down \in [Links -> Seq(Frame)] /\ up \in [Links -> Seq(Frame)]
    /\ mlink \in {0} \cup Links
    /\ session \in [Phones -> [stage : {"none", "pairing", "open"}, over : BOOLEAN,
                               said : 0 .. MaxReplies, credit : 0 .. Window]]
    /\ paired \in SUBSET Phones
    /\ phone \in [Phones -> [hello : BOOLEAN, open : BOOLEAN, said : 0 .. MaxSaid,
                             owed : Nat, told : {0, 1000, 1009, 1012, 1013},
                             gone : BOOLEAN]]
    /\ faults \in 0 .. MaxFaults

Init ==
    /\ reg = 0 /\ run = [k \in Links |-> "none"] /\ room = [k \in Links |-> Room]
    /\ call = [p \in Phones |-> [link |-> 0, stage |-> "away", held |-> ""]]
    /\ bridge = [p \in Phones |-> NoBridge]
    /\ line = [p \in Phones |-> [cut |-> 0, inbox |-> <<>>, writer |-> "idle"]]
    /\ broken = {} /\ down = [k \in Links |-> <<>>] /\ up = [k \in Links |-> <<>>]
    /\ mlink = 0 /\ session = [p \in Phones |-> NoSession] /\ paired = Phones
    /\ phone = [p \in Phones |-> [hello |-> FALSE, open |-> FALSE, said |-> 0,
                                  owed |-> 0, told |-> 0, gone |-> FALSE]]
    /\ faults = 0

(* Agent.send: nobody takes what is sent after the connection ended. *)
Outbox(k, ms) == IF run[k] = "up" THEN [down EXCEPT ![k] = @ \o ms] ELSE down
(* The machine's `out`: nobody takes it on a link the relay has left. *)
Reply(ms) == IF run[mlink] = "up" THEN [up EXCEPT ![mlink] = @ \o ms] ELSE up

Fault == faults < MaxFaults /\ faults' = faults + 1

-----------------------------------------------------------------------------
(* Links. *)

(* connect and the registration of run_agent.  The insert replaces an      *)
(* older link and closes it with 4000.                                     *)
Dial(k) ==
    /\ mlink = 0 /\ run[k] = "none" /\ \A j \in 1 .. k - 1 : run[j] # "none"
    /\ reg' = k
    /\ run' = [run EXCEPT ![k] = "up"]
    /\ broken' = broken \cup ({reg} \ {0})
    /\ mlink' = k
    /\ UNCHANGED <<room, call, bridge, line, down, up, session, paired, phone, faults>>

(* The network, or one end that has not heard from the other for too long. *)
Break(k) ==
    /\ Fault
    /\ run[k] = "up" /\ k \notin broken
    /\ broken' = broken \cup {k}
    /\ UNCHANGED <<relay, down, up, machine, phone>>

(* The machine notices, and every session ends with its bridge. *)
Lose ==
    /\ mlink \in broken
    /\ mlink' = 0
    /\ session' = [p \in Phones |-> NoSession]
    /\ UNCHANGED <<relay, sockets, paired, phone, faults>>

(* The relay notices: the loop of run_agent ends and its writer with it. *)
Stop(k) ==
    /\ run[k] = "up" /\ k \in broken
    /\ run' = [run EXCEPT ![k] = "leaving"]
    /\ down' = [down EXCEPT ![k] = <<>>] /\ up' = [up EXCEPT ![k] = <<>>]
    /\ room' = [room EXCEPT ![k] = Room]
    /\ UNCHANGED <<reg, call, bridge, line, broken, machine, phone, faults>>

\* Mutant: whoever leaves removes the machine, its newer link too.
Unregister_Any(k) ==
    /\ run[k] = "leaving"
    /\ run' = [run EXCEPT ![k] = "gone"]
    /\ reg' = 0
    /\ UNCHANGED <<room, call, bridge, line, sockets, machine, phone, faults>>
Unregister(k) ==
    /\ run[k] = "leaving"
    /\ run' = [run EXCEPT ![k] = "gone"]
    /\ reg' = IF reg = k THEN 0 ELSE reg
    /\ UNCHANGED <<room, call, bridge, line, sockets, machine, phone, faults>>

OnLink(k) == {p \in Phones : bridge[p].on /\ call[p].link = k}

\* Mutant: a link that was replaced keeps its bridges.
Drain_IfLast(k) ==
    /\ run[k] = "gone"
    /\ run' = [run EXCEPT ![k] = "drained"]
    /\ IF reg # 0 THEN UNCHANGED <<bridge, line>>
       ELSE /\ bridge' = [p \in Phones |-> IF p \in OnLink(k) THEN NoBridge ELSE bridge[p]]
            /\ line' = [p \in Phones |-> IF p \in OnLink(k) THEN [line[p] EXCEPT !.cut = 1012]
                                         ELSE line[p]]
    /\ UNCHANGED <<reg, room, call, sockets, machine, phone, faults>>
Drain(k) ==
    /\ run[k] = "gone"
    /\ run' = [run EXCEPT ![k] = "drained"]
    /\ bridge' = [p \in Phones |-> IF p \in OnLink(k) THEN NoBridge ELSE bridge[p]]
    /\ line' = [p \in Phones |-> IF p \in OnLink(k) THEN [line[p] EXCEPT !.cut = 1012]
                                 ELSE line[p]]
    /\ UNCHANGED <<reg, room, call, sockets, machine, phone, faults>>

-----------------------------------------------------------------------------
(* run_phone: the loop that reads a phone. *)

Stage(p, s) == call' = [call EXCEPT ![p].stage = s, ![p].held = ""]

(* The machine is looked up when the phone asks to upgrade ... *)
Knock(p) ==
    /\ call[p].stage = "away" /\ reg # 0
    /\ call' = [call EXCEPT ![p].stage = "upgrading", ![p].link = reg]
    /\ UNCHANGED <<reg, run, room, bridge, line, sockets, machine, phone, faults>>

(* ... and joined, as it was then, once the socket is there. *)
Join(p) ==
    /\ call[p].stage = "upgrading"
    /\ Stage(p, "on")
    /\ bridge' = [bridge EXCEPT ![p].on = TRUE]
    /\ \E ours \in BOOLEAN : down' = Outbox(call[p].link, <<Wopen(p, ours)>>)
    /\ UNCHANGED <<reg, run, room, line, broken, up, machine, phone, faults>>

(* The phone says something and run_phone takes it. *)
Read(p, what) ==
    LET b == bridge[p]
        k == call[p].link
    IN  /\ call[p].stage = "on" /\ ~phone[p].gone /\ phone[p].told = 0
        /\ IF ~b.on THEN Stage(p, "left") /\ UNCHANGED <<bridge, line, down>>
           ELSE IF b.opened
           THEN /\ call' = [call EXCEPT ![p].stage = "waiting", ![p].held = what]
                /\ UNCHANGED <<bridge, line, down>>
           ELSE IF Len(b.pending) < OpenQueue
           THEN /\ bridge' = [bridge EXCEPT ![p].pending = Append(@, what)]
                /\ UNCHANGED <<call, line, down>>
           ELSE /\ Stage(p, "left")
                /\ bridge' = [bridge EXCEPT ![p] = NoBridge]
                /\ line' = [line EXCEPT ![p].cut = 1009]
                /\ down' = Outbox(k, <<Plain("wclose", p)>>)
        /\ UNCHANGED <<reg, run, room, broken, up, machine>>

SayHello(p) ==
    /\ ~phone[p].hello
    /\ phone' = [phone EXCEPT ![p].hello = TRUE]
    /\ Read(p, "hello")
    /\ UNCHANGED faults
(* A phone that does not wait for the answer to its half of the handshake. *)
SayEarly(p) ==
    /\ Fault
    /\ phone[p].hello /\ ~phone[p].open
    /\ Read(p, "early")
    /\ UNCHANGED phone
Request(p) ==
    /\ phone[p].open /\ phone[p].said < MaxSaid
    /\ phone' = [phone EXCEPT ![p].said = @ + 1]
    /\ Read(p, "request")
    /\ UNCHANGED faults
Acknowledge(p) ==
    /\ phone[p].owed > 0
    /\ phone' = [phone EXCEPT ![p].owed = @ - 1]
    /\ Read(p, "ack")
    /\ UNCHANGED faults

(* acquire_many_owned: a message waits for room, whatever became of its    *)
(* bridge meanwhile.  A link that left has room and takes nothing.         *)
Forward(p) ==
    LET k == call[p].link
    IN  /\ call[p].stage = "waiting" /\ room[k] > 0
        /\ Stage(p, "on")
        /\ room' = IF run[k] = "up" THEN [room EXCEPT ![k] = @ - 1] ELSE room
        /\ down' = Outbox(k, <<Msg(p, call[p].held, TRUE)>>)
        /\ UNCHANGED <<reg, run, bridge, line, broken, up, machine, phone, faults>>

(* Either select of the loop. *)
CutSeen(p) ==
    /\ call[p].stage \in {"on", "waiting"} /\ line[p].cut # 0
    /\ Stage(p, "left")
    /\ UNCHANGED <<reg, run, room, bridge, line, sockets, machine, phone, faults>>

StreamEnds(p) ==
    /\ call[p].stage = "on" /\ phone[p].gone
    /\ Stage(p, "left")
    /\ UNCHANGED <<reg, run, room, bridge, line, sockets, machine, phone, faults>>

\* Mutant: the machine is not told of a phone that left on its own.
Leave_Untold(p) ==
    /\ call[p].stage = "left"
    /\ Stage(p, "done")
    /\ bridge' = [bridge EXCEPT ![p] = NoBridge]
    /\ UNCHANGED <<reg, run, room, line, sockets, machine, phone, faults>>
Leave(p) ==
    /\ call[p].stage = "left"
    /\ Stage(p, "done")
    /\ bridge' = [bridge EXCEPT ![p] = NoBridge]
    /\ down' = IF bridge[p].on THEN Outbox(call[p].link, <<Plain("wclose", p)>>) ELSE down
    /\ UNCHANGED <<reg, run, room, line, broken, up, machine, phone, faults>>

-----------------------------------------------------------------------------
(* The writer of a phone, and the phone. *)

Serving(p) == call[p].stage \notin {"away", "upgrading"}
WriterUnchanged ==
    UNCHANGED <<reg, run, room, call, sockets, machine, faults>>

(* A cut comes first; one that comes while a message is being sent waits.  *)
CutWriter(p) ==
    /\ Serving(p) /\ line[p].writer = "idle" /\ line[p].cut # 0
    /\ line' = [line EXCEPT ![p].writer = "ended"]
    /\ phone' = IF phone[p].gone THEN phone
                ELSE [phone EXCEPT ![p].told = line[p].cut]
    /\ UNCHANGED bridge
    /\ WriterUnchanged

WriterTakes(p) ==
    /\ line[p].writer = "idle" /\ line[p].cut = 0 /\ line[p].inbox # <<>>
    /\ line' = [line EXCEPT ![p].writer = Head(line[p].inbox), ![p].inbox = Tail(@)]
    /\ UNCHANGED <<bridge, phone>>
    /\ WriterUnchanged

(* The inbox is closed with the bridge that held its sender. *)
\* Mutant: the select is not biased, a closed inbox may come before the cut.
InboxCloses_First(p) ==
    /\ Serving(p) /\ line[p].writer = "idle"
    /\ line[p].inbox = <<>> /\ ~bridge[p].on
    /\ line' = [line EXCEPT ![p].writer = "ended"]
    /\ phone' = IF phone[p].gone THEN phone ELSE [phone EXCEPT ![p].told = 1000]
    /\ UNCHANGED bridge
    /\ WriterUnchanged
InboxCloses(p) ==
    /\ Serving(p) /\ line[p].writer = "idle" /\ line[p].cut = 0
    /\ line[p].inbox = <<>> /\ ~bridge[p].on
    /\ line' = [line EXCEPT ![p].writer = "ended"]
    /\ phone' = IF phone[p].gone THEN phone ELSE [phone EXCEPT ![p].told = 1000]
    /\ UNCHANGED bridge
    /\ WriterUnchanged

(* The send returns once the phone has read; only then is it less behind.  *)
PhoneReads(p) ==
    LET m == line[p].writer
    IN  /\ m \in Told /\ ~phone[p].gone
        /\ line' = [line EXCEPT ![p].writer = IF m = "close" THEN "ended" ELSE "idle"]
        /\ bridge' = IF bridge[p].on /\ m # "close" THEN [bridge EXCEPT ![p].behind = @ - 1]
                     ELSE bridge
        /\ phone' = [phone EXCEPT ![p].open = @ \/ m = "answer",
                                  ![p].owed = IF m = "data" THEN @ + 1 ELSE @,
                                  ![p].told = IF m = "close" THEN 1000 ELSE @]
        /\ WriterUnchanged

WriterFails(p) ==
    /\ line[p].writer \in Told /\ phone[p].gone
    /\ line' = [line EXCEPT ![p].writer = "ended"]
    /\ UNCHANGED <<bridge, phone>>
    /\ WriterUnchanged

(* A phone that was told closes its side; it may also just go. *)
HangUp(p) ==
    /\ Serving(p) /\ ~phone[p].gone
    /\ \/ phone[p].told # 0 /\ UNCHANGED faults
       \/ phone[p].told = 0 /\ Fault
    /\ phone' = [phone EXCEPT ![p].gone = TRUE]
    /\ UNCHANGED <<relay, sockets, machine>>

-----------------------------------------------------------------------------
(* run_agent: one frame of the machine. *)

Flushed(p) == [i \in DOMAIN bridge[p].pending |-> Msg(p, bridge[p].pending[i], FALSE)]

Wopened(k, p) ==
    /\ bridge' = IF bridge[p].on
                 THEN [bridge EXCEPT ![p].opened = TRUE, ![p].pending = <<>>] ELSE bridge
    /\ down' = IF bridge[p].on THEN Outbox(k, Flushed(p))
               ELSE Outbox(k, <<Plain("wclose", p)>>)
    /\ UNCHANGED line

ClosePhone(p) ==
    /\ bridge' = [bridge EXCEPT ![p] = NoBridge]
    /\ line' = IF bridge[p].on THEN [line EXCEPT ![p].inbox = Append(@, "close")] ELSE line
    /\ UNCHANGED down

ToPhone(k, p, what) ==
    IF ~bridge[p].on THEN UNCHANGED <<bridge, line, down>>
    ELSE IF bridge[p].behind < Buffer
    THEN /\ bridge' = [bridge EXCEPT ![p].behind = @ + 1]
         /\ line' = [line EXCEPT ![p].inbox = Append(@, what)]
         /\ UNCHANGED down
    ELSE /\ bridge' = [bridge EXCEPT ![p] = NoBridge]
         /\ line' = [line EXCEPT ![p].cut = 1013]
         /\ down' = Outbox(k, <<Plain("wclose", p)>>)

RelayReads(k) ==
    /\ run[k] = "up" /\ up[k] # <<>>
    /\ LET m == Head(up[k])
       IN  \/ m.t = "wopened" /\ Wopened(k, m.p)
           \/ m.t \in {"werr", "wclose"} /\ ClosePhone(m.p)
           \/ m.t = "msg" /\ ToPhone(k, m.p, m.what)
    /\ up' = [up EXCEPT ![k] = Tail(@)]
    /\ UNCHANGED <<reg, run, room, call, broken, machine, phone, faults>>

-----------------------------------------------------------------------------
(* The loop of connect: one frame of the relay. *)

Served == {p \in Phones : session[p].stage # "none"}
EndSession(p) == session' = [session EXCEPT ![p] = NoSession]

OpenSession(p, ours) ==
    IF ~ours \/ Cardinality(Served) >= MaxSessions
    THEN up' = Reply(<<Plain("werr", p)>>) /\ UNCHANGED session
    ELSE /\ session' = [session EXCEPT ![p].stage = "pairing"]
         /\ up' = Reply(<<Plain("wopened", p)>>)

Handshake(p) ==
    IF p \in paired
    THEN /\ session' = [session EXCEPT ![p].stage = "open"]
         /\ up' = Reply(<<Msg(p, "answer", FALSE)>>)
    ELSE EndSession(p) /\ up' = Reply(<<Plain("wclose", p)>>)

(* Bridge::receive.  What was not sealed with the session's key, and more  *)
(* input than its queue holds, ends the session.                           *)
Receive(p, what) ==
    \/ what = "request" /\ UNCHANGED <<session, up, faults>>
    \/ /\ what = "ack"
       /\ session' = [session EXCEPT ![p].credit = IF @ > 0 THEN @ - 1 ELSE 0]
       /\ UNCHANGED <<up, faults>>
    \/ /\ \/ what = "request" /\ ~session[p].over /\ Fault
          \/ what = "request" /\ session[p].over /\ UNCHANGED faults
          \/ what = "early" /\ UNCHANGED faults
       /\ EndSession(p) /\ up' = Reply(<<Plain("wclose", p)>>)

\* Mutant: the permit of a message is not given back.
MachineReads_Keeps ==
    /\ mlink # 0 /\ down[mlink] # <<>>
    /\ LET m == Head(down[mlink])
       IN  /\ \/ m.t = "wopen" /\ OpenSession(m.p, m.ours) /\ UNCHANGED faults
              \/ m.t = "wclose" /\ EndSession(m.p) /\ UNCHANGED <<up, faults>>
              \/ /\ m.t = "msg"
                 /\ \/ session[m.p].stage = "none" /\ UNCHANGED <<session, up, faults>>
                    \/ session[m.p].stage = "pairing" /\ Handshake(m.p) /\ UNCHANGED faults
                    \/ session[m.p].stage = "open" /\ Receive(m.p, m.what)
    /\ UNCHANGED room
    /\ down' = [down EXCEPT ![mlink] = Tail(@)]
    /\ UNCHANGED <<reg, run, call, bridge, line, broken, mlink, paired, phone>>
MachineReads ==
    /\ mlink # 0 /\ down[mlink] # <<>>
    /\ LET m == Head(down[mlink])
       IN  /\ \/ m.t = "wopen" /\ OpenSession(m.p, m.ours) /\ UNCHANGED faults
              \/ m.t = "wclose" /\ EndSession(m.p) /\ UNCHANGED <<up, faults>>
              \/ /\ m.t = "msg"
                 /\ \/ session[m.p].stage = "none" /\ UNCHANGED <<session, up, faults>>
                    \/ session[m.p].stage = "pairing" /\ Handshake(m.p) /\ UNCHANGED faults
                    \/ session[m.p].stage = "open" /\ Receive(m.p, m.what)
           /\ room' = IF m.permit THEN [room EXCEPT ![mlink] = @ + 1] ELSE room
    /\ down' = [down EXCEPT ![mlink] = Tail(@)]
    /\ UNCHANGED <<reg, run, call, bridge, line, broken, mlink, paired, phone>>

MachineUnchanged == UNCHANGED <<relay, broken, down, mlink, phone>>

(* pump: a reply, at most a window of them unacknowledged. *)
Pump(p) ==
    /\ session[p].stage = "open" /\ ~session[p].over
    /\ session[p].said < MaxReplies /\ session[p].credit < Window
    /\ session' = [session EXCEPT ![p].said = @ + 1, ![p].credit = @ + 1]
    /\ up' = Reply(<<Msg(p, "data", FALSE)>>)
    /\ MachineUnchanged /\ UNCHANGED <<paired, faults>>

(* remote::serve returned: the phone is told, the session stays in the     *)
(* table.                                                                  *)
Finish(p) ==
    /\ Fault
    /\ session[p].stage = "open" /\ ~session[p].over
    /\ session' = [session EXCEPT ![p].over = TRUE]
    /\ up' = Reply(<<Plain("wclose", p)>>)
    /\ MachineUnchanged /\ UNCHANGED paired

(* Unpaired, kicked or given another role, on this machine. *)
Unpair(p) ==
    /\ Fault
    /\ p \in paired
    /\ paired' = paired \ {p}
    /\ UNCHANGED <<relay, sockets, mlink, session, phone>>

\* Mutant: the phone is not told.
Recheck_Untold(p) ==
    /\ session[p].stage = "open" /\ p \notin paired
    /\ EndSession(p)
    /\ UNCHANGED up
    /\ MachineUnchanged /\ UNCHANGED <<paired, faults>>
Recheck(p) ==
    /\ session[p].stage = "open" /\ p \notin paired
    /\ EndSession(p)
    /\ up' = Reply(<<Plain("wclose", p)>>)
    /\ MachineUnchanged /\ UNCHANGED <<paired, faults>>

-----------------------------------------------------------------------------
PhoneSteps(p) ==
    \/ SayHello(p) \/ Acknowledge(p) \/ Request(p) \/ SayEarly(p)
    \/ PhoneReads(p) \/ HangUp(p)
RunPhone(p) == Join(p) \/ Forward(p) \/ CutSeen(p) \/ StreamEnds(p) \/ Leave(p)
Writer(p)   == CutWriter(p) \/ WriterTakes(p) \/ InboxCloses(p) \/ WriterFails(p)
RunAgent(k) == Stop(k) \/ Unregister(k) \/ Drain(k) \/ RelayReads(k)

Next ==
    \/ \E k \in Links : Dial(k) \/ Break(k) \/ RunAgent(k)
    \/ Lose \/ MachineReads
    \/ \E p \in Phones :
         \/ Knock(p) \/ RunPhone(p) \/ Writer(p) \/ PhoneSteps(p)
         \/ Pump(p) \/ Finish(p) \/ Unpair(p) \/ Recheck(p)

(* Every task of the relay and every thread of the machine keeps going;    *)
(* phones read and acknowledge what they read, unless they stall.          *)
Fairness ==
    /\ \A k \in Links : WF_vars(RunAgent(k))
    /\ WF_vars(Lose) /\ WF_vars(MachineReads)
    /\ \A p \in Phones :
         /\ WF_vars(Forward(p)) /\ WF_vars(CutSeen(p) \/ StreamEnds(p))
         /\ WF_vars(Leave(p)) /\ WF_vars(Writer(p)) /\ WF_vars(Recheck(p))
    /\ \A p \in Phones \ Stalled : WF_vars(PhoneReads(p)) /\ WF_vars(Acknowledge(p))

Spec == Init /\ [][Next]_vars /\ Fairness
-----------------------------------------------------------------------------
(* Properties. *)

Connected(p) == mlink # 0 /\ mlink \notin broken /\ call[p].link = mlink
CloseOnItsWay(q, p) == \E i \in DOMAIN q : q[i].t = "wclose" /\ q[i].p = p

\* A machine that has a link the relay serves is the one phones find by its
\* token, however late the loop of an older link of it removes itself.
RegisteredIsCurrent == \A k \in Links : mlink = k /\ run[k] = "up" => reg = k

\* The relay's table of bridges and the machine's table of sessions agree, or
\* word of it is on its way.  A phone that left, was cut or was dropped leaves no
\* session behind, unless the session had ended by itself (GoneIsTold), and one
\* whose tunnel is open never talks to a session that is no more, be it
\* unpaired, closed for a bad message or over (TunnelIsServed).
GoneIsTold(p) ==
    session[p].stage # "none" /\ ~session[p].over /\ ~bridge[p].on
    => CloseOnItsWay(down[mlink], p)
TunnelIsServed(p) ==
    bridge[p].on /\ bridge[p].opened
    => \/ session[p].stage # "none" /\ ~session[p].over
       \/ CloseOnItsWay(up[mlink], p)
TablesAgree == \A p \in Phones : Connected(p) => GoneIsTold(p) /\ TunnelIsServed(p)

\* A phone whose machine went away is told so (1012, dial again) and not that
\* the conversation ended.
CutIsTold ==
    \A p \in Phones :
        line[p].writer = "ended" /\ line[p].cut = 1012 /\ ~phone[p].gone
        => phone[p].told = 1012

\* What the relay keeps in memory is counted right.  A place in the send buffer
\* of a machine is free or taken by a frame on its way, whoever waited for it and
\* left, also after the link is lost.  A bridged phone counts as behind by what
\* is kept for it at least, and by Buffer at most, whatever is cut, closed or
\* read meanwhile.
Taking(k) == {i \in DOMAIN down[k] : down[k][i].permit}
PlacesAreCounted ==
    /\ \A k \in Links : room[k] + Cardinality(Taking(k)) = Room
    /\ \A p \in Phones : bridge[p].on =>
         Len(line[p].inbox) <= bridge[p].behind /\ bridge[p].behind <= Buffer

\* What a session has sent is acknowledged in the end, and it may send again,
\* beside a phone that does not read and while phones wait for room.
CreditReturns ==
    \A p \in Phones \ Stalled :
        session[p].credit > 0 ~> session[p].credit = 0 \/ session[p].over

\* A phone that was bridged when its machine went away is let go.
LossClosesPhones ==
    \A p \in Phones \ Stalled :
        bridge[p].on /\ run[call[p].link] \in {"leaving", "gone"}
        ~> phone[p].told # 0 \/ phone[p].gone
=============================================================================
