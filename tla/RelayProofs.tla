----------------------------- MODULE RelayProofs -----------------------------
(***************************************************************************)
(* Relay for any phones, number of links, messages and buffers: phones     *)
(* find the newest link of a machine, a phone whose machine went away is   *)
(* told so, while machine and relay are connected the bridge and the       *)
(* session of a phone go together, or word that one is gone is on its way, *)
(* and what the relay keeps in memory is counted right.                    *)
(***************************************************************************)
EXTENDS Relay, FiniteSetTheorems, TLAPS

(***************************************************************************)
(* Types, as far as the proofs need them: what is in the channels, and of  *)
(* the tables which fields they have.  Room and how far a phone is behind  *)
(* are typed where they are counted, at the end.                           *)
(***************************************************************************)
\* What a machine sends: its messages are answers and data.
FromMachine == {f \in Frame : f.t = "msg" => f.what \in {"answer", "data"}}

HasFields(f, fields) ==
    DOMAIN f = Phones /\ \A p \in Phones : fields \subseteq DOMAIN f[p]

LinksTyped ==
    /\ reg \in {0} \cup Links
    /\ run \in [Links -> {"none", "up", "leaving", "gone", "drained"}]
    /\ mlink \in {0} \cup Links
DownTyped   == down \in [Links -> Seq(Frame)]
UpTyped     == up \in [Links -> Seq(FromMachine)]
CallTyped   == /\ HasFields(call, {"stage", "held", "link"})
               /\ \A p \in Phones : call[p].held \in Said \cup {""}
BridgeTyped == /\ HasFields(bridge, {"on", "opened", "pending", "behind"})
               /\ \A p \in Phones : bridge[p].pending \in Seq(Said)
LineTyped   == /\ HasFields(line, {"cut", "inbox", "writer"})
               /\ \A p \in Phones : line[p].inbox \in Seq(Told)
PhoneTyped  == HasFields(phone, {"told", "gone"})

Typed == LinksTyped /\ DownTyped /\ UpTyped /\ CallTyped /\ BridgeTyped /\ LineTyped /\ PhoneTyped

LEMMA LinksAreNumbers == Links \subseteq Nat \ {0}
  BY RelayAssumption DEF Links

LEMMA PlainType ==
  ASSUME NEW t \in Frames \ {"msg"}, NEW p \in Phones PROVE Plain(t, p) \in FromMachine
  BY DEF Plain, FromMachine, Frame

LEMMA MsgType ==
  ASSUME NEW p \in Phones, NEW what \in {"answer", "data"}, NEW pay \in BOOLEAN
  PROVE  Msg(p, what, pay) \in FromMachine
  BY DEF Msg, Plain, FromMachine, Frame, Frames, Told, Said

\* Whatever is sent on a link, there or not, the channels keep their type.
LEMMA Extended ==
  ASSUME NEW S, NEW f \in [Links -> Seq(S)], NEW k, NEW ms \in Seq(S)
  PROVE  [f EXCEPT ![k] = @ \o ms] \in [Links -> Seq(S)]
<1> DEFINE g == [f EXCEPT ![k] = @ \o ms]
<1>1. ASSUME NEW j \in Links PROVE g[j] \in Seq(S)
  <2>1. CASE j = k
    <3>1. g[j] = f[j] \o ms
      BY <2>1
    <3>2. f[j] \in Seq(S)
      OBVIOUS
    <3> HIDE DEF g
    <3> QED BY <3>1, <3>2
  <2>2. CASE j # k
    BY <2>2
  <2> QED BY <2>1, <2>2
<1>2. g = [j \in Links |-> g[j]]
  OBVIOUS
<1> HIDE DEF g
<1>3. g \in [Links -> Seq(S)]
  BY <1>1, <1>2
<1> QED BY <1>3 DEF g

LEMMA ReplyType ==
  ASSUME Typed, NEW f \in FromMachine
  PROVE  Reply(<<f>>) \in [Links -> Seq(FromMachine)]
<1>1. <<f>> \in Seq(FromMachine) /\ up \in [Links -> Seq(FromMachine)]
  BY DEF Typed, UpTyped
<1>2. [up EXCEPT ![mlink] = @ \o <<f>>] \in [Links -> Seq(FromMachine)]
  BY <1>1, Extended
<1> QED BY <1>1, <1>2 DEF Reply

LEMMA OutboxType ==
  ASSUME Typed, NEW k, NEW ms \in Seq(Frame)
  PROVE  Outbox(k, ms) \in [Links -> Seq(Frame)]
<1>1. down \in [Links -> Seq(Frame)]
  BY DEF Typed, DownTyped
<1>2. [down EXCEPT ![k] = @ \o ms] \in [Links -> Seq(Frame)]
  BY <1>1, Extended
<1> QED BY <1>1, <1>2 DEF Outbox

LEMMA OneIsSeq == \A S : \A x \in S : <<x>> \in Seq(S)
  OBVIOUS

LEMMA OneFrame ==
  ASSUME NEW p \in Phones
  PROVE  /\ <<Plain("wclose", p)>> \in Seq(Frame)
         /\ \A ours \in BOOLEAN : <<Wopen(p, ours)>> \in Seq(Frame)
         /\ \A what \in Said \cup {""} : \A pay \in BOOLEAN : Msg(p, what, pay) \in Frame
<1>1. Plain("wclose", p) \in Frame
  BY DEF Plain, Frame, Frames
<1>2. ASSUME NEW ours \in BOOLEAN PROVE Wopen(p, ours) \in Frame
  BY DEF Wopen, Plain, Frame, Frames
<1>3. ASSUME NEW what \in Said \cup {""}, NEW pay \in BOOLEAN PROVE Msg(p, what, pay) \in Frame
  BY DEF Msg, Plain, Frame, Frames
<1> QED BY <1>1, <1>2, <1>3, OneIsSeq

LEMMA NothingSent == \A S : <<>> \in Seq(S)
  OBVIOUS

LEMMA TailOf ==
  ASSUME NEW S, NEW s \in Seq(S), s # <<>>
  PROVE  /\ \E j \in 1 .. Len(s) : s[j] = Head(s)
         /\ \A i \in 1 .. Len(Tail(s)) : \E j \in 1 .. Len(s) : s[j] = Tail(s)[i]
<1>1. Len(s) \in Nat \ {0} /\ Head(s) = s[1]
  OBVIOUS
<1>2. ASSUME NEW i \in 1 .. Len(Tail(s)) PROVE i + 1 \in 1 .. Len(s) /\ s[i + 1] = Tail(s)[i]
  OBVIOUS
<1> QED BY <1>1, <1>2

LEMMA NoBridgeType ==
  /\ NoBridge.pending \in Seq(Said) /\ ~NoBridge.on
  /\ {"on", "opened", "pending", "behind"} \subseteq DOMAIN NoBridge
  BY DEF NoBridge

LEMMA TypedInit == Init => Typed
<1> SUFFICES ASSUME Init PROVE Typed
  OBVIOUS
<1>1. CallTyped
  BY DEF Init, CallTyped, HasFields
<1>2. BridgeTyped
  BY NoBridgeType DEF Init, BridgeTyped, HasFields
<1>3. LineTyped
  <2> DEFINE idle == [cut |-> 0, inbox |-> <<>>, writer |-> "idle"]
  <2>1. idle.inbox \in Seq(Told) /\ {"cut", "inbox", "writer"} \subseteq DOMAIN idle
    OBVIOUS
  <2>2. line = [p \in Phones |-> idle]
    BY DEF Init
  <2> HIDE DEF idle
  <2> QED BY <2>1, <2>2 DEF LineTyped, HasFields
<1>4. PhoneTyped
  BY DEF Init, PhoneTyped, HasFields
<1>5. LinksTyped
  BY DEF Init, LinksTyped
<1>6. DownTyped /\ UpTyped
  <2>1. <<>> \in Seq(Frame) /\ <<>> \in Seq(FromMachine)
    BY NothingSent
  <2> QED BY <2>1 DEF Init, DownTyped, UpTyped
<1> QED BY <1>1, <1>2, <1>3, <1>4, <1>5, <1>6 DEF Typed

(***************************************************************************)
(* How the tables of the relay are written.                                *)
(***************************************************************************)
LEMMA StageType ==
  ASSUME CallTyped, NEW p \in Phones, NEW s, Stage(p, s) PROVE CallTyped'
  BY DEF CallTyped, HasFields, Stage

LEMMA DropType ==
  ASSUME BridgeTyped, NEW p, bridge' = [bridge EXCEPT ![p] = NoBridge]
  PROVE  BridgeTyped' /\ (p \in Phones => ~bridge'[p].on)
         /\ \A q \in Phones \ {p} : bridge'[q] = bridge[q]
  BY DEF BridgeTyped, HasFields, NoBridge

LEMMA CutType ==
  ASSUME LineTyped, NEW p, NEW c, line' = [line EXCEPT ![p].cut = c]
  PROVE  LineTyped'
  BY DEF LineTyped, HasFields

LEMMA DrainLines ==
  ASSUME LineTyped, NEW k, Drain(k)
  PROVE  LineTyped' /\ \A p \in Phones : /\ line'[p].inbox = line[p].inbox
                                         /\ line'[p].writer = line[p].writer
                                         /\ line'[p].cut = IF p \in OnLink(k) THEN 1012
                                                           ELSE line[p].cut
<1>1. ASSUME NEW p \in Phones
      PROVE  /\ {"cut", "inbox", "writer"} \subseteq DOMAIN line'[p]
             /\ line'[p].inbox = line[p].inbox /\ line'[p].writer = line[p].writer
             /\ line'[p].cut = IF p \in OnLink(k) THEN 1012 ELSE line[p].cut
  <2>1. {"cut", "inbox", "writer"} \subseteq DOMAIN line[p]
    BY DEF LineTyped, HasFields
  <2>2. line'[p] = IF p \in OnLink(k) THEN [line[p] EXCEPT !.cut = 1012] ELSE line[p]
    BY DEF Drain
  <2> QED BY <2>1, <2>2
<1>2. DOMAIN line' = Phones
  BY DEF Drain
<1> QED BY <1>1, <1>2 DEF LineTyped, HasFields

LEMMA InboxType ==
  ASSUME LineTyped, NEW p, NEW m \in Told, line' = [line EXCEPT ![p].inbox = Append(@, m)]
  PROVE  LineTyped'
  BY DEF LineTyped, HasFields

LEMMA WriterType ==
  ASSUME LineTyped, NEW p, NEW w, line' = [line EXCEPT ![p].writer = w]
  PROVE  LineTyped'
  BY DEF LineTyped, HasFields

(***************************************************************************)
(* Every step keeps the types: one lemma for the links, one for the loop   *)
(* that reads a phone, and so on.                                          *)
(***************************************************************************)
LEMMA ReadType ==
  ASSUME Typed, NEW p \in Phones, NEW what \in Said, Read(p, what)
  PROVE  LinksTyped' /\ DownTyped' /\ UpTyped' /\ CallTyped' /\ BridgeTyped' /\ LineTyped'
<1>1. LinksTyped' /\ UpTyped'
  BY DEF Read, machine, Typed, LinksTyped, UpTyped
<1>2. BridgeTyped'
  <2>1. CASE UNCHANGED bridge
    BY <2>1 DEF Typed, BridgeTyped
  <2>2. CASE bridge' = [bridge EXCEPT ![p].pending = Append(@, what)]
    BY <2>2 DEF Typed, BridgeTyped, HasFields
  <2>3. CASE bridge' = [bridge EXCEPT ![p] = NoBridge]
    BY <2>3, DropType DEF Typed
  <2> QED BY <2>1, <2>2, <2>3 DEF Read
<1>3. LineTyped'
  <2>1. CASE UNCHANGED line
    BY <2>1 DEF Typed, LineTyped
  <2>2. CASE line' = [line EXCEPT ![p].cut = 1009]
    BY <2>2 DEF Typed, LineTyped, HasFields
  <2> QED BY <2>1, <2>2 DEF Read
<1>4. CallTyped'
  <2>1. CASE call' = [call EXCEPT ![p].stage = "waiting", ![p].held = what]
    BY <2>1 DEF Typed, CallTyped, HasFields
  <2>2. CASE Stage(p, "left")
    BY <2>2, StageType DEF Typed
  <2>3. CASE UNCHANGED call
    BY <2>3 DEF Typed, CallTyped
  <2> QED BY <2>1, <2>2, <2>3 DEF Read
<1>5. DownTyped'
  <2>1. CASE UNCHANGED down
    BY <2>1 DEF Typed, DownTyped
  <2>2. CASE down' = Outbox(call[p].link, <<Plain("wclose", p)>>)
    BY <2>2, OneFrame, OutboxType DEF DownTyped
  <2> QED BY <2>1, <2>2 DEF Read
<1> QED BY <1>1, <1>2, <1>3, <1>4, <1>5

LEMMA LinkSteps ==
  ASSUME Typed, NEW k \in Links,
         Dial(k) \/ Break(k) \/ Stop(k) \/ Unregister(k) \/ Drain(k)
  PROVE  Typed'
<1> USE DEF Typed, LinksTyped, DownTyped, UpTyped, CallTyped, PhoneTyped
<1>1. CASE Dial(k)
  BY <1>1 DEF Dial, BridgeTyped, LineTyped
<1>2. CASE Break(k)
  BY <1>2 DEF Break, relay, machine, BridgeTyped, LineTyped
<1>3. CASE Stop(k)
  <2>1. <<>> \in Seq(Frame) /\ <<>> \in Seq(FromMachine)
    BY NothingSent
  <2>2. DownTyped' /\ UpTyped'
    BY <1>3, <2>1 DEF Stop
  <2> QED BY <1>3, <2>2 DEF Stop, machine, BridgeTyped, LineTyped
<1>4. CASE Unregister(k)
  BY <1>4 DEF Unregister, sockets, machine, BridgeTyped, LineTyped
<1>5. CASE Drain(k)
  <2>1. BridgeTyped'
    <3>1. \A p \in Phones : bridge'[p] = NoBridge \/ bridge'[p] = bridge[p]
      BY <1>5 DEF Drain
    <3>2. DOMAIN bridge' = Phones
      BY <1>5 DEF Drain
    <3> QED BY <3>1, <3>2, NoBridgeType DEF BridgeTyped, HasFields
  <2>2. LineTyped'
    BY <1>5, DrainLines
  <2> QED BY <1>5, <2>1, <2>2 DEF Drain, sockets, machine
<1> QED BY <1>1, <1>2, <1>3, <1>4, <1>5

LEMMA CallSteps ==
  ASSUME Typed, NEW p \in Phones, Knock(p) \/ RunPhone(p)
  PROVE  Typed'
<1> USE DEF Typed, LinksTyped, UpTyped, PhoneTyped
<1>1. CASE Knock(p)
  <2>1. CallTyped'
    BY <1>1 DEF Knock, CallTyped, HasFields
  <2> QED BY <1>1, <2>1 DEF Knock, sockets, machine, DownTyped, BridgeTyped, LineTyped
<1>2. CASE Join(p)
  <2>1. CallTyped'
    BY <1>2, StageType DEF Join
  <2>2. BridgeTyped'
    BY <1>2 DEF Join, BridgeTyped, HasFields
  <2>3. DownTyped'
    <3>1. PICK ours \in BOOLEAN : down' = Outbox(call[p].link, <<Wopen(p, ours)>>)
      BY <1>2 DEF Join
    <3>2. <<Wopen(p, ours)>> \in Seq(Frame)
      BY OneFrame
    <3> QED BY <3>1, <3>2, OutboxType DEF DownTyped
  <2> QED BY <1>2, <2>1, <2>2, <2>3 DEF Join, machine, LineTyped
<1>3. CASE Forward(p)
  <2>1. CallTyped'
    BY <1>3, StageType DEF Forward
  <2>2. DownTyped'
    <3>1. call[p].held \in Said \cup {""}
      BY DEF CallTyped
    <3>2. <<Msg(p, call[p].held, TRUE)>> \in Seq(Frame)
      BY <3>1, OneFrame, OneIsSeq
    <3> QED BY <1>3, <3>2, OutboxType DEF Forward, DownTyped
  <2> QED BY <1>3, <2>1, <2>2 DEF Forward, machine, BridgeTyped, LineTyped
<1>4. CASE CutSeen(p)
  BY <1>4, StageType DEF CutSeen, sockets, machine, DownTyped, BridgeTyped, LineTyped
<1>5. CASE StreamEnds(p)
  BY <1>5, StageType DEF StreamEnds, sockets, machine, DownTyped, BridgeTyped, LineTyped
<1>6. CASE Leave(p)
  <2>1. CallTyped'
    BY <1>6, StageType DEF Leave
  <2>2. BridgeTyped'
    BY <1>6, DropType DEF Leave
  <2>3. DownTyped'
    BY <1>6, OneFrame, OutboxType DEF Leave, DownTyped
  <2> QED BY <1>6, <2>1, <2>2, <2>3 DEF Leave, machine, LineTyped
<1> QED BY <1>1, <1>2, <1>3, <1>4, <1>5, <1>6 DEF RunPhone

LEMMA WriterSteps ==
  ASSUME Typed, NEW p \in Phones, Writer(p) \/ PhoneReads(p)
  PROVE  Typed'
<1>1. LinksTyped' /\ DownTyped' /\ UpTyped' /\ CallTyped'
  BY DEF Writer, CutWriter, WriterTakes, InboxCloses, WriterFails, PhoneReads, WriterUnchanged,
         sockets, machine, Typed, LinksTyped, DownTyped, UpTyped, CallTyped
<1>2. BridgeTyped'
  <2>1. CASE UNCHANGED bridge
    BY <2>1 DEF Typed, BridgeTyped
  <2>2. CASE bridge' = [bridge EXCEPT ![p].behind = @ - 1]
    BY <2>2 DEF Typed, BridgeTyped, HasFields
  <2> QED BY <2>1, <2>2
      DEF Writer, CutWriter, WriterTakes, InboxCloses, WriterFails, PhoneReads
<1>3. LineTyped'
  <2>1. CASE WriterTakes(p)
    <3>1. Tail(line[p].inbox) \in Seq(Told)
      BY <2>1 DEF WriterTakes, Typed, LineTyped
    <3> QED BY <2>1, <3>1 DEF WriterTakes, Typed, LineTyped, HasFields
  <2>2. ASSUME NEW w, line' = [line EXCEPT ![p].writer = w] PROVE LineTyped'
    BY <2>2 DEF Typed, LineTyped, HasFields
  <2> QED BY <2>1, <2>2 DEF Writer, CutWriter, InboxCloses, WriterFails, PhoneReads
<1>4. PhoneTyped'
  BY DEF Writer, CutWriter, WriterTakes, InboxCloses, WriterFails, PhoneReads,
         Typed, PhoneTyped, HasFields
<1> QED BY <1>1, <1>2, <1>3, <1>4 DEF Typed

LEMMA SpeechSteps ==
  ASSUME Typed, NEW p \in Phones,
         SayHello(p) \/ SayEarly(p) \/ Request(p) \/ Acknowledge(p) \/ HangUp(p)
  PROVE  Typed'
<1>1. PhoneTyped'
  BY DEF SayHello, SayEarly, Request, Acknowledge, HangUp, Typed, PhoneTyped, HasFields
<1>2. CASE \E what \in Said : Read(p, what)
  BY <1>1, <1>2, ReadType DEF Typed
<1>3. CASE HangUp(p)
  BY <1>1, <1>3 DEF HangUp, relay, sockets, machine, Typed, LinksTyped, DownTyped, UpTyped,
     CallTyped, BridgeTyped, LineTyped
<1> QED BY <1>2, <1>3 DEF SayHello, SayEarly, Request, Acknowledge, Said

LEMMA PendingType ==
  ASSUME BridgeTyped, NEW p \in Phones PROVE Flushed(p) \in Seq(Frame)
<1>1. bridge[p].pending \in Seq(Said)
  BY DEF BridgeTyped
<1>2. ASSUME NEW i \in DOMAIN bridge[p].pending
      PROVE  Msg(p, bridge[p].pending[i], FALSE) \in Frame
  <2>1. bridge[p].pending[i] \in Said
    BY <1>1
  <2> QED BY <2>1, OneFrame
<1>3. DOMAIN bridge[p].pending = 1 .. Len(bridge[p].pending) /\ Len(bridge[p].pending) \in Nat
  BY <1>1
<1>4. Flushed(p) \in [1 .. Len(bridge[p].pending) -> Frame]
  BY <1>2, <1>3 DEF Flushed
<1> QED BY <1>3, <1>4

LEMMA AgentSteps ==
  ASSUME Typed, NEW k \in Links, RelayReads(k)
  PROVE  Typed'
<1> DEFINE m == Head(up[k])
<1>1. up[k] \in Seq(FromMachine) /\ up[k] # <<>>
  BY DEF RelayReads, Typed, UpTyped
<1>2. m \in FromMachine /\ Tail(up[k]) \in Seq(FromMachine)
  BY <1>1
<1>3. m.p \in Phones /\ (m.t = "msg" => m.what \in {"answer", "data"})
  BY <1>2 DEF FromMachine, Frame
<1>4. \/ Wopened(k, m.p)
      \/ ClosePhone(m.p)
      \/ m.t = "msg" /\ ToPhone(k, m.p, m.what)
  BY DEF RelayReads
<1>5. UpTyped'
  BY <1>2 DEF RelayReads, Typed, UpTyped
<1>6. LinksTyped' /\ CallTyped' /\ PhoneTyped'
  BY DEF RelayReads, machine, Typed, LinksTyped, CallTyped, PhoneTyped
<1> HIDE DEF m
<1>7. CASE Wopened(k, m.p)
  <2>1. BridgeTyped'
    BY <1>3, <1>7, NothingSent DEF Wopened, Typed, BridgeTyped, HasFields
  <2>2. LineTyped'
    BY <1>7 DEF Wopened, Typed, LineTyped
  <2>3. DownTyped'
    BY <1>3, <1>7, OneFrame, PendingType, OutboxType DEF Wopened, Typed, DownTyped
  <2> QED BY <1>5, <1>6, <2>1, <2>2, <2>3 DEF Typed
<1>8. CASE ClosePhone(m.p)
  <2>1. BridgeTyped'
    BY <1>8, DropType DEF ClosePhone, Typed
  <2>2. LineTyped'
    BY <1>3, <1>8, InboxType DEF ClosePhone, Typed, LineTyped, Told
  <2>3. DownTyped'
    BY <1>8 DEF ClosePhone, Typed, DownTyped
  <2> QED BY <1>5, <1>6, <2>1, <2>2, <2>3 DEF Typed
<1>9. CASE m.t = "msg" /\ ToPhone(k, m.p, m.what)
  <2>1. m.what \in Told
    BY <1>3, <1>9 DEF Told
  <2>2. CASE UNCHANGED <<bridge, line, down>>
    BY <1>5, <1>6, <2>2 DEF Typed, BridgeTyped, LineTyped, DownTyped
  <2>3. CASE /\ bridge' = [bridge EXCEPT ![m.p].behind = @ + 1]
             /\ line' = [line EXCEPT ![m.p].inbox = Append(@, m.what)]
             /\ UNCHANGED down
    <3>1. BridgeTyped'
      BY <1>3, <2>3 DEF Typed, BridgeTyped, HasFields
    <3>2. LineTyped'
      BY <2>1, <2>3, InboxType DEF Typed
    <3> QED BY <1>5, <1>6, <2>3, <3>1, <3>2 DEF Typed, DownTyped
  <2>4. CASE /\ bridge' = [bridge EXCEPT ![m.p] = NoBridge]
             /\ line' = [line EXCEPT ![m.p].cut = 1013]
             /\ down' = Outbox(k, <<Plain("wclose", m.p)>>)
    <3>1. BridgeTyped'
      BY <2>4, DropType DEF Typed
    <3>2. LineTyped'
      BY <2>4 DEF Typed, LineTyped, HasFields
    <3>3. DownTyped'
      BY <1>3, <2>4, OneFrame, OutboxType DEF DownTyped
    <3> QED BY <1>5, <1>6, <3>1, <3>2, <3>3 DEF Typed
  <2> QED BY <1>9, <2>2, <2>3, <2>4 DEF ToPhone
<1> QED BY <1>4, <1>7, <1>8, <1>9

(***************************************************************************)
(* The machine: of what is typed here it takes a frame from `down` and     *)
(* puts one in `up`, or moves to no link.                                  *)
(***************************************************************************)
LEMMA FrameSteps ==
  ASSUME Typed, MachineReads
  PROVE  Typed'
<1> DEFINE m == Head(down[mlink])
<1>1. mlink \in Links /\ down[mlink] \in Seq(Frame) /\ down[mlink] # <<>>
  BY DEF MachineReads, Typed, LinksTyped, DownTyped
<1>2. m \in Frame /\ Tail(down[mlink]) \in Seq(Frame)
  BY <1>1
<1>3. m.p \in Phones
  BY <1>2 DEF Frame
<1>4. \/ OpenSession(m.p, m.ours)
      \/ UNCHANGED up
      \/ Handshake(m.p)
      \/ Receive(m.p, m.what)
  BY DEF MachineReads
<1>5. DownTyped'
  BY <1>1, <1>2 DEF MachineReads, Typed, DownTyped
<1>6. LinksTyped' /\ CallTyped' /\ BridgeTyped' /\ LineTyped' /\ PhoneTyped'
  BY DEF MachineReads, Typed, LinksTyped, CallTyped, BridgeTyped, LineTyped, PhoneTyped
<1> HIDE DEF m
<1>7. \/ UNCHANGED up
      \/ \E t \in {"werr", "wopened", "wclose"} : up' = Reply(<<Plain(t, m.p)>>)
      \/ up' = Reply(<<Msg(m.p, "answer", FALSE)>>)
  BY <1>4 DEF OpenSession, Handshake, Receive
<1>8. UpTyped'
  <2>1. \A t \in {"werr", "wopened", "wclose"} : Plain(t, m.p) \in FromMachine
    BY <1>3, PlainType DEF Frames
  <2>2. Msg(m.p, "answer", FALSE) \in FromMachine
    BY <1>3, MsgType
  <2>3. CASE UNCHANGED up
    BY <2>3 DEF Typed, UpTyped
  <2> QED BY <1>7, <2>1, <2>2, <2>3, ReplyType DEF UpTyped
<1> QED BY <1>5, <1>6, <1>8 DEF Typed

LEMMA SessionSteps ==
  ASSUME Typed, Lose \/ \E p \in Phones : Pump(p) \/ Finish(p) \/ Unpair(p) \/ Recheck(p)
  PROVE  Typed'
<1> USE DEF Typed, LinksTyped, DownTyped, CallTyped, BridgeTyped, LineTyped, PhoneTyped
<1>1. CASE Lose
  BY <1>1 DEF Lose, relay, sockets, UpTyped
<1>2. ASSUME NEW p \in Phones, Pump(p) PROVE Typed'
  <2>1. UpTyped'
    BY <1>2, MsgType, ReplyType DEF Pump, UpTyped
  <2> QED BY <1>2, <2>1 DEF Pump, MachineUnchanged, relay
<1>3. ASSUME NEW p \in Phones, Finish(p) \/ Recheck(p) PROVE Typed'
  <2>1. Plain("wclose", p) \in FromMachine
    BY PlainType DEF Frames
  <2>2. UpTyped'
    BY <1>3, <2>1, ReplyType DEF Finish, Recheck, UpTyped
  <2> QED BY <1>3, <2>2 DEF Finish, Recheck, MachineUnchanged, relay
<1>4. ASSUME NEW p \in Phones, Unpair(p) PROVE Typed'
  BY <1>4 DEF Unpair, relay, sockets, UpTyped
<1> QED BY <1>1, <1>2, <1>3, <1>4

LEMMA TypedNext == Typed /\ [Next]_vars => Typed'
<1> SUFFICES ASSUME Typed, [Next]_vars PROVE Typed'
  OBVIOUS
<1>1. CASE UNCHANGED vars
  BY <1>1 DEF vars, relay, sockets, machine, Typed, LinksTyped, DownTyped, UpTyped, CallTyped,
     BridgeTyped, LineTyped, PhoneTyped
<1>2. CASE Next
  <2>1. ASSUME NEW k \in Links, Dial(k) \/ Break(k) \/ RunAgent(k) PROVE Typed'
    BY <2>1, LinkSteps, AgentSteps DEF RunAgent
  <2>2. ASSUME NEW p \in Phones, Knock(p) \/ RunPhone(p) \/ Writer(p) \/ PhoneSteps(p)
        PROVE  Typed'
    BY <2>2, CallSteps, WriterSteps, SpeechSteps DEF PhoneSteps
  <2> QED BY <1>2, <2>1, <2>2, FrameSteps, SessionSteps DEF Next
<1> QED BY <1>1, <1>2

(***************************************************************************)
(* A machine is found on the link it has, though the loop of an older link *)
(* may remove itself at any later time: only Dial sets mlink and reg, and  *)
(* sets both, and an older link removes none but itself.                   *)
(***************************************************************************)
THEOREM Registered == Spec => []RegisteredIsCurrent
<1>1. Typed /\ RegisteredIsCurrent /\ [Next]_vars => RegisteredIsCurrent'
  <2> SUFFICES ASSUME Typed, RegisteredIsCurrent, [Next]_vars PROVE RegisteredIsCurrent'
    OBVIOUS
  <2>1. CASE UNCHANGED <<reg, run, mlink>>
    BY <2>1 DEF RegisteredIsCurrent
  <2>2. ASSUME NEW k \in Links, Dial(k) PROVE RegisteredIsCurrent'
    BY <2>2 DEF Dial, RegisteredIsCurrent
  <2>3. ASSUME NEW k \in Links, Stop(k) \/ Unregister(k) \/ Drain(k) PROVE RegisteredIsCurrent'
    BY <2>3 DEF Stop, Unregister, Drain, machine, RegisteredIsCurrent, Typed, LinksTyped
  <2>4. CASE Lose
    BY <2>4, LinksAreNumbers DEF Lose, relay, RegisteredIsCurrent
  <2>5. ASSUME NEW k \in Links, Break(k) \/ RelayReads(k) PROVE UNCHANGED <<reg, run, mlink>>
    BY <2>5 DEF Break, RelayReads, relay, machine
  <2>6. ASSUME NEW p \in Phones, Knock(p) \/ RunPhone(p) \/ Writer(p)
        PROVE  UNCHANGED <<reg, run, mlink>>
    BY <2>6 DEF Knock, RunPhone, Join, Forward, CutSeen, StreamEnds, Leave, Writer, CutWriter,
       WriterTakes, InboxCloses, WriterFails, WriterUnchanged, sockets, machine
  <2>7. ASSUME NEW p \in Phones, PhoneSteps(p) PROVE UNCHANGED <<reg, run, mlink>>
    BY <2>7 DEF PhoneSteps, SayHello, SayEarly, Request, Acknowledge, Read, PhoneReads,
       WriterUnchanged, HangUp, relay, sockets, machine
  <2>8. ASSUME NEW p \in Phones, Pump(p) \/ Finish(p) \/ Unpair(p) \/ Recheck(p)
        PROVE  UNCHANGED <<reg, run, mlink>>
    BY <2>8 DEF Pump, Finish, Unpair, Recheck, MachineUnchanged, relay
  <2>9. CASE MachineReads
    BY <2>1, <2>9 DEF MachineReads
  <2>10. CASE UNCHANGED vars
    BY <2>1, <2>10 DEF vars, relay, machine
  <2> QED BY <2>1, <2>2, <2>3, <2>4, <2>5, <2>6, <2>7, <2>8, <2>9, <2>10 DEF Next, RunAgent
<1>2. Init => RegisteredIsCurrent
  BY LinksAreNumbers DEF Init, RegisteredIsCurrent
<1> QED BY <1>1, <1>2, TypedInit, TypedNext, PTL DEF Spec

(***************************************************************************)
(* What the relay keeps of one phone.  A phone is cut, and the closing of  *)
(* its bridge put in its inbox, only while the bridge is in the table, and *)
(* the bridge leaves the table in the same step and never comes back: so   *)
(* one of the two comes to the writer at most, and no cut comes after the  *)
(* writer has ended.                                                       *)
(***************************************************************************)
Closing(p) ==
    \/ line[p].writer = "close"
    \/ \E i \in 1 .. Len(line[p].inbox) : line[p].inbox[i] = "close"

CutOnce(p)  == line[p].cut # 0 => ~bridge[p].on
Fresh(p)    == call[p].stage \in {"away", "upgrading"}
               => /\ ~bridge[p].on /\ line[p].cut = 0
                  /\ line[p].inbox = <<>> /\ line[p].writer = "idle"
CloseOnce(p) == Closing(p) => ~bridge[p].on /\ line[p].cut = 0
EndedOnce(p) == line[p].writer = "ended" => ~bridge[p].on \/ phone[p].gone
Told1012(p)  == line[p].writer = "ended" /\ line[p].cut = 1012 /\ ~phone[p].gone
                => phone[p].told = 1012
Kept(p)      == CutOnce(p) /\ Fresh(p) /\ CloseOnce(p) /\ EndedOnce(p) /\ Told1012(p)

\* A step that leaves a phone alone, or only drops its bridge, keeps it.
LEMMA Untouched ==
  ASSUME NEW p \in Phones, Kept(p),
         line'[p] = line[p], phone'[p].told = phone[p].told,
         phone[p].gone => phone'[p].gone,
         bridge'[p].on => bridge[p].on,
         call'[p].stage \in {"away", "upgrading"} => call[p].stage \in {"away", "upgrading"}
  PROVE  Kept(p)'
  BY DEF Kept, CutOnce, CloseOnce, EndedOnce, Told1012, Closing, Fresh

\* The same when the step cuts the phone, whose bridge was in the table.
LEMMA Cut ==
  ASSUME NEW p \in Phones, Kept(p), bridge[p].on, ~bridge'[p].on,
         line'[p].inbox = line[p].inbox, line'[p].writer = line[p].writer,
         phone[p].gone => phone'[p].gone,
         call'[p].stage \in {"away", "upgrading"} => call[p].stage \in {"away", "upgrading"}
  PROVE  Kept(p)'
  BY DEF Kept, CutOnce, CloseOnce, EndedOnce, Told1012, Closing, Fresh

LEMMA Staged ==
  ASSUME CallTyped, NEW p \in Phones, NEW s, s \notin {"away", "upgrading"}, NEW q \in Phones,
         Stage(p, s)
  PROVE  call'[q].stage \in {"away", "upgrading"} => call[q].stage \in {"away", "upgrading"}
  BY DEF Stage, CallTyped, HasFields

LEMMA ReadKeeps ==
  ASSUME Typed, NEW p \in Phones, NEW what, Read(p, what), NEW q \in Phones, Kept(q),
         phone'[q].told = phone[q].told, phone'[q].gone = phone[q].gone
  PROVE  Kept(q)'
<1> USE DEF Typed, HasFields
<1>1. call'[q].stage \in {"away", "upgrading"} => call[q].stage \in {"away", "upgrading"}
  <2>1. CASE call' = [call EXCEPT ![p].stage = "waiting", ![p].held = what]
    BY <2>1 DEF CallTyped
  <2>2. CASE Stage(p, "left")
    BY <2>2, Staged
  <2> QED BY <2>1, <2>2 DEF Read
<1>2. CASE UNCHANGED line
  <2>1. bridge'[q].on => bridge[q].on
    <3>1. CASE UNCHANGED bridge
      BY <3>1
    <3>2. CASE bridge' = [bridge EXCEPT ![p].pending = Append(@, what)]
      BY <3>2 DEF BridgeTyped
    <3>3. CASE bridge' = [bridge EXCEPT ![p] = NoBridge]
      BY <3>3, NoBridgeType DEF BridgeTyped
    <3> QED BY <3>1, <3>2, <3>3 DEF Read
  <2> QED BY <1>1, <1>2, <2>1, Untouched
<1>3. CASE /\ bridge[p].on
           /\ bridge' = [bridge EXCEPT ![p] = NoBridge]
           /\ line' = [line EXCEPT ![p].cut = 1009]
  <2>1. CASE q = p
    <3>1. ~bridge'[p].on
      BY <1>3, NoBridgeType DEF BridgeTyped
    <3>2. line'[p].inbox = line[p].inbox /\ line'[p].writer = line[p].writer
      BY <1>3 DEF LineTyped
    <3> QED BY <1>1, <1>3, <2>1, <3>1, <3>2, Cut
  <2>2. CASE q # p
    <3>1. bridge'[q] = bridge[q] /\ line'[q] = line[q]
      BY <1>3, <2>2 DEF BridgeTyped, LineTyped
    <3> QED BY <1>1, <3>1, Untouched
  <2> QED BY <2>1, <2>2
<1> QED BY <1>2, <1>3 DEF Read

\* The loop that reads a phone.
LEMMA CallKeeps ==
  ASSUME Typed, NEW p \in Phones, Knock(p) \/ RunPhone(p), NEW q \in Phones, Kept(q)
  PROVE  Kept(q)'
<1> USE DEF Typed, HasFields
<1>1. UNCHANGED <<line, phone>>
  BY DEF Knock, RunPhone, Join, Forward, CutSeen, StreamEnds, Leave, sockets, machine
<1>2. CASE Join(p)
  <2>1. CASE q = p
    <3>1. call[p].stage = "upgrading" /\ call'[p].stage = "on"
      BY <1>2 DEF Join, Stage, CallTyped
    <3> QED BY <1>1, <2>1, <3>1 DEF Kept, CutOnce, CloseOnce, EndedOnce, Told1012, Closing, Fresh
  <2>2. CASE q # p
    <3>1. bridge'[q] = bridge[q] /\ call'[q] = call[q]
      BY <1>2, <2>2 DEF Join, Stage, BridgeTyped, CallTyped
    <3> QED BY <1>1, <3>1, Untouched
  <2> QED BY <2>1, <2>2
<1>3. CASE Knock(p) \/ Forward(p) \/ CutSeen(p) \/ StreamEnds(p) \/ Leave(p)
  <2>1. call'[q].stage \in {"away", "upgrading"} => call[q].stage \in {"away", "upgrading"}
    <3>1. CASE Knock(p)
      BY <3>1 DEF Knock, CallTyped
    <3>2. CASE Stage(p, "on") \/ Stage(p, "left") \/ Stage(p, "done")
      BY <3>2, Staged
    <3> QED BY <1>3, <3>1, <3>2 DEF Forward, CutSeen, StreamEnds, Leave
  <2>2. bridge'[q].on => bridge[q].on
    BY <1>3, NoBridgeType DEF Knock, Forward, CutSeen, StreamEnds, Leave, BridgeTyped
  <2> QED BY <1>1, <2>1, <2>2, Untouched
<1> QED BY <1>2, <1>3 DEF RunPhone

\* The writer: it ends once, and never after it has taken the closing of a
\* bridge that was also cut.
LEMMA WriterKeeps ==
  ASSUME Typed, NEW p \in Phones, Writer(p) \/ PhoneReads(p), NEW q \in Phones, Kept(q)
  PROVE  Kept(q)'
<1> USE DEF Typed, HasFields
<1>1. UNCHANGED call
  BY DEF Writer, CutWriter, WriterTakes, InboxCloses, WriterFails, PhoneReads, WriterUnchanged
<1>2. bridge'[q].on = bridge[q].on
  BY DEF Writer, CutWriter, WriterTakes, InboxCloses, WriterFails, PhoneReads, BridgeTyped
<1>3. phone'[q].gone = phone[q].gone
  BY DEF Writer, CutWriter, WriterTakes, InboxCloses, WriterFails, PhoneReads, PhoneTyped
<1>4. CASE q # p
  <2>1. line'[q] = line[q] /\ phone'[q].told = phone[q].told
    BY <1>4 DEF Writer, CutWriter, WriterTakes, InboxCloses, WriterFails, PhoneReads, LineTyped,
       PhoneTyped
  <2> QED BY <1>1, <1>2, <1>3, <2>1, Untouched
<1>5. CASE q = p
  <2> USE DEF Kept, CutOnce, CloseOnce, EndedOnce, Told1012, Closing, Fresh
  <2>1. CASE WriterTakes(p)
    <3>1. line[p].inbox \in Seq(Told) /\ line[p].inbox # <<>> /\ line[p].writer = "idle"
      BY <2>1 DEF WriterTakes, LineTyped
    <3>2. /\ line'[p].writer = Head(line[p].inbox) /\ line'[p].inbox = Tail(line[p].inbox)
          /\ line'[p].cut = line[p].cut
      BY <2>1 DEF WriterTakes, LineTyped
    <3>3. Closing(p)' => Closing(p)
      BY <3>1, <3>2, TailOf
    <3>4. line'[p].writer # "ended"
      BY <3>1, <3>2 DEF Told
    <3> QED BY <1>1, <1>2, <1>3, <1>5, <3>1, <3>2, <3>3, <3>4
  <2>2. ASSUME line'[p].inbox = line[p].inbox, line'[p].cut = line[p].cut,
               line'[p].writer \in {"idle", "ended"},
               line'[p].writer = "ended" => ~bridge[p].on \/ phone[p].gone,
               line'[p].writer = "ended" /\ line[p].cut = 1012 /\ ~phone[p].gone
                 => phone'[p].told = 1012,
               call[p].stage \notin {"away", "upgrading"}
        PROVE  Kept(q)'
    BY <1>1, <1>2, <1>3, <1>5, <2>2
  <2>3. CASE CutWriter(p)
    <3>1. line'[p] = [line[p] EXCEPT !.writer = "ended"]
      BY <2>3 DEF CutWriter, LineTyped
    <3>2. ~phone[p].gone => phone'[p].told = line[p].cut
      BY <2>3 DEF CutWriter, PhoneTyped
    <3> QED BY <1>5, <2>2, <2>3, <3>1, <3>2 DEF CutWriter, Serving, LineTyped
  <2>4. CASE InboxCloses(p)
    <3>1. line'[p] = [line[p] EXCEPT !.writer = "ended"]
      BY <2>4 DEF InboxCloses, LineTyped
    <3> QED BY <1>5, <2>2, <2>4, <3>1 DEF InboxCloses, Serving, LineTyped
  <2>5. CASE WriterFails(p)
    <3>1. line'[p] = [line[p] EXCEPT !.writer = "ended"]
      BY <2>5 DEF WriterFails, LineTyped
    <3> QED BY <1>5, <2>2, <2>5, <3>1 DEF WriterFails, LineTyped, Told
  <2>6. CASE PhoneReads(p)
    <3>1. line'[p] = [line[p] EXCEPT !.writer = IF @ = "close" THEN "ended" ELSE "idle"]
      BY <2>6 DEF PhoneReads, LineTyped
    <3> QED BY <1>5, <2>2, <2>6, <3>1 DEF PhoneReads, LineTyped, Told
  <2> QED BY <2>1, <2>3, <2>4, <2>5, <2>6 DEF Writer
<1> QED BY <1>4, <1>5

\* A frame of the machine: an answer or data for the inbox, or an end of the
\* bridge, in the inbox or as a cut.
LEMMA AgentKeeps ==
  ASSUME Typed, NEW k \in Links, RelayReads(k), NEW q \in Phones, Kept(q)
  PROVE  Kept(q)'
<1> DEFINE m == Head(up[k])
<1>1. up[k] \in Seq(FromMachine) /\ up[k] # <<>>
  BY DEF RelayReads, Typed, UpTyped
<1>2. m \in FromMachine
  BY <1>1
<1>3. m.t = "msg" => m.what \in {"answer", "data"}
  BY <1>2 DEF FromMachine
<1>4. \/ Wopened(k, m.p)
      \/ ClosePhone(m.p)
      \/ m.t = "msg" /\ ToPhone(k, m.p, m.what)
  BY DEF RelayReads
<1>5. UNCHANGED <<call, phone>>
  BY DEF RelayReads
<1> HIDE DEF m
<1> USE DEF Typed, HasFields
<1>6. CASE q # m.p
  <2>1. line'[q] = line[q] /\ bridge'[q] = bridge[q]
    BY <1>4, <1>6 DEF Wopened, ClosePhone, ToPhone, LineTyped, BridgeTyped
  <2> QED BY <1>5, <2>1, Untouched
<1>7. CASE q = m.p /\ ~bridge[q].on
  <2>1. line' = line /\ ~bridge'[q].on
    BY <1>4, <1>7, NoBridgeType DEF Wopened, ClosePhone, ToPhone, BridgeTyped
  <2> QED BY <1>5, <2>1, Untouched
<1>8. CASE q = m.p /\ bridge[q].on
  <2>1. CASE Wopened(k, q)
    <3>1. line' = line
      BY <2>1 DEF Wopened
    <3> QED BY <1>5, <1>8, <3>1, Untouched
  <2>2. ASSUME NEW a \in Told, line'[q] = [line[q] EXCEPT !.inbox = Append(@, a)],
               a = "close" => ~bridge'[q].on
        PROVE  Kept(q)'
    <3>1. line[q].inbox \in Seq(Told)
      BY DEF LineTyped
    <3>2. /\ line'[q].inbox = Append(line[q].inbox, a) /\ line'[q].cut = line[q].cut
          /\ line'[q].writer = line[q].writer
      BY <2>2 DEF LineTyped
    <3>3. Closing(q)' => Closing(q) \/ a = "close"
      BY <3>1, <3>2 DEF Closing
    <3> QED BY <1>5, <1>8, <2>2, <3>2, <3>3
        DEF Kept, CutOnce, CloseOnce, EndedOnce, Told1012, Fresh
  <2>3. CASE ClosePhone(q)
    <3>1. line'[q] = [line[q] EXCEPT !.inbox = Append(@, "close")]
      BY <1>8, <2>3 DEF ClosePhone, LineTyped
    <3>2. ~bridge'[q].on
      BY <2>3, NoBridgeType DEF ClosePhone, BridgeTyped
    <3> QED BY <2>2, <3>1, <3>2 DEF Told
  <2>4. CASE m.t = "msg" /\ ToPhone(k, q, m.what)
    <3>1. CASE bridge[q].behind < Buffer
      <4>1. line'[q] = [line[q] EXCEPT !.inbox = Append(@, m.what)]
        BY <1>8, <2>4, <3>1 DEF ToPhone, LineTyped
      <4> QED BY <1>3, <2>2, <2>4, <4>1 DEF Told
    <3>2. CASE ~(bridge[q].behind < Buffer)
      <4>1. line'[q].inbox = line[q].inbox /\ line'[q].writer = line[q].writer
        BY <1>8, <2>4, <3>2 DEF ToPhone, LineTyped
      <4>2. ~bridge'[q].on
        BY <1>8, <2>4, <3>2, NoBridgeType DEF ToPhone, BridgeTyped
      <4> QED BY <1>5, <1>8, <4>1, <4>2, Cut
    <3> QED BY <3>1, <3>2
  <2> QED BY <1>4, <1>8, <2>1, <2>3, <2>4
<1> QED BY <1>6, <1>7, <1>8

LEMMA DrainKeeps ==
  ASSUME Typed, NEW k \in Links, Drain(k), NEW q \in Phones, Kept(q)
  PROVE  Kept(q)'
<1>1. UNCHANGED <<call, phone>>
  BY DEF Drain, sockets, machine
<1>2. /\ line'[q].inbox = line[q].inbox /\ line'[q].writer = line[q].writer
  BY DrainLines DEF Typed
<1>3. CASE q \in OnLink(k)
  <2>1. bridge[q].on
    BY <1>3 DEF OnLink
  <2>2. bridge'[q] = NoBridge
    BY <1>3 DEF Drain
  <2> QED BY <1>1, <1>2, <2>1, <2>2, NoBridgeType, Cut
<1>4. CASE q \notin OnLink(k)
  <2>1. line'[q] = line[q] /\ bridge'[q] = bridge[q]
    BY <1>4 DEF Drain, Typed, LineTyped, BridgeTyped, HasFields
  <2> QED BY <1>1, <2>1, Untouched
<1> QED BY <1>3, <1>4

\* What only phones say, and steps of the links and the machine.
LEMMA OthersKeep ==
  ASSUME Typed, NEW q \in Phones, Kept(q)
  PROVE  /\ \A p \in Phones : PhoneSteps(p) => Kept(q)'
         /\ \A k \in Links : Dial(k) \/ Break(k) \/ Stop(k) \/ Unregister(k) => Kept(q)'
         /\ \A p \in Phones : Pump(p) \/ Finish(p) \/ Unpair(p) \/ Recheck(p) => Kept(q)'
         /\ Lose \/ MachineReads \/ UNCHANGED vars => Kept(q)'
<1>1. ASSUME UNCHANGED <<call, bridge, line, phone>> PROVE Kept(q)'
  BY <1>1, Untouched
<1>2. ASSUME NEW p \in Phones, PhoneSteps(p) PROVE Kept(q)'
  <2>1. CASE PhoneReads(p)
    BY <2>1, WriterKeeps
  <2>2. CASE HangUp(p)
    <3>1. UNCHANGED <<call, bridge, line>>
      BY <2>2 DEF HangUp, relay
    <3>2. phone'[q].told = phone[q].told /\ (phone[q].gone => phone'[q].gone)
      BY <2>2 DEF HangUp, Typed, PhoneTyped, HasFields
    <3> QED BY <3>1, <3>2, Untouched
  <2>3. CASE SayHello(p) \/ SayEarly(p) \/ Request(p) \/ Acknowledge(p)
    <3>1. phone'[q].told = phone[q].told /\ phone'[q].gone = phone[q].gone
      BY <2>3 DEF SayHello, SayEarly, Request, Acknowledge, Typed, PhoneTyped, HasFields
    <3>2. \E what : Read(p, what)
      BY <2>3 DEF SayHello, SayEarly, Request, Acknowledge
    <3> QED BY <3>1, <3>2, ReadKeeps
  <2> QED BY <1>2, <2>1, <2>2, <2>3 DEF PhoneSteps
<1>3. ASSUME NEW k \in Links, Dial(k) \/ Break(k) \/ Stop(k) \/ Unregister(k) PROVE Kept(q)'
  BY <1>1, <1>3 DEF Dial, Break, Stop, Unregister, relay, machine
<1>4. ASSUME NEW p \in Phones, Pump(p) \/ Finish(p) \/ Unpair(p) \/ Recheck(p) PROVE Kept(q)'
  BY <1>1, <1>4 DEF Pump, Finish, Unpair, Recheck, MachineUnchanged, relay
<1>5. ASSUME Lose \/ MachineReads \/ UNCHANGED vars PROVE Kept(q)'
  BY <1>1, <1>5 DEF Lose, MachineReads, vars, relay
<1> QED BY <1>2, <1>3, <1>4, <1>5

LEMMA KeptInit == ASSUME Init, NEW q \in Phones PROVE Kept(q)
<1>1. /\ line[q].cut = 0 /\ line[q].inbox = <<>> /\ line[q].writer = "idle"
      /\ ~bridge[q].on
  BY NoBridgeType DEF Init
<1> QED BY <1>1 DEF Kept, CutOnce, Fresh, CloseOnce, Closing, EndedOnce, Told1012

LEMMA KeptNext ==
  ASSUME Typed, NEW q \in Phones, Kept(q), [Next]_vars
  PROVE  Kept(q)'
<1>1. ASSUME NEW k \in Links, Dial(k) \/ Break(k) \/ RunAgent(k) PROVE Kept(q)'
  BY <1>1, OthersKeep, DrainKeeps, AgentKeeps DEF RunAgent
<1>2. ASSUME NEW p \in Phones, Knock(p) \/ RunPhone(p) \/ Writer(p) \/ PhoneSteps(p)
      PROVE  Kept(q)'
  BY <1>2, CallKeeps, WriterKeeps, OthersKeep
<1>3. ASSUME NEW p \in Phones, Pump(p) \/ Finish(p) \/ Unpair(p) \/ Recheck(p)
      PROVE  Kept(q)'
  BY <1>3, OthersKeep
<1> QED BY <1>1, <1>2, <1>3, OthersKeep DEF Next

(***************************************************************************)
(* A phone whose machine went away is told to dial again (1012), and never *)
(* that its conversation ended, unless it is gone itself.                  *)
(***************************************************************************)
THEOREM CutTold == Spec => []CutIsTold
<1> DEFINE Inv == \A q \in Phones : Kept(q)
<1>1. Init => Inv
  BY KeptInit
<1>2. Typed /\ Inv /\ [Next]_vars => Inv'
  BY KeptNext
<1>3. Inv => CutIsTold
  BY DEF Kept, Told1012, CutIsTold
<1> HIDE DEF Inv
<1> QED BY <1>1, <1>2, <1>3, TypedInit, TypedNext, PTL DEF Spec

(***************************************************************************)
(* What is in a channel of phone p: whether there is a frame of kind t,    *)
(* one at most, and a close after each of them.                            *)
(***************************************************************************)
Is(f, t, p)          == f.t = t /\ f.p = p
Has(q, t, p)         == \E i \in 1 .. Len(q) : Is(q[i], t, p)
Silent(q, p)         == \A i \in 1 .. Len(q) : q[i].p # p
OneAtMost(q, t, p)   == \A i, j \in 1 .. Len(q) : Is(q[i], t, p) /\ Is(q[j], t, p) => i = j
ClosedAfter(q, t, p) == \A i \in 1 .. Len(q) : Is(q[i], t, p)
                        => \E j \in 1 .. Len(q) : i < j /\ Is(q[j], "wclose", p)

LEMMA SilentHas ==
  ASSUME NEW q, NEW p, Silent(q, p), NEW t
  PROVE  ~Has(q, t, p) /\ OneAtMost(q, t, p) /\ ClosedAfter(q, t, p)
  BY DEF Is, Has, Silent, OneAtMost, ClosedAfter

LEMMA OneHas ==
  ASSUME NEW f, NEW t, NEW p
  PROVE  /\ Has(<<f>>, t, p) <=> Is(f, t, p)
         /\ Silent(<<f>>, p) <=> f.p # p
<1>1. Len(<<f>>) = 1 /\ <<f>>[1] = f /\ 1 .. 1 = {1}
  OBVIOUS
<1> QED BY <1>1 DEF Has, Silent

LEMMA Concat ==
  ASSUME NEW S, NEW q \in Seq(S), NEW ms \in Seq(S)
  PROVE  /\ \A i \in 1 .. Len(q) : i \in 1 .. Len(q \o ms) /\ (q \o ms)[i] = q[i]
         /\ \A j \in 1 .. Len(ms) : Len(q) + j \in 1 .. Len(q \o ms) /\ (q \o ms)[Len(q) + j] = ms[j]
         /\ \A i \in 1 .. Len(q \o ms) :
              i \in 1 .. Len(q) \/ \E j \in 1 .. Len(ms) : i = Len(q) + j
<1>1. Len(q \o ms) = Len(q) + Len(ms) /\ Len(q) \in Nat /\ Len(ms) \in Nat
  OBVIOUS
<1>2. ASSUME NEW i \in 1 .. Len(q \o ms)
      PROVE  i \in 1 .. Len(q) \/ \E j \in 1 .. Len(ms) : i = Len(q) + j
  <2>1. CASE i \notin 1 .. Len(q)
    <3>1. i - Len(q) \in 1 .. Len(ms) /\ i = Len(q) + (i - Len(q))
      BY <1>1, <2>1
    <3> QED BY <3>1
  <2> QED BY <2>1
<1>3. ASSUME NEW j \in 1 .. Len(ms)
      PROVE  Len(q) + j \in 1 .. Len(q \o ms) /\ (q \o ms)[Len(q) + j] = ms[j]
  BY <1>1
<1>4. ASSUME NEW i \in 1 .. Len(q) PROVE i \in 1 .. Len(q \o ms) /\ (q \o ms)[i] = q[i]
  BY <1>1
<1> QED BY <1>2, <1>3, <1>4

LEMMA SentHas ==
  ASSUME NEW S, NEW q \in Seq(S), NEW ms \in Seq(S), NEW t, NEW p
  PROVE  /\ Has(q \o ms, t, p) <=> Has(q, t, p) \/ Has(ms, t, p)
         /\ Silent(q \o ms, p) <=> Silent(q, p) /\ Silent(ms, p)
         /\ OneAtMost(q, t, p) /\ ~Has(ms, t, p) => OneAtMost(q \o ms, t, p)
         /\ ~Has(ms, t, p) /\ (ClosedAfter(q, t, p) \/ Has(ms, "wclose", p))
              => ClosedAfter(q \o ms, t, p)
<1> DEFINE r == q \o ms
<1>1. /\ \A i \in 1 .. Len(q) : i \in 1 .. Len(r) /\ r[i] = q[i]
      /\ \A j \in 1 .. Len(ms) : Len(q) + j \in 1 .. Len(r) /\ r[Len(q) + j] = ms[j]
      /\ \A i \in 1 .. Len(r) : i \in 1 .. Len(q) \/ \E j \in 1 .. Len(ms) : i = Len(q) + j
  BY Concat
<1> HIDE DEF r
<1>2. Has(r, t, p) <=> Has(q, t, p) \/ Has(ms, t, p)
  BY <1>1 DEF Has
<1>3. Silent(r, p) <=> Silent(q, p) /\ Silent(ms, p)
  <2>1. ASSUME NEW i \in 1 .. Len(q), Silent(r, p) PROVE q[i].p # p
    BY <1>1, <2>1 DEF Silent
  <2>2. ASSUME NEW j \in 1 .. Len(ms), Silent(r, p) PROVE ms[j].p # p
    BY <1>1, <2>2 DEF Silent
  <2>3. ASSUME NEW i \in 1 .. Len(r), Silent(q, p), Silent(ms, p) PROVE r[i].p # p
    <3>1. CASE i \in 1 .. Len(q)
      BY <1>1, <2>3, <3>1 DEF Silent
    <3>2. ASSUME NEW j \in 1 .. Len(ms), i = Len(q) + j PROVE r[i].p # p
      <4>1. r[i] = ms[j]
        BY <1>1, <3>2
      <4> QED BY <2>3, <4>1 DEF Silent
    <3> QED BY <1>1, <3>1, <3>2
  <2> QED BY <2>1, <2>2, <2>3 DEF Silent
<1>4. \A i \in 1 .. Len(r) : Is(r[i], t, p) /\ ~Has(ms, t, p) => i \in 1 .. Len(q) /\ Is(q[i], t, p)
  BY <1>1 DEF Has
<1>5. OneAtMost(q, t, p) /\ ~Has(ms, t, p) => OneAtMost(r, t, p)
  BY <1>4 DEF OneAtMost
<1>6. ASSUME ~Has(ms, t, p), ClosedAfter(q, t, p) \/ Has(ms, "wclose", p) PROVE ClosedAfter(r, t, p)
  <2> SUFFICES ASSUME NEW i \in 1 .. Len(r), Is(r[i], t, p)
               PROVE  \E j \in 1 .. Len(r) : i < j /\ Is(r[j], "wclose", p)
    BY DEF ClosedAfter
  <2>1. i \in 1 .. Len(q) /\ Is(q[i], t, p)
    BY <1>4, <1>6
  <2>2. CASE ClosedAfter(q, t, p)
    BY <1>1, <2>1, <2>2 DEF ClosedAfter
  <2>3. CASE Has(ms, "wclose", p)
    <3>1. PICK j \in 1 .. Len(ms) : Is(ms[j], "wclose", p)
      BY <2>3 DEF Has
    <3>2. i < Len(q) + j
      <4>1. Len(q) \in Nat /\ i <= Len(q) /\ i \in Nat /\ j \in Nat /\ j > 0
        BY <2>1
      <4> QED BY <4>1
    <3> QED BY <1>1, <3>1, <3>2
  <2> QED BY <1>6, <2>2, <2>3
<1> QED BY <1>2, <1>3, <1>5, <1>6 DEF r

LEMMA TakenHas ==
  ASSUME NEW S, NEW q \in Seq(S), q # <<>>, NEW t, NEW p
  PROVE  /\ Has(q, t, p) <=> Has(Tail(q), t, p) \/ Is(Head(q), t, p)
         /\ Silent(q, p) <=> Silent(Tail(q), p) /\ Head(q).p # p
         /\ OneAtMost(q, t, p) => /\ OneAtMost(Tail(q), t, p)
                                  /\ Is(Head(q), t, p) => ~Has(Tail(q), t, p)
         /\ ClosedAfter(q, t, p) => /\ ClosedAfter(Tail(q), t, p)
                                    /\ Is(Head(q), t, p) => Has(Tail(q), "wclose", p)
<1> DEFINE r == Tail(q)
<1>1. /\ 1 \in 1 .. Len(q) /\ Head(q) = q[1]
      /\ \A i \in 1 .. Len(r) : i + 1 \in 1 .. Len(q) /\ r[i] = q[i + 1] /\ i + 1 # 1
      /\ \A i \in 1 .. Len(q) : i # 1 => i - 1 \in 1 .. Len(r) /\ (i - 1) + 1 = i
  <2>1. Len(q) \in Nat \ {0} /\ Len(r) = Len(q) - 1 /\ Head(q) = q[1]
    OBVIOUS
  <2>2. \A i \in 1 .. Len(r) : r[i] = q[i + 1]
    OBVIOUS
  <2> HIDE DEF r
  <2> QED BY <2>1, <2>2
<1>2. \A i \in 1 .. Len(q) : i = 1 \/ \E j \in 1 .. Len(r) : i = j + 1
  BY <1>1
<1> HIDE DEF r
<1>3. Has(q, t, p) <=> Has(r, t, p) \/ Is(Head(q), t, p)
  BY <1>1, <1>2 DEF Has
<1>4. Silent(q, p) <=> Silent(r, p) /\ Head(q).p # p
  <2>1. ASSUME NEW i \in 1 .. Len(r), Silent(q, p) PROVE r[i].p # p
    BY <1>1, <2>1 DEF Silent
  <2>2. Silent(q, p) => Head(q).p # p
    BY <1>1 DEF Silent
  <2>3. ASSUME NEW i \in 1 .. Len(q), Silent(r, p), Head(q).p # p PROVE q[i].p # p
    <3>1. ASSUME NEW j \in 1 .. Len(r), i = j + 1 PROVE q[i].p # p
      <4>1. q[i] = r[j]
        BY <1>1, <3>1
      <4> QED BY <2>3, <4>1 DEF Silent
    <3> QED BY <1>1, <1>2, <2>3, <3>1
  <2> QED BY <2>1, <2>2, <2>3 DEF Silent
<1>5. ASSUME OneAtMost(q, t, p)
      PROVE  OneAtMost(r, t, p) /\ (Is(Head(q), t, p) => ~Has(r, t, p))
  <2>1. ASSUME NEW i \in 1 .. Len(r), NEW j \in 1 .. Len(r), Is(r[i], t, p), Is(r[j], t, p)
        PROVE  i = j
    <3>1. i + 1 = j + 1
      BY <1>1, <1>5, <2>1 DEF OneAtMost
    <3> QED BY <3>1
  <2>2. ASSUME Is(Head(q), t, p), NEW i \in 1 .. Len(r), Is(r[i], t, p) PROVE FALSE
    BY <1>1, <1>5, <2>2 DEF OneAtMost
  <2> QED BY <2>1, <2>2 DEF OneAtMost, Has
<1>6. ASSUME ClosedAfter(q, t, p)
      PROVE  ClosedAfter(r, t, p) /\ (Is(Head(q), t, p) => Has(r, "wclose", p))
  <2>1. ASSUME NEW i \in 1 .. Len(r), Is(r[i], t, p)
        PROVE  \E j \in 1 .. Len(r) : i < j /\ Is(r[j], "wclose", p)
    <3>1. PICK n \in 1 .. Len(q) : i + 1 < n /\ Is(q[n], "wclose", p)
      BY <1>1, <1>6, <2>1 DEF ClosedAfter
    <3>2. PICK j \in 1 .. Len(r) : n = j + 1
      BY <1>2, <3>1
    <3> QED BY <1>1, <3>1, <3>2
  <2>2. ASSUME Is(Head(q), t, p) PROVE Has(r, "wclose", p)
    <3>1. PICK n \in 1 .. Len(q) : 1 < n /\ Is(q[n], "wclose", p)
      BY <1>1, <1>6, <2>2 DEF ClosedAfter
    <3>2. PICK j \in 1 .. Len(r) : n = j + 1
      BY <1>2, <3>1
    <3> QED BY <1>1, <3>1, <3>2 DEF Has
  <2> QED BY <2>1, <2>2 DEF ClosedAfter
<1> QED BY <1>3, <1>4, <1>5, <1>6 DEF r

LEMMA HeadSpeaks ==
  ASSUME NEW S, NEW q \in Seq(S), q # <<>> PROVE ~Silent(q, Head(q).p)
<1>1. 1 \in 1 .. Len(q) /\ Head(q) = q[1]
  OBVIOUS
<1> QED BY <1>1 DEF Silent

LEMMA SilentStays ==
  ASSUME NEW S, NEW q \in Seq(S), NEW p, Silent(q, p)
  PROVE  /\ \A ms \in Seq(S) : Silent(ms, p) => Silent(q \o ms, p)
         /\ q # <<>> => Silent(Tail(q), p)
<1>1. ASSUME NEW ms \in Seq(S), Silent(ms, p) PROVE Silent(q \o ms, p)
  <2>1. Silent(q \o ms, p) <=> Silent(q, p) /\ Silent(ms, p)
    BY SentHas
  <2> QED BY <1>1, <2>1
<1>2. ASSUME q # <<>> PROVE Silent(Tail(q), p)
  <2>1. Silent(q, p) <=> Silent(Tail(q), p) /\ Head(q).p # p
    BY <1>2, TakenHas
  <2> QED BY <2>1
<1> QED BY <1>1, <1>2

(***************************************************************************)
(* The two ends of one tunnel: what goes down to the machine (d) and up to *)
(* the relay (u), the bridge and the session.                              *)
(***************************************************************************)
Live(s) == s.stage # "none" /\ ~s.over

\* A bridge is opened while the machine has nothing of the phone, and dropped with
\* a close on its way down; a session that ends by itself sends one up, last.
Agree(d, u, b, s, p) ==
    /\ Has(d, "wopen", p) => /\ s.stage = "none" /\ Silent(u, p) /\ OneAtMost(d, "wopen", p)
                             /\ b.on \/ ClosedAfter(d, "wopen", p)
    /\ Has(d, "wclose", p) => ~b.on
    /\ Has(u, "wclose", p) \/ Has(u, "werr", p) => ~Live(s)
    /\ Live(s) /\ ~b.on => Has(d, "wclose", p)
    /\ b.on /\ b.opened => Live(s) \/ Has(u, "wclose", p)
    /\ b.on => Live(s) \/ ClosedAfter(u, "wopened", p)

\* A channel in which nothing but messages of p came or went.
Keeps(q, r, p) ==
    \A t : t # "msg" => /\ Has(r, t, p) <=> Has(q, t, p)
                        /\ OneAtMost(q, t, p) => OneAtMost(r, t, p)
                        /\ ClosedAfter(q, t, p) => ClosedAfter(r, t, p)

LEMMA SentKeeps ==
  ASSUME NEW S, NEW q \in Seq(S), NEW ms \in Seq(S), NEW p, \A t : t # "msg" => ~Has(ms, t, p)
  PROVE  Keeps(q, q \o ms, p)
  BY SentHas DEF Keeps

LEMMA TakenKeeps ==
  ASSUME NEW S, NEW q \in Seq(S), q # <<>>, NEW p, Head(q).p # p \/ Head(q).t = "msg"
  PROVE  Keeps(q, Tail(q), p)
<1>1. \A t : t # "msg" => ~Is(Head(q), t, p)
  BY DEF Is
<1> QED BY <1>1, TakenHas DEF Keeps

\* Nothing of what they agree about.
LEMMA Stays ==
  ASSUME NEW d, NEW u, NEW b, NEW s, NEW p, Agree(d, u, b, s, p),
         NEW d2, NEW u2, NEW b2, NEW s2, Keeps(d, d2, p), Keeps(u, u2, p),
         Silent(u, p) => Silent(u2, p) \/ s.stage # "none",
         b2.on <=> b.on, b2.on => (b2.opened <=> b.opened),
         s2.stage = "none" <=> s.stage = "none", s2.over <=> s.over
  PROVE  Agree(d2, u2, b2, s2, p)
  BY DEF Agree, Keeps, Live

\* run_phone joins.
LEMMA Joins ==
  ASSUME NEW S, NEW d \in Seq(S), NEW u, NEW b, NEW s, NEW p, NEW f \in S,
         Silent(d, p), Silent(u, p), s.stage = "none", Is(f, "wopen", p), b.on, ~b.opened
  PROVE  Agree(d \o <<f>>, u, b, s, p)
<1> DEFINE d2 == d \o <<f>>
<1>1. ~Has(d, "wclose", p) /\ ~Has(<<f>>, "wclose", p)
  BY SilentHas, OneHas DEF Is
<1>2. ~Has(d2, "wclose", p)
  BY <1>1, SentHas
<1>3. OneAtMost(d2, "wopen", p)
  <2>1. \A i \in 1 .. Len(d) : ~Is(d[i], "wopen", p)
    BY DEF Silent, Is
  <2>2. \A i \in 1 .. Len(d2) : Is(d2[i], "wopen", p) => i = Len(d) + 1
    <3>1. 1 .. Len(<<f>>) = {1}
      OBVIOUS
    <3>2. \A i \in 1 .. Len(d) : d2[i] = d[i]
      BY Concat
    <3>3. \A i \in 1 .. Len(d2) : i \in 1 .. Len(d) \/ i = Len(d) + 1
      BY <3>1, Concat
    <3> QED BY <2>1, <3>2, <3>3
  <2> QED BY <2>2 DEF OneAtMost
<1>4. ClosedAfter(u, "wopened", p) /\ ~Has(u, "wclose", p) /\ ~Has(u, "werr", p)
  BY SilentHas
<1> HIDE DEF d2
<1> QED BY <1>2, <1>3, <1>4 DEF Agree, Live, d2

\* The bridge leaves the table and the machine is told.
LEMMA Drops ==
  ASSUME NEW S, NEW d \in Seq(S), NEW u, NEW b, NEW s, NEW p, Agree(d, u, b, s, p),
         NEW f \in S, Is(f, "wclose", p), NEW u2, Keeps(u, u2, p), Silent(u, p) => Silent(u2, p),
         NEW b2, ~b2.on
  PROVE  Agree(d \o <<f>>, u2, b2, s, p)
<1> DEFINE d2 == d \o <<f>>
<1>1. Has(<<f>>, "wclose", p) /\ ~Has(<<f>>, "wopen", p)
  BY OneHas DEF Is
<1>2. /\ Has(d2, "wclose", p) /\ (Has(d2, "wopen", p) <=> Has(d, "wopen", p))
      /\ OneAtMost(d, "wopen", p) => OneAtMost(d2, "wopen", p)
      /\ ClosedAfter(d2, "wopen", p)
  BY <1>1, SentHas, OneIsSeq
<1> HIDE DEF d2
<1> QED BY <1>2 DEF Agree, Keeps, Live, d2

\* The relay reads wopened: messages that waited go down, or a close.
LEMMA OpenedInTime ==
  ASSUME NEW d, NEW T, NEW u \in Seq(T), u # <<>>, NEW b, NEW s, NEW p,
         Agree(d, u, b, s, p), Is(Head(u), "wopened", p), b.on,
         NEW d2, Keeps(d, d2, p), NEW b2, b2.on
  PROVE  Agree(d2, Tail(u), b2, s, p)
<1>1. ~Silent(u, p)
  BY TakenHas DEF Is
<1>2. Live(s) \/ Has(Tail(u), "wclose", p)
  BY TakenHas DEF Agree
<1>3. /\ \A t : Has(Tail(u), t, p) => Has(u, t, p)
      /\ ClosedAfter(u, "wopened", p) => ClosedAfter(Tail(u), "wopened", p)
  BY TakenHas
<1> QED BY <1>1, <1>2, <1>3 DEF Agree, Keeps, Live
LEMMA OpenedTooLate ==
  ASSUME NEW S, NEW d \in Seq(S), NEW T, NEW u \in Seq(T), u # <<>>, NEW b, NEW s, NEW p,
         Agree(d, u, b, s, p), Is(Head(u), "wopened", p), ~b.on,
         NEW f \in S, Is(f, "wclose", p)
  PROVE  Agree(d \o <<f>>, Tail(u), b, s, p)
<1> DEFINE d2 == d \o <<f>>
<1>1. ~Silent(u, p)
  BY TakenHas DEF Is
<1>2. \A t : Has(Tail(u), t, p) => Has(u, t, p)
  BY TakenHas
<1>3. Has(<<f>>, "wclose", p) /\ ~Has(<<f>>, "wopen", p)
  BY OneHas DEF Is
<1>4. Has(d2, "wclose", p) /\ (Has(d2, "wopen", p) <=> Has(d, "wopen", p))
  BY <1>3, SentHas, OneIsSeq
<1> HIDE DEF d2
<1> QED BY <1>1, <1>2, <1>4 DEF Agree, Live, d2

\* The relay reads the end of a session.
LEMMA Closed ==
  ASSUME NEW S, NEW d, NEW u \in Seq(S), u # <<>>, NEW b, NEW s, NEW p,
         Agree(d, u, b, s, p), Is(Head(u), "werr", p) \/ Is(Head(u), "wclose", p),
         NEW b2, ~b2.on
  PROVE  Agree(d, Tail(u), b2, s, p)
<1>1. ~Silent(u, p) /\ (Has(u, "werr", p) \/ Has(u, "wclose", p))
  BY TakenHas DEF Is
<1>2. \A t : Has(Tail(u), t, p) => Has(u, t, p)
  BY TakenHas
<1> QED BY <1>1, <1>2 DEF Agree, Live

\* The machine reads wopen: it refuses, or has a session.
LEMMA TakesWopen ==
  ASSUME NEW S, NEW d \in Seq(S), d # <<>>, NEW T, NEW u \in Seq(T), NEW b, NEW s, NEW p,
         Agree(d, u, b, s, p), Is(Head(d), "wopen", p), NEW f \in T, NEW s2,
         \/ Is(f, "werr", p) /\ s2.stage = "none"
         \/ Is(f, "wopened", p) /\ Live(s2)
  PROVE  Agree(Tail(d), u \o <<f>>, b, s2, p)
<1> DEFINE u2 == u \o <<f>>
<1>1. Has(d, "wopen", p)
  BY TakenHas
<1>2. s.stage = "none" /\ Silent(u, p) /\ ~Has(Tail(d), "wopen", p)
  BY <1>1, TakenHas DEF Agree
<1>3. b.on \/ Has(Tail(d), "wclose", p)
  BY <1>1, TakenHas DEF Agree
<1>4. Has(Tail(d), "wclose", p) => ~b.on
  BY TakenHas DEF Agree
<1>5. \A t : Has(u2, t, p) <=> Is(f, t, p)
  <2>1. <<f>> \in Seq(T)
    BY OneIsSeq
  <2>2. ASSUME NEW t PROVE Has(u2, t, p) <=> Is(f, t, p)
    <3>1. Has(u2, t, p) <=> Has(u, t, p) \/ Has(<<f>>, t, p)
      BY <2>1, SentHas
    <3>2. ~Has(u, t, p)
      BY <1>2, SilentHas
    <3> QED BY <3>1, <3>2, OneHas
  <2> QED BY <2>2
<1>6. ~(b.on /\ b.opened)
  BY <1>2, SilentHas DEF Agree, Live
<1>7. Is(f, "werr", p) => ClosedAfter(u2, "wopened", p)
  <2>1. Is(f, "werr", p) => ~Has(u2, "wopened", p)
    BY <1>5 DEF Is
  <2> QED BY <2>1 DEF Has, ClosedAfter
<1>8. Is(f, "wopened", p) => ~Has(u2, "wclose", p) /\ ~Has(u2, "werr", p)
  BY <1>5 DEF Is
<1> HIDE DEF u2
<1> QED BY <1>2, <1>3, <1>4, <1>6, <1>7, <1>8 DEF Agree, Live, u2

\* The machine reads a close.
LEMMA TakesWclose ==
  ASSUME NEW S, NEW d \in Seq(S), d # <<>>, NEW u, NEW b, NEW s, NEW p,
         Agree(d, u, b, s, p), Is(Head(d), "wclose", p), NEW s2, s2.stage = "none"
  PROVE  Agree(Tail(d), u, b, s2, p)
<1>1. ~b.on
  BY TakenHas DEF Agree
<1>2. /\ \A t : Has(Tail(d), t, p) => Has(d, t, p)
      /\ OneAtMost(d, "wopen", p) => OneAtMost(Tail(d), "wopen", p)
      /\ ClosedAfter(d, "wopen", p) => ClosedAfter(Tail(d), "wopen", p)
  BY TakenHas
<1> QED BY <1>1, <1>2 DEF Agree, Live

\* A session ends by itself.
LEMMA SessionEnds ==
  ASSUME NEW S, NEW d, NEW u \in Seq(S), NEW b, NEW s, NEW p, Agree(d, u, b, s, p),
         s.stage # "none", NEW d2, Keeps(d, d2, p), NEW f \in S, Is(f, "wclose", p),
         NEW s2, ~Live(s2)
  PROVE  Agree(d2, u \o <<f>>, b, s2, p)
<1> DEFINE u2 == u \o <<f>>
<1>1. ~Has(d2, "wopen", p) /\ (Has(d2, "wclose", p) => ~b.on)
  BY DEF Agree, Keeps
<1>2. Has(<<f>>, "wclose", p) /\ ~Has(<<f>>, "wopened", p)
  BY OneHas DEF Is
<1>3. Has(u2, "wclose", p) /\ ClosedAfter(u2, "wopened", p)
  BY <1>2, SentHas, OneIsSeq
<1> HIDE DEF u2
<1> QED BY <1>1, <1>3 DEF Agree, u2

(***************************************************************************)
(* Where frames and sessions may be.                                       *)
(***************************************************************************)
SessionTyped == HasFields(session, {"stage", "said", "credit", "over"})

\* Only a link that was dialled is looked up, and a live link is one the relay
\* serves.
Known ==
    /\ \A k \in Links, p \in Phones : run[k] = "none" => call[p].link # k
    /\ reg # 0 => run[reg] # "none"
    /\ mlink # 0 /\ mlink \notin broken => run[mlink] = "up"

Framed(p) == \A k \in Links : \/ Silent(down[k], p) /\ Silent(up[k], p)
                              \/ Serving(p) /\ call[p].link = k
Linked(p) ==
    /\ session[p].stage # "none" => mlink # 0 /\ call[p].link = mlink /\ Serving(p)
    /\ session[p].stage = "none" => ~session[p].over
NotYet(p) == ~Serving(p) => ~bridge[p].on /\ ~bridge[p].opened
Agreed(p) == Connected(p) => Agree(down[mlink], up[mlink], bridge[p], session[p], p)

Tied == /\ SessionTyped /\ Known
        /\ \A p \in Phones : Framed(p) /\ Linked(p) /\ NotYet(p) /\ Agreed(p)

(***************************************************************************)
(* What each step leaves alone.                                            *)
(***************************************************************************)
LEMMA LinksStay ==
  ASSUME [Next]_vars
  PROVE  \/ UNCHANGED <<reg, run, broken, mlink>>
         \/ Lose
         \/ \E k \in Links : Dial(k) \/ Break(k) \/ Stop(k) \/ Unregister(k) \/ Drain(k)
<1>1. ASSUME NEW k \in Links, RelayReads(k) PROVE UNCHANGED <<reg, run, broken, mlink>>
  BY <1>1 DEF RelayReads, machine
<1>2. ASSUME NEW p \in Phones, Knock(p) \/ RunPhone(p) \/ Writer(p)
      PROVE  UNCHANGED <<reg, run, broken, mlink>>
  BY <1>2 DEF Knock, RunPhone, Join, Forward, CutSeen, StreamEnds, Leave, Writer, CutWriter,
     WriterTakes, InboxCloses, WriterFails, WriterUnchanged, sockets, machine
<1>3. ASSUME NEW p \in Phones, PhoneSteps(p) PROVE UNCHANGED <<reg, run, broken, mlink>>
  BY <1>3 DEF PhoneSteps, SayHello, SayEarly, Request, Acknowledge, Read, PhoneReads,
     WriterUnchanged, HangUp, relay, sockets, machine
<1>4. ASSUME NEW p \in Phones, Pump(p) \/ Finish(p) \/ Unpair(p) \/ Recheck(p)
      PROVE  UNCHANGED <<reg, run, broken, mlink>>
  BY <1>4 DEF Pump, Finish, Unpair, Recheck, MachineUnchanged, relay, sockets
<1>5. CASE MachineReads
  BY <1>5 DEF MachineReads
<1>6. CASE UNCHANGED vars
  BY <1>6 DEF vars, relay, sockets, machine
<1> QED BY <1>1, <1>2, <1>3, <1>4, <1>5, <1>6 DEF Next, RunAgent

LEMMA SessionsStay ==
  ASSUME [Next]_vars
  PROVE  \/ UNCHANGED session
         \/ Lose \/ MachineReads \/ \E p \in Phones : Pump(p) \/ Finish(p) \/ Recheck(p)
<1>1. ASSUME NEW k \in Links, Dial(k) \/ Break(k) \/ RunAgent(k) PROVE UNCHANGED session
  BY <1>1 DEF Dial, Break, RunAgent, Stop, Unregister, Drain, RelayReads, machine
<1>2. ASSUME NEW p \in Phones, Knock(p) \/ RunPhone(p) \/ Writer(p) PROVE UNCHANGED session
  BY <1>2 DEF Knock, RunPhone, Join, Forward, CutSeen, StreamEnds, Leave, Writer, CutWriter,
     WriterTakes, InboxCloses, WriterFails, WriterUnchanged, machine
<1>3. ASSUME NEW p \in Phones, PhoneSteps(p) PROVE UNCHANGED session
  BY <1>3 DEF PhoneSteps, SayHello, SayEarly, Request, Acknowledge, Read, PhoneReads,
     WriterUnchanged, HangUp, machine
<1>4. ASSUME NEW p \in Phones, Unpair(p) PROVE UNCHANGED session
  BY <1>4 DEF Unpair
<1>5. CASE UNCHANGED vars
  BY <1>5 DEF vars, machine
<1> QED BY <1>1, <1>2, <1>3, <1>4, <1>5 DEF Next

\* A phone keeps its link, and only joining makes the relay serve it.
LEMMA CallMoves ==
  ASSUME Typed, [Next]_vars, NEW q \in Phones
  PROVE  \/ call'[q].link = call[q].link /\ (Serving(q)' <=> Serving(q))
         \/ Knock(q) /\ call'[q].link = reg /\ ~Serving(q) /\ ~Serving(q)'
         \/ Join(q) /\ call'[q].link = call[q].link /\ ~Serving(q) /\ Serving(q)'
<1> USE DEF Typed, CallTyped, HasFields
<1>1. ASSUME UNCHANGED call PROVE call'[q].link = call[q].link /\ (Serving(q)' <=> Serving(q))
  BY <1>1 DEF Serving
<1>2. ASSUME NEW p \in Phones, NEW s, Stage(p, s), s \notin {"away", "upgrading"}
      PROVE  /\ call'[q].link = call[q].link
             /\ p # q \/ Serving(p) => (Serving(q)' <=> Serving(q))
             /\ p = q => Serving(q)'
  BY <1>2 DEF Stage, Serving
<1>3. ASSUME NEW p \in Phones, NEW what, Read(p, what)
      PROVE  call'[q].link = call[q].link /\ (Serving(q)' <=> Serving(q))
  <2>0. Serving(p)
    BY <1>3 DEF Read, Serving
  <2>1. CASE call' = [call EXCEPT ![p].stage = "waiting", ![p].held = what]
    BY <2>0, <2>1 DEF Serving
  <2>2. CASE Stage(p, "left")
    BY <1>2, <2>0, <2>2
  <2>3. \/ UNCHANGED call \/ Stage(p, "left")
        \/ call' = [call EXCEPT ![p].stage = "waiting", ![p].held = what]
    BY <1>3 DEF Read
  <2> QED BY <1>1, <2>1, <2>2, <2>3
<1>4. ASSUME NEW p \in Phones, RunPhone(p)
      PROVE  \/ call'[q].link = call[q].link /\ (Serving(q)' <=> Serving(q))
             \/ Join(q) /\ call'[q].link = call[q].link /\ ~Serving(q) /\ Serving(q)'
  <2>1. CASE Join(p)
    <3>1. Stage(p, "on") /\ ~Serving(p)
      BY <2>1 DEF Join, Serving
    <3> QED BY <1>2, <2>1, <3>1
  <2>2. CASE Forward(p) \/ CutSeen(p) \/ StreamEnds(p) \/ Leave(p)
    <3>1. Serving(p) /\ \E s \in {"on", "left", "done"} : Stage(p, s)
      BY <2>2 DEF Forward, CutSeen, StreamEnds, Leave, Serving
    <3> QED BY <1>2, <3>1
  <2> QED BY <1>4, <2>1, <2>2 DEF RunPhone
<1>5. ASSUME NEW p \in Phones, Knock(p)
      PROVE  \/ call'[q].link = call[q].link /\ (Serving(q)' <=> Serving(q))
             \/ Knock(q) /\ call'[q].link = reg /\ ~Serving(q) /\ ~Serving(q)'
  BY <1>5 DEF Knock, Serving
<1>6. ASSUME NEW p \in Phones, Writer(p) \/ PhoneReads(p) \/ HangUp(p) PROVE UNCHANGED call
  BY <1>6 DEF Writer, CutWriter, WriterTakes, InboxCloses, WriterFails, PhoneReads,
     WriterUnchanged, HangUp, relay
<1>7. ASSUME NEW k \in Links, Dial(k) \/ Break(k) \/ RunAgent(k) PROVE UNCHANGED call
  BY <1>7 DEF Dial, Break, RunAgent, Stop, Unregister, Drain, RelayReads, relay
<1>8. ASSUME NEW p \in Phones, Pump(p) \/ Finish(p) \/ Unpair(p) \/ Recheck(p) PROVE UNCHANGED call
  BY <1>8 DEF Pump, Finish, Unpair, Recheck, MachineUnchanged, relay
<1>9. CASE Lose \/ MachineReads \/ UNCHANGED vars
  BY <1>1, <1>9 DEF Lose, MachineReads, vars, relay
<1>10. ASSUME NEW p \in Phones, PhoneSteps(p)
       PROVE  call'[q].link = call[q].link /\ (Serving(q)' <=> Serving(q))
  <2>1. PhoneReads(p) \/ HangUp(p) \/ \E what : Read(p, what)
    BY <1>10 DEF PhoneSteps, SayHello, SayEarly, Request, Acknowledge
  <2> QED BY <1>1, <1>3, <1>6, <2>1
<1> QED BY <1>1, <1>4, <1>5, <1>6, <1>7, <1>8, <1>9, <1>10 DEF Next

\* A bridge that is not there comes with joining only.
LEMMA BridgeStays ==
  ASSUME Typed, [Next]_vars, NEW q \in Phones, ~bridge[q].on, ~bridge[q].opened
  PROVE  Join(q) \/ (~bridge'[q].on /\ ~bridge'[q].opened)
<1> USE DEF Typed, BridgeTyped, HasFields
<1>0. ~NoBridge.on /\ ~NoBridge.opened
  BY DEF NoBridge
<1>1. CASE UNCHANGED bridge
  BY <1>1
<1>2. ASSUME NEW p \in Phones, bridge' = [bridge EXCEPT ![p] = NoBridge]
      PROVE  ~bridge'[q].on /\ ~bridge'[q].opened
  BY <1>0, <1>2
<1>3. ASSUME NEW p \in Phones, NEW what, Read(p, what) PROVE ~bridge'[q].on /\ ~bridge'[q].opened
  <2>1. CASE bridge' = [bridge EXCEPT ![p].pending = Append(@, what)]
    BY <2>1
  <2> QED BY <1>1, <1>2, <1>3, <2>1 DEF Read
<1>4. ASSUME NEW p \in Phones, RunPhone(p) PROVE Join(q) \/ (~bridge'[q].on /\ ~bridge'[q].opened)
  <2>1. CASE Join(p)
    BY <2>1 DEF Join
  <2> QED BY <1>1, <1>2, <1>4, <2>1 DEF RunPhone, Forward, CutSeen, StreamEnds, Leave
<1>5. ASSUME NEW p \in Phones, Writer(p) \/ PhoneReads(p) PROVE ~bridge'[q].on /\ ~bridge'[q].opened
  BY <1>5 DEF Writer, CutWriter, WriterTakes, InboxCloses, WriterFails, PhoneReads
<1>6. ASSUME NEW k \in Links, RelayReads(k) PROVE ~bridge'[q].on /\ ~bridge'[q].opened
  <2> DEFINE m == Head(up[k])
  <2>1. \/ Wopened(k, m.p)
        \/ ClosePhone(m.p)
        \/ ToPhone(k, m.p, m.what)
    BY <1>6 DEF RelayReads
  <2> HIDE DEF m
  <2>2. \/ UNCHANGED bridge
        \/ bridge[m.p].on /\ bridge' = [bridge EXCEPT ![m.p].opened = TRUE, ![m.p].pending = <<>>]
        \/ bridge' = [bridge EXCEPT ![m.p] = NoBridge]
        \/ bridge' = [bridge EXCEPT ![m.p].behind = @ + 1]
    BY <2>1 DEF Wopened, ClosePhone, ToPhone
  <2> QED BY <1>0, <2>2
<1>7. ASSUME NEW k \in Links, Drain(k) PROVE ~bridge'[q].on /\ ~bridge'[q].opened
  BY <1>0, <1>7 DEF Drain
<1>8. ASSUME NEW k \in Links, Dial(k) \/ Break(k) \/ Stop(k) \/ Unregister(k) PROVE UNCHANGED bridge
  BY <1>8 DEF Dial, Break, Stop, Unregister, relay
<1>9. ASSUME NEW p \in Phones,
             Knock(p) \/ HangUp(p) \/ Pump(p) \/ Finish(p) \/ Unpair(p) \/ Recheck(p)
      PROVE  UNCHANGED bridge
  BY <1>9 DEF Knock, HangUp, Pump, Finish, Unpair, Recheck, MachineUnchanged, relay
<1>10. CASE Lose \/ MachineReads \/ UNCHANGED vars
  BY <1>1, <1>10 DEF Lose, MachineReads, vars, relay
<1>11. ASSUME NEW p \in Phones, PhoneSteps(p) PROVE ~bridge'[q].on /\ ~bridge'[q].opened
  BY <1>1, <1>3, <1>5, <1>9, <1>11 DEF PhoneSteps, SayHello, SayEarly, Request, Acknowledge
<1> QED BY <1>1, <1>4, <1>5, <1>6, <1>7, <1>8, <1>9, <1>10, <1>11 DEF Next, RunAgent

(***************************************************************************)
(* What the machine takes.                                                 *)
(***************************************************************************)
\* What a frame m of the relay makes of the session it is for.
Refuses(m) == m.t = "wopen" /\ UNCHANGED session /\ up' = Reply(<<Plain("werr", m.p)>>)
Accepts(m) == /\ m.t = "wopen" /\ up' = Reply(<<Plain("wopened", m.p)>>)
              /\ session'[m.p].stage = "pairing" /\ session'[m.p].over = session[m.p].over
IsLeft(m)  == m.t = "wclose" /\ UNCHANGED up /\ session'[m.p] = NoSession
Hears(m)   == /\ m.t = "msg"
              /\ session'[m.p].over = session[m.p].over
              /\ session'[m.p].stage = "none" <=> session[m.p].stage = "none"
              /\ \/ UNCHANGED up
                 \/ session[m.p].stage # "none" /\ up' = Reply(<<Msg(m.p, "answer", FALSE)>>)
Ends(m)    == /\ m.t = "msg" /\ up' = Reply(<<Plain("wclose", m.p)>>)
              /\ session[m.p].stage # "none" /\ session'[m.p] = NoSession

LEMMA NoSessionIs ==
  /\ {"stage", "said", "credit", "over"} \subseteq DOMAIN NoSession
  /\ NoSession.stage = "none" /\ ~NoSession.over
  BY DEF NoSession

LEMMA EndIs ==
  ASSUME SessionTyped, NEW p \in Phones, EndSession(p)
  PROVE  SessionTyped' /\ session'[p] = NoSession /\ \A q \in Phones \ {p} : session'[q] = session[q]
  BY NoSessionIs DEF SessionTyped, HasFields, EndSession

LEMMA Takes ==
  ASSUME Typed, SessionTyped, MachineReads
  PROVE  \E m \in Frame :
           /\ mlink \in Links /\ down[mlink] # <<>> /\ m = Head(down[mlink]) /\ m.p \in Phones
           /\ down' = [down EXCEPT ![mlink] = Tail(@)]
           /\ SessionTyped' /\ \A q \in Phones \ {m.p} : session'[q] = session[q]
           /\ Refuses(m) \/ Accepts(m) \/ IsLeft(m) \/ Hears(m) \/ Ends(m)
<1> DEFINE m == Head(down[mlink])
<1>1. mlink \in Links /\ down[mlink] \in Seq(Frame) /\ down[mlink] # <<>>
  BY DEF MachineReads, Typed, LinksTyped, DownTyped
<1>2. m \in Frame /\ m.p \in Phones
  <2>1. m \in Frame
    BY <1>1
  <2> QED BY <2>1 DEF Frame
<1>3. \/ m.t = "wopen" /\ OpenSession(m.p, m.ours)
      \/ m.t = "wclose" /\ EndSession(m.p) /\ UNCHANGED up
      \/ m.t = "msg" /\ session[m.p].stage = "none" /\ UNCHANGED <<session, up>>
      \/ m.t = "msg" /\ session[m.p].stage = "pairing" /\ Handshake(m.p)
      \/ m.t = "msg" /\ session[m.p].stage = "open" /\ Receive(m.p, m.what)
  BY DEF MachineReads
<1>4. down' = [down EXCEPT ![mlink] = Tail(@)]
  BY DEF MachineReads
<1> HIDE DEF m
<1> DEFINE Goal == /\ SessionTyped' /\ \A q \in Phones \ {m.p} : session'[q] = session[q]
                   /\ Refuses(m) \/ Accepts(m) \/ IsLeft(m) \/ Hears(m) \/ Ends(m)
<1>5. ASSUME m.t = "wopen", OpenSession(m.p, m.ours) PROVE Goal
  BY <1>2, <1>5 DEF OpenSession, Refuses, Accepts, SessionTyped, HasFields
<1>6. ASSUME m.t = "wclose", EndSession(m.p), UNCHANGED up PROVE Goal
  BY <1>2, <1>6, EndIs DEF IsLeft
<1>7. ASSUME m.t = "msg", UNCHANGED <<session, up>> PROVE Goal
  BY <1>2, <1>7 DEF Hears, SessionTyped
<1>8. ASSUME m.t = "msg", session[m.p].stage # "none",
             EndSession(m.p), up' = Reply(<<Plain("wclose", m.p)>>)
      PROVE  Goal
  BY <1>2, <1>8, EndIs DEF Ends
<1>9. ASSUME m.t = "msg", session[m.p].stage = "pairing", Handshake(m.p) PROVE Goal
  <2>1. CASE /\ session' = [session EXCEPT ![m.p].stage = "open"]
             /\ up' = Reply(<<Msg(m.p, "answer", FALSE)>>)
    BY <1>2, <1>9, <2>1 DEF Hears, SessionTyped, HasFields
  <2> QED BY <1>8, <1>9, <2>1 DEF Handshake
<1>10. ASSUME m.t = "msg", session[m.p].stage = "open", Receive(m.p, m.what) PROVE Goal
  <2>1. CASE UNCHANGED up /\ \E c : session' = [session EXCEPT ![m.p].credit = c]
    BY <1>2, <1>10, <2>1 DEF Hears, SessionTyped, HasFields
  <2>2. \/ UNCHANGED <<session, up>>
        \/ UNCHANGED up /\ \E c : session' = [session EXCEPT ![m.p].credit = c]
        \/ EndSession(m.p) /\ up' = Reply(<<Plain("wclose", m.p)>>)
    BY <1>10 DEF Receive
  <2> QED BY <1>7, <1>8, <1>10, <2>1, <2>2
<1>11. Goal
  BY <1>3, <1>5, <1>6, <1>7, <1>8, <1>9, <1>10
<1> HIDE DEF Goal
<1>12. mlink \in Links /\ down[mlink] # <<>> /\ m = Head(down[mlink])
  BY <1>1 DEF m
<1> QED BY <1>2, <1>4, <1>11, <1>12 DEF Goal

\* What becomes of a session without a frame for it.
LEMMA SessionMoves ==
  ASSUME SessionTyped, NEW p \in Phones, Pump(p) \/ Finish(p) \/ Recheck(p)
  PROVE  /\ SessionTyped' /\ session[p].stage # "none"
         /\ \A q \in Phones \ {p} : session'[q] = session[q]
         /\ \/ /\ Pump(p) /\ up' = Reply(<<Msg(p, "data", FALSE)>>)
               /\ session'[p].stage = session[p].stage /\ session'[p].over = session[p].over
            \/ /\ up' = Reply(<<Plain("wclose", p)>>)
               /\ \/ session'[p].stage = session[p].stage /\ session'[p].over
                  \/ session'[p] = NoSession
<1>1. CASE Pump(p)
  BY <1>1 DEF Pump, SessionTyped, HasFields
<1>2. CASE Finish(p)
  BY <1>2 DEF Finish, SessionTyped, HasFields
<1>3. CASE Recheck(p)
  BY <1>3, EndIs DEF Recheck
<1> QED BY <1>1, <1>2, <1>3

(***************************************************************************)
(* Links and places are kept.                                              *)
(***************************************************************************)
LEMMA KnownNext == ASSUME Typed, Known, [Next]_vars PROVE Known'
<1>1. CASE UNCHANGED <<reg, run, broken, mlink>>
  <2>1. \A p \in Phones : call'[p].link = call[p].link \/ (reg # 0 /\ call'[p].link = reg)
    BY CallMoves DEF Knock
  <2> QED BY <1>1, <2>1 DEF Known
<1>2. CASE Lose
  BY <1>2 DEF Lose, relay, sockets, Known
<1>3. ASSUME NEW k \in Links, Dial(k) PROVE Known'
  <2>1. UNCHANGED call /\ \A j \in Links : run'[j] = "none" => run[j] = "none"
    BY <1>3 DEF Dial, Typed, LinksTyped
  <2>2. reg' = k /\ mlink' = k /\ run'[k] = "up"
    BY <1>3 DEF Dial, Typed, LinksTyped
  <2> QED BY <2>1, <2>2 DEF Known
<1>4. ASSUME NEW k \in Links, Break(k) PROVE Known'
  BY <1>4 DEF Break, relay, machine, Known
<1>5. ASSUME NEW k \in Links, Stop(k) \/ Unregister(k) \/ Drain(k) PROVE Known'
  <2>1. UNCHANGED <<call, mlink, broken>> /\ (reg' = reg \/ reg' = 0)
    BY <1>5 DEF Stop, Unregister, Drain, machine, sockets
  <2>2. \E s \in {"leaving", "gone", "drained"} : run' = [run EXCEPT ![k] = s]
    BY <1>5 DEF Stop, Unregister, Drain
  <2>3. run[k] # "none" /\ (run[k] # "up" \/ k \in broken)
    BY <1>5 DEF Stop, Unregister, Drain
  <2>4. \A j \in Links : (run'[j] = "none" <=> run[j] = "none") /\ (j # k => run'[j] = run[j])
    BY <2>2, <2>3 DEF Typed, LinksTyped
  <2>5. reg \in {0} \cup Links /\ mlink \in {0} \cup Links
    BY DEF Typed, LinksTyped
  <2> QED BY <2>1, <2>3, <2>4, <2>5 DEF Known
<1> QED BY <1>1, <1>2, <1>3, <1>4, <1>5, LinksStay

LEMMA SessionTypedNext == ASSUME Typed, SessionTyped, [Next]_vars PROVE SessionTyped'
<1>1. CASE UNCHANGED session
  BY <1>1 DEF SessionTyped
<1>2. CASE Lose
  BY <1>2, NoSessionIs DEF Lose, SessionTyped, HasFields
<1> QED BY <1>1, <1>2, SessionsStay, Takes, SessionMoves

LEMMA NotYetNext ==
  ASSUME Typed, [Next]_vars, NEW q \in Phones, NotYet(q)
  PROVE  NotYet(q)'
<1>1. Join(q) => Serving(q)'
  BY DEF Join, Stage, Serving, Typed, CallTyped, HasFields
<1> QED BY <1>1, CallMoves, BridgeStays DEF NotYet

\* A session is of the link its phone called on.
LEMMA LinkedNext ==
  ASSUME Typed, SessionTyped, [Next]_vars, NEW q \in Phones, Linked(q), \A p \in Phones : Framed(p)
  PROVE  Linked(q)'
<1>1. session[q].stage # "none" => call'[q].link = call[q].link /\ Serving(q)'
  BY CallMoves DEF Linked
<1>2. CASE UNCHANGED session
  <2>1. session[q].stage # "none" => mlink' = mlink \/ Lose
    <3>1. ASSUME NEW k \in Links, Dial(k), session[q].stage # "none" PROVE FALSE
      BY <3>1 DEF Dial, Linked
    <3> QED BY <3>1, LinksStay DEF Break, Stop, Unregister, Drain, machine, sockets
  <2>2. Lose => session'[q].stage = "none"
    BY NoSessionIs DEF Lose
  <2> QED BY <1>1, <1>2, <2>1, <2>2 DEF Linked
<1>3. CASE Lose
  <2>1. session'[q] = NoSession
    BY <1>3 DEF Lose
  <2> QED BY <2>1, NoSessionIs DEF Linked
<1>4. CASE MachineReads
  <2>1. UNCHANGED <<mlink, call>>
    BY <1>4 DEF MachineReads
  <2>2. PICK m \in Frame :
           /\ mlink \in Links /\ down[mlink] # <<>> /\ m = Head(down[mlink]) /\ m.p \in Phones
           /\ \A p \in Phones \ {m.p} : session'[p] = session[p]
           /\ Refuses(m) \/ Accepts(m) \/ IsLeft(m) \/ Hears(m) \/ Ends(m)
    BY <1>4, Takes
  <2>3. CASE session'[q] = session[q]
    BY <2>1, <2>3 DEF Linked, Serving
  <2>4. CASE session'[q] = NoSession
    BY <2>4, NoSessionIs DEF Linked
  <2>5. CASE q = m.p
    <3>1. down[mlink] \in Seq(Frame)
      BY <2>2 DEF Typed, DownTyped
    <3>2. ~Silent(down[mlink], q)
      BY <2>2, <2>5, <3>1, HeadSpeaks
    <3>3. Serving(q) /\ call[q].link = mlink /\ mlink # 0
      BY <2>2, <3>2, LinksAreNumbers DEF Framed
    <3>4. CASE Refuses(m)
      BY <2>1, <3>4 DEF Refuses, Linked, Serving
    <3>5. CASE Accepts(m) \/ Hears(m)
      BY <2>1, <2>5, <3>3, <3>5 DEF Accepts, Hears, Linked, Serving
    <3> QED BY <2>2, <2>4, <2>5, <3>4, <3>5 DEF IsLeft, Ends
  <2> QED BY <2>2, <2>3, <2>5
<1>5. ASSUME NEW p \in Phones, Pump(p) \/ Finish(p) \/ Recheck(p) PROVE Linked(q)'
  <2>1. UNCHANGED <<mlink, call>>
    BY <1>5 DEF Pump, Finish, Recheck, MachineUnchanged, relay
  <2>2. \/ session'[q] = session[q] \/ session'[q] = NoSession
        \/ session'[q].stage = session[q].stage /\ session[q].stage # "none"
    BY <1>5, SessionMoves
  <2> QED BY <2>1, <2>2, NoSessionIs DEF Linked, Serving
<1> QED BY <1>2, <1>3, <1>4, <1>5, SessionsStay

(***************************************************************************)
(* What is put in a channel is of the phone that called on its link.       *)
(***************************************************************************)
LEMMA FrameIs ==
  ASSUME NEW p
  PROVE  /\ \A t : Plain(t, p).p = p /\ Plain(t, p).t = t
         /\ \A ours : Wopen(p, ours).p = p /\ Wopen(p, ours).t = "wopen"
         /\ \A what, pay : Msg(p, what, pay).p = p /\ Msg(p, what, pay).t = "msg"
  BY DEF Plain, Wopen, Msg

LEMMA FlushedIs ==
  ASSUME BridgeTyped, NEW p \in Phones
  PROVE  \A i \in 1 .. Len(Flushed(p)) : Flushed(p)[i].p = p /\ Flushed(p)[i].t = "msg"
<1>1. Flushed(p) \in Seq(Frame)
  BY PendingType
<1>2. 1 .. Len(Flushed(p)) = DOMAIN Flushed(p) /\ DOMAIN Flushed(p) = DOMAIN bridge[p].pending
  BY <1>1 DEF Flushed
<1>3. \A i \in DOMAIN bridge[p].pending : Flushed(p)[i] = Msg(p, bridge[p].pending[i], FALSE)
  BY DEF Flushed
<1> SUFFICES ASSUME NEW i \in 1 .. Len(Flushed(p))
             PROVE  Flushed(p)[i].p = p /\ Flushed(p)[i].t = "msg"
  OBVIOUS
<1>4. Flushed(p)[i] = Msg(p, bridge[p].pending[i], FALSE)
  BY <1>2, <1>3
<1> QED BY <1>4 DEF Msg, Plain

\* Outbox and Reply, channel by channel.
LEMMA Sent ==
  ASSUME Typed, NEW k, NEW ms \in Seq(Frame), down' = Outbox(k, ms), NEW j \in Links
  PROVE  /\ down'[j] = down[j] \/ (j = k /\ down'[j] = down[j] \o ms)
         /\ j = k /\ run[k] = "up" => down'[j] = down[j] \o ms
  BY DEF Outbox, Typed, DownTyped

LEMMA Replied ==
  ASSUME Typed, NEW f, up' = Reply(<<f>>), NEW j \in Links
  PROVE  /\ up'[j] = up[j] \/ (j = mlink /\ up'[j] = up[j] \o <<f>>)
         /\ j = mlink /\ run[mlink] = "up" => up'[j] = up[j] \o <<f>>
  BY DEF Reply, Typed, UpTyped

\* Phone q is first heard of in a channel only once the relay serves it there.
News(q, r, k) == (\A i \in 1 .. Len(r) : r[i].p # q) \/ (call'[q].link = k /\ Serving(q)')
Heard(q) == \A k \in Links : /\ Silent(down[k], q) => News(q, down'[k], k)
                             /\ Silent(up[k], q) => News(q, up'[k], k)
HeardDown(q) == \A k \in Links : Silent(down[k], q) => News(q, down'[k], k)
HeardUp(q)   == \A k \in Links : Silent(up[k], q) => News(q, up'[k], k)

LEMMA NothingNew ==
  ASSUME NEW q
  PROVE  (UNCHANGED down => HeardDown(q)) /\ (UNCHANGED up => HeardUp(q))
  BY DEF HeardDown, HeardUp, News, Silent

LEMMA SentIsHeard ==
  ASSUME Typed, NEW p, NEW k, NEW ms \in Seq(Frame), \A i \in 1 .. Len(ms) : ms[i].p = p,
         down' = Outbox(k, ms), call'[p].link = k /\ Serving(p)', NEW q
  PROVE  HeardDown(q)
<1> SUFFICES ASSUME NEW j \in Links, Silent(down[j], q) PROVE News(q, down'[j], j)
  BY DEF HeardDown
<1>1. CASE down'[j] = down[j]
  BY <1>1 DEF News, Silent
<1>2. CASE j = k /\ down'[j] = down[j] \o ms
  <2>1. CASE q = p
    BY <1>2, <2>1 DEF News
  <2>2. CASE q # p
    <3>1. Silent(ms, q) /\ down[j] \in Seq(Frame)
      BY <2>2 DEF Silent, Typed, DownTyped
    <3>2. Silent(down'[j], q)
      BY <1>2, <3>1, SilentStays
    <3> QED BY <3>2 DEF News, Silent
  <2> QED BY <2>1, <2>2
<1> QED BY <1>1, <1>2, Sent

LEMMA RepliedIsHeard ==
  ASSUME Typed, NEW f \in FromMachine, up' = Reply(<<f>>),
         call'[f.p].link = mlink /\ Serving(f.p)', NEW q
  PROVE  HeardUp(q)
<1> SUFFICES ASSUME NEW j \in Links, Silent(up[j], q) PROVE News(q, up'[j], j)
  BY DEF HeardUp
<1>1. CASE up'[j] = up[j]
  BY <1>1 DEF News, Silent
<1>2. CASE j = mlink /\ up'[j] = up[j] \o <<f>>
  <2>1. CASE q = f.p
    BY <1>2, <2>1 DEF News
  <2>2. CASE q # f.p
    <3>1. Silent(<<f>>, q) /\ up[j] \in Seq(FromMachine) /\ <<f>> \in Seq(FromMachine)
      BY <2>2, OneHas, OneIsSeq DEF Typed, UpTyped
    <3>2. Silent(up'[j], q)
      BY <1>2, <3>1, SilentStays
    <3> QED BY <3>2 DEF News, Silent
  <2> QED BY <2>1, <2>2
<1> QED BY <1>1, <1>2, Replied

LEMMA OneOf ==
  ASSUME NEW f, NEW p, f.p = p PROVE \A i \in 1 .. Len(<<f>>) : <<f>>[i].p = p
  OBVIOUS

\* The loop that reads a phone tells the machine of it.
LEMMA ReadIsHeard ==
  ASSUME Typed, NEW p \in Phones, NEW what, Read(p, what), NEW q PROVE HeardDown(q) /\ UNCHANGED up
<1>0. UNCHANGED up
  BY DEF Read
<1>1. CASE UNCHANGED down
  BY <1>0, <1>1, NothingNew
<1>2. CASE Stage(p, "left") /\ down' = Outbox(call[p].link, <<Plain("wclose", p)>>)
  <2>1. call'[p].link = call[p].link /\ Serving(p)'
    BY <1>2 DEF Stage, Serving, Typed, CallTyped, HasFields
  <2>2. \A i \in 1 .. Len(<<Plain("wclose", p)>>) : <<Plain("wclose", p)>>[i].p = p
    BY FrameIs, OneOf
  <2>3. <<Plain("wclose", p)>> \in Seq(Frame)
    BY OneFrame
  <2>4. HeardDown(q)
    BY <1>2, <2>1, <2>2, <2>3, SentIsHeard
  <2> QED BY <1>0, <2>4
<1> QED BY <1>1, <1>2 DEF Read

LEMMA CallIsHeard ==
  ASSUME Typed, NEW p \in Phones, RunPhone(p), NEW q PROVE HeardDown(q) /\ UNCHANGED up
<1>1. UNCHANGED up
  BY DEF RunPhone, Join, Forward, CutSeen, StreamEnds, Leave, sockets
<1>2. CASE UNCHANGED down
  BY <1>1, <1>2, NothingNew
<1>3. ASSUME NEW f, f.p = p, <<f>> \in Seq(Frame), Stage(p, "on") \/ Stage(p, "done"),
             down' = Outbox(call[p].link, <<f>>)
      PROVE  HeardDown(q)
  <2>1. ASSUME NEW s, Stage(p, s), s \notin {"away", "upgrading"}
        PROVE  call'[p].link = call[p].link /\ Serving(p)'
    BY <2>1 DEF Stage, Serving, Typed, CallTyped, HasFields
  <2>2. \A i \in 1 .. Len(<<f>>) : <<f>>[i].p = p
    BY <1>3, OneOf
  <2> QED BY <1>3, <2>1, <2>2, SentIsHeard
<1>4. CASE Join(p)
  <2>1. PICK ours \in BOOLEAN : down' = Outbox(call[p].link, <<Wopen(p, ours)>>)
    BY <1>4 DEF Join
  <2>2. <<Wopen(p, ours)>> \in Seq(Frame) /\ Wopen(p, ours).p = p
    BY OneFrame, FrameIs
  <2>3. Stage(p, "on")
    BY <1>4 DEF Join
  <2>4. HeardDown(q)
    BY <1>3, <2>1, <2>2, <2>3
  <2> QED BY <1>1, <2>4
<1>5. CASE Forward(p)
  <2>1. <<Msg(p, call[p].held, TRUE)>> \in Seq(Frame)
    BY OneFrame, OneIsSeq DEF Typed, CallTyped
  <2>2. Stage(p, "on") /\ down' = Outbox(call[p].link, <<Msg(p, call[p].held, TRUE)>>)
    BY <1>5 DEF Forward
  <2>3. Msg(p, call[p].held, TRUE).p = p
    BY DEF Msg, Plain
  <2>4. HeardDown(q)
    BY <1>3, <2>1, <2>2, <2>3
  <2> QED BY <1>1, <2>4
<1>6. CASE Leave(p)
  <2>1. CASE bridge[p].on
    <3>1. <<Plain("wclose", p)>> \in Seq(Frame) /\ Plain("wclose", p).p = p
      BY OneFrame, FrameIs
    <3>2. Stage(p, "done") /\ down' = Outbox(call[p].link, <<Plain("wclose", p)>>)
      BY <1>6, <2>1 DEF Leave
    <3>3. HeardDown(q)
      BY <1>3, <3>1, <3>2
    <3> QED BY <1>1, <3>3
  <2> QED BY <1>2, <1>6, <2>1 DEF Leave
<1> QED BY <1>2, <1>4, <1>5, <1>6 DEF RunPhone, CutSeen, StreamEnds, sockets

LEMMA AgentIsHeard ==
  ASSUME Typed, NEW k \in Links, RelayReads(k), \A p \in Phones : Framed(p), NEW q
  PROVE  Heard(q)
<1>1. up[k] \in Seq(FromMachine) /\ up[k] # <<>> /\ up' = [up EXCEPT ![k] = Tail(@)]
  BY DEF RelayReads, Typed, UpTyped
<1>0. PICK m \in FromMachine : m = Head(up[k])
  BY <1>1
<1>2. m.p \in Phones
  BY DEF FromMachine, Frame
<1>3. call'[m.p].link = k /\ Serving(m.p)'
  <2>1. ~Silent(up[k], m.p)
    BY <1>0, <1>1, HeadSpeaks
  <2>2. UNCHANGED call
    BY DEF RelayReads
  <2> QED BY <1>2, <2>1, <2>2 DEF Framed, Serving
<1>4. HeardUp(q)
  <2> SUFFICES ASSUME NEW j \in Links, Silent(up[j], q) PROVE News(q, up'[j], j)
    BY DEF HeardUp
  <2>1. CASE j = k
    <3>1. up'[k] = Tail(up[k])
      BY <1>1 DEF Typed, UpTyped
    <3>2. Silent(up'[k], q)
      BY <1>1, <2>1, <3>1, SilentStays
    <3> QED BY <2>1, <3>2 DEF News, Silent
  <2>2. CASE j # k
    BY <1>1, <2>2 DEF News, Silent
  <2> QED BY <2>1, <2>2
<1>5. \/ UNCHANGED down
      \/ \E ms \in Seq(Frame) : down' = Outbox(k, ms) /\ \A i \in 1 .. Len(ms) : ms[i].p = m.p
  <2>1. <<Plain("wclose", m.p)>> \in Seq(Frame)
    BY <1>2, OneFrame
  <2>2. \A i \in 1 .. Len(<<Plain("wclose", m.p)>>) : <<Plain("wclose", m.p)>>[i].p = m.p
    BY FrameIs, OneOf
  <2>3. Flushed(m.p) \in Seq(Frame) /\ \A i \in 1 .. Len(Flushed(m.p)) : Flushed(m.p)[i].p = m.p
    BY <1>2, PendingType, FlushedIs DEF Typed
  <2>4. Wopened(k, m.p) \/ ClosePhone(m.p) \/ ToPhone(k, m.p, m.what)
    BY <1>0 DEF RelayReads
  <2>5. \/ UNCHANGED down \/ down' = Outbox(k, Flushed(m.p))
        \/ down' = Outbox(k, <<Plain("wclose", m.p)>>)
    BY <2>4 DEF Wopened, ClosePhone, ToPhone
  <2> QED BY <2>1, <2>2, <2>3, <2>5
<1>6. HeardDown(q)
  <2>1. CASE UNCHANGED down
    BY <2>1, NothingNew
  <2>2. ASSUME NEW ms \in Seq(Frame), down' = Outbox(k, ms), \A i \in 1 .. Len(ms) : ms[i].p = m.p
        PROVE  HeardDown(q)
    BY <1>3, <2>2, SentIsHeard
  <2> QED BY <1>5, <2>1, <2>2
<1> QED BY <1>4, <1>6 DEF Heard, HeardUp, HeardDown

LEMMA MachineIsHeard ==
  ASSUME Typed, SessionTyped, MachineReads, \A p \in Phones : Framed(p), NEW q
  PROVE  Heard(q)
<1>1. PICK m \in Frame :
        /\ mlink \in Links /\ down[mlink] # <<>> /\ m = Head(down[mlink]) /\ m.p \in Phones
        /\ down' = [down EXCEPT ![mlink] = Tail(@)]
        /\ Refuses(m) \/ Accepts(m) \/ IsLeft(m) \/ Hears(m) \/ Ends(m)
  BY Takes
<1>2. down[mlink] \in Seq(Frame)
  BY <1>1 DEF Typed, DownTyped
<1>3. call'[m.p].link = mlink /\ Serving(m.p)'
  <2>1. ~Silent(down[mlink], m.p)
    BY <1>1, <1>2, HeadSpeaks
  <2>2. UNCHANGED call
    BY DEF MachineReads
  <2> QED BY <1>1, <2>1, <2>2 DEF Framed, Serving
<1>4. HeardDown(q)
  <2> SUFFICES ASSUME NEW j \in Links, Silent(down[j], q) PROVE News(q, down'[j], j)
    BY DEF HeardDown
  <2>1. CASE j = mlink
    <3>1. down'[mlink] = Tail(down[mlink])
      BY <1>1 DEF Typed, DownTyped
    <3>2. Silent(down'[mlink], q)
      BY <1>1, <1>2, <2>1, <3>1, SilentStays
    <3> QED BY <2>1, <3>2 DEF News, Silent
  <2>2. CASE j # mlink
    BY <1>1, <2>2 DEF News, Silent
  <2> QED BY <2>1, <2>2
<1>5. UNCHANGED up \/ \E f \in FromMachine : f.p = m.p /\ up' = Reply(<<f>>)
  <2>1. \A t \in {"werr", "wopened", "wclose"} : Plain(t, m.p) \in FromMachine
    BY <1>1, PlainType DEF Frames
  <2>2. Msg(m.p, "answer", FALSE) \in FromMachine
    BY <1>1, MsgType
  <2>3. /\ \A t : Plain(t, m.p).p = m.p
        /\ Msg(m.p, "answer", FALSE).p = m.p
    BY DEF Msg, Plain
  <2>4. \/ UNCHANGED up
        \/ \E t \in {"werr", "wopened", "wclose"} : up' = Reply(<<Plain(t, m.p)>>)
        \/ up' = Reply(<<Msg(m.p, "answer", FALSE)>>)
    BY <1>1 DEF Refuses, Accepts, IsLeft, Hears, Ends
  <2> QED BY <2>1, <2>2, <2>3, <2>4
<1>6. HeardUp(q)
  BY <1>3, <1>5, NothingNew, RepliedIsHeard
<1> QED BY <1>4, <1>6 DEF Heard, HeardUp, HeardDown

LEMMA SessionIsHeard ==
  ASSUME Typed, SessionTyped, NEW p \in Phones, Pump(p) \/ Finish(p) \/ Recheck(p), Linked(p), NEW q
  PROVE  Heard(q)
<1>1. UNCHANGED <<down, call>>
  BY DEF Pump, Finish, Recheck, MachineUnchanged, relay
<1>2. call'[p].link = mlink /\ Serving(p)'
  BY <1>1, SessionMoves DEF Linked, Serving
<1>3. \E f \in FromMachine : f.p = p /\ up' = Reply(<<f>>)
  <2>1. Plain("wclose", p) \in FromMachine /\ Msg(p, "data", FALSE) \in FromMachine
    BY PlainType, MsgType DEF Frames
  <2>2. Plain("wclose", p).p = p /\ Msg(p, "data", FALSE).p = p
    BY DEF Msg, Plain
  <2> QED BY <2>1, <2>2, SessionMoves
<1>4. HeardUp(q)
  BY <1>2, <1>3, RepliedIsHeard
<1> QED BY <1>1, <1>4, NothingNew DEF Heard, HeardUp, HeardDown

LEMMA FramedNext ==
  ASSUME Typed, SessionTyped, [Next]_vars, NEW q \in Phones,
         \A p \in Phones : Framed(p) /\ Linked(p)
  PROVE  Framed(q)'
<1>1. ASSUME UNCHANGED <<down, up>> PROVE Heard(q)
  BY <1>1, NothingNew DEF Heard, HeardUp, HeardDown
<1>2. ASSUME NEW p \in Phones, PhoneSteps(p) \/ RunPhone(p) PROVE Heard(q)
  <2>1. \/ UNCHANGED <<down, up>> \/ RunPhone(p) \/ \E what : Read(p, what)
    BY <1>2 DEF PhoneSteps, SayHello, SayEarly, Request, Acknowledge, PhoneReads, HangUp,
       WriterUnchanged, sockets
  <2> QED BY <1>1, <2>1, NothingNew, ReadIsHeard, CallIsHeard DEF Heard, HeardUp, HeardDown
<1>3. ASSUME NEW p \in Phones, Knock(p) \/ Writer(p) \/ Unpair(p) PROVE Heard(q)
  BY <1>1, <1>3 DEF Knock, Writer, CutWriter, WriterTakes, InboxCloses, WriterFails,
     WriterUnchanged, Unpair, sockets
<1>4. ASSUME NEW k \in Links, Dial(k) \/ Break(k) \/ Unregister(k) \/ Drain(k) PROVE Heard(q)
  BY <1>1, <1>4 DEF Dial, Break, Unregister, Drain, sockets
<1>5. ASSUME NEW k \in Links, Stop(k) PROVE Heard(q)
  <2>1. \A j \in Links : /\ down'[j] = <<>> \/ down'[j] = down[j]
                         /\ up'[j] = <<>> \/ up'[j] = up[j]
    BY <1>5 DEF Stop, Typed, DownTyped, UpTyped
  <2>2. Len(<<>>) = 0 /\ 1 .. 0 = {}
    OBVIOUS
  <2> QED BY <2>1, <2>2 DEF Heard, News, Silent
<1>6. ASSUME Lose \/ UNCHANGED vars PROVE Heard(q)
  BY <1>1, <1>6 DEF Lose, vars, sockets
<1>7. Heard(q)
  BY <1>2, <1>3, <1>4, <1>5, <1>6, AgentIsHeard, MachineIsHeard, SessionIsHeard DEF Next, RunAgent
<1>8. Serving(q) => Serving(q)' /\ call'[q].link = call[q].link
  BY CallMoves
<1> QED BY <1>7, <1>8 DEF Framed, Heard, News, Silent

(***************************************************************************)
(* The tunnels of one step.                                                *)
(***************************************************************************)
LEMMA NotServed ==
  ASSUME Typed', NEW q \in Phones, Framed(q)', Linked(q)', NotYet(q)', ~Serving(q)'
  PROVE  Agreed(q)'
<1> SUFFICES ASSUME Connected(q)'
             PROVE  Agree(down'[mlink'], up'[mlink'], bridge'[q], session'[q], q)
  BY DEF Agreed
<1>1. mlink' \in Links
  BY DEF Typed, LinksTyped, Connected
<1>2. Silent(down'[mlink'], q) /\ Silent(up'[mlink'], q)
  BY <1>1 DEF Framed, Silent
<1>3. session'[q].stage = "none" /\ ~bridge'[q].on
  BY DEF Linked, NotYet
<1>4. \A t : ~Has(down'[mlink'], t, q) /\ ~Has(up'[mlink'], t, q)
  BY <1>2, SilentHas
<1> QED BY <1>3, <1>4 DEF Agree, Live

\* The tunnel of a phone that is still connected agreed before.
LEMMA Before ==
  ASSUME Typed, Known, NEW q \in Phones, Agreed(q),
         mlink' = mlink, broken \subseteq broken', call'[q].link = call[q].link, Connected(q)'
  PROVE  /\ mlink \in Links /\ run[mlink] = "up" /\ call[q].link = mlink
         /\ Agree(down[mlink], up[mlink], bridge[q], session[q], q)
         /\ down[mlink] \in Seq(Frame) /\ up[mlink] \in Seq(FromMachine)
<1>1. mlink \in Links /\ Connected(q)
  BY DEF Connected, Typed, LinksTyped
<1> QED BY <1>1 DEF Connected, Known, Agreed, Typed, DownTyped, UpTyped

LEMMA SameAgrees ==
  ASSUME Typed, Known, NEW q \in Phones, Agreed(q),
         mlink' = mlink, broken \subseteq broken', call'[q].link = call[q].link,
         \A j \in Links : j \in broken \/ (down'[j] = down[j] /\ up'[j] = up[j]),
         bridge'[q].on <=> bridge[q].on, bridge'[q].on => (bridge'[q].opened <=> bridge[q].opened),
         session'[q] = session[q]
  PROVE  Agreed(q)'
<1> SUFFICES ASSUME Connected(q)'
             PROVE  Agree(down'[mlink'], up'[mlink'], bridge'[q], session'[q], q)
  BY DEF Agreed
<1>1. mlink \in Links /\ Agree(down[mlink], up[mlink], bridge[q], session[q], q)
  BY Before
<1>2. mlink \notin broken
  BY DEF Connected
<1>3. Agree(down[mlink], up[mlink], bridge'[q], session[q], q)
  <2>1. Keeps(down[mlink], down[mlink], q) /\ Keeps(up[mlink], up[mlink], q)
    BY DEF Keeps
  <2> QED BY <1>1, <2>1, Stays
<1> QED BY <1>1, <1>2, <1>3

LEMMA SentThere ==
  ASSUME Typed, NEW ms, mlink \in Links, run[mlink] = "up", down' = Outbox(mlink, ms)
  PROVE  down'[mlink] = down[mlink] \o ms
  BY DEF Outbox, Typed, DownTyped

LEMMA SentIsKept ==
  ASSUME Typed, NEW k, NEW ms \in Seq(Frame), NEW q,
         \A i \in 1 .. Len(ms) : ms[i].p # q \/ ms[i].t = "msg",
         down' = Outbox(k, ms), NEW j \in Links
  PROVE  Keeps(down[j], down'[j], q)
<1>1. down[j] \in Seq(Frame)
  BY DEF Typed, DownTyped
<1>2. \A t : t # "msg" => ~Has(ms, t, q)
  BY DEF Has, Is
<1>3. Keeps(down[j], down[j] \o ms, q) /\ Keeps(down[j], down[j], q)
  BY <1>1, <1>2, SentKeeps DEF Keeps
<1> QED BY <1>3, Sent

LEMMA RepliedIsKept ==
  ASSUME Typed, NEW f \in FromMachine, NEW q, f.p # q \/ f.t = "msg",
         up' = Reply(<<f>>), NEW j \in Links
  PROVE  /\ Keeps(up[j], up'[j], q)
         /\ f.p # q /\ Silent(up[j], q) => Silent(up'[j], q)
<1>1. up[j] \in Seq(FromMachine) /\ <<f>> \in Seq(FromMachine)
  BY OneIsSeq DEF Typed, UpTyped
<1>2. \A t : t # "msg" => ~Has(<<f>>, t, q)
  BY OneHas DEF Is
<1>3. Keeps(up[j], up[j] \o <<f>>, q) /\ Keeps(up[j], up[j], q)
  BY <1>1, <1>2, SentKeeps DEF Keeps
<1>4. f.p # q => Silent(<<f>>, q)
  BY OneHas
<1>5. f.p # q /\ Silent(up[j], q) => Silent(up[j] \o <<f>>, q)
  BY <1>1, <1>4, SilentStays
<1> QED BY <1>3, <1>5, Replied

\* A loop that reads a phone tells the machine that its bridge is gone.
LEMMA DropAgrees ==
  ASSUME Typed, Known, NEW q \in Phones, Agreed(q), NEW p \in Phones, bridge[p].on,
         bridge' = [bridge EXCEPT ![p] = NoBridge],
         down' = Outbox(call[p].link, <<Plain("wclose", p)>>),
         UNCHANGED <<up, mlink, broken, session>>, call'[q].link = call[q].link
  PROVE  Agreed(q)'
<1> SUFFICES ASSUME Connected(q)'
             PROVE  Agree(down'[mlink], up[mlink], bridge'[q], session[q], q)
  BY DEF Agreed
<1>1. /\ mlink \in Links /\ run[mlink] = "up" /\ call[q].link = mlink
      /\ Agree(down[mlink], up[mlink], bridge[q], session[q], q)
      /\ down[mlink] \in Seq(Frame)
  BY Before
<1>2. <<Plain("wclose", p)>> \in Seq(Frame) /\ Plain("wclose", p) \in Frame
  BY OneFrame, PlainType DEF Frames, FromMachine
<1>3. CASE q = p
  <2>0. down' = Outbox(mlink, <<Plain("wclose", p)>>)
    BY <1>1, <1>3
  <2>1. down'[mlink] = down[mlink] \o <<Plain("wclose", p)>>
    BY <1>1, <2>0, SentThere
  <2>2. ~bridge'[q].on
    BY <1>3, NoBridgeType DEF Typed, BridgeTyped, HasFields
  <2>3. Is(Plain("wclose", p), "wclose", q)
    BY <1>3, FrameIs DEF Is
  <2>4. Keeps(up[mlink], up[mlink], q)
    BY DEF Keeps
  <2>5. Agree(down[mlink] \o <<Plain("wclose", p)>>, up[mlink], bridge'[q], session[q], q)
    BY <1>1, <1>2, <2>2, <2>3, <2>4, Drops
  <2> QED BY <2>1, <2>5
<1>4. CASE q # p
  <2>1. bridge'[q] = bridge[q]
    BY <1>4 DEF Typed, BridgeTyped, HasFields
  <2>2. \A i \in 1 .. Len(<<Plain("wclose", p)>>) : <<Plain("wclose", p)>>[i].p # q
    BY <1>4, FrameIs, OneOf
  <2>3. Keeps(down[mlink], down'[mlink], q) /\ Keeps(up[mlink], up[mlink], q)
    BY <1>1, <1>2, <2>2, SentIsKept DEF Keeps
  <2> QED BY <1>1, <2>1, <2>3, Stays
<1> QED BY <1>3, <1>4

LEMMA ReadAgrees ==
  ASSUME Typed, Known, NEW q \in Phones, Agreed(q), NEW p \in Phones, NEW what, Read(p, what),
         session' = session, call'[q].link = call[q].link
  PROVE  Agreed(q)'
<1>1. UNCHANGED <<up, mlink, broken>>
  BY DEF Read, machine
<1>2. CASE UNCHANGED <<bridge, down>>
  BY <1>1, <1>2, SameAgrees
<1>3. CASE bridge' = [bridge EXCEPT ![p].pending = Append(@, what)] /\ UNCHANGED down
  <2>1. bridge'[q].on = bridge[q].on /\ bridge'[q].opened = bridge[q].opened
    BY <1>3 DEF Typed, BridgeTyped, HasFields
  <2> QED BY <1>1, <1>3, <2>1, SameAgrees
<1>4. CASE /\ bridge[p].on /\ bridge' = [bridge EXCEPT ![p] = NoBridge]
           /\ down' = Outbox(call[p].link, <<Plain("wclose", p)>>)
  BY <1>1, <1>4, DropAgrees
<1> QED BY <1>2, <1>3, <1>4 DEF Read

\* Joining: the machine is told, and has nothing of the phone yet.
LEMMA JoinAgrees ==
  ASSUME Typed, Known, NEW q \in Phones, Agreed(q), NEW p \in Phones, Join(p),
         Framed(p), Linked(p), NotYet(p)
  PROVE  Agreed(q)'
<1>1. UNCHANGED <<up, mlink, broken, session>> /\ call'[q].link = call[q].link /\ ~Serving(p)
  BY DEF Join, Stage, machine, Serving, Typed, CallTyped, HasFields
<1>2. PICK ours \in BOOLEAN : down' = Outbox(call[p].link, <<Wopen(p, ours)>>)
  BY DEF Join
<1>3. <<Wopen(p, ours)>> \in Seq(Frame) /\ Wopen(p, ours) \in Frame
  <2>1. Wopen(p, ours) \in Frame
    BY DEF Wopen, Plain, Frame, Frames
  <2> QED BY <2>1, OneIsSeq
<1>4. Wopen(p, ours).p = p /\ Wopen(p, ours).t = "wopen"
  BY FrameIs
<1> DEFINE f == Wopen(p, ours)
<1> HIDE DEF f
<1> SUFFICES ASSUME Connected(q)'
             PROVE  Agree(down'[mlink], up[mlink], bridge'[q], session[q], q)
  BY <1>1 DEF Agreed
<1>5. /\ mlink \in Links /\ run[mlink] = "up" /\ call[q].link = mlink
      /\ Agree(down[mlink], up[mlink], bridge[q], session[q], q)
      /\ down[mlink] \in Seq(Frame)
  BY <1>1, Before
<1>6. CASE q = p
  <2>0. down' = Outbox(mlink, <<f>>)
    BY <1>2, <1>5, <1>6 DEF f
  <2>1. down'[mlink] = down[mlink] \o <<f>>
    BY <1>5, <2>0, SentThere
  <2>2. Silent(down[mlink], q) /\ Silent(up[mlink], q)
    BY <1>1, <1>5, <1>6 DEF Framed
  <2>3. session[q].stage = "none" /\ ~bridge[q].opened
    BY <1>1, <1>6 DEF Linked, NotYet
  <2>4. bridge'[q].on /\ ~bridge'[q].opened
    BY <1>6, <2>3 DEF Join, Typed, BridgeTyped, HasFields
  <2>5. f \in Frame /\ Is(f, "wopen", q)
    BY <1>3, <1>4, <1>6 DEF f, Is
  <2>6. Agree(down[mlink] \o <<f>>, up[mlink], bridge'[q], session[q], q)
    BY <1>5, <2>2, <2>3, <2>4, <2>5, Joins
  <2> QED BY <2>1, <2>6
<1>7. CASE q # p
  <2>1. bridge'[q] = bridge[q]
    BY <1>7 DEF Join, Typed, BridgeTyped, HasFields
  <2>2. \A i \in 1 .. Len(<<f>>) : <<f>>[i].p # q
    BY <1>4, <1>7, OneOf DEF f
  <2>3. Keeps(down[mlink], down'[mlink], q) /\ Keeps(up[mlink], up[mlink], q)
    BY <1>2, <1>3, <1>5, <2>2, SentIsKept DEF Keeps, f
  <2> QED BY <1>5, <2>1, <2>3, Stays
<1> QED BY <1>6, <1>7

LEMMA ForwardAgrees ==
  ASSUME Typed, Known, NEW q \in Phones, Agreed(q), NEW p \in Phones, Forward(p)
  PROVE  Agreed(q)'
<1>1. UNCHANGED <<up, mlink, broken, session, bridge>> /\ call'[q].link = call[q].link
  BY DEF Forward, Stage, machine, Typed, CallTyped, HasFields
<1> DEFINE f == Msg(p, call[p].held, TRUE)
<1>2. down' = Outbox(call[p].link, <<f>>)
  BY DEF Forward
<1>3. <<f>> \in Seq(Frame)
  BY OneFrame, OneIsSeq DEF Typed, CallTyped
<1>4. f.t = "msg"
  BY DEF Msg, Plain
<1> HIDE DEF f
<1> SUFFICES ASSUME Connected(q)'
             PROVE  Agree(down'[mlink], up[mlink], bridge[q], session[q], q)
  BY <1>1 DEF Agreed
<1>5. mlink \in Links /\ Agree(down[mlink], up[mlink], bridge[q], session[q], q)
  BY <1>1, Before
<1>6. \A i \in 1 .. Len(<<f>>) : <<f>>[i].t = "msg"
  BY <1>4
<1>7. Keeps(down[mlink], down'[mlink], q) /\ Keeps(up[mlink], up[mlink], q)
  BY <1>2, <1>3, <1>5, <1>6, SentIsKept DEF Keeps
<1> QED BY <1>5, <1>7, Stays

LEMMA LeaveAgrees ==
  ASSUME Typed, Known, NEW q \in Phones, Agreed(q), NEW p \in Phones, Leave(p)
  PROVE  Agreed(q)'
<1>1. UNCHANGED <<up, mlink, broken, session>> /\ call'[q].link = call[q].link
  BY DEF Leave, Stage, machine, Typed, CallTyped, HasFields
<1>2. bridge' = [bridge EXCEPT ![p] = NoBridge]
  BY DEF Leave
<1>3. CASE bridge[p].on
  <2>1. down' = Outbox(call[p].link, <<Plain("wclose", p)>>)
    BY <1>3 DEF Leave
  <2> QED BY <1>1, <1>2, <1>3, <2>1, DropAgrees
<1>4. CASE ~bridge[p].on
  <2>1. down' = down
    BY <1>4 DEF Leave
  <2>2. (bridge'[q].on <=> bridge[q].on) /\ (bridge'[q].on => bridge'[q] = bridge[q])
    BY <1>2, <1>4, NoBridgeType DEF Typed, BridgeTyped, HasFields
  <2> QED BY <1>1, <2>1, <2>2, SameAgrees
<1> QED BY <1>3, <1>4

\* A frame of the machine, read by run_agent.
LEMMA AgentAgrees ==
  ASSUME Typed, Known, NEW q \in Phones, Agreed(q), \A p \in Phones : Framed(p),
         NEW k \in Links, RelayReads(k)
  PROVE  Agreed(q)'
<1>1. /\ up[k] \in Seq(FromMachine) /\ up[k] # <<>> /\ run[k] = "up"
      /\ up' = [up EXCEPT ![k] = Tail(@)] /\ UNCHANGED <<call, mlink, broken, session>>
  BY DEF RelayReads, Typed, UpTyped, machine
<1>2. PICK m \in FromMachine : m = Head(up[k])
  BY <1>1
<1>3. m.p \in Phones
  BY DEF FromMachine, Frame
<1>4. call[m.p].link = k
  BY <1>1, <1>2, <1>3, HeadSpeaks DEF Framed
<1>5. \/ m.t = "wopened" /\ Wopened(k, m.p)
      \/ m.t \in {"werr", "wclose"} /\ ClosePhone(m.p)
      \/ m.t = "msg" /\ ToPhone(k, m.p, m.what)
  BY <1>2 DEF RelayReads
<1>6. /\ <<Plain("wclose", m.p)>> \in Seq(Frame) /\ Plain("wclose", m.p) \in Frame
      /\ \A i \in 1 .. Len(<<Plain("wclose", m.p)>>) : <<Plain("wclose", m.p)>>[i].p = m.p
  <2>1. Plain("wclose", m.p) \in Frame
    BY <1>3, PlainType DEF Frames, FromMachine
  <2>2. <<Plain("wclose", m.p)>> \in Seq(Frame)
    BY <2>1, OneIsSeq
  <2>3. Plain("wclose", m.p).p = m.p
    BY FrameIs
  <2>4. \A i \in 1 .. Len(<<Plain("wclose", m.p)>>) : <<Plain("wclose", m.p)>>[i].p = m.p
    BY <2>3, OneOf
  <2> QED BY <2>1, <2>2, <2>4
<1>7. Flushed(m.p) \in Seq(Frame)
      /\ \A i \in 1 .. Len(Flushed(m.p)) : Flushed(m.p)[i].p = m.p /\ Flushed(m.p)[i].t = "msg"
  BY <1>3, PendingType, FlushedIs DEF Typed
<1> SUFFICES ASSUME Connected(q)'
             PROVE  Agree(down'[mlink], up'[mlink], bridge'[q], session[q], q)
  BY <1>1 DEF Agreed
<1>8. /\ mlink \in Links /\ run[mlink] = "up" /\ call[q].link = mlink
      /\ Agree(down[mlink], up[mlink], bridge[q], session[q], q)
      /\ down[mlink] \in Seq(Frame) /\ up[mlink] \in Seq(FromMachine)
  BY <1>1, Before
<1>9. up'[mlink] = up[mlink] \/ (k = mlink /\ up'[mlink] = Tail(up[mlink]))
  BY <1>1, <1>8 DEF Typed, UpTyped
<1>10. CASE m.p # q
  <2>1. bridge'[q] = bridge[q]
    BY <1>5, <1>10 DEF Wopened, ClosePhone, ToPhone, Typed, BridgeTyped, HasFields
  <2>2. \/ UNCHANGED down \/ down' = Outbox(k, Flushed(m.p))
        \/ down' = Outbox(k, <<Plain("wclose", m.p)>>)
    BY <1>5 DEF Wopened, ClosePhone, ToPhone
  <2>3. Keeps(down[mlink], down'[mlink], q)
    <3>1. CASE UNCHANGED down
      BY <3>1 DEF Keeps
    <3>2. CASE down' = Outbox(k, Flushed(m.p))
      BY <1>7, <1>8, <1>10, <3>2, SentIsKept
    <3>3. CASE down' = Outbox(k, <<Plain("wclose", m.p)>>)
      BY <1>6, <1>8, <1>10, <3>3, SentIsKept
    <3> QED BY <2>2, <3>1, <3>2, <3>3
  <2>4. Keeps(up[mlink], up'[mlink], q) /\ (Silent(up[mlink], q) => Silent(up'[mlink], q))
    <3>1. CASE up'[mlink] = up[mlink]
      BY <3>1 DEF Keeps
    <3>2. CASE k = mlink /\ up'[mlink] = Tail(up[mlink])
      BY <1>1, <1>2, <1>8, <1>10, <3>2, TakenKeeps, SilentStays
    <3> QED BY <1>9, <3>1, <3>2
  <2> QED BY <1>8, <2>1, <2>3, <2>4, Stays
<1>11. CASE m.p = q
  <2>1. k = mlink /\ up'[mlink] = Tail(up[mlink]) /\ m = Head(up[mlink]) /\ up[mlink] # <<>>
    BY <1>1, <1>2, <1>4, <1>8, <1>11 DEF Typed, UpTyped
  <2>2. CASE m.t = "wopened" /\ Wopened(k, q)
    <3>1. Is(Head(up[mlink]), "wopened", q)
      BY <1>11, <2>1, <2>2 DEF Is
    <3>2. CASE bridge[q].on
      <4>1. down' = Outbox(k, Flushed(q))
        BY <2>2, <3>2 DEF Wopened
      <4>2. bridge'[q].on
        BY <2>2, <3>2 DEF Wopened, Typed, BridgeTyped, HasFields
      <4>3. Keeps(down[mlink], down'[mlink], q)
        BY <1>7, <1>8, <1>11, <4>1, SentIsKept
      <4> QED BY <1>8, <2>1, <3>1, <3>2, <4>2, <4>3, OpenedInTime
    <3>3. CASE ~bridge[q].on
      <4>1. down' = Outbox(mlink, <<Plain("wclose", q)>>) /\ bridge'[q] = bridge[q]
        BY <2>1, <2>2, <3>3 DEF Wopened
      <4>2. down'[mlink] = down[mlink] \o <<Plain("wclose", q)>>
        BY <1>8, <4>1, SentThere
      <4>3. Is(Plain("wclose", q), "wclose", q) /\ Plain("wclose", q) \in Frame
        BY <1>6, <1>11, FrameIs DEF Is
      <4>4. Agree(down[mlink] \o <<Plain("wclose", q)>>, Tail(up[mlink]), bridge[q], session[q], q)
        BY <1>8, <2>1, <3>1, <3>3, <4>3, OpenedTooLate
      <4> QED BY <2>1, <4>1, <4>2, <4>4
    <3> QED BY <3>2, <3>3
  <2>3. CASE m.t \in {"werr", "wclose"} /\ ClosePhone(q)
    <3>1. Is(Head(up[mlink]), "werr", q) \/ Is(Head(up[mlink]), "wclose", q)
      BY <1>11, <2>1, <2>3 DEF Is
    <3>2. ~bridge'[q].on /\ down' = down
      BY <2>3, NoBridgeType DEF ClosePhone, Typed, BridgeTyped, HasFields
    <3>3. Agree(down[mlink], Tail(up[mlink]), bridge'[q], session[q], q)
      BY <1>8, <2>1, <3>1, <3>2, Closed
    <3> QED BY <2>1, <3>2, <3>3
  <2>4. CASE m.t = "msg" /\ ToPhone(k, q, m.what)
    <3>1. /\ Keeps(up[mlink], Tail(up[mlink]), q)
          /\ Silent(up[mlink], q) => Silent(Tail(up[mlink]), q)
      BY <1>8, <2>1, <2>4, TakenKeeps, SilentStays
    <3>2. CASE ~bridge[q].on \/ bridge[q].behind < Buffer
      <4>1. down' = down /\ (bridge'[q].on <=> bridge[q].on)
            /\ (bridge'[q].opened <=> bridge[q].opened)
        BY <2>4, <3>2 DEF ToPhone, Typed, BridgeTyped, HasFields
      <4>2. Keeps(down[mlink], down'[mlink], q)
        BY <4>1 DEF Keeps
      <4> QED BY <1>8, <2>1, <3>1, <4>1, <4>2, Stays
    <3>3. CASE bridge[q].on /\ ~(bridge[q].behind < Buffer)
      <4>1. down' = Outbox(mlink, <<Plain("wclose", q)>>) /\ ~bridge'[q].on
        BY <2>1, <2>4, <3>3, NoBridgeType DEF ToPhone, Typed, BridgeTyped, HasFields
      <4>2. down'[mlink] = down[mlink] \o <<Plain("wclose", q)>>
        BY <1>8, <4>1, SentThere
      <4>3. Is(Plain("wclose", q), "wclose", q) /\ Plain("wclose", q) \in Frame
        BY <1>6, <1>11, FrameIs DEF Is
      <4>4. Agree(down[mlink] \o <<Plain("wclose", q)>>, Tail(up[mlink]), bridge'[q], session[q], q)
        BY <1>8, <3>1, <4>1, <4>3, Drops
      <4> QED BY <2>1, <4>2, <4>4
    <3> QED BY <3>2, <3>3
  <2> QED BY <1>5, <1>11, <2>2, <2>3, <2>4
<1> QED BY <1>10, <1>11

LEMMA ReplyThere ==
  ASSUME Typed, NEW ms, mlink \in Links, run[mlink] = "up", up' = Reply(ms)
  PROVE  up'[mlink] = up[mlink] \o ms
  BY DEF Reply, Typed, UpTyped

\* A frame of the relay, read by the loop of connect.
LEMMA MachineAgrees ==
  ASSUME Typed, SessionTyped, Known, NEW q \in Phones, Agreed(q), Linked(q), MachineReads
  PROVE  Agreed(q)'
<1>1. UNCHANGED <<call, bridge, mlink, broken>>
  BY DEF MachineReads
<1>2. PICK m \in Frame :
        /\ mlink \in Links /\ down[mlink] # <<>> /\ m = Head(down[mlink]) /\ m.p \in Phones
        /\ down' = [down EXCEPT ![mlink] = Tail(@)]
        /\ \A p \in Phones \ {m.p} : session'[p] = session[p]
        /\ Refuses(m) \/ Accepts(m) \/ IsLeft(m) \/ Hears(m) \/ Ends(m)
  BY Takes
<1> SUFFICES ASSUME Connected(q)'
             PROVE  Agree(down'[mlink], up'[mlink], bridge[q], session'[q], q)
  BY <1>1 DEF Agreed
<1>3. /\ mlink \in Links /\ run[mlink] = "up" /\ call[q].link = mlink
      /\ Agree(down[mlink], up[mlink], bridge[q], session[q], q)
      /\ down[mlink] \in Seq(Frame) /\ up[mlink] \in Seq(FromMachine)
  BY <1>1, Before
<1>4. down'[mlink] = Tail(down[mlink])
  BY <1>2, <1>3 DEF Typed, DownTyped
<1>5. /\ \A t \in {"werr", "wopened", "wclose"} :
           Plain(t, m.p) \in FromMachine /\ Plain(t, m.p).p = m.p /\ Plain(t, m.p).t = t
      /\ LET a == Msg(m.p, "answer", FALSE) IN a \in FromMachine /\ a.p = m.p /\ a.t = "msg"
  <2>1. \A t \in {"werr", "wopened", "wclose"} :
           Plain(t, m.p) \in FromMachine /\ Plain(t, m.p).p = m.p /\ Plain(t, m.p).t = t
    BY <1>2, PlainType DEF Frames, Plain
  <2>2. Msg(m.p, "answer", FALSE) \in FromMachine
    BY <1>2, MsgType
  <2>3. Msg(m.p, "answer", FALSE).p = m.p /\ Msg(m.p, "answer", FALSE).t = "msg"
    BY DEF Msg, Plain
  <2> QED BY <2>1, <2>2, <2>3
<1>6. CASE m.p # q
  <2>1. session'[q] = session[q]
    BY <1>2, <1>6
  <2>2. Keeps(down[mlink], Tail(down[mlink]), q)
    BY <1>2, <1>3, <1>6, TakenKeeps
  <2>3. UNCHANGED up \/ \E f \in FromMachine : f.p = m.p /\ up' = Reply(<<f>>)
    <3>1. \/ UNCHANGED up
          \/ \E t \in {"werr", "wopened", "wclose"} : up' = Reply(<<Plain(t, m.p)>>)
          \/ up' = Reply(<<Msg(m.p, "answer", FALSE)>>)
      BY <1>2 DEF Refuses, Accepts, IsLeft, Hears, Ends
    <3> QED BY <1>5, <3>1
  <2>4. Keeps(up[mlink], up'[mlink], q) /\ (Silent(up[mlink], q) => Silent(up'[mlink], q))
    <3>1. CASE UNCHANGED up
      BY <3>1 DEF Keeps
    <3>2. ASSUME NEW f \in FromMachine, f.p = m.p, up' = Reply(<<f>>)
          PROVE  Keeps(up[mlink], up'[mlink], q) /\ (Silent(up[mlink], q) => Silent(up'[mlink], q))
      BY <1>3, <1>6, <3>2, RepliedIsKept
    <3> QED BY <2>3, <3>1, <3>2
  <2> QED BY <1>3, <1>4, <2>1, <2>2, <2>4, Stays
<1>7. CASE m.p = q
  <2>1. CASE Refuses(m) \/ Accepts(m)
    <3>1. Is(Head(down[mlink]), "wopen", q)
      BY <1>2, <1>7, <2>1 DEF Refuses, Accepts, Is
    <3>2. Has(down[mlink], "wopen", q)
      BY <1>2, <1>3, <3>1, TakenHas
    <3>3. session[q].stage = "none" /\ ~session[q].over
      BY <1>3, <3>2 DEF Agree, Linked
    <3>4. CASE Refuses(m)
      <4>1. session'[q].stage = "none" /\ up' = Reply(<<Plain("werr", q)>>)
        BY <1>7, <3>3, <3>4 DEF Refuses
      <4>2. Is(Plain("werr", q), "werr", q) /\ Plain("werr", q) \in FromMachine
        BY <1>5, <1>7 DEF Is
      <4>3. up'[mlink] = up[mlink] \o <<Plain("werr", q)>>
        BY <1>3, <4>1, ReplyThere
      <4>4. Agree(Tail(down[mlink]), up[mlink] \o <<Plain("werr", q)>>, bridge[q], session'[q], q)
        BY <1>2, <1>3, <3>1, <4>1, <4>2, TakesWopen
      <4> QED BY <1>4, <4>3, <4>4
    <3>5. CASE Accepts(m)
      <4>1. Live(session'[q]) /\ up' = Reply(<<Plain("wopened", q)>>)
        BY <1>7, <3>3, <3>5 DEF Accepts, Live
      <4>2. Is(Plain("wopened", q), "wopened", q) /\ Plain("wopened", q) \in FromMachine
        BY <1>5, <1>7 DEF Is
      <4>3. up'[mlink] = up[mlink] \o <<Plain("wopened", q)>>
        BY <1>3, <4>1, ReplyThere
      <4>4. Agree(Tail(down[mlink]), up[mlink] \o <<Plain("wopened", q)>>, bridge[q], session'[q], q)
        BY <1>2, <1>3, <3>1, <4>1, <4>2, TakesWopen
      <4> QED BY <1>4, <4>3, <4>4
    <3> QED BY <2>1, <3>4, <3>5
  <2>2. CASE IsLeft(m)
    <3>1. Is(Head(down[mlink]), "wclose", q) /\ session'[q].stage = "none" /\ up' = up
      BY <1>2, <1>7, <2>2, NoSessionIs DEF IsLeft, Is
    <3>2. Agree(Tail(down[mlink]), up[mlink], bridge[q], session'[q], q)
      BY <1>2, <1>3, <3>1, TakesWclose
    <3> QED BY <1>4, <3>1, <3>2
  <2>3. CASE Hears(m)
    <3>1. Keeps(down[mlink], Tail(down[mlink]), q)
      BY <1>2, <1>3, <2>3, TakenKeeps DEF Hears
    <3>2. /\ Keeps(up[mlink], up'[mlink], q)
          /\ Silent(up[mlink], q) => Silent(up'[mlink], q) \/ session[q].stage # "none"
      <4>1. CASE UNCHANGED up
        BY <4>1 DEF Keeps
      <4>2. CASE session[q].stage # "none" /\ up' = Reply(<<Msg(q, "answer", FALSE)>>)
        <5>1. Keeps(up[mlink], up'[mlink], q)
          BY <1>3, <1>5, <1>7, <4>2, RepliedIsKept
        <5> QED BY <4>2, <5>1
      <4> QED BY <1>7, <2>3, <4>1, <4>2 DEF Hears
    <3>3. /\ session'[q].stage = "none" <=> session[q].stage = "none"
          /\ session'[q].over <=> session[q].over
      BY <1>7, <2>3 DEF Hears
    <3> QED BY <1>3, <1>4, <3>1, <3>2, <3>3, Stays
  <2>4. CASE Ends(m)
    <3>1. Keeps(down[mlink], Tail(down[mlink]), q)
      BY <1>2, <1>3, <2>4, TakenKeeps DEF Ends
    <3>2. /\ up' = Reply(<<Plain("wclose", q)>>) /\ session[q].stage # "none"
          /\ ~Live(session'[q])
      BY <1>7, <2>4, NoSessionIs DEF Ends, Live
    <3>3. Is(Plain("wclose", q), "wclose", q) /\ Plain("wclose", q) \in FromMachine
      BY <1>5, <1>7 DEF Is
    <3>4. up'[mlink] = up[mlink] \o <<Plain("wclose", q)>>
      BY <1>3, <3>2, ReplyThere
    <3>5. Agree(Tail(down[mlink]), up[mlink] \o <<Plain("wclose", q)>>, bridge[q], session'[q], q)
      BY <1>3, <3>1, <3>2, <3>3, SessionEnds
    <3> QED BY <1>4, <3>4, <3>5
  <2> QED BY <1>2, <2>1, <2>2, <2>3, <2>4
<1> QED BY <1>6, <1>7

\* What a session does without a frame for it.
LEMMA SessionAgrees ==
  ASSUME Typed, SessionTyped, Known, NEW q \in Phones, Agreed(q),
         NEW p \in Phones, Pump(p) \/ Finish(p) \/ Recheck(p)
  PROVE  Agreed(q)'
<1>1. UNCHANGED <<call, bridge, down, mlink, broken>>
  BY DEF Pump, Finish, Recheck, MachineUnchanged, relay
<1> SUFFICES ASSUME Connected(q)'
             PROVE  Agree(down[mlink], up'[mlink], bridge[q], session'[q], q)
  BY <1>1 DEF Agreed
<1>2. /\ mlink \in Links /\ run[mlink] = "up"
      /\ Agree(down[mlink], up[mlink], bridge[q], session[q], q)
      /\ up[mlink] \in Seq(FromMachine) /\ Keeps(down[mlink], down[mlink], q)
  BY <1>1, Before DEF Keeps
<1>3. /\ session[p].stage # "none"
      /\ \A r \in Phones \ {p} : session'[r] = session[r]
      /\ \/ /\ up' = Reply(<<Msg(p, "data", FALSE)>>)
            /\ session'[p].stage = session[p].stage /\ session'[p].over = session[p].over
         \/ /\ up' = Reply(<<Plain("wclose", p)>>)
            /\ \/ session'[p].stage = session[p].stage /\ session'[p].over
               \/ session'[p] = NoSession
  BY SessionMoves
<1>4. /\ Plain("wclose", p) \in FromMachine /\ Plain("wclose", p).p = p
      /\ Plain("wclose", p).t = "wclose"
      /\ Msg(p, "data", FALSE) \in FromMachine /\ Msg(p, "data", FALSE).p = p
      /\ Msg(p, "data", FALSE).t = "msg"
  <2>1. Plain("wclose", p) \in FromMachine /\ Msg(p, "data", FALSE) \in FromMachine
    BY PlainType, MsgType DEF Frames
  <2> QED BY <2>1 DEF Msg, Plain
<1>5. CASE p # q
  <2>1. session'[q] = session[q]
    BY <1>3, <1>5
  <2>2. Keeps(up[mlink], up'[mlink], q) /\ (Silent(up[mlink], q) => Silent(up'[mlink], q))
    BY <1>2, <1>3, <1>4, <1>5, RepliedIsKept
  <2> QED BY <1>2, <2>1, <2>2, Stays
<1>6. CASE p = q
  <2>1. CASE /\ up' = Reply(<<Msg(q, "data", FALSE)>>)
             /\ session'[q].stage = session[q].stage /\ session'[q].over = session[q].over
    <3>1. Keeps(up[mlink], up'[mlink], q)
      BY <1>2, <1>4, <1>6, <2>1, RepliedIsKept
    <3> QED BY <1>2, <1>3, <1>6, <2>1, <3>1, Stays
  <2>2. CASE up' = Reply(<<Plain("wclose", q)>>) /\ ~Live(session'[q])
    <3>1. up'[mlink] = up[mlink] \o <<Plain("wclose", q)>>
      BY <1>2, <2>2, ReplyThere
    <3>2. Is(Plain("wclose", q), "wclose", q)
      BY <1>4, <1>6 DEF Is
    <3>3. Agree(down[mlink], up[mlink] \o <<Plain("wclose", q)>>, bridge[q], session'[q], q)
      BY <1>2, <1>3, <1>4, <1>6, <2>2, <3>2, SessionEnds
    <3> QED BY <3>1, <3>3
  <2> QED BY <1>3, <1>6, <2>1, <2>2, NoSessionIs DEF Live
<1> QED BY <1>5, <1>6

LEMMA SameLink ==
  ASSUME CallTyped, NEW p \in Phones, NEW q \in Phones,
         \/ \E s : Stage(p, s) \/ UNCHANGED call
         \/ \E what : call' = [call EXCEPT ![p].stage = "waiting", ![p].held = what]
  PROVE  call'[q].link = call[q].link
<1>1. ASSUME NEW s, Stage(p, s) PROVE call'[q].link = call[q].link
  BY <1>1 DEF Stage, CallTyped, HasFields
<1>2. ASSUME NEW what, call' = [call EXCEPT ![p].stage = "waiting", ![p].held = what]
      PROVE  call'[q].link = call[q].link
  BY <1>2 DEF CallTyped, HasFields
<1> QED BY <1>1, <1>2

\* What the two ends of a tunnel agree about is kept by every step.
LEMMA AgreedNext ==
  ASSUME Typed, Tied, [Next]_vars, NEW q \in Phones, Framed(q)', Linked(q)', NotYet(q)'
  PROVE  Agreed(q)'
<1> USE DEF Tied
<1>1. ASSUME UNCHANGED <<down, up, session>>, mlink' = mlink, broken \subseteq broken',
             call'[q].link = call[q].link, bridge'[q].on <=> bridge[q].on,
             bridge'[q].on => (bridge'[q].opened <=> bridge[q].opened)
      PROVE  Agreed(q)'
  BY <1>1, SameAgrees
<1>2. ASSUME NEW p \in Phones, Writer(p) \/ PhoneReads(p) PROVE Agreed(q)'
  <2>1. UNCHANGED <<down, up, session, mlink, broken, call>>
    BY <1>2 DEF Writer, CutWriter, WriterTakes, InboxCloses, WriterFails, PhoneReads,
       WriterUnchanged, sockets, machine
  <2>2. bridge'[q].on = bridge[q].on /\ bridge'[q].opened = bridge[q].opened
    BY <1>2 DEF Writer, CutWriter, WriterTakes, InboxCloses, WriterFails, PhoneReads, Typed,
       BridgeTyped, HasFields
  <2> QED BY <1>1, <2>1, <2>2
<1>3. ASSUME NEW p \in Phones, PhoneSteps(p) PROVE Agreed(q)'
  <2>1. CASE HangUp(p)
    BY <1>1, <2>1 DEF HangUp, relay, sockets, machine
  <2>2. CASE SayHello(p) \/ SayEarly(p) \/ Request(p) \/ Acknowledge(p)
    <3>1. PICK what : Read(p, what)
      BY <2>2 DEF SayHello, SayEarly, Request, Acknowledge
    <3>2. session' = session
      BY <3>1 DEF Read, machine
    <3>3. call'[q].link = call[q].link
      <4>1. \/ Stage(p, "left") \/ UNCHANGED call
            \/ call' = [call EXCEPT ![p].stage = "waiting", ![p].held = what]
        BY <3>1 DEF Read
      <4> QED BY <4>1, SameLink DEF Typed
    <3> QED BY <3>1, <3>2, <3>3, ReadAgrees
  <2> QED BY <1>2, <1>3, <2>1, <2>2 DEF PhoneSteps
<1>4. ASSUME NEW p \in Phones, RunPhone(p) PROVE Agreed(q)'
  <2>1. CASE CutSeen(p) \/ StreamEnds(p)
    <3>1. UNCHANGED <<down, up, session, mlink, broken, bridge>> /\ Stage(p, "left")
      BY <2>1 DEF CutSeen, StreamEnds, sockets, machine
    <3> QED BY <1>1, <3>1, SameLink DEF Typed
  <2> QED BY <1>4, <2>1, JoinAgrees, ForwardAgrees, LeaveAgrees DEF RunPhone
<1>5. ASSUME NEW p \in Phones, Knock(p) PROVE Agreed(q)'
  <2>1. CASE p = q
    <3>1. Typed'
      BY TypedNext
    <3>2. ~Serving(q)'
      BY <1>5, <2>1 DEF Knock, Serving, Typed, CallTyped, HasFields
    <3> QED BY <3>1, <3>2, NotServed
  <2>2. CASE p # q
    BY <1>1, <1>5, <2>2 DEF Knock, sockets, machine, Typed, CallTyped, HasFields
  <2> QED BY <2>1, <2>2
<1>6. ASSUME NEW p \in Phones, Unpair(p) PROVE Agreed(q)'
  BY <1>1, <1>6 DEF Unpair, relay, sockets
<1>7. ASSUME NEW k \in Links, Break(k) \/ Unregister(k) PROVE Agreed(q)'
  BY <1>1, <1>7 DEF Break, Unregister, relay, sockets, machine
<1>8. ASSUME NEW k \in Links, Stop(k) PROVE Agreed(q)'
  <2>1. \A j \in Links : j \in broken \/ (down'[j] = down[j] /\ up'[j] = up[j])
    BY <1>8 DEF Stop, Typed, DownTyped, UpTyped
  <2> QED BY <1>8, <2>1, SameAgrees DEF Stop, machine
<1>9. ASSUME NEW k \in Links, Drain(k) PROVE Agreed(q)'
  <2>1. UNCHANGED <<down, up, session, mlink, broken, call>>
    BY <1>9 DEF Drain, sockets, machine
  <2>2. CASE q \notin OnLink(k)
    <3>1. bridge'[q] = bridge[q]
      BY <1>9, <2>2 DEF Drain
    <3> QED BY <1>1, <2>1, <3>1
  <2>3. CASE q \in OnLink(k)
    <3>1. call[q].link = k /\ run[k] = "gone"
      BY <1>9, <2>3 DEF OnLink, Drain
    <3>2. ~Connected(q)'
      BY <2>1, <3>1 DEF Connected, Known
    <3> QED BY <3>2 DEF Agreed
  <2> QED BY <2>2, <2>3
<1>10. ASSUME NEW k \in Links, Dial(k) PROVE Agreed(q)'
  <2>1. mlink' = k /\ call' = call /\ run[k] = "none"
    BY <1>10 DEF Dial
  <2>2. ~Connected(q)'
    BY <2>1 DEF Connected, Known
  <2> QED BY <2>2 DEF Agreed
<1>11. CASE Lose
  BY <1>11 DEF Lose, Agreed, Connected
<1>12. CASE UNCHANGED vars
  BY <1>1, <1>12 DEF vars, relay, sockets, machine
<1>13. ASSUME NEW k \in Links, RelayReads(k) PROVE Agreed(q)'
  BY <1>13, AgentAgrees
<1>14. CASE MachineReads
  BY <1>14, MachineAgrees
<1>15. ASSUME NEW p \in Phones, Pump(p) \/ Finish(p) \/ Recheck(p) PROVE Agreed(q)'
  BY <1>15, SessionAgrees
<1> QED BY <1>2, <1>3, <1>4, <1>5, <1>6, <1>7, <1>8, <1>9, <1>10, <1>11, <1>12, <1>13, <1>14,
           <1>15 DEF Next, RunAgent

LEMMA TiedInit == Init => Tied
<1> SUFFICES ASSUME Init PROVE Tied
  OBVIOUS
<1>1. SessionTyped
  BY NoSessionIs DEF Init, SessionTyped, HasFields
<1>2. Known
  BY LinksAreNumbers DEF Init, Known
<1> SUFFICES ASSUME NEW p \in Phones PROVE Framed(p) /\ Linked(p) /\ NotYet(p) /\ Agreed(p)
  BY <1>1, <1>2 DEF Tied
<1>3. Framed(p)
  <2>1. Len(<<>>) = 0 /\ 1 .. 0 = {}
    OBVIOUS
  <2>2. \A k \in Links : down[k] = <<>> /\ up[k] = <<>>
    BY DEF Init
  <2> QED BY <2>1, <2>2 DEF Framed, Silent
<1>4. Linked(p)
  BY NoSessionIs DEF Init, Linked
<1>5. NotYet(p)
  BY DEF Init, NotYet, NoBridge
<1>6. Agreed(p)
  BY DEF Init, Agreed, Connected
<1> QED BY <1>3, <1>4, <1>5, <1>6

LEMMA TiedNext == ASSUME Typed, Tied, [Next]_vars PROVE Tied'
<1>1. SessionTyped' /\ Known'
  BY KnownNext, SessionTypedNext DEF Tied
<1>2. ASSUME NEW q \in Phones PROVE Framed(q)' /\ Linked(q)' /\ NotYet(q)' /\ Agreed(q)'
  <2>1. Framed(q)' /\ Linked(q)' /\ NotYet(q)'
    BY FramedNext, LinkedNext, NotYetNext DEF Tied
  <2> QED BY <2>1, AgreedNext
<1> QED BY <1>1, <1>2 DEF Tied

LEMMA OnItsWay ==
  ASSUME NEW S, NEW q \in Seq(S), NEW p
  PROVE  CloseOnItsWay(q, p) <=> Has(q, "wclose", p)
<1>1. DOMAIN q = 1 .. Len(q)
  OBVIOUS
<1> QED BY <1>1 DEF CloseOnItsWay, Has, Is

(***************************************************************************)
(* While machine and relay are connected, a bridge and the session it      *)
(* leads to go together, or a close that says so is on its way.            *)
(***************************************************************************)
THEOREM TunnelsAgree == Spec => []TablesAgree
<1>1. Typed /\ Tied => TablesAgree
  <2> SUFFICES ASSUME Typed, Tied, NEW p \in Phones, Connected(p)
               PROVE  GoneIsTold(p) /\ TunnelIsServed(p)
    BY DEF TablesAgree
  <2>1. Agree(down[mlink], up[mlink], bridge[p], session[p], p)
    BY DEF Tied, Agreed
  <2>2. down[mlink] \in Seq(Frame) /\ up[mlink] \in Seq(FromMachine)
    BY DEF Connected, Typed, LinksTyped, DownTyped, UpTyped
  <2> QED BY <2>1, <2>2, OnItsWay DEF Agree, Live, GoneIsTold, TunnelIsServed
<1>2. Typed /\ Tied /\ [Next]_vars => Tied'
  BY TiedNext
<1> QED BY <1>1, <1>2, TypedInit, TypedNext, TiedInit, PTL DEF Spec

(***************************************************************************)
(* What is counted.  First the frames of a channel that take a place: they *)
(* are counted by their indices, one more for each that is sent with a     *)
(* permit and one less for each that is taken.                             *)
(***************************************************************************)
Permits(s) == {i \in DOMAIN s : s[i].permit}

LEMMA PermitsAreFinite ==
  ASSUME NEW s \in Seq(Frame)
  PROVE  IsFiniteSet(Permits(s)) /\ Cardinality(Permits(s)) \in Nat
<1>1. Permits(s) \in SUBSET (1 .. Len(s)) /\ Len(s) \in Nat
  BY DEF Permits
<1>2. IsFiniteSet(1 .. Len(s))
  BY <1>1, FS_Interval
<1> QED BY <1>1, <1>2, FS_Subset, FS_CardinalityType

LEMMA NoPermits == \A s : s = <<>> => Permits(s) = {} /\ Cardinality(Permits(s)) = 0
<1>1. Permits(<<>>) = {}
  BY DEF Permits
<1> QED BY <1>1, FS_EmptySet

\* Frames without a permit change nothing, however many.
LEMMA PermitsConcat ==
  ASSUME NEW s \in Seq(Frame), NEW ms \in Seq(Frame), \A i \in 1 .. Len(ms) : ~ms[i].permit
  PROVE  Permits(s \o ms) = Permits(s)
<1> DEFINE t == s \o ms
<1>1. t \in Seq(Frame) /\ Len(t) = Len(s) + Len(ms) /\ Len(s) \in Nat /\ Len(ms) \in Nat
  OBVIOUS
<1>2. \A i \in 1 .. Len(s) : t[i] = s[i]
  OBVIOUS
<1>3. \A i \in 1 .. Len(t) : i \notin 1 .. Len(s) => i - Len(s) \in 1 .. Len(ms) /\ t[i] = ms[i - Len(s)]
  OBVIOUS
<1>4. DOMAIN t = 1 .. Len(t) /\ DOMAIN s = 1 .. Len(s)
  BY <1>1
<1>5. \A i \in 1 .. Len(s) : i \in 1 .. Len(t)
  BY <1>1
<1> HIDE DEF t
<1>6. Permits(t) = Permits(s)
  BY <1>2, <1>3, <1>4, <1>5 DEF Permits
<1> QED BY <1>6 DEF t

LEMMA PermitsOne ==
  ASSUME NEW s \in Seq(Frame), NEW f \in Frame, f.permit
  PROVE  Cardinality(Permits(s \o <<f>>)) = Cardinality(Permits(s)) + 1
<1> DEFINE t == s \o <<f>>
           n == Len(s) + 1
<1>1. Len(t) = n /\ n \in Nat /\ Len(s) \in Nat /\ DOMAIN t = 1 .. n /\ DOMAIN s = 1 .. Len(s)
  OBVIOUS
<1>2. (\A i \in 1 .. Len(s) : t[i] = s[i]) /\ t[n] = f
  OBVIOUS
<1>3. 1 .. n = (1 .. Len(s)) \cup {n} /\ n \notin 1 .. Len(s)
  BY <1>1
<1> HIDE DEF t, n
<1>4. Permits(t) = Permits(s) \cup {n} /\ n \notin Permits(s)
  BY <1>1, <1>2, <1>3 DEF Permits
<1> QED BY <1>4, PermitsAreFinite, FS_AddElement DEF t

LEMMA PermitsTail ==
  ASSUME NEW s \in Seq(Frame), s # <<>>
  PROVE  Cardinality(Permits(s)) =
           Cardinality(Permits(Tail(s))) + (IF Head(s).permit THEN 1 ELSE 0)
<1> DEFINE t == Tail(s)
           Shift == [i \in Permits(t) |-> i + 1]
           Rest == Permits(s) \ {1}
<1>1. /\ t \in Seq(Frame) /\ Len(s) \in Nat \ {0} /\ Len(t) = Len(s) - 1
      /\ DOMAIN t = 1 .. Len(t) /\ DOMAIN s = 1 .. Len(s)
  OBVIOUS
<1>2. (\A i \in 1 .. Len(t) : t[i] = s[i + 1]) /\ Head(s) = s[1]
  OBVIOUS
<1> HIDE DEF t
<1>3. \A i \in Permits(t) : i \in Nat /\ i + 1 \in Rest
  BY <1>1, <1>2 DEF Permits
<1>4. \A j \in Rest : j - 1 \in Permits(t) /\ j - 1 \in Nat /\ j = (j - 1) + 1
  <2> SUFFICES ASSUME NEW j \in Rest PROVE j - 1 \in Permits(t) /\ j - 1 \in Nat /\ j = (j - 1) + 1
    OBVIOUS
  <2>1. j \in 1 .. Len(s) /\ j # 1 /\ s[j].permit
    BY <1>1 DEF Permits
  <2>2. j - 1 \in 1 .. Len(t) /\ j = (j - 1) + 1
    BY <1>1, <2>1
  <2>3. t[j - 1] = s[j]
    BY <1>2, <2>2
  <2> QED BY <1>1, <2>1, <2>2, <2>3 DEF Permits
<1> HIDE DEF Rest
<1>5. Shift \in Bijection(Permits(t), Rest)
  <2>1. Shift \in [Permits(t) -> Rest]
    BY <1>3
  <2>2. \A i, j \in Permits(t) : Shift[i] = Shift[j] => i = j
    BY <1>3
  <2>3. \A j \in Rest : \E i \in Permits(t) : Shift[i] = j
    BY <1>4
  <2> HIDE DEF Shift
  <2> QED BY <2>1, <2>2, <2>3 DEF Bijection, Injection, Surjection, IsInjective
<1>6. IsFiniteSet(Permits(t)) /\ IsFiniteSet(Permits(s))
  BY <1>1, PermitsAreFinite
<1>7. Cardinality(Rest) = Cardinality(Permits(t))
  BY <1>5, <1>6, FS_Bijection DEF ExistsBijection
<1>8. Cardinality(Rest) = IF 1 \in Permits(s) THEN Cardinality(Permits(s)) - 1
                          ELSE Cardinality(Permits(s))
  BY <1>6, FS_RemoveElement DEF Rest
<1>9. 1 \in Permits(s) <=> Head(s).permit
  BY <1>1, <1>2 DEF Permits
<1>10. Cardinality(Permits(s)) \in Nat /\ Cardinality(Permits(t)) \in Nat
  BY <1>1, PermitsAreFinite
<1> QED BY <1>7, <1>8, <1>9, <1>10 DEF t

(***************************************************************************)
(* The places toward a machine.  Only Forward takes one, with the frame it *)
(* sends; MachineReads gives back the one of the frame it takes, and Stop  *)
(* all of them with the frames they were taken for.                        *)
(***************************************************************************)
Counted ==
    /\ room \in [Links -> Nat]
    /\ \A k \in Links : room[k] + Cardinality(Permits(down[k])) = Room

LEMMA SamePlaces ==
  ASSUME Counted, UNCHANGED room, \A j \in Links : Permits(down'[j]) = Permits(down[j])
  PROVE  Counted'
  BY DEF Counted

LEMMA PlainSent ==
  ASSUME Typed, Counted, UNCHANGED room, NEW k, NEW ms \in Seq(Frame), down' = Outbox(k, ms),
         \A i \in 1 .. Len(ms) : ~ms[i].permit
  PROVE  Counted'
<1>1. ASSUME NEW j \in Links PROVE Permits(down'[j]) = Permits(down[j])
  <2>1. down[j] \in Seq(Frame)
    BY DEF Typed, DownTyped
  <2>2. down'[j] = down[j] \/ down'[j] = down[j] \o ms
    BY Sent
  <2>3. Permits(down[j] \o ms) = Permits(down[j])
    BY <2>1, PermitsConcat
  <2> QED BY <2>2, <2>3
<1> QED BY <1>1, SamePlaces

LEMMA OnePlain ==
  ASSUME Typed, Counted, UNCHANGED room, NEW k, NEW f \in Frame, ~f.permit,
         down' = Outbox(k, <<f>>)
  PROVE  Counted'
<1>1. <<f>> \in Seq(Frame) /\ \A i \in 1 .. Len(<<f>>) : ~<<f>>[i].permit
  OBVIOUS
<1> QED BY <1>1, PlainSent

LEMMA PermitIs ==
  ASSUME NEW p
  PROVE  /\ \A t : Plain(t, p).permit = FALSE
         /\ \A ours : Wopen(p, ours).permit = FALSE
         /\ \A what, pay : Msg(p, what, pay).permit = pay
  BY DEF Plain, Wopen, Msg

LEMMA ClosePlain ==
  ASSUME NEW p \in Phones
  PROVE  /\ Plain("wclose", p) \in Frame /\ ~Plain("wclose", p).permit
         /\ \A ours \in BOOLEAN : Wopen(p, ours) \in Frame /\ ~Wopen(p, ours).permit
<1>1. Plain("wclose", p) \in Frame
  BY DEF Plain, Frame, Frames
<1>2. ASSUME NEW ours \in BOOLEAN PROVE Wopen(p, ours) \in Frame
  BY DEF Wopen, Plain, Frame, Frames
<1>3. ~Plain("wclose", p).permit /\ \A ours \in BOOLEAN : ~Wopen(p, ours).permit
  BY PermitIs
<1> QED BY <1>1, <1>2, <1>3

LEMMA ReadCounts ==
  ASSUME Typed, Counted, NEW p \in Phones, NEW what, Read(p, what)
  PROVE  Counted'
<1>1. UNCHANGED room
  BY DEF Read
<1>2. CASE UNCHANGED down
  BY <1>1, <1>2, SamePlaces
<1>3. CASE down' = Outbox(call[p].link, <<Plain("wclose", p)>>)
  BY <1>1, <1>3, ClosePlain, OnePlain
<1> QED BY <1>2, <1>3 DEF Read

LEMMA ForwardCounts ==
  ASSUME Typed, Counted, NEW p \in Phones, Forward(p)
  PROVE  Counted'
<1> DEFINE k == call[p].link
           f == Msg(p, call[p].held, TRUE)
<1>1. f \in Frame /\ f.permit
  <2>1. call[p].held \in Said \cup {""}
    BY DEF Typed, CallTyped
  <2>2. f \in Frame
    BY <2>1, OneFrame
  <2> QED BY <2>2, PermitIs
<1>2. /\ room[k] > 0 /\ down' = Outbox(k, <<f>>)
      /\ room' = IF run[k] = "up" THEN [room EXCEPT ![k] = @ - 1] ELSE room
  BY DEF Forward
<1> HIDE DEF f, k
<1>3. CASE run[k] # "up"
  BY <1>2, <1>3, SamePlaces DEF Outbox
<1>4. CASE run[k] = "up"
  <2>1. room' \in [Links -> Nat]
    <3>1. k \in Links => room[k] - 1 \in Nat
      BY <1>2 DEF Counted
    <3> QED BY <1>2, <1>4, <3>1 DEF Counted
  <2>2. ASSUME NEW j \in Links PROVE room'[j] + Cardinality(Permits(down'[j])) = Room
    <3>1. down[j] \in Seq(Frame)
      BY DEF Typed, DownTyped
    <3>2. CASE j # k
      <4>1. down'[j] = down[j] /\ room'[j] = room[j]
        BY <1>2, <1>4, <3>2 DEF Outbox, Typed, DownTyped, Counted
      <4> QED BY <4>1 DEF Counted
    <3>3. CASE j = k
      <4>1. down'[j] = down[j] \o <<f>>
        BY <1>2, <1>4, <3>3 DEF Outbox, Typed, DownTyped
      <4>2. room'[j] = room[j] - 1 /\ room[j] \in Nat
        BY <1>2, <1>4, <3>3 DEF Counted
      <4>3. Cardinality(Permits(down'[j])) = Cardinality(Permits(down[j])) + 1
        BY <1>1, <3>1, <4>1, PermitsOne
      <4>4. Cardinality(Permits(down[j])) \in Nat
        BY <3>1, PermitsAreFinite
      <4>5. room[j] + Cardinality(Permits(down[j])) = Room
        BY DEF Counted
      <4> QED BY <4>2, <4>3, <4>4, <4>5
    <3> QED BY <3>2, <3>3
  <2> QED BY <2>1, <2>2 DEF Counted
<1> QED BY <1>3, <1>4

LEMMA AgentCounts ==
  ASSUME Typed, Counted, NEW k \in Links, RelayReads(k)
  PROVE  Counted'
<1> DEFINE m == Head(up[k])
<1>1. m.p \in Phones
  <2>1. up[k] \in Seq(FromMachine) /\ up[k] # <<>>
    BY DEF RelayReads, Typed, UpTyped
  <2>2. m \in FromMachine
    BY <2>1
  <2> QED BY <2>2 DEF FromMachine, Frame
<1>2. UNCHANGED room
  BY DEF RelayReads
<1>3. \/ Wopened(k, m.p) \/ ClosePhone(m.p) \/ ToPhone(k, m.p, m.what)
  BY DEF RelayReads
<1> HIDE DEF m
<1>4. \/ UNCHANGED down \/ down' = Outbox(k, Flushed(m.p))
      \/ down' = Outbox(k, <<Plain("wclose", m.p)>>)
  BY <1>3 DEF Wopened, ClosePhone, ToPhone
<1>5. CASE down' = Outbox(k, Flushed(m.p))
  <2>1. Flushed(m.p) \in Seq(Frame)
    BY <1>1, PendingType DEF Typed
  <2>2. 1 .. Len(Flushed(m.p)) = DOMAIN bridge[m.p].pending
    BY <2>1 DEF Flushed
  <2>3. ASSUME NEW i \in 1 .. Len(Flushed(m.p)) PROVE ~Flushed(m.p)[i].permit
    <3>1. Flushed(m.p)[i] = Msg(m.p, bridge[m.p].pending[i], FALSE)
      BY <2>2 DEF Flushed
    <3> QED BY <3>1 DEF Msg, Plain
  <2> QED BY <1>2, <1>5, <2>1, <2>3, PlainSent
<1> QED BY <1>1, <1>2, <1>4, <1>5, ClosePlain, OnePlain, SamePlaces

LEMMA MachineCounts ==
  ASSUME Typed, Counted, MachineReads
  PROVE  Counted'
<1> DEFINE m == Head(down[mlink])
<1>1. mlink \in Links /\ down[mlink] \in Seq(Frame) /\ down[mlink] # <<>>
  BY DEF MachineReads, Typed, LinksTyped, DownTyped
<1>2. /\ down' = [down EXCEPT ![mlink] = Tail(@)]
      /\ room' = IF m.permit THEN [room EXCEPT ![mlink] = @ + 1] ELSE room
  BY DEF MachineReads
<1>3. room' \in [Links -> Nat]
  BY <1>1, <1>2 DEF Counted
<1>4. ASSUME NEW j \in Links PROVE room'[j] + Cardinality(Permits(down'[j])) = Room
  <2>1. room[j] + Cardinality(Permits(down[j])) = Room /\ room[j] \in Nat
    BY DEF Counted
  <2>2. CASE j # mlink
    <3>1. down'[j] = down[j] /\ room'[j] = room[j]
      BY <1>2, <2>2 DEF Typed, DownTyped, Counted
    <3> QED BY <2>1, <3>1
  <2>3. CASE j = mlink
    <3>1. down'[j] = Tail(down[j])
      BY <1>2, <2>3 DEF Typed, DownTyped
    <3>2. room'[j] = room[j] + (IF m.permit THEN 1 ELSE 0)
      BY <1>2, <2>1, <2>3 DEF Counted
    <3>3. Tail(down[j]) \in Seq(Frame)
      BY <1>1, <2>3
    <3>4. Cardinality(Permits(down[j])) = Cardinality(Permits(Tail(down[j]))) + (IF m.permit THEN 1 ELSE 0)
      BY <1>1, <2>3, PermitsTail
    <3>5. Cardinality(Permits(down[j])) \in Nat /\ Cardinality(Permits(Tail(down[j]))) \in Nat
      BY <1>1, <2>3, <3>3, PermitsAreFinite
    <3> HIDE DEF m
    <3> QED BY <2>1, <3>1, <3>2, <3>4, <3>5
  <2> QED BY <2>2, <2>3
<1> QED BY <1>3, <1>4 DEF Counted

LEMMA StopCounts ==
  ASSUME Typed, Counted, NEW k \in Links, Stop(k)
  PROVE  Counted'
<1>1. /\ down' = [down EXCEPT ![k] = <<>>] /\ room' = [room EXCEPT ![k] = Room]
  BY DEF Stop
<1>2. Room \in Nat
  BY RelayAssumption
<1>3. room' \in [Links -> Nat]
  BY <1>1, <1>2 DEF Counted
<1>4. ASSUME NEW j \in Links PROVE room'[j] + Cardinality(Permits(down'[j])) = Room
  <2>1. CASE j = k
    <3>1. down'[j] = <<>> /\ room'[j] = Room
      BY <1>1, <2>1 DEF Typed, DownTyped, Counted
    <3> QED BY <1>2, <3>1, NoPermits
  <2>2. CASE j # k
    <3>1. down'[j] = down[j] /\ room'[j] = room[j]
      BY <1>1, <2>2 DEF Typed, DownTyped, Counted
    <3> QED BY <3>1 DEF Counted
  <2> QED BY <2>1, <2>2
<1> QED BY <1>3, <1>4 DEF Counted

LEMMA CountedInit == Init => Counted
<1> SUFFICES ASSUME Init PROVE Counted
  OBVIOUS
<1>1. Room \in Nat
  BY RelayAssumption
<1>2. \A k \in Links : down[k] = <<>> /\ room[k] = Room
  BY DEF Init
<1>3. room = [k \in Links |-> Room]
  BY DEF Init
<1>4. room \in [Links -> Nat]
  BY <1>1, <1>3
<1> QED BY <1>1, <1>2, <1>4, NoPermits DEF Counted

LEMMA CountedNext == ASSUME Typed, Counted, [Next]_vars PROVE Counted'
<1>1. ASSUME UNCHANGED <<room, down>> PROVE Counted'
  BY <1>1, SamePlaces
<1>2. ASSUME NEW k \in Links, Dial(k) \/ Break(k) \/ RunAgent(k) PROVE Counted'
  <2>1. CASE Dial(k) \/ Break(k) \/ Unregister(k) \/ Drain(k)
    BY <1>1, <2>1 DEF Dial, Break, Unregister, Drain, relay, sockets
  <2> QED BY <1>2, <2>1, StopCounts, AgentCounts DEF RunAgent
<1>3. ASSUME NEW p \in Phones, Knock(p) \/ RunPhone(p) PROVE Counted'
  <2>1. CASE Knock(p) \/ CutSeen(p) \/ StreamEnds(p)
    BY <1>1, <2>1 DEF Knock, CutSeen, StreamEnds, sockets
  <2>2. CASE Join(p)
    <3>1. PICK ours \in BOOLEAN : down' = Outbox(call[p].link, <<Wopen(p, ours)>>)
      BY <2>2 DEF Join
    <3>2. UNCHANGED room
      BY <2>2 DEF Join
    <3> QED BY <3>1, <3>2, ClosePlain, OnePlain
  <2>3. CASE Leave(p)
    <3>1. UNCHANGED room
      BY <2>3 DEF Leave
    <3>2. UNCHANGED down \/ down' = Outbox(call[p].link, <<Plain("wclose", p)>>)
      BY <2>3 DEF Leave
    <3> QED BY <3>1, <3>2, ClosePlain, OnePlain, SamePlaces
  <2> QED BY <1>3, <2>1, <2>2, <2>3, ForwardCounts DEF RunPhone
<1>4. ASSUME NEW p \in Phones, Writer(p) \/ PhoneSteps(p) PROVE Counted'
  <2>1. CASE Writer(p) \/ PhoneReads(p)
    BY <1>1, <2>1 DEF Writer, CutWriter, WriterTakes, InboxCloses, WriterFails, PhoneReads,
       WriterUnchanged, sockets
  <2>2. CASE HangUp(p)
    BY <1>1, <2>2 DEF HangUp, relay, sockets
  <2>3. CASE SayHello(p) \/ SayEarly(p) \/ Request(p) \/ Acknowledge(p)
    <3>1. \E what : Read(p, what)
      BY <2>3 DEF SayHello, SayEarly, Request, Acknowledge
    <3> QED BY <3>1, ReadCounts
  <2> QED BY <1>4, <2>1, <2>2, <2>3 DEF PhoneSteps
<1>5. ASSUME NEW p \in Phones, Pump(p) \/ Finish(p) \/ Unpair(p) \/ Recheck(p) PROVE Counted'
  BY <1>1, <1>5 DEF Pump, Finish, Unpair, Recheck, MachineUnchanged, relay, sockets
<1>6. CASE Lose \/ UNCHANGED vars
  BY <1>1, <1>6 DEF Lose, vars, relay, sockets
<1> QED BY <1>2, <1>3, <1>4, <1>5, <1>6, MachineCounts DEF Next

(***************************************************************************)
(* How far a phone is behind: by what is in its inbox and the message its  *)
(* writer is sending.  A phone that is not yet served has neither (Fresh), *)
(* so its count starts right when Join puts its bridge in the table.       *)
(***************************************************************************)
Sending(l)  == IF l.writer \in Told THEN 1 ELSE 0
Owing(p)  == Len(line[p].inbox) + Sending(line[p])
Behind(p) == /\ bridge[p].behind \in 0 .. Buffer
             /\ bridge[p].on => Owing(p) <= bridge[p].behind

LEMMA SendingIs ==
  \A l : /\ Sending(l) \in {0, 1}
         /\ l.writer \in Told => Sending(l) = 1
         /\ l.writer \notin Told => Sending(l) = 0
  BY DEF Sending

LEMMA OwingType ==
  ASSUME LineTyped, NEW p \in Phones
  PROVE  /\ Len(line[p].inbox) \in Nat /\ Owing(p) \in Nat
         /\ Len(line[p].inbox) <= Owing(p)
<1>1. line[p].inbox \in Seq(Told)
  BY DEF LineTyped
<1>2. Len(line[p].inbox) \in Nat
  BY <1>1
<1>3. Sending(line[p]) \in {0, 1}
  BY SendingIs
<1> QED BY <1>2, <1>3 DEF Owing

LEMMA BufferType == Buffer \in Nat /\ 0 \in 0 .. Buffer
  BY RelayAssumption

\* A step that writes to no line of the phone and leaves its count, or drops it.
LEMMA SameBehind ==
  ASSUME NEW q \in Phones, Behind(q),
         line'[q].inbox = line[q].inbox, line'[q].writer = line[q].writer,
         bridge'[q].behind = bridge[q].behind, bridge'[q].on => bridge[q].on
  PROVE  Behind(q)'
  BY DEF Behind, Owing, Sending

LEMMA DropBehind == ASSUME NEW q, bridge'[q] = NoBridge PROVE Behind(q)'
<1>1. NoBridge.behind = 0 /\ NoBridge.on = FALSE
  BY DEF NoBridge
<1> QED BY <1>1, BufferType DEF Behind

LEMMA ReadBehind ==
  ASSUME Typed, NEW p \in Phones, NEW what, Read(p, what), NEW q \in Phones, Behind(q)
  PROVE  Behind(q)'
<1> USE DEF Typed, HasFields
<1>1. line'[q].inbox = line[q].inbox /\ line'[q].writer = line[q].writer
  <2>1. CASE UNCHANGED line
    BY <2>1
  <2>2. CASE line' = [line EXCEPT ![p].cut = 1009]
    BY <2>2 DEF LineTyped
  <2> QED BY <2>1, <2>2 DEF Read
<1>2. CASE UNCHANGED bridge
  BY <1>1, <1>2, SameBehind
<1>3. CASE bridge' = [bridge EXCEPT ![p].pending = Append(@, what)]
  <2>1. bridge'[q].behind = bridge[q].behind /\ bridge'[q].on = bridge[q].on
    BY <1>3 DEF BridgeTyped
  <2> QED BY <1>1, <2>1, SameBehind
<1>4. CASE bridge' = [bridge EXCEPT ![p] = NoBridge]
  <2>1. bridge'[q] = NoBridge \/ bridge'[q] = bridge[q]
    BY <1>4 DEF BridgeTyped
  <2> QED BY <1>1, <2>1, SameBehind, DropBehind
<1> QED BY <1>2, <1>3, <1>4 DEF Read

LEMMA CallBehind ==
  ASSUME Typed, NEW p \in Phones, Knock(p) \/ RunPhone(p), NEW q \in Phones, Kept(q), Behind(q)
  PROVE  Behind(q)'
<1> USE DEF Typed, HasFields
<1>1. UNCHANGED line
  BY DEF Knock, RunPhone, Join, Forward, CutSeen, StreamEnds, Leave
<1>2. CASE Join(p)
  <2>1. bridge' = [bridge EXCEPT ![p].on = TRUE] /\ call[p].stage = "upgrading"
    BY <1>2 DEF Join
  <2>2. bridge'[q].behind = bridge[q].behind
    BY <2>1 DEF BridgeTyped
  <2>3. CASE q = p
    <3>1. line[q].inbox = <<>> /\ line[q].writer = "idle"
      BY <2>1, <2>3 DEF Kept, Fresh
    <3>2. Owing(q)' = 0
      BY <1>1, <3>1 DEF Owing, Sending, Told
    <3>3. bridge[q].behind \in 0 .. Buffer
      BY DEF Behind
    <3> QED BY <2>2, <3>2, <3>3, BufferType DEF Behind
  <2>4. CASE q # p
    <3>1. bridge'[q] = bridge[q]
      BY <2>1, <2>4 DEF BridgeTyped
    <3> QED BY <1>1, <3>1, SameBehind
  <2> QED BY <2>3, <2>4
<1>3. CASE Leave(p)
  <2>1. bridge' = [bridge EXCEPT ![p] = NoBridge]
    BY <1>3 DEF Leave
  <2>2. bridge'[q] = NoBridge \/ bridge'[q] = bridge[q]
    BY <2>1 DEF BridgeTyped
  <2> QED BY <1>1, <2>2, SameBehind, DropBehind
<1>4. CASE Knock(p) \/ Forward(p) \/ CutSeen(p) \/ StreamEnds(p)
  <2>1. UNCHANGED bridge
    BY <1>4 DEF Knock, Forward, CutSeen, StreamEnds
  <2> QED BY <1>1, <2>1, SameBehind
<1> QED BY <1>2, <1>3, <1>4 DEF RunPhone

\* What the writer takes from the inbox it is sending, and a phone that has
\* read it is one less behind in the step that makes the writer idle.
LEMMA WriterBehind ==
  ASSUME Typed, NEW p \in Phones, Writer(p) \/ PhoneReads(p), NEW q \in Phones, Behind(q)
  PROVE  Behind(q)'
<1> USE DEF Typed, HasFields
<1>1. CASE q # p
  <2>1. line'[q] = line[q] /\ bridge'[q] = bridge[q]
    BY <1>1 DEF Writer, CutWriter, WriterTakes, InboxCloses, WriterFails, PhoneReads, LineTyped,
       BridgeTyped
  <2> QED BY <2>1, SameBehind
<1>2. CASE WriterTakes(p) /\ q = p
  <2>1. line[p].inbox \in Seq(Told) /\ line[p].inbox # <<>> /\ line[p].writer = "idle"
    BY <1>2 DEF WriterTakes, LineTyped
  <2>2. line'[p].writer = Head(line[p].inbox) /\ line'[p].inbox = Tail(line[p].inbox)
    BY <1>2 DEF WriterTakes, LineTyped
  <2>3. Head(line[p].inbox) \in Told /\ Len(Tail(line[p].inbox)) = Len(line[p].inbox) - 1
    BY <2>1
  <2>4. Len(line[p].inbox) \in Nat /\ line[p].writer \notin Told
    BY <2>1 DEF Told
  <2>5. Owing(p)' = Owing(p)
    BY <2>2, <2>3, <2>4, SendingIs DEF Owing
  <2>6. UNCHANGED bridge
    BY <1>2 DEF WriterTakes
  <2> QED BY <1>2, <2>5, <2>6 DEF Behind
<1>3. CASE (CutWriter(p) \/ InboxCloses(p) \/ WriterFails(p)) /\ q = p
  <2>1. line'[p].writer = "ended" /\ line'[p].inbox = line[p].inbox
    BY <1>3 DEF CutWriter, InboxCloses, WriterFails, LineTyped
  <2>2. UNCHANGED bridge
    BY <1>3 DEF CutWriter, InboxCloses, WriterFails
  <2>3. Owing(p)' = Len(line[p].inbox)
    <3>1. Sending(line'[p]) = 0
      BY <2>1, SendingIs DEF Told
    <3>2. Len(line[p].inbox) \in Nat
      BY OwingType
    <3> QED BY <2>1, <3>1, <3>2 DEF Owing
  <2>4. Len(line[p].inbox) \in Nat /\ Len(line[p].inbox) <= Owing(p) /\ Owing(p) \in Nat
    BY OwingType
  <2>5. bridge[p].behind \in 0 .. Buffer /\ (bridge[p].on => Owing(p) <= bridge[p].behind)
    BY <1>3 DEF Behind
  <2>6. bridge[p].on => Owing(p)' <= bridge[p].behind
    BY <2>3, <2>4, <2>5, BufferType
  <2> QED BY <1>3, <2>2, <2>5, <2>6 DEF Behind
<1>4. CASE PhoneReads(p) /\ q = p
  <2>1. line[p].writer \in Told
    BY <1>4 DEF PhoneReads
  <2>2. line'[p].writer \in {"ended", "idle"} /\ line'[p].inbox = line[p].inbox
    BY <1>4 DEF PhoneReads, LineTyped
  <2>3. Owing(p)' = Owing(p) - 1 /\ Owing(p) \in Nat \ {0}
    <3>1. Sending(line[p]) = 1 /\ Sending(line'[p]) = 0
      BY <2>1, <2>2, SendingIs DEF Told
    <3>2. Len(line[p].inbox) \in Nat
      BY OwingType
    <3> QED BY <2>2, <3>1, <3>2 DEF Owing
  <2>4. bridge[p].behind \in 0 .. Buffer /\ (bridge[p].on => Owing(p) <= bridge[p].behind)
    BY <1>4 DEF Behind
  <2>5. CASE UNCHANGED bridge
    <3>1. bridge[p].on => Owing(p)' <= bridge[p].behind
      BY <2>3, <2>4, BufferType
    <3> QED BY <1>4, <2>4, <2>5, <3>1 DEF Behind
  <2>6. CASE bridge[p].on /\ bridge' = [bridge EXCEPT ![p].behind = @ - 1]
    <3>1. bridge'[p].behind = bridge[p].behind - 1
      BY <2>6 DEF BridgeTyped
    <3>2. bridge[p].behind - 1 \in 0 .. Buffer /\ Owing(p)' <= bridge[p].behind - 1
      BY <2>3, <2>4, <2>6, BufferType
    <3> QED BY <1>4, <3>1, <3>2 DEF Behind
  <2> QED BY <1>4, <2>5, <2>6 DEF PhoneReads
<1> QED BY <1>1, <1>2, <1>3, <1>4 DEF Writer

LEMMA AgentBehind ==
  ASSUME Typed, NEW k \in Links, RelayReads(k), NEW q \in Phones, Behind(q)
  PROVE  Behind(q)'
<1> DEFINE m == Head(up[k])
<1>1. up[k] \in Seq(FromMachine) /\ up[k] # <<>>
  BY DEF RelayReads, Typed, UpTyped
<1>2. m \in FromMachine
  BY <1>1
<1>3. m.t = "msg" => m.what \in Told
  BY <1>2 DEF FromMachine, Told
<1>4. \/ Wopened(k, m.p)
      \/ ClosePhone(m.p)
      \/ m.t = "msg" /\ ToPhone(k, m.p, m.what)
  BY DEF RelayReads
<1> HIDE DEF m
<1> USE DEF Typed, HasFields
<1>5. CASE q # m.p
  <2>1. line'[q] = line[q] /\ bridge'[q] = bridge[q]
    BY <1>4, <1>5 DEF Wopened, ClosePhone, ToPhone, LineTyped, BridgeTyped
  <2> QED BY <2>1, SameBehind
<1>6. CASE q = m.p
  <2>1. CASE Wopened(k, q)
    <3>1. line' = line
      BY <2>1 DEF Wopened
    <3>2. bridge'[q].behind = bridge[q].behind /\ bridge'[q].on = bridge[q].on
      BY <2>1 DEF Wopened, BridgeTyped
    <3> QED BY <3>1, <3>2, SameBehind
  <2>2. CASE ClosePhone(q)
    <3>1. bridge'[q] = NoBridge
      BY <2>2 DEF ClosePhone, BridgeTyped
    <3> QED BY <3>1, DropBehind
  <2>3. CASE m.t = "msg" /\ ToPhone(k, q, m.what)
    <3>1. CASE UNCHANGED <<bridge, line, down>>
      BY <3>1, SameBehind
    <3>2. CASE /\ bridge[q].behind < Buffer
               /\ bridge' = [bridge EXCEPT ![q].behind = @ + 1]
               /\ line' = [line EXCEPT ![q].inbox = Append(@, m.what)]
      <4>1. line[q].inbox \in Seq(Told) /\ m.what \in Told
        BY <1>3, <2>3 DEF LineTyped
      <4>2. line'[q].inbox = Append(line[q].inbox, m.what) /\ line'[q].writer = line[q].writer
        BY <3>2 DEF LineTyped
      <4>3. Len(line'[q].inbox) = Len(line[q].inbox) + 1 /\ Len(line[q].inbox) \in Nat
        BY <4>1, <4>2
      <4>4. Owing(q)' = Owing(q) + 1
        <5>1. Sending(line'[q]) = Sending(line[q]) /\ Sending(line[q]) \in {0, 1}
          BY <4>2, SendingIs DEF Sending
        <5> QED BY <4>3, <5>1 DEF Owing
      <4>5. bridge'[q].behind = bridge[q].behind + 1 /\ bridge'[q].on = bridge[q].on
        BY <3>2 DEF BridgeTyped
      <4>6. bridge[q].behind \in 0 .. Buffer /\ (bridge[q].on => Owing(q) <= bridge[q].behind)
        BY DEF Behind
      <4>7. bridge[q].behind + 1 \in 0 .. Buffer
        BY <3>2, <4>6, BufferType
      <4>8. bridge[q].on => Owing(q)' <= bridge[q].behind + 1
        BY <4>4, <4>6, OwingType, BufferType
      <4> QED BY <4>5, <4>7, <4>8 DEF Behind
    <3>3. CASE bridge' = [bridge EXCEPT ![q] = NoBridge]
      <4>1. bridge'[q] = NoBridge
        BY <3>3 DEF BridgeTyped
      <4> QED BY <4>1, DropBehind
    <3> QED BY <2>3, <3>1, <3>2, <3>3 DEF ToPhone
  <2> QED BY <1>4, <1>6, <2>1, <2>2, <2>3
<1> QED BY <1>5, <1>6

LEMMA DrainBehind ==
  ASSUME Typed, NEW k \in Links, Drain(k), NEW q \in Phones, Behind(q)
  PROVE  Behind(q)'
<1>1. line'[q].inbox = line[q].inbox /\ line'[q].writer = line[q].writer
  BY DrainLines DEF Typed
<1>2. bridge'[q] = NoBridge \/ bridge'[q] = bridge[q]
  BY DEF Drain
<1> QED BY <1>1, <1>2, SameBehind, DropBehind

LEMMA BehindInit == ASSUME Init, NEW q \in Phones PROVE Behind(q)
<1>1. bridge[q] = NoBridge
  BY DEF Init
<1>2. NoBridge.behind = 0 /\ NoBridge.on = FALSE
  BY DEF NoBridge
<1> QED BY <1>1, <1>2, BufferType DEF Behind

LEMMA BehindNext ==
  ASSUME Typed, NEW q \in Phones, Kept(q), Behind(q), [Next]_vars
  PROVE  Behind(q)'
<1>1. ASSUME UNCHANGED <<bridge, line>> PROVE Behind(q)'
  BY <1>1, SameBehind
<1>2. ASSUME NEW k \in Links, Dial(k) \/ Break(k) \/ RunAgent(k) PROVE Behind(q)'
  <2>1. CASE Dial(k) \/ Break(k) \/ Stop(k) \/ Unregister(k)
    BY <1>1, <2>1 DEF Dial, Break, Stop, Unregister, relay
  <2> QED BY <1>2, <2>1, DrainBehind, AgentBehind DEF RunAgent
<1>3. ASSUME NEW p \in Phones, PhoneSteps(p) PROVE Behind(q)'
  <2>1. CASE HangUp(p)
    BY <1>1, <2>1 DEF HangUp, relay
  <2>2. CASE SayHello(p) \/ SayEarly(p) \/ Request(p) \/ Acknowledge(p)
    <3>1. \E what : Read(p, what)
      BY <2>2 DEF SayHello, SayEarly, Request, Acknowledge
    <3> QED BY <3>1, ReadBehind
  <2> QED BY <1>3, <2>1, <2>2, WriterBehind DEF PhoneSteps
<1>4. ASSUME NEW p \in Phones, Pump(p) \/ Finish(p) \/ Unpair(p) \/ Recheck(p) PROVE Behind(q)'
  BY <1>1, <1>4 DEF Pump, Finish, Unpair, Recheck, MachineUnchanged, relay
<1>5. CASE Lose \/ MachineReads \/ UNCHANGED vars
  BY <1>1, <1>5 DEF Lose, MachineReads, vars, relay
<1> QED BY <1>2, <1>3, <1>4, <1>5, CallBehind, WriterBehind DEF Next

(***************************************************************************)
(* The relay counts right what it keeps in memory, for every size of its   *)
(* buffers: a place toward a machine is free or taken by a frame on its    *)
(* way, and a bridged phone is behind by what is kept for it at least and  *)
(* by Buffer at most.                                                      *)
(***************************************************************************)
THEOREM PlacesCounted == Spec => []PlacesAreCounted
<1> DEFINE Inv == Counted /\ \A q \in Phones : Kept(q) /\ Behind(q)
<1>1. Init => Inv
  BY CountedInit, KeptInit, BehindInit
<1>2. Typed /\ Inv /\ [Next]_vars => Inv'
  BY CountedNext, KeptNext, BehindNext
<1>3. Typed /\ Inv => PlacesAreCounted
  <2> SUFFICES ASSUME Typed, Inv PROVE PlacesAreCounted
    OBVIOUS
  <2>1. \A k \in Links : Taking(k) = Permits(down[k])
    BY DEF Taking, Permits
  <2>2. ASSUME NEW p \in Phones, bridge[p].on
        PROVE  Len(line[p].inbox) <= bridge[p].behind /\ bridge[p].behind <= Buffer
    <3>1. bridge[p].behind \in 0 .. Buffer /\ Owing(p) <= bridge[p].behind
      BY <2>2 DEF Behind
    <3>2. Len(line[p].inbox) \in Nat /\ Len(line[p].inbox) <= Owing(p) /\ Owing(p) \in Nat
      BY OwingType DEF Typed
    <3> QED BY <3>1, <3>2, BufferType
  <2> QED BY <2>1, <2>2 DEF PlacesAreCounted, Counted
<1> HIDE DEF Inv
<1> QED BY <1>1, <1>2, <1>3, TypedInit, TypedNext, PTL DEF Spec

(***************************************************************************)
(* The types, whole.  Typed and what is counted say most; the rest is one  *)
(* record per phone of each table, and each step writes few of its fields. *)
(***************************************************************************)
Holding  == Said \cup {""}
Stages   == {"away", "upgrading", "on", "waiting", "left", "done"}
Cuts     == {0, 1009, 1012, 1013}
Codes    == {0, 1000, 1009, 1012, 1013}
CallIs    == call \in [Phones -> [link : {0} \cup Links, held : Holding, stage : Stages]]
BridgeIs  == bridge \in [Phones -> [on : BOOLEAN, opened : BOOLEAN, pending : Seq(Said),
                                    behind : Nat]]
LineIs    == line \in [Phones -> [cut : Cuts, inbox : Seq(Told),
                                  writer : Told \cup {"idle", "ended"}]]
SessionIs == session \in [Phones -> [stage : {"none", "pairing", "open"}, over : BOOLEAN,
                                     said : 0 .. MaxReplies, credit : 0 .. Window]]
PhoneIs   == phone \in [Phones -> [hello : BOOLEAN, open : BOOLEAN, said : 0 .. MaxSaid,
                                   owed : Nat, told : Codes, gone : BOOLEAN]]
OthersAre == /\ broken \in SUBSET Links /\ paired \in SUBSET Phones
             /\ faults \in 0 .. MaxFaults
Shapes == CallIs /\ BridgeIs /\ LineIs /\ SessionIs /\ PhoneIs /\ OthersAre

LEMMA NaughtHeld == "" \in Holding
  BY DEF Holding

LEMMA Bounds == {MaxSaid, MaxReplies, MaxFaults, Window, Room} \subseteq Nat /\ Window # 0
  BY RelayAssumption

LEMMA CallWritten ==
  ASSUME CallIs, NEW p, NEW s \in Stages, NEW h \in Holding
  PROVE  [call EXCEPT ![p].stage = s, ![p].held = h]
           \in [Phones -> [link : {0} \cup Links, held : Holding, stage : Stages]]
  BY DEF CallIs

LEMMA StageIs == ASSUME CallIs, NEW p, NEW s \in Stages, Stage(p, s) PROVE CallIs'
<1>1. call' = [call EXCEPT ![p].stage = s, ![p].held = ""]
  BY DEF Stage
<1>2. [call EXCEPT ![p].stage = s, ![p].held = ""]
        \in [Phones -> [link : {0} \cup Links, held : Holding, stage : Stages]]
  BY CallWritten, NaughtHeld
<1> QED BY <1>1, <1>2 DEF CallIs

LEMMA NoBridgeIs ==
  NoBridge \in [on : BOOLEAN, opened : BOOLEAN, pending : Seq(Said), behind : Nat]
<1>1. <<>> \in Seq(Said)
  BY NothingSent
<1> QED BY <1>1 DEF NoBridge

LEMMA DropIs ==
  ASSUME BridgeIs, NEW p, bridge' = [bridge EXCEPT ![p] = NoBridge] PROVE BridgeIs'
  BY NoBridgeIs DEF BridgeIs

LEMMA FaultIs == ASSUME OthersAre, Fault \/ UNCHANGED faults PROVE faults' \in 0 .. MaxFaults
  BY Bounds DEF OthersAre, Fault

LEMMA ShapesInit == Init => Shapes
<1> SUFFICES ASSUME Init PROVE Shapes
  OBVIOUS
<1>1. CallIs
  <2> DEFINE c == [link |-> 0, stage |-> "away", held |-> ""]
  <2>1. c \in [link : {0} \cup Links, held : Holding, stage : Stages]
    <3>1. \A h \in Holding : [link |-> 0, stage |-> "away", held |-> h]
                               \in [link : {0} \cup Links, held : Holding, stage : Stages]
      BY DEF Stages
    <3> QED BY <3>1, NaughtHeld
  <2>2. call = [p \in Phones |-> c]
    BY DEF Init
  <2> HIDE DEF c
  <2> QED BY <2>1, <2>2 DEF CallIs
<1>2. BridgeIs
  <2>1. bridge = [p \in Phones |-> NoBridge]
    BY DEF Init
  <2> QED BY <2>1, NoBridgeIs DEF BridgeIs
<1>3. LineIs
  <2> DEFINE l == [cut |-> 0, inbox |-> <<>>, writer |-> "idle"]
  <2>1. l \in [cut : Cuts, inbox : Seq(Told), writer : Told \cup {"idle", "ended"}]
    BY NothingSent DEF Cuts
  <2>2. line = [p \in Phones |-> l]
    BY DEF Init
  <2> HIDE DEF l
  <2> QED BY <2>1, <2>2 DEF LineIs
<1>4. SessionIs
  <2>1. session = [p \in Phones |-> NoSession]
    BY DEF Init
  <2> QED BY <2>1, Bounds DEF SessionIs, NoSession
<1>5. PhoneIs
  <2>1. phone = [p \in Phones |-> [hello |-> FALSE, open |-> FALSE, said |-> 0,
                                   owed |-> 0, told |-> 0, gone |-> FALSE]]
    BY DEF Init
  <2> QED BY <2>1, Bounds DEF PhoneIs, Codes
<1>6. OthersAre
  <2>1. broken = {} /\ paired = Phones /\ faults = 0
    BY DEF Init
  <2> QED BY <2>1, Bounds DEF OthersAre
<1> QED BY <1>1, <1>2, <1>3, <1>4, <1>5, <1>6 DEF Shapes

LEMMA ReadShapes ==
  ASSUME Shapes, NEW p \in Phones, NEW what \in Said, Read(p, what)
  PROVE  CallIs' /\ BridgeIs' /\ LineIs' /\ SessionIs' /\ UNCHANGED <<broken, paired>>
<1>1. CallIs'
  <2>1. CASE call' = [call EXCEPT ![p].stage = "waiting", ![p].held = what]
    BY <2>1, CallWritten DEF Shapes, CallIs, Stages, Holding
  <2>2. CASE Stage(p, "left")
    BY <2>2, StageIs DEF Shapes, Stages
  <2>3. CASE UNCHANGED call
    BY <2>3 DEF Shapes, CallIs
  <2> QED BY <2>1, <2>2, <2>3 DEF Read
<1>2. BridgeIs'
  <2>1. CASE UNCHANGED bridge
    BY <2>1 DEF Shapes, BridgeIs
  <2>2. CASE bridge' = [bridge EXCEPT ![p].pending = Append(@, what)]
    <3>1. Append(bridge[p].pending, what) \in Seq(Said)
      BY DEF Shapes, BridgeIs
    <3> QED BY <2>2, <3>1 DEF Shapes, BridgeIs
  <2>3. CASE bridge' = [bridge EXCEPT ![p] = NoBridge]
    BY <2>3, DropIs DEF Shapes
  <2> QED BY <2>1, <2>2, <2>3 DEF Read
<1>3. LineIs'
  <2>1. CASE UNCHANGED line
    BY <2>1 DEF Shapes, LineIs
  <2>2. CASE line' = [line EXCEPT ![p].cut = 1009]
    <3>1. 1009 \in Cuts
      BY DEF Cuts
    <3> QED BY <2>2, <3>1 DEF Shapes, LineIs
  <2> QED BY <2>1, <2>2 DEF Read
<1>4. SessionIs' /\ UNCHANGED <<broken, paired>>
  BY DEF Read, machine, Shapes, SessionIs
<1> QED BY <1>1, <1>2, <1>3, <1>4

\* What a phone says, and its hanging up.
LEMMA SpeechShapes ==
  ASSUME Shapes, NEW p \in Phones,
         SayHello(p) \/ SayEarly(p) \/ Request(p) \/ Acknowledge(p) \/ HangUp(p)
  PROVE  Shapes'
<1>1. CASE HangUp(p)
  <2>1. PhoneIs'
    BY <1>1 DEF HangUp, Shapes, PhoneIs
  <2>2. faults' \in 0 .. MaxFaults
    BY <1>1, FaultIs DEF HangUp, Shapes
  <2>3. CallIs' /\ BridgeIs' /\ LineIs' /\ SessionIs' /\ UNCHANGED <<broken, paired>>
    BY <1>1 DEF HangUp, relay, sockets, machine, Shapes, CallIs, BridgeIs, LineIs, SessionIs
  <2> QED BY <2>1, <2>2, <2>3 DEF Shapes, OthersAre
<1>2. CASE SayHello(p) \/ SayEarly(p) \/ Request(p) \/ Acknowledge(p)
  <2>1. \E what \in Said : Read(p, what)
    BY <1>2 DEF SayHello, SayEarly, Request, Acknowledge, Said
  <2>2. PhoneIs'
    <3>1. CASE SayHello(p)
      BY <3>1 DEF SayHello, Shapes, PhoneIs
    <3>2. CASE SayEarly(p)
      BY <3>2 DEF SayEarly, Shapes, PhoneIs
    <3>3. CASE Request(p)
      BY <3>3, Bounds DEF Request, Shapes, PhoneIs
    <3>4. CASE Acknowledge(p)
      BY <3>4 DEF Acknowledge, Shapes, PhoneIs
    <3> QED BY <1>2, <3>1, <3>2, <3>3, <3>4
  <2>3. faults' \in 0 .. MaxFaults
    BY <1>2, FaultIs DEF SayHello, SayEarly, Request, Acknowledge, Shapes
  <2> QED BY <2>1, <2>2, <2>3, ReadShapes DEF Shapes, OthersAre
<1> QED BY <1>1, <1>2

LEMMA CallShapes ==
  ASSUME Shapes, Typed, NEW p \in Phones, Knock(p) \/ RunPhone(p)
  PROVE  Shapes'
<1>1. UNCHANGED <<line, broken, machine, phone, faults>>
  BY DEF Knock, RunPhone, Join, Forward, CutSeen, StreamEnds, Leave, sockets
<1>2. LineIs' /\ SessionIs' /\ PhoneIs' /\ OthersAre'
  BY <1>1 DEF machine, Shapes, LineIs, SessionIs, PhoneIs, OthersAre
<1>3. CallIs'
  <2>1. CASE Knock(p)
    <3>1. call' = [call EXCEPT ![p].stage = "upgrading", ![p].link = reg]
      BY <2>1 DEF Knock
    <3>2. reg \in {0} \cup Links
      BY DEF Typed, LinksTyped
    <3> QED BY <3>1, <3>2 DEF Shapes, CallIs, Stages
  <2>2. CASE \E s \in {"on", "left", "done"} : Stage(p, s)
    BY <2>2, StageIs DEF Shapes, Stages
  <2> QED BY <2>1, <2>2 DEF RunPhone, Join, Forward, CutSeen, StreamEnds, Leave
<1>4. BridgeIs'
  <2>1. CASE UNCHANGED bridge
    BY <2>1 DEF Shapes, BridgeIs
  <2>2. CASE bridge' = [bridge EXCEPT ![p].on = TRUE]
    BY <2>2 DEF Shapes, BridgeIs
  <2>3. CASE bridge' = [bridge EXCEPT ![p] = NoBridge]
    BY <2>3, DropIs DEF Shapes
  <2> QED BY <2>1, <2>2, <2>3 DEF Knock, RunPhone, Join, Forward, CutSeen, StreamEnds, Leave
<1> QED BY <1>2, <1>3, <1>4 DEF Shapes

LEMMA WriterShapes ==
  ASSUME Shapes, NEW p \in Phones, Behind(p), Writer(p) \/ PhoneReads(p)
  PROVE  Shapes'
<1>1. CallIs' /\ SessionIs' /\ OthersAre'
  BY DEF Writer, CutWriter, WriterTakes, InboxCloses, WriterFails, PhoneReads, WriterUnchanged,
         sockets, machine, Shapes, CallIs, SessionIs, OthersAre
<1>2. LineIs'
  <2>1. CASE WriterTakes(p)
    <3>1. Tail(line[p].inbox) \in Seq(Told) /\ Head(line[p].inbox) \in Told
      BY <2>1 DEF WriterTakes, Shapes, LineIs
    <3> QED BY <2>1, <3>1 DEF WriterTakes, Shapes, LineIs
  <2>2. ASSUME NEW w \in {"idle", "ended"}, line' = [line EXCEPT ![p].writer = w]
        PROVE  LineIs'
    BY <2>2 DEF Shapes, LineIs
  <2> QED BY <2>1, <2>2 DEF Writer, CutWriter, InboxCloses, WriterFails, PhoneReads
<1>3. BridgeIs'
  <2>1. CASE UNCHANGED bridge
    BY <2>1 DEF Shapes, BridgeIs
  <2>2. CASE PhoneReads(p) /\ bridge[p].on /\ bridge' = [bridge EXCEPT ![p].behind = @ - 1]
    <3>1. bridge[p].behind \in 0 .. Buffer /\ Owing(p) <= bridge[p].behind
      BY <2>2 DEF Behind
    <3>2. line[p].inbox \in Seq(Told) /\ line[p].writer \in Told
      BY <2>2 DEF PhoneReads, Shapes, LineIs
    <3>3. Len(line[p].inbox) \in Nat /\ Sending(line[p]) = 1
      BY <3>2, SendingIs
    <3>4. bridge[p].behind - 1 \in Nat
      BY <3>1, <3>3, BufferType DEF Owing
    <3> QED BY <2>2, <3>4 DEF Shapes, BridgeIs
  <2> QED BY <2>1, <2>2
      DEF Writer, CutWriter, WriterTakes, InboxCloses, WriterFails, PhoneReads
<1>4. PhoneIs'
  <2>1. CASE UNCHANGED phone
    BY <2>1 DEF Shapes, PhoneIs
  <2>2. ASSUME NEW c \in Codes, phone' = [phone EXCEPT ![p].told = c] PROVE PhoneIs'
    BY <2>2 DEF Shapes, PhoneIs
  <2>3. CASE PhoneReads(p)
    <3> DEFINE m == line[p].writer
               o == phone[p].open \/ m = "answer"
               w == IF m = "data" THEN phone[p].owed + 1 ELSE phone[p].owed
               t == IF m = "close" THEN 1000 ELSE phone[p].told
    <3>1. phone' = [phone EXCEPT ![p].open = o, ![p].owed = w, ![p].told = t]
      BY <2>3 DEF PhoneReads, Shapes, PhoneIs
    <3>2. o \in BOOLEAN /\ w \in Nat /\ t \in Codes
      BY DEF Shapes, PhoneIs, Codes
    <3> HIDE DEF o, w, t
    <3>3. [phone[p] EXCEPT !.open = o, !.owed = w, !.told = t]
            \in [hello : BOOLEAN, open : BOOLEAN, said : 0 .. MaxSaid, owed : Nat, told : Codes,
                 gone : BOOLEAN]
      BY <3>2 DEF Shapes, PhoneIs
    <3>4. phone' = [phone EXCEPT ![p] = [phone[p] EXCEPT !.open = o, !.owed = w, !.told = t]]
      BY <3>1 DEF Shapes, PhoneIs
    <3> QED BY <3>3, <3>4 DEF Shapes, PhoneIs
  <2>4. line[p].cut \in Codes /\ 1000 \in Codes
    BY DEF Shapes, LineIs, Cuts, Codes
  <2> QED BY <2>1, <2>2, <2>3, <2>4 DEF Writer, CutWriter, WriterTakes, InboxCloses, WriterFails
<1> QED BY <1>1, <1>2, <1>3, <1>4 DEF Shapes

LEMMA LinkShapes ==
  ASSUME Shapes, Typed, NEW k \in Links,
         Dial(k) \/ Break(k) \/ Stop(k) \/ Unregister(k) \/ Drain(k)
  PROVE  Shapes'
<1>1. CallIs' /\ SessionIs' /\ PhoneIs' /\ UNCHANGED paired
  BY DEF Dial, Break, Stop, Unregister, Drain, relay, sockets, machine, Shapes, CallIs,
     SessionIs, PhoneIs
<1>2. OthersAre'
  <2>1. faults' \in 0 .. MaxFaults
    BY FaultIs DEF Dial, Break, Stop, Unregister, Drain, Shapes
  <2>2. broken' \in SUBSET Links
    BY DEF Dial, Break, Stop, Unregister, Drain, sockets, Shapes, OthersAre, Typed, LinksTyped
  <2> QED BY <1>1, <2>1, <2>2 DEF Shapes, OthersAre
<1>3. BridgeIs' /\ LineIs'
  <2>1. CASE UNCHANGED <<bridge, line>>
    BY <2>1 DEF Shapes, BridgeIs, LineIs
  <2>2. CASE Drain(k)
    <3>1. BridgeIs'
      BY <2>2, NoBridgeIs DEF Drain, Shapes, BridgeIs
    <3>2. \A p \in Phones : [line[p] EXCEPT !.cut = 1012]
             \in [cut : Cuts, inbox : Seq(Told), writer : Told \cup {"idle", "ended"}]
      BY DEF Shapes, LineIs, Cuts
    <3>3. LineIs'
      BY <2>2, <3>2 DEF Drain, Shapes, LineIs
    <3> QED BY <3>1, <3>3
  <2> QED BY <2>1, <2>2 DEF Dial, Break, Stop, Unregister, relay
<1> QED BY <1>1, <1>2, <1>3 DEF Shapes

LEMMA AgentShapes ==
  ASSUME Shapes, Typed, NEW k \in Links, RelayReads(k)
  PROVE  Shapes'
<1> DEFINE m == Head(up[k])
<1>1. up[k] \in Seq(FromMachine) /\ up[k] # <<>>
  BY DEF RelayReads, Typed, UpTyped
<1>2. m \in FromMachine
  BY <1>1
<1>3. m.p \in Phones /\ (m.t = "msg" => m.what \in {"answer", "data"})
  BY <1>2 DEF FromMachine, Frame
<1>4. \/ Wopened(k, m.p)
      \/ ClosePhone(m.p)
      \/ m.t = "msg" /\ ToPhone(k, m.p, m.what)
  BY DEF RelayReads
<1>5. CallIs' /\ SessionIs' /\ PhoneIs' /\ OthersAre'
  BY DEF RelayReads, machine, Shapes, CallIs, SessionIs, PhoneIs, OthersAre
<1> HIDE DEF m
<1>6. BridgeIs'
  <2>1. CASE UNCHANGED bridge
    BY <2>1 DEF Shapes, BridgeIs
  <2>2. CASE bridge' = [bridge EXCEPT ![m.p].opened = TRUE, ![m.p].pending = <<>>]
    BY <2>2, NothingSent DEF Shapes, BridgeIs
  <2>3. CASE bridge' = [bridge EXCEPT ![m.p] = NoBridge]
    BY <2>3, DropIs DEF Shapes
  <2>4. CASE bridge' = [bridge EXCEPT ![m.p].behind = @ + 1]
    <3>1. \A p \in Phones : bridge[p].behind + 1 \in Nat
      BY DEF Shapes, BridgeIs
    <3> QED BY <2>4, <3>1 DEF Shapes, BridgeIs
  <2> QED BY <1>4, <2>1, <2>2, <2>3, <2>4 DEF Wopened, ClosePhone, ToPhone
<1>7. LineIs'
  <2>1. CASE UNCHANGED line
    BY <2>1 DEF Shapes, LineIs
  <2>2. ASSUME NEW a \in Told, line' = [line EXCEPT ![m.p].inbox = Append(@, a)]
        PROVE  LineIs'
    <3>1. \A p \in Phones : Append(line[p].inbox, a) \in Seq(Told)
      BY DEF Shapes, LineIs
    <3> QED BY <2>2, <3>1 DEF Shapes, LineIs
  <2>3. CASE line' = [line EXCEPT ![m.p].cut = 1013]
    <3>1. 1013 \in Cuts
      BY DEF Cuts
    <3>2. \A q \in Phones : [line[q] EXCEPT !.cut = 1013]
             \in [cut : Cuts, inbox : Seq(Told), writer : Told \cup {"idle", "ended"}]
      BY <3>1 DEF Shapes, LineIs
    <3> QED BY <1>3, <2>3, <3>2 DEF Shapes, LineIs
  <2>4. "close" \in Told /\ (m.t = "msg" => m.what \in Told)
    BY <1>3 DEF Told
  <2> QED BY <1>4, <2>1, <2>2, <2>3, <2>4 DEF Wopened, ClosePhone, ToPhone
<1> QED BY <1>5, <1>6, <1>7 DEF Shapes

LEMMA SessionSet ==
  ASSUME SessionIs, NEW p
  PROVE  /\ EndSession(p) => SessionIs'
         /\ \A s \in {"pairing", "open"} : session' = [session EXCEPT ![p].stage = s] => SessionIs'
<1>1. NoSession \in [stage : {"none", "pairing", "open"}, over : BOOLEAN,
                     said : 0 .. MaxReplies, credit : 0 .. Window]
  BY Bounds DEF NoSession
<1> QED BY <1>1 DEF SessionIs, EndSession

LEMMA MachineShapes ==
  ASSUME Shapes, MachineReads
  PROVE  Shapes'
<1> DEFINE m == Head(down[mlink])
<1>1. \/ OpenSession(m.p, m.ours) /\ UNCHANGED faults
      \/ EndSession(m.p) /\ UNCHANGED faults
      \/ UNCHANGED <<session, faults>>
      \/ Handshake(m.p) /\ UNCHANGED faults
      \/ Receive(m.p, m.what)
  BY DEF MachineReads
<1>2. CallIs' /\ BridgeIs' /\ LineIs' /\ PhoneIs' /\ UNCHANGED <<broken, paired>>
  BY DEF MachineReads, Shapes, CallIs, BridgeIs, LineIs, PhoneIs
<1> HIDE DEF m
<1>3. faults' \in 0 .. MaxFaults
  BY <1>1, FaultIs DEF Receive, Shapes
<1>4. SessionIs'
  <2>1. CASE UNCHANGED session
    BY <2>1 DEF Shapes, SessionIs
  <2>2. CASE EndSession(m.p)
    BY <2>2, SessionSet DEF Shapes
  <2>3. CASE \E s \in {"pairing", "open"} : session' = [session EXCEPT ![m.p].stage = s]
    BY <2>3, SessionSet DEF Shapes
  <2>4. CASE session' = [session EXCEPT ![m.p].credit = IF @ > 0 THEN @ - 1 ELSE 0]
    <3> DEFINE Less(n) == IF n > 0 THEN n - 1 ELSE 0
    <3>1. \A p \in Phones : Less(session[p].credit) \in 0 .. Window
      BY Bounds DEF Shapes, SessionIs
    <3>2. session' = [session EXCEPT ![m.p].credit = Less(@)]
      BY <2>4
    <3> HIDE DEF Less
    <3> QED BY <3>1, <3>2 DEF Shapes, SessionIs
  <2> QED BY <1>1, <2>1, <2>2, <2>3, <2>4 DEF OpenSession, Handshake, Receive
<1> QED BY <1>2, <1>3, <1>4 DEF Shapes, OthersAre

LEMMA SessionShapes ==
  ASSUME Shapes, Lose \/ \E p \in Phones : Pump(p) \/ Finish(p) \/ Unpair(p) \/ Recheck(p)
  PROVE  Shapes'
<1>1. CallIs' /\ BridgeIs' /\ LineIs' /\ PhoneIs' /\ UNCHANGED broken
  BY DEF Lose, Pump, Finish, Unpair, Recheck, MachineUnchanged, relay, sockets, Shapes, CallIs,
     BridgeIs, LineIs, PhoneIs
<1>2. OthersAre'
  <2>1. faults' \in 0 .. MaxFaults
    BY FaultIs DEF Lose, Pump, Finish, Unpair, Recheck, Shapes
  <2>2. paired' \in SUBSET Phones
    BY DEF Lose, Pump, Finish, Unpair, Recheck, Shapes, OthersAre
  <2> QED BY <1>1, <2>1, <2>2 DEF Shapes, OthersAre
<1>3. SessionIs'
  <2>1. CASE Lose
    <3>1. session' = [p \in Phones |-> NoSession]
      BY <2>1 DEF Lose
    <3> QED BY <3>1, Bounds DEF SessionIs, NoSession
  <2>2. ASSUME NEW p \in Phones, Pump(p) PROVE SessionIs'
    BY <2>2, Bounds DEF Pump, Shapes, SessionIs
  <2>3. ASSUME NEW p \in Phones, Finish(p) PROVE SessionIs'
    BY <2>3 DEF Finish, Shapes, SessionIs
  <2>4. ASSUME NEW p \in Phones, Unpair(p) PROVE SessionIs'
    BY <2>4 DEF Unpair, Shapes, SessionIs
  <2>5. ASSUME NEW p \in Phones, Recheck(p) PROVE SessionIs'
    BY <2>5, SessionSet DEF Recheck, Shapes
  <2> QED BY <2>1, <2>2, <2>3, <2>4, <2>5
<1> QED BY <1>1, <1>2, <1>3 DEF Shapes

LEMMA ShapesNext ==
  ASSUME Typed, Shapes, \A q \in Phones : Behind(q), [Next]_vars
  PROVE  Shapes'
<1>1. ASSUME NEW k \in Links, Dial(k) \/ Break(k) \/ RunAgent(k) PROVE Shapes'
  BY <1>1, LinkShapes, AgentShapes DEF RunAgent
<1>2. ASSUME NEW p \in Phones, Knock(p) \/ RunPhone(p) PROVE Shapes'
  BY <1>2, CallShapes
<1>3. ASSUME NEW p \in Phones, Writer(p) \/ PhoneSteps(p) PROVE Shapes'
  BY <1>3, WriterShapes, SpeechShapes DEF PhoneSteps
<1>4. ASSUME UNCHANGED vars PROVE Shapes'
  BY <1>4 DEF vars, relay, sockets, machine, Shapes, CallIs, BridgeIs, LineIs, SessionIs, PhoneIs,
     OthersAre
<1> QED BY <1>1, <1>2, <1>3, <1>4, MachineShapes, SessionShapes DEF Next

\* Every variable keeps its type: free places stay between none and Room, the
\* window of a session between none and Window, and no count becomes negative.
THEOREM TypeCorrect == Spec => []TypeOK
<1> DEFINE Inv == Counted /\ Shapes /\ \A q \in Phones : Kept(q) /\ Behind(q)
<1>1. Init => Inv
  BY CountedInit, KeptInit, BehindInit, ShapesInit
<1>2. Typed /\ Inv /\ [Next]_vars => Inv'
  BY CountedNext, KeptNext, BehindNext, ShapesNext
<1>3. Typed /\ Inv => TypeOK
  <2> SUFFICES ASSUME Typed, Inv PROVE TypeOK
    OBVIOUS
  <2>1. room \in [Links -> 0 .. Room]
    <3>1. ASSUME NEW k \in Links PROVE room[k] \in 0 .. Room
      <4>1. room[k] \in Nat /\ room[k] + Cardinality(Permits(down[k])) = Room
        BY DEF Counted
      <4>2. Cardinality(Permits(down[k])) \in Nat
        BY PermitsAreFinite DEF Typed, DownTyped
      <4> QED BY <4>1, <4>2, Bounds
    <3> QED BY <3>1 DEF Counted
  <2>2. up \in [Links -> Seq(Frame)]
    <3>1. \A s \in Seq(FromMachine) : s \in Seq(Frame)
      BY DEF FromMachine
    <3> QED BY <3>1 DEF Typed, UpTyped
  <2>3. /\ reg \in {0} \cup Links /\ mlink \in {0} \cup Links
        /\ run \in [Links -> {"none", "up", "leaving", "gone", "drained"}]
        /\ down \in [Links -> Seq(Frame)]
    BY DEF Typed, LinksTyped, DownTyped
  <2>4. call \in [Phones -> [link : {0} \cup Links, held : Said \cup {""},
                  stage : {"away", "upgrading", "on", "waiting", "left", "done"}]]
    BY DEF Shapes, CallIs, Holding, Stages
  <2>5. line \in [Phones -> [cut : {0, 1009, 1012, 1013}, inbox : Seq(Told),
                            writer : Told \cup {"idle", "ended"}]]
    BY DEF Shapes, LineIs, Cuts
  <2>6. phone \in [Phones -> [hello : BOOLEAN, open : BOOLEAN, said : 0 .. MaxSaid, owed : Nat,
                             told : {0, 1000, 1009, 1012, 1013}, gone : BOOLEAN]]
    BY DEF Shapes, PhoneIs, Codes
  <2>7. bridge \in [Phones -> [on : BOOLEAN, opened : BOOLEAN, pending : Seq(Said),
                              behind : Nat]]
    BY DEF Shapes, BridgeIs
  <2>8. session \in [Phones -> [stage : {"none", "pairing", "open"}, over : BOOLEAN,
                               said : 0 .. MaxReplies, credit : 0 .. Window]]
    BY DEF Shapes, SessionIs
  <2>9. broken \in SUBSET Links /\ paired \in SUBSET Phones /\ faults \in 0 .. MaxFaults
    BY DEF Shapes, OthersAre
  <2> QED BY <2>1, <2>2, <2>3, <2>4, <2>5, <2>6, <2>7, <2>8, <2>9, PTL DEF TypeOK
<1> HIDE DEF Inv
<1> QED BY <1>1, <1>2, <1>3, TypedInit, TypedNext, PTL DEF Spec
=============================================================================
