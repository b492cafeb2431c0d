------------------------ MODULE LogSubscriptionProofs ------------------------
(***************************************************************************)
(* LogSubscription for any logs, directories, queue and number of faults:  *)
(* what crashes, errors, gaps and full queues may cost, and why a followed *)
(* log is fresh.                                                           *)
(***************************************************************************)
EXTENDS LogSubscription, WellFoundedInduction, TLAPS

(***************************************************************************)
(* The inductive invariant.                                                *)
(***************************************************************************)
\* What the proofs need of the types.
Typed ==
    /\ written \in [Files -> Nat] /\ read \in [Files -> Nat]
    /\ journal \in Seq([log : Files, upto : Nat])
    /\ \A i \in 1 .. Len(journal) : journal[i].upto <= written[journal[i].log]
    /\ queue \in Seq(Batch)
    /\ batch \in Batch
    /\ refused \in [Sources -> SUBSET Dirs]
    /\ vnodes \subseteq Files /\ raised \subseteq Files /\ assoc \subseteq Files
    /\ overflow \subseteq Dirs
    /\ {sent, saved, checkpoint} \subseteq 0 .. Len(journal)
    /\ batch.id <= Len(journal) /\ checkpoint <= saved

\* What the thread holds at each point of a turn.
TurnShaped ==
    /\ pc \in PCs
    /\ pc \notin {"taken", "queue", "repair", "read"} => batch.logs = {} /\ batch.id <= saved
    /\ pc \in {"start", "boot", "wait"} => batch.id = 0
    /\ pc \notin {"queue", "repair", "retry"} => scopes = {}
    /\ pc \in {"repair", "retry"} => scopes \subseteq scanDirs
    /\ pc \in {"queue", "repair"} /\ replayed => vnodes = {}

\* Ids grow along the queue, and a refused event is the last that was sent.
QueueOrdered ==
    /\ \A k \in 1 .. Len(queue) : queue[k].id <= sent
    /\ \A j, k \in 1 .. Len(queue) : j < k /\ queue[k].id > 0 => queue[j].id < queue[k].id
    /\ refused["stream"] # {} => sent > 0 /\ \A k \in 1 .. Len(queue) : queue[k].id < sent

\* Directories that a repair has read again, and what still waits to be.
Walked == IF pc \in {"repair", "retry"} THEN scopes \ unseen ELSE {}
ToWalk == scanDirs \ Walked

\* The lines of event i are read, given up, or in a directory that will be walked.
Handled(i) ==
    \/ ~Unread(i)
    \/ journal[i].log \in dropped
    \/ DirOf[journal[i].log] \in ToWalk

SavedIsHandled == \A i \in 1 .. saved : Handled(i)

\* What the thread has taken and will have handled when it saves batch.id.
TakenIsHandled ==
    \A i \in 1 .. batch.id :
      \/ Handled(i)
      \/ journal[i].log \in batch.logs
      \/ pc = "taken" /\ DirOf[journal[i].log] \in batch.gaps \cup overflow
      \/ pc = "queue" /\ DirOf[journal[i].log] \in scopes

\* What the stream has delivered is on its way.
SentIsUnderWay ==
    \A i \in 1 .. sent :
      \/ Handled(i)
      \/ i <= batch.id /\ (pc = "taken" \/ ~replayed)
      \/ \E k \in 1 .. Len(queue) :
           /\ queue[k].id = i
           /\ journal[i].log \in queue[k].logs \/ DirOf[journal[i].log] \in queue[k].gaps
      \/ DirOf[journal[i].log] \in overflow
      \/ i = sent /\ DirOf[journal[i].log] \in refused["stream"]

\* A followed log is fresh, with the repair's progress taken into account.
VnodesAreFresh ==
    \A f \in vnodes : read[f] < written[f] =>
        \/ f \in raised \cup batch.logs \cup dropped
        \/ pc = "followed" /\ f \in unseen
        \/ \E k \in 1 .. Len(queue) : f \in queue[k].logs
        \/ DirOf[f] \in ToWalk
        \/ pc = "queue" /\ DirOf[f] \in scopes
        \/ DirOf[f] \in overflow \cup UNION {refused[s] : s \in Sources}

IInv == /\ Typed /\ TurnShaped /\ QueueOrdered
        /\ SavedIsHandled /\ TakenIsHandled /\ SentIsUnderWay /\ VnodesAreFresh

(***************************************************************************)
(* What a step keeps.                                                      *)
(***************************************************************************)
\* Logs only grow, a log is read to its end or not at all, and only reading it
\* takes it off the lists.
JournalGrows ==
    /\ Len(journal') \in Nat /\ Len(journal) <= Len(journal')
    /\ \A i \in 1 .. Len(journal) : journal'[i] = journal[i]
Progress ==
    /\ JournalGrows
    /\ \A f \in Files : read'[f] = read[f] \/ read'[f] = written[f]
    /\ \A f \in dropped : f \in dropped' \/ read'[f] = written[f]
    /\ \A d \in ToWalk : d \in ToWalk' \/ \A f \in Files : DirOf[f] = d => read'[f] = written[f]

LEMMA EventTyped ==
  ASSUME Typed, NEW i \in 1 .. Len(journal)
  PROVE  /\ journal[i].log \in Files /\ journal[i].upto \in Nat
         /\ journal[i].upto <= written[journal[i].log] /\ written[journal[i].log] \in Nat
         /\ read[journal[i].log] \in Nat
<1>1. journal[i] \in [log : Files, upto : Nat]
  <2> DEFINE Event == [log : Files, upto : Nat]
  <2>1. journal \in Seq(Event)
    BY DEF Typed
  <2> HIDE DEF Event
  <2>2. journal[i] \in Event
    BY <2>1
  <2> QED BY <2>2 DEF Event
<1>2. journal[i].log \in Files /\ journal[i].upto \in Nat
  BY <1>1
<1> QED BY <1>2 DEF Typed

LEMMA ProgressKeeps ==
  ASSUME Typed, Progress, NEW i \in 1 .. Len(journal), Handled(i)
  PROVE  Handled(i)'
<1> DEFINE f == journal[i].log
<1>1. /\ f \in Files /\ journal[i].upto \in Nat /\ journal[i].upto <= written[f]
      /\ written[f] \in Nat /\ read[f] \in Nat
  BY EventTyped
<1>2. journal'[i] = journal[i] /\ (read'[f] = read[f] \/ read'[f] = written[f])
  BY <1>1 DEF Progress, JournalGrows
<1>3. CASE read'[f] = written[f]
  BY <1>1, <1>2, <1>3 DEF Handled, Unread
<1>4. CASE read'[f] # written[f]
  <2>1. read'[f] = read[f]
    BY <1>2, <1>4
  <2>2. f \in dropped => f \in dropped'
    BY <1>4 DEF Progress
  <2>3. DirOf[f] \in ToWalk => DirOf[f] \in ToWalk'
    BY <1>1, <1>4 DEF Progress
  <2> QED BY <1>2, <2>1, <2>2, <2>3 DEF Handled, Unread
<1> QED BY <1>3, <1>4

\* What was read to its end is handled.
LEMMA ReadIsHandled ==
  ASSUME Typed, Progress, NEW i \in 1 .. Len(journal),
         read'[journal[i].log] = written[journal[i].log]
  PROVE  Handled(i)'
<1>1. journal'[i] = journal[i]
  BY DEF Progress, JournalGrows
<1> QED BY <1>1, EventTyped DEF Handled, Unread

LEMMA Bounds ==
  ASSUME Typed
  PROVE  /\ Len(journal) \in Nat /\ sent \in Nat /\ saved \in Nat /\ checkpoint \in Nat
         /\ batch.id \in Nat /\ Len(queue) \in Nat
         /\ \A i \in 1 .. sent : i \in 1 .. Len(journal)
         /\ \A i \in 1 .. saved : i \in 1 .. Len(journal)
         /\ \A i \in 1 .. batch.id : i \in 1 .. Len(journal)
         /\ \A k \in 1 .. Len(queue) : queue[k] \in Batch /\ queue[k].id \in Nat
<1>1. Len(journal) \in Nat /\ Len(queue) \in Nat
  BY DEF Typed
<1>2. sent \in 0 .. Len(journal) /\ saved \in 0 .. Len(journal) /\ checkpoint \in 0 .. Len(journal)
  BY DEF Typed
<1>3. batch.id \in Nat /\ batch.id <= Len(journal)
  BY DEF Typed, Batch
<1>4. \A k \in 1 .. Len(queue) : queue[k] \in Batch
  BY <1>1 DEF Typed
<1> QED BY <1>1, <1>2, <1>3, <1>4 DEF Batch

(***************************************************************************)
(* The world and the delivery leave the thread and the database alone.     *)
(***************************************************************************)
Outside == UNCHANGED <<thread, database, vnodes>> /\ JournalGrows /\ overflow \subseteq overflow'

LEMMA OutsideKeeps ==
  ASSUME IInv, Outside
  PROVE  /\ TurnShaped' /\ SavedIsHandled' /\ TakenIsHandled'
         /\ \A i \in 1 .. sent : Handled(i) => Handled(i)'
         /\ ToWalk' = ToWalk
<1>1. TurnShaped'
  BY DEF Outside, thread, database, IInv, TurnShaped
<1>2. ToWalk' = ToWalk
  BY DEF Outside, thread, database, ToWalk, Walked
<1>3. Progress
  BY <1>2 DEF Outside, thread, database, Progress
<1>4. Typed
  BY DEF IInv
<1>5. SavedIsHandled'
  BY <1>3, <1>4, ProgressKeeps, Bounds DEF IInv, SavedIsHandled, Outside, database
<1>6. \A i \in 1 .. sent : Handled(i) => Handled(i)'
  BY <1>3, <1>4, ProgressKeeps, Bounds
<1>7. TakenIsHandled'
  <2>1. ASSUME NEW i \in 1 .. batch.id
        PROVE  /\ journal'[i] = journal[i]
               /\ Handled(i) => Handled(i)'
    BY <1>3, <1>4, ProgressKeeps, Bounds DEF Outside, JournalGrows
  <2> QED BY <2>1 DEF IInv, TakenIsHandled, Outside, thread
<1> QED BY <1>1, <1>2, <1>5, <1>6, <1>7

LEMMA WriteStep ==
  ASSUME IInv, NEW f \in Files, Write(f)
  PROVE  IInv'
<1>1. Typed
  BY DEF IInv
<1>2. Typed'
  <2>1. written' \in [Files -> Nat] /\ \A g \in Files : written[g] <= written'[g]
    BY <1>1 DEF Write, Typed
  <2>2. \A i \in 1 .. Len(journal) : journal[i].upto <= written'[journal[i].log]
    BY <1>1, <2>1, EventTyped
  <2> QED BY <1>1, <2>1, <2>2 DEF Write, Typed, thread, database
<1>3. Outside
  BY <1>1, Bounds DEF Write, Outside, JournalGrows
<1>4. QueueOrdered' /\ SentIsUnderWay'
  BY <1>3, OutsideKeeps DEF Write, IInv, QueueOrdered, SentIsUnderWay, thread, Outside
<1>5. VnodesAreFresh'
  <2> SUFFICES ASSUME NEW g \in vnodes, read[g] < written'[g], g \notin raised'
               PROVE  \/ g \in batch.logs \cup dropped
                      \/ pc = "followed" /\ g \in unseen
                      \/ \E k \in 1 .. Len(queue) : g \in queue[k].logs
                      \/ DirOf[g] \in ToWalk
                      \/ pc = "queue" /\ DirOf[g] \in scopes
                      \/ DirOf[g] \in overflow \cup UNION {refused[s] : s \in Sources}
    BY <1>3, OutsideKeeps DEF VnodesAreFresh, Write, thread, database
  <2>1. g # f /\ g \in Files
    BY <1>1 DEF Write, Typed
  <2>2. written'[g] = written[g] /\ g \notin raised
    BY <1>1, <2>1 DEF Write, Typed
  <2> QED BY <2>2 DEF IInv, VnodesAreFresh
<1> QED BY <1>2, <1>3, <1>4, <1>5, OutsideKeeps DEF IInv

LEMMA ReportStep ==
  ASSUME IInv, NEW f \in Files, Report(f)
  PROVE  IInv'
<1>1. Typed
  BY DEF IInv
<1> DEFINE e == [log |-> f, upto |-> written[f]]
<1>2. /\ journal' = Append(journal, e) /\ e \in [log : Files, upto : Nat]
      /\ Len(journal') = Len(journal) + 1 /\ journal' \in Seq([log : Files, upto : Nat])
      /\ journal'[Len(journal) + 1] = e
      /\ \A i \in 1 .. Len(journal) : journal'[i] = journal[i]
  BY <1>1 DEF Report, Typed
<1>3. Typed'
  <2>1. ASSUME NEW i \in 1 .. Len(journal') PROVE journal'[i].upto <= written[journal'[i].log]
    <3>1. CASE i \in 1 .. Len(journal)
      BY <1>1, <1>2, <3>1, EventTyped
    <3>2. CASE i = Len(journal) + 1
      BY <1>1, <1>2, <3>2 DEF Typed
    <3> QED BY <1>1, <1>2, <3>1, <3>2, Bounds
  <2>2. UNCHANGED <<written, read, assoc, watch, thread, database>>
    BY DEF Report, database
  <2>3. {sent, saved, checkpoint} \subseteq 0 .. Len(journal') /\ batch.id <= Len(journal')
    BY <1>1, <1>2, Bounds DEF Typed
  <2> HIDE DEF e
  <2> QED BY <1>1, <1>2, <2>1, <2>2, <2>3 DEF Typed, watch, thread, database
<1>4. Outside
  BY <1>1, <1>2, Bounds DEF Report, Outside, JournalGrows, watch
<1>5. QueueOrdered' /\ VnodesAreFresh'
  BY <1>4, OutsideKeeps DEF Report, IInv, QueueOrdered, VnodesAreFresh, watch, thread, database
<1>6. SentIsUnderWay'
  <2>1. \A i \in 1 .. sent : journal'[i] = journal[i]
    BY <1>1, <1>2, Bounds
  <2> QED BY <1>4, <2>1, OutsideKeeps DEF Report, IInv, SentIsUnderWay, watch, thread
<1> QED BY <1>3, <1>4, <1>5, <1>6, OutsideKeeps DEF IInv

LEMMA AssociateStep ==
  ASSUME IInv, NEW f \in Files, Associate(f)
  PROVE  IInv'
<1>1. Typed
  BY DEF IInv
<1>2. Typed'
  BY <1>1 DEF Associate, Typed, watch, thread, database
<1>3. Outside
  BY <1>1, Bounds DEF Associate, Outside, JournalGrows, watch
<1>4. QueueOrdered' /\ VnodesAreFresh' /\ SentIsUnderWay'
  BY <1>3, OutsideKeeps DEF Associate, IInv, QueueOrdered, VnodesAreFresh, SentIsUnderWay,
                            watch, thread, database
<1> QED BY <1>2, <1>3, <1>4, OutsideKeeps DEF IInv

(***************************************************************************)
(* Delivery: the queue takes a batch, or the source keeps its scopes.      *)
(***************************************************************************)
\* A batch b of id n, for the events after sent: nothing else is queued yet.
LEMMA DeliverKeeps ==
  ASSUME IInv, NEW s \in Sources, NEW b \in Batch, Deliver(s, b),
         Outside, UNCHANGED <<written, journal, overflow>>, raised' \subseteq Files, assoc' = assoc,
         sent' \in sent .. Len(journal), b.id <= sent',
         \/ b.id = 0 /\ sent' = sent /\ s # "stream"
         \/ b.id = sent + 1 /\ sent' = sent + 1 /\ s = "stream"
              /\ (\/ journal[sent + 1].log \in b.logs
                  \/ DirOf[journal[sent + 1].log] \in b.gaps),
         \A f \in raised : f \in raised' \/ f \in b.logs
  PROVE  IInv'
<1>1. Typed /\ QueueOrdered
  BY DEF IInv
<1>2. /\ b.id \in Nat /\ b.logs \subseteq Files /\ b.gaps \subseteq Dirs
      /\ ScopesOf(b) \subseteq Dirs
      /\ DOMAIN refused = Sources /\ refused[s] = {}
      /\ queue \in Seq(Batch) /\ Len(queue) \in Nat /\ sent \in Nat /\ "stream" \in Sources
  BY <1>1, Bounds, LogAssumption DEF Batch, ScopesOf, Typed, Deliver, Sources
<1>3. \/ /\ queue' = Append(queue, b) /\ refused' = refused
      \/ /\ queue' = queue /\ refused' = [refused EXCEPT ![s] = ScopesOf(b)]
  BY DEF Deliver
<1>4. /\ queue' \in Seq(Batch) /\ Len(queue') \in Nat /\ Len(queue) <= Len(queue')
      /\ \A k \in 1 .. Len(queue) : queue'[k] = queue[k]
      /\ queue' # queue => Len(queue') = Len(queue) + 1 /\ queue'[Len(queue) + 1] = b
  BY <1>2, <1>3
<1>5. Typed'
  <2>1. refused' \in [Sources -> SUBSET Dirs]
    BY <1>1, <1>2, <1>3 DEF Typed
  <2>2. sent' \in 0 .. Len(journal)
    BY <1>1, Bounds
  <2> QED BY <1>1, <1>4, <2>1, <2>2 DEF Typed, Outside, thread, database
<1>6. QueueOrdered'
  <2>1. \A k \in 1 .. Len(queue) : queue[k].id \in Nat /\ queue[k].id <= sent
    BY <1>1, Bounds DEF QueueOrdered
  <2>2. CASE queue' = Append(queue, b) /\ refused' = refused
    <3>0. Len(queue') = Len(queue) + 1 /\ queue'[Len(queue) + 1] = b
      BY <1>2, <2>2
    <3>1. \A k \in 1 .. Len(queue') : queue'[k].id <= sent'
      BY <1>2, <1>4, <2>1, <3>0
    <3>2. ASSUME NEW j \in 1 .. Len(queue'), NEW k \in 1 .. Len(queue'), j < k, queue'[k].id > 0
          PROVE  queue'[j].id < queue'[k].id
      <4>1. j \in 1 .. Len(queue) /\ queue'[j] = queue[j]
        BY <1>2, <1>4, <3>0, <3>2
      <4>2. CASE k \in 1 .. Len(queue)
        BY <1>1, <1>4, <3>2, <4>1, <4>2 DEF QueueOrdered
      <4>3. CASE k = Len(queue) + 1
        BY <1>2, <2>1, <3>0, <3>2, <4>1, <4>3
      <4> QED BY <1>2, <3>0, <4>2, <4>3
    <3>3. ASSUME refused'["stream"] # {} PROVE FALSE \/ (sent' = sent /\ b.id = 0)
      BY <1>2, <2>2, <3>3
    <3>4. refused'["stream"] # {} => sent' > 0 /\ \A k \in 1 .. Len(queue') : queue'[k].id < sent'
      BY <1>1, <1>2, <1>4, <2>2, <3>0, <3>3 DEF QueueOrdered
    <3> QED BY <3>1, <3>2, <3>4 DEF QueueOrdered
  <2>3. CASE queue' = queue /\ refused' = [refused EXCEPT ![s] = ScopesOf(b)]
    <3>1. refused'["stream"] # {} => sent' > 0 /\ \A k \in 1 .. Len(queue) : queue[k].id < sent'
      <4>1. CASE s = "stream"
        BY <1>2, <2>1, <4>1
      <4>2. CASE s # "stream"
        <5>1. refused'["stream"] = refused["stream"] /\ sent' = sent
          BY <1>2, <2>3, <4>2
        <5> QED BY <1>1, <5>1 DEF QueueOrdered
      <4> QED BY <4>1, <4>2
    <3> QED BY <1>1, <1>2, <2>1, <2>3, <3>1 DEF QueueOrdered
  <2> QED BY <1>3, <2>2, <2>3
<1>7. SentIsUnderWay'
  <2> SUFFICES ASSUME NEW i \in 1 .. sent'
               PROVE  \/ Handled(i)'
                      \/ i <= batch.id /\ (pc = "taken" \/ ~replayed)
                      \/ \E k \in 1 .. Len(queue') :
                           /\ queue'[k].id = i
                           /\ journal[i].log \in queue'[k].logs \/ DirOf[journal[i].log] \in queue'[k].gaps
                      \/ DirOf[journal[i].log] \in overflow
                      \/ i = sent' /\ DirOf[journal[i].log] \in refused'["stream"]
    BY DEF SentIsUnderWay, Outside, thread
  <2>1. CASE i \in 1 .. sent
    <3>1. Handled(i) => Handled(i)'
      BY <2>1, OutsideKeeps
    <3>2. CASE \E k \in 1 .. Len(queue) :
                 /\ queue[k].id = i
                 /\ journal[i].log \in queue[k].logs \/ DirOf[journal[i].log] \in queue[k].gaps
      BY <1>2, <1>4, <3>2
    <3>3. CASE i = sent /\ DirOf[journal[i].log] \in refused["stream"]
      BY <1>2, <1>3, <3>3
    <3> QED BY <2>1, <3>1, <3>2, <3>3 DEF IInv, SentIsUnderWay
  <2>2. CASE i \notin 1 .. sent
    <3>1. i = sent + 1 /\ b.id = i /\ sent' = i /\ s = "stream"
          /\ (journal[i].log \in b.logs \/ DirOf[journal[i].log] \in b.gaps)
      BY <1>2, <2>2
    <3>2. CASE queue' = Append(queue, b)
      <4>1. Len(queue) + 1 \in 1 .. Len(queue') /\ queue'[Len(queue) + 1] = b
        BY <1>2, <3>2
      <4> QED BY <3>1, <4>1
    <3>3. CASE refused' = [refused EXCEPT ![s] = ScopesOf(b)]
      BY <1>2, <3>1, <3>3 DEF ScopesOf
    <3> QED BY <1>3, <3>2, <3>3
  <2> QED BY <2>1, <2>2
<1>8. VnodesAreFresh'
  <2> SUFFICES ASSUME NEW f \in vnodes, read[f] < written[f]
               PROVE  \/ f \in raised' \cup batch.logs \cup dropped
                      \/ pc = "followed" /\ f \in unseen
                      \/ \E k \in 1 .. Len(queue') : f \in queue'[k].logs
                      \/ DirOf[f] \in ToWalk
                      \/ pc = "queue" /\ DirOf[f] \in scopes
                      \/ DirOf[f] \in overflow \cup UNION {refused'[x] : x \in Sources}
    BY OutsideKeeps DEF VnodesAreFresh, Outside, thread, database
  <2>1. CASE \E k \in 1 .. Len(queue) : f \in queue[k].logs
    BY <1>2, <1>4, <2>1
  <2>2. CASE f \in raised
    <3>1. CASE f \in b.logs /\ queue' = Append(queue, b)
      <4>1. Len(queue) + 1 \in 1 .. Len(queue') /\ queue'[Len(queue) + 1] = b
        BY <1>2, <3>1
      <4> QED BY <3>1, <4>1
    <3>2. CASE f \in b.logs /\ refused' = [refused EXCEPT ![s] = ScopesOf(b)]
      BY <1>2, <3>2 DEF ScopesOf
    <3> QED BY <1>3, <2>2, <3>1, <3>2
  <2>3. CASE DirOf[f] \in UNION {refused[x] : x \in Sources}
    BY <1>2, <1>3, <2>3
  <2> QED BY <2>1, <2>2, <2>3 DEF IInv, VnodesAreFresh
<1> QED BY <1>5, <1>6, <1>7, <1>8, OutsideKeeps DEF IInv

LEMMA DeliveryStep ==
  ASSUME IInv, DeliverEvent \/ DeliverGap \/ DeliverVnodes \/ \E f \in Files : Notify(f)
  PROVE  IInv'
<1>1. Typed
  BY DEF IInv
<1>2. Len(journal) \in Nat /\ sent \in Nat
  BY <1>1, Bounds
<1>3. CASE DeliverEvent \/ DeliverGap
  <2>1. journal[sent + 1].log \in Files /\ sent + 1 \in 1 .. Len(journal)
    BY <1>1, <1>2, <1>3, EventTyped DEF DeliverEvent, DeliverGap
  <2>2. /\ Outside /\ UNCHANGED <<written, journal, overflow, raised, assoc>>
        /\ sent' = sent + 1 /\ raised \subseteq Files
    <3>1. /\ UNCHANGED <<world, vnodes, raised, overflow, thread, database>>
          /\ sent' = sent + 1
      BY <1>3 DEF DeliverEvent, DeliverGap
    <3>2. raised \subseteq Files
      BY <1>1 DEF Typed
    <3> QED BY <1>2, <3>1, <3>2 DEF Outside, JournalGrows, world
  <2>3. PICK b : /\ Deliver("stream", b)
                 /\ \/ b = [id |-> sent + 1, logs |-> {journal[sent + 1].log}, gaps |-> {}]
                    \/ b = [id |-> sent + 1, logs |-> {}, gaps |-> {DirOf[journal[sent + 1].log]}]
    BY <1>3 DEF DeliverEvent, DeliverGap
  <2>4. /\ b \in Batch /\ b.id = sent + 1
        /\ \/ journal[sent + 1].log \in b.logs
           \/ DirOf[journal[sent + 1].log] \in b.gaps
    BY <1>2, <2>1, <2>3, LogAssumption DEF Batch
  <2>5. "stream" \in Sources /\ sent' \in sent .. Len(journal) /\ b.id <= sent'
    BY <1>2, <2>1, <2>2, <2>4 DEF Sources
  <2> QED BY <2>2, <2>3, <2>4, <2>5, DeliverKeeps
<1>4. CASE DeliverVnodes
  <2> DEFINE b == [id |-> 0, logs |-> raised, gaps |-> {}]
  <2>1. /\ Outside /\ UNCHANGED <<written, journal, overflow, assoc>> /\ raised' = {}
        /\ sent' = sent /\ Deliver("vnode", b)
    BY <1>2, <1>4 DEF DeliverVnodes, Outside, JournalGrows, world
  <2>2. b \in Batch /\ b.id = 0 /\ b.logs = raised /\ "vnode" \in Sources /\ "vnode" # "stream"
    BY <1>1 DEF Typed, Batch, Sources
  <2>3. sent' \in sent .. Len(journal) /\ b.id <= sent'
    BY <1>1, <1>2, <2>1, <2>2 DEF Typed
  <2> HIDE DEF b
  <2> QED BY <2>1, <2>2, <2>3, DeliverKeeps
<1>5. ASSUME NEW f \in Files, Notify(f) PROVE IInv'
  <2> DEFINE b == [id |-> 0, logs |-> {f}, gaps |-> {}]
  <2>1. /\ Outside /\ UNCHANGED <<written, journal, overflow, assoc, raised>>
        /\ sent' = sent /\ Deliver("hook", b) /\ raised \subseteq Files
    BY <1>1, <1>2, <1>5 DEF Notify, Outside, JournalGrows, world, Typed
  <2>2. b \in Batch /\ b.id = 0 /\ "hook" \in Sources /\ "hook" # "stream"
    BY <1>1 DEF Batch, Sources
  <2>3. sent' \in sent .. Len(journal) /\ b.id <= sent'
    BY <1>1, <1>2, <2>1, <2>2 DEF Typed
  <2> HIDE DEF b
  <2> QED BY <2>1, <2>2, <2>3, DeliverKeeps
<1> QED BY <1>3, <1>4, <1>5

LEMMA OverflowStep ==
  ASSUME IInv, NEW s \in Sources, Overflow(s)
  PROVE  IInv'
<1>1. Typed
  BY DEF IInv
<1>2. refused' = [refused EXCEPT ![s] = {}] /\ overflow' = overflow \cup refused[s]
      /\ DOMAIN refused = Sources /\ "stream" \in Sources
      /\ UNCHANGED <<world, faults, sent, vnodes, raised, queue, thread, database>>
  BY <1>1 DEF Overflow, Typed, Sources
<1>3. Typed'
  <2>1. refused' \in [Sources -> SUBSET Dirs] /\ overflow' \subseteq Dirs
    BY <1>1, <1>2 DEF Typed
  <2> QED BY <1>1, <1>2, <2>1 DEF Typed, world, thread, database
<1>4. Outside
  BY <1>1, <1>2, Bounds DEF Outside, JournalGrows, world
<1>5. QueueOrdered'
  <2>1. refused'["stream"] # {} => refused'["stream"] = refused["stream"]
    BY <1>2
  <2> QED BY <1>2, <2>1 DEF IInv, QueueOrdered
<1>6. SentIsUnderWay'
  <2>1. \A d \in refused["stream"] : d \in refused'["stream"] \/ d \in overflow'
    BY <1>2
  <2> QED BY <1>2, <1>4, <2>1, OutsideKeeps DEF IInv, SentIsUnderWay, world, thread
<1>7. VnodesAreFresh'
  <2>1. \A d \in UNION {refused[x] : x \in Sources} :
          d \in overflow' \cup UNION {refused'[x] : x \in Sources}
    BY <1>2
  <2>2. overflow \subseteq overflow'
    BY <1>2
  <2> QED BY <1>2, <1>4, <2>1, <2>2, OutsideKeeps DEF IInv, VnodesAreFresh, world, thread, database
<1> QED BY <1>3, <1>4, <1>5, <1>6, <1>7, OutsideKeeps DEF IInv

(***************************************************************************)
(* The thread.                                                             *)
(***************************************************************************)
\* A new watch owes only what is past what is saved, and follows nothing yet.
LEMMA FreshWatch ==
  ASSUME NEW n, NewWatch(n), n <= saved', n \in Nat, saved' \in Nat, SavedIsHandled'
  PROVE  QueueOrdered' /\ SentIsUnderWay' /\ VnodesAreFresh'
<1>1. /\ sent' = n /\ vnodes' = {} /\ queue' = <<>> /\ "stream" \in Sources
      /\ refused' = [s \in Sources |-> {}]
  BY DEF NewWatch, Sources
<1>2. QueueOrdered'
  BY <1>1 DEF QueueOrdered
<1>3. SentIsUnderWay'
  BY <1>1 DEF SentIsUnderWay, SavedIsHandled
<1>4. VnodesAreFresh'
  BY <1>1 DEF VnodesAreFresh
<1> QED BY <1>2, <1>3, <1>4

LEMMA NewWatchTyped ==
  ASSUME Typed, NEW n \in 0 .. Len(journal), NewWatch(n), UNCHANGED <<world, read, saved>>,
         checkpoint' \in 0 .. saved, batch' \in Batch, batch'.id <= Len(journal)
  PROVE  Typed'
<1>1. refused' \in [Sources -> SUBSET Dirs] /\ sent' = n /\ vnodes' = {} /\ raised' = {}
      /\ queue' = <<>> /\ overflow' = {}
  BY DEF NewWatch
<1>2. checkpoint' \in 0 .. Len(journal) /\ checkpoint' <= saved
  BY Bounds DEF Typed
<1> QED BY <1>1, <1>2 DEF Typed, world

LEMMA NothingIs == Nothing \in Batch /\ Nothing.id = 0 /\ Nothing.logs = {}
  BY DEF Nothing, Batch

LEMMA SameJournal == Typed /\ journal' = journal => JournalGrows
  BY Bounds DEF JournalGrows

\* With nothing read or given up, and nothing taken off the worklist.
LEMMA NothingReadKeeps ==
  ASSUME Typed, UNCHANGED <<world, read, dropped>>, ToWalk \subseteq ToWalk'
  PROVE  Progress
BY SameJournal DEF Progress, world

LEMMA SavedKeeps ==
  ASSUME Typed, SavedIsHandled, Progress, saved' = saved
  PROVE  SavedIsHandled'
BY ProgressKeeps, Bounds DEF SavedIsHandled

LEMMA FailStep ==
  ASSUME IInv, Fail
  PROVE  IInv'
<1>1. Typed /\ SavedIsHandled
  BY DEF IInv
<1>2. /\ NewWatch(0) /\ batch' = Nothing /\ checkpoint' = 0 /\ pc' = "start" /\ scopes' = {}
      /\ UNCHANGED <<world, read, saved, scanDirs, dropped>>
  BY DEF Fail, NoWatch, database
<1>3. Typed'
  BY <1>1, <1>2, NothingIs, NewWatchTyped, Bounds
<1>4. ToWalk \subseteq ToWalk'
  BY <1>2 DEF ToWalk, Walked
<1>5. SavedIsHandled'
  BY <1>1, <1>2, <1>4, NothingReadKeeps, SavedKeeps
<1>6. TurnShaped' /\ TakenIsHandled'
  BY <1>1, <1>2, NothingIs, Bounds DEF TurnShaped, TakenIsHandled, PCs
<1>7. QueueOrdered' /\ SentIsUnderWay' /\ VnodesAreFresh'
  BY <1>1, <1>2, <1>5, FreshWatch, Bounds
<1> QED BY <1>3, <1>5, <1>6, <1>7 DEF IInv

LEMMA StartStep ==
  ASSUME IInv, Start
  PROVE  IInv'
<1>1. Typed /\ SavedIsHandled /\ TurnShaped
  BY DEF IInv
<1>2. /\ NewWatch(saved) /\ batch' = batch /\ checkpoint' = saved /\ pc = "start" /\ pc' = "boot"
      /\ UNCHANGED <<world, scopes, read, saved, scanDirs, dropped>>
  BY DEF Start, database
<1>3. batch.logs = {} /\ batch.id = 0 /\ scopes = {}
  BY <1>1, <1>2 DEF TurnShaped
<1>4. saved \in 0 .. Len(journal) /\ batch \in Batch /\ saved \in Nat /\ Len(journal) \in Nat
  BY <1>1, Bounds DEF Typed
<1>5. Typed'
  BY <1>1, <1>2, <1>3, <1>4, NewWatchTyped
<1>6. ToWalk \subseteq ToWalk'
  BY <1>2 DEF ToWalk, Walked
<1>7. SavedIsHandled'
  BY <1>1, <1>2, <1>6, NothingReadKeeps, SavedKeeps
<1>8. TurnShaped' /\ TakenIsHandled'
  BY <1>1, <1>2, <1>3, <1>4 DEF TurnShaped, TakenIsHandled, PCs
<1>9. QueueOrdered' /\ SentIsUnderWay' /\ VnodesAreFresh'
  BY <1>2, <1>4, <1>7, FreshWatch
<1> QED BY <1>5, <1>7, <1>8, <1>9 DEF IInv

\* What is on its way stays so when logs are read and nothing else moves.
LEMMA ReadingKeeps ==
  ASSUME IInv, Progress, UNCHANGED <<world, watch, saved, pc, batch, scopes, replayed>>
  PROVE  SavedIsHandled' /\ TakenIsHandled' /\ SentIsUnderWay' /\ QueueOrdered'
<1>1. Typed
  BY DEF IInv
<1>2. \A i \in 1 .. Len(journal) : Handled(i) => Handled(i)'
  BY <1>1, ProgressKeeps
<1>3. SavedIsHandled'
  BY <1>1, SavedKeeps DEF IInv
<1>4. TakenIsHandled'
  <2>1. \A i \in 1 .. batch.id : Handled(i) => Handled(i)'
    BY <1>1, <1>2, Bounds
  <2> QED BY <2>1 DEF IInv, TakenIsHandled, world, watch
<1>5. SentIsUnderWay'
  <2>1. \A i \in 1 .. sent : Handled(i) => Handled(i)'
    BY <1>1, <1>2, Bounds
  <2> QED BY <2>1 DEF IInv, SentIsUnderWay, world, watch
<1>6. QueueOrdered'
  BY DEF IInv, QueueOrdered, watch
<1> QED BY <1>3, <1>4, <1>5, <1>6

LEMMA ReadTyped ==
  ASSUME Typed, NEW logs, ReadLogs(logs)
  PROVE  /\ read' \in [Files -> Nat]
         /\ \A f \in Files : read'[f] = IF f \in logs THEN written[f] ELSE read[f]
         /\ \A f \in dropped : f \in dropped' \/ f \in logs
BY DEF ReadLogs, Typed

LEMMA BootDirStep ==
  ASSUME IInv, NEW d \in Dirs, BootDir(d)
  PROVE  IInv'
<1>1. Typed /\ TurnShaped
  BY DEF IInv
<1>2. /\ ReadLogs(LogsIn(d)) /\ pc = "boot" /\ scanDirs' = scanDirs \ {d}
      /\ UNCHANGED <<world, faults, watch, thread, saved>>
  BY DEF BootDir
<1>3. ToWalk = scanDirs /\ ToWalk' = scanDirs \ {d}
  BY <1>2 DEF ToWalk, Walked, thread
<1>4. /\ read' \in [Files -> Nat]
      /\ \A f \in Files : read'[f] = IF DirOf[f] = d THEN written[f] ELSE read[f]
      /\ \A f \in dropped : f \in dropped' \/ read'[f] = written[f]
  <2>1. \A f : f \in LogsIn(d) <=> f \in Files /\ DirOf[f] = d
    BY DEF LogsIn
  <2> QED BY <1>1, <1>2, <2>1, ReadTyped
<1>5. Progress
  <2>1. JournalGrows
    BY <1>1, <1>2, SameJournal DEF world
  <2> QED BY <1>3, <1>4, <2>1 DEF Progress
<1>6. Typed'
  BY <1>1, <1>2, <1>4 DEF Typed, world, watch, thread
<1>7. SavedIsHandled' /\ TakenIsHandled' /\ SentIsUnderWay' /\ QueueOrdered'
  BY <1>2, <1>5, ReadingKeeps DEF thread
<1>8. TurnShaped'
  BY <1>1, <1>2 DEF TurnShaped, watch, thread
<1>9. VnodesAreFresh'
  <2>1. ASSUME NEW f \in vnodes, read'[f] < written[f]
        PROVE  read'[f] = read[f] /\ DirOf[f] # d /\ f \in Files /\ (f \in dropped => f \in dropped')
    <3>1. f \in Files /\ written[f] \in Nat
      BY <1>1 DEF Typed
    <3> QED BY <1>4, <2>1, <3>1
  <2> QED BY <1>2, <1>3, <2>1 DEF IInv, VnodesAreFresh, world, watch, thread
<1> QED BY <1>6, <1>7, <1>8, <1>9 DEF IInv

LEMMA RepairDirStep ==
  ASSUME IInv, NEW d \in Dirs, RepairDir(d)
  PROVE  IInv'
<1>1. Typed /\ TurnShaped
  BY DEF IInv
<1>2. /\ ReadLogs(LogsIn(d)) /\ pc \in {"repair", "retry"} /\ unseen' = unseen \ {d}
      /\ UNCHANGED <<world, faults, watch, pc, batch, scopes, checkpoint, replayed, saved, scanDirs>>
  BY DEF RepairDir
<1>3. \A x \in ToWalk : x \in ToWalk' \/ x = d
  BY <1>2 DEF ToWalk, Walked
<1>4. /\ read' \in [Files -> Nat]
      /\ \A f \in Files : read'[f] = IF DirOf[f] = d THEN written[f] ELSE read[f]
      /\ \A f \in dropped : f \in dropped' \/ read'[f] = written[f]
  <2>1. \A f : f \in LogsIn(d) <=> f \in Files /\ DirOf[f] = d
    BY DEF LogsIn
  <2> QED BY <1>1, <1>2, <2>1, ReadTyped
<1>5. Progress
  <2>1. JournalGrows
    BY <1>1, <1>2, SameJournal DEF world
  <2> QED BY <1>3, <1>4, <2>1 DEF Progress
<1>6. Typed'
  BY <1>1, <1>2, <1>4 DEF Typed, world, watch
<1>7. SavedIsHandled' /\ TakenIsHandled' /\ SentIsUnderWay' /\ QueueOrdered'
  BY <1>2, <1>5, ReadingKeeps
<1>8. TurnShaped'
  BY <1>1, <1>2 DEF TurnShaped, watch
<1>9. VnodesAreFresh'
  <2>1. ASSUME NEW f \in vnodes, read'[f] < written[f]
        PROVE  /\ read'[f] = read[f] /\ (f \in dropped => f \in dropped')
               /\ DirOf[f] \in ToWalk => DirOf[f] \in ToWalk'
    <3>1. f \in Files /\ written[f] \in Nat
      BY <1>1 DEF Typed
    <3> QED BY <1>3, <1>4, <2>1, <3>1
  <2> QED BY <1>2, <2>1 DEF IInv, VnodesAreFresh, world, watch
<1> QED BY <1>6, <1>7, <1>8, <1>9 DEF IInv

LEMMA ReadFollowedStep ==
  ASSUME IInv, NEW f \in Files, ReadFollowed(f)
  PROVE  IInv'
<1>1. Typed /\ TurnShaped
  BY DEF IInv
<1>2. /\ ReadLogs({f}) /\ pc = "followed" /\ unseen' = unseen \ {f}
      /\ UNCHANGED <<world, faults, watch, pc, batch, scopes, checkpoint, replayed, saved, scanDirs>>
  BY DEF ReadFollowed
<1>3. ToWalk' = ToWalk
  BY <1>2 DEF ToWalk, Walked
<1>4. /\ read' \in [Files -> Nat]
      /\ \A g \in Files : read'[g] = IF g = f THEN written[g] ELSE read[g]
      /\ \A g \in dropped : g \in dropped' \/ g = f
  BY <1>1, <1>2, ReadTyped
<1>5. Progress
  <2>1. JournalGrows
    BY <1>1, <1>2, SameJournal DEF world
  <2> QED BY <1>3, <1>4, <2>1 DEF Progress
<1>6. Typed'
  BY <1>1, <1>2, <1>4 DEF Typed, world, watch
<1>7. SavedIsHandled' /\ TakenIsHandled' /\ SentIsUnderWay' /\ QueueOrdered'
  BY <1>2, <1>5, ReadingKeeps
<1>8. TurnShaped'
  BY <1>1, <1>2 DEF TurnShaped, watch
<1>9. VnodesAreFresh'
  <2>1. ASSUME NEW g \in vnodes, read'[g] < written[g]
        PROVE  read'[g] = read[g] /\ g # f /\ (g \in dropped => g \in dropped')
    <3>1. g \in Files /\ written[g] \in Nat
      BY <1>1 DEF Typed
    <3> QED BY <1>4, <2>1, <3>1
  <2> QED BY <1>2, <1>3, <2>1 DEF IInv, VnodesAreFresh, world, watch
<1> QED BY <1>6, <1>7, <1>8, <1>9 DEF IInv

LEMMA FollowStep ==
  ASSUME IInv, Follow
  PROVE  IInv'
<1>1. Typed /\ TurnShaped
  BY DEF IInv
<1>2. /\ pc \in {"boot", "follow"} /\ pc' = "followed" /\ vnodes' = assoc
      /\ raised' = raised \cap assoc /\ unseen' = assoc \ vnodes
      /\ UNCHANGED <<world, sent, queue, refused, overflow, batch, scopes, checkpoint, replayed,
                     read, saved, scanDirs, dropped>>
  BY DEF Follow, database
<1>3. ToWalk' = ToWalk
  BY <1>2 DEF ToWalk, Walked
<1>4. Typed'
  BY <1>1, <1>2 DEF Typed, world
<1>5. Progress
  BY <1>1, <1>2, <1>3, NothingReadKeeps
<1>6. \A i \in 1 .. Len(journal) : Handled(i) => Handled(i)'
  BY <1>1, <1>5, ProgressKeeps
<1>7. TurnShaped'
  BY <1>1, <1>2 DEF TurnShaped, PCs
<1>8. QueueOrdered' /\ SavedIsHandled'
  BY <1>1, <1>2, <1>5, SavedKeeps DEF IInv, QueueOrdered
<1>9. TakenIsHandled' /\ SentIsUnderWay'
  <2>1. \A i \in 1 .. batch.id : Handled(i) => Handled(i)'
    BY <1>1, <1>6, Bounds
  <2>2. \A i \in 1 .. sent : Handled(i) => Handled(i)'
    BY <1>1, <1>6, Bounds
  <2> QED BY <1>2, <2>1, <2>2 DEF IInv, TakenIsHandled, SentIsUnderWay, world
<1>10. VnodesAreFresh'
  <2>1. ASSUME NEW f \in assoc, read[f] < written[f], f \notin unseen'
        PROVE  f \in vnodes /\ (f \in raised => f \in raised')
    BY <1>2, <2>1
  <2> QED BY <1>2, <1>3, <2>1 DEF IInv, VnodesAreFresh, world
<1> QED BY <1>4, <1>7, <1>8, <1>9, <1>10 DEF IInv

\* At the end of a turn everything taken is handled.
LEMMA EndOfTurnKeeps ==
  ASSUME IInv, EndOfTurn, batch.logs = {}, batch.id <= saved, pc # "taken",
         UNCHANGED <<world, watch, read, saved, dropped, replayed>>,
         ToWalk \subseteq ToWalk', scopes' = {},
         pc # "queue", pc = "followed" => unseen = {}
  PROVE  IInv'
<1>1. Typed /\ TurnShaped
  BY DEF IInv
<1>2. batch' = Nothing /\ pc' = "wait" /\ checkpoint' = Later(checkpoint, batch.id)
  BY DEF EndOfTurn
<1>3. Typed'
  <2>1. checkpoint' \in 0 .. Len(journal) /\ checkpoint' <= saved
    <3>1. checkpoint' = checkpoint \/ checkpoint' = batch.id
      BY <1>2 DEF Later
    <3>2. /\ checkpoint \in 0 .. Len(journal) /\ checkpoint <= saved
          /\ batch.id \in Nat /\ batch.id <= Len(journal) /\ Len(journal) \in Nat
      BY <1>1, Bounds DEF Typed
    <3> QED BY <3>1, <3>2
  <2> QED BY <1>1, <1>2, <2>1, NothingIs, Bounds DEF Typed, world, watch
<1>4. Progress
  BY <1>1, NothingReadKeeps
<1>5. SavedIsHandled'
  BY <1>1, <1>4, SavedKeeps DEF IInv
<1>6. TurnShaped' /\ QueueOrdered' /\ TakenIsHandled'
  BY <1>1, <1>2, NothingIs, Bounds DEF IInv, TurnShaped, QueueOrdered, TakenIsHandled, PCs, watch
<1>7. SentIsUnderWay'
  <2>1. ASSUME NEW i \in 1 .. sent
        PROVE  /\ Handled(i) => Handled(i)'
               /\ i <= batch.id => Handled(i)'
    <3>1. Handled(i) => Handled(i)'
      BY <1>1, <1>4, ProgressKeeps, Bounds
    <3>2. i <= batch.id => i \in 1 .. saved
      BY <1>1, Bounds
    <3> QED BY <3>1, <3>2 DEF IInv, SavedIsHandled
  <2> QED BY <2>1 DEF IInv, SentIsUnderWay, world, watch
<1>8. VnodesAreFresh'
  BY <1>2, NothingIs DEF IInv, VnodesAreFresh, world, watch
<1> QED BY <1>3, <1>5, <1>6, <1>7, <1>8 DEF IInv

LEMMA FollowedStep ==
  ASSUME IInv, Followed
  PROVE  IInv'
<1>1. Typed /\ TurnShaped
  BY DEF IInv
<1>2. /\ pc = "followed" /\ unseen = {} /\ batch.logs = {} /\ batch.id <= saved
      /\ UNCHANGED <<world, faults, watch, replayed, read, saved, scanDirs, dropped>>
      /\ scopes = {}
  BY <1>1 DEF Followed, database, TurnShaped
<1>3. CASE EndOfTurn /\ UNCHANGED <<scopes, unseen, phase>>
  <2>1. ToWalk' = ToWalk
    BY <1>2, <1>3 DEF EndOfTurn, ToWalk, Walked
  <2> QED BY <1>2, <1>3, <2>1, EndOfTurnKeeps
<1>4. CASE scopes' = scanDirs /\ unseen' = scanDirs /\ pc' = "retry" /\ UNCHANGED <<batch, checkpoint>>
  <2>1. ToWalk' = ToWalk
    BY <1>2, <1>4 DEF ToWalk, Walked
  <2>2. Progress
    BY <1>1, <1>2, <2>1, NothingReadKeeps
  <2>3. \A i \in 1 .. Len(journal) : Handled(i) => Handled(i)'
    BY <1>1, <2>2, ProgressKeeps
  <2>4. Typed' /\ TurnShaped' /\ QueueOrdered'
    BY <1>1, <1>2, <1>4 DEF IInv, Typed, TurnShaped, QueueOrdered, PCs, world, watch
  <2>5. SavedIsHandled'
    BY <1>1, <1>2, <2>2, SavedKeeps DEF IInv
  <2>6. TakenIsHandled' /\ SentIsUnderWay'
    <3>1. \A i \in 1 .. batch.id : Handled(i) => Handled(i)'
      BY <1>1, <2>3, Bounds
    <3>2. \A i \in 1 .. sent : Handled(i) => Handled(i)'
      BY <1>1, <2>3, Bounds
    <3> QED BY <1>2, <1>4, <3>1, <3>2 DEF IInv, TakenIsHandled, SentIsUnderWay, world, watch
  <2>7. VnodesAreFresh'
    BY <1>2, <1>4, <2>1 DEF IInv, VnodesAreFresh, world, watch
  <2> QED BY <2>4, <2>5, <2>6, <2>7 DEF IInv
<1> QED BY <1>3, <1>4 DEF Followed

LEMMA MaxIs ==
  ASSUME NEW S, S \subseteq Nat, S # {}, NEW b \in Nat, \A x \in S : x <= b
  PROVE  Max(S) \in S /\ \A y \in S : y <= Max(S)
<1> DEFINE R == {ss \in Nat \X Nat : ss[1] < ss[2]}
           D == {n \in Nat : \E x \in S : n = b - x}
<1>1. IsWellFoundedOn(R, Nat)
  BY NatLessThanWellFounded DEF OpToRel
<1>2. \A x \in S : b - x \in D
  OBVIOUS
<1>3. PICK d \in D : \A e \in D : ~(<<e, d>> \in R)
  <2>1. D \subseteq Nat /\ D # {}
    BY <1>2
  <2> HIDE DEF R, D
  <2> QED BY <1>1, <2>1, WFMin
<1>4. d \in Nat /\ \A e \in D : ~(e < d)
  <2>1. \A e \in Nat : <<e, d>> \in R <=> e < d
    BY <1>3
  <2> QED BY <1>3, <2>1
<1>5. PICK x \in S : d = b - x
  BY <1>3
<1>6. \A y \in S : y <= x
  <2> TAKE y \in S
  <2>1. b - y \in D /\ ~(b - y < b - x) /\ y \in Nat /\ x \in Nat
    BY <1>2, <1>4, <1>5
  <2> QED BY <2>1
<1>7. \E z \in S : \A y \in S : z >= y
  BY <1>6
<1> QED BY <1>7 DEF Max

\* Batches that are joined have the highest of their ids and all they name.
LEMMA JoinedIs ==
  ASSUME NEW q \in Seq(Batch), NEW n \in 1 .. Len(q), NEW b \in Nat,
         \A k \in 1 .. Len(q) : q[k].id <= b
  PROVE  LET j == Joined(SubSeq(q, 1, n)) IN
         /\ j \in Batch /\ j.id <= b
         /\ \E k \in 1 .. n : j.id = q[k].id
         /\ \A k \in 1 .. n : q[k].id <= j.id /\ q[k].logs \subseteq j.logs /\ q[k].gaps \subseteq j.gaps
<1> DEFINE bs == SubSeq(q, 1, n)
           ids == {bs[i].id : i \in DOMAIN bs}
           j == Joined(bs)
<1>1. DOMAIN bs = 1 .. n /\ \A k \in 1 .. n : bs[k] = q[k] /\ bs[k] \in Batch /\ k \in 1 .. Len(q)
  OBVIOUS
<1> HIDE DEF bs
<1>2. /\ ids \subseteq Nat /\ \A x \in ids : x <= b
      /\ \A k \in 1 .. n : q[k].id \in ids
      /\ \A x \in ids : \E k \in 1 .. n : x = q[k].id
  BY <1>1 DEF Batch
<1>3. ids # {} /\ 1 \in 1 .. n
  BY <1>2
<1>4. Max(ids) \in ids /\ \A y \in ids : y <= Max(ids)
  <2> HIDE DEF ids
  <2> QED BY <1>2, <1>3, MaxIs
<1>5. j = [id |-> Max(ids), logs |-> UNION {bs[i].logs : i \in DOMAIN bs},
           gaps |-> UNION {bs[i].gaps : i \in DOMAIN bs}]
  BY DEF Joined
<1>6. j.id = Max(ids) /\ \A k \in 1 .. n : q[k].logs \subseteq j.logs /\ q[k].gaps \subseteq j.gaps
  <2> HIDE DEF ids
  <2> QED BY <1>1, <1>5
<1>7. j \in Batch
  <2>1. UNION {bs[i].logs : i \in DOMAIN bs} \subseteq Files /\ UNION {bs[i].gaps : i \in DOMAIN bs} \subseteq Dirs
    BY <1>1 DEF Batch
  <2>2. Max(ids) \in Nat
    BY <1>2, <1>4
  <2> HIDE DEF ids
  <2> QED BY <1>5, <2>1, <2>2 DEF Batch
<1> HIDE DEF ids, j
<1> QED BY <1>2, <1>4, <1>6, <1>7 DEF bs, j

LEMMA QueueRecoveryStep ==
  ASSUME IInv, QueueRecovery
  PROVE  IInv'
<1>1. Typed /\ TurnShaped
  BY DEF IInv
<1>2. /\ pc = "queue" /\ pc' = "repair" /\ scanDirs' = scanDirs \cup scopes /\ unseen' = scopes
      /\ UNCHANGED <<world, watch, batch, scopes, checkpoint, replayed, read, saved, dropped>>
  BY DEF QueueRecovery
<1>3. ToWalk' = ToWalk \cup scopes
  BY <1>2 DEF ToWalk, Walked
<1>4. Progress
  BY <1>1, <1>2, <1>3, NothingReadKeeps
<1>5. \A i \in 1 .. Len(journal) : Handled(i) => Handled(i)'
  BY <1>1, <1>4, ProgressKeeps
<1>6. Typed' /\ QueueOrdered'
  BY <1>1, <1>2 DEF IInv, Typed, QueueOrdered, world, watch
<1>7. TurnShaped'
  BY <1>1, <1>2 DEF TurnShaped, PCs, watch
<1>8. SavedIsHandled'
  BY <1>1, <1>2, <1>4, SavedKeeps DEF IInv
<1>9. TakenIsHandled'
  <2>1. ASSUME NEW i \in 1 .. batch.id, DirOf[journal[i].log] \in scopes PROVE Handled(i)'
    BY <1>2, <1>3, <2>1 DEF Handled, world
  <2>2. \A i \in 1 .. batch.id : Handled(i) => Handled(i)'
    BY <1>1, <1>5, Bounds
  <2> QED BY <1>2, <2>1, <2>2 DEF IInv, TakenIsHandled, world
<1>10. SentIsUnderWay'
  <2>1. \A i \in 1 .. sent : Handled(i) => Handled(i)'
    BY <1>1, <1>5, Bounds
  <2> QED BY <1>2, <2>1 DEF IInv, SentIsUnderWay, world, watch
<1>11. VnodesAreFresh'
  BY <1>2, <1>3 DEF IInv, VnodesAreFresh, world, watch
<1> QED BY <1>6, <1>7, <1>8, <1>9, <1>10, <1>11 DEF IInv

LEMMA FinishRecoveryStep ==
  ASSUME IInv, FinishRecovery
  PROVE  IInv'
<1>1. Typed /\ TurnShaped
  BY DEF IInv
<1>2. /\ pc \in {"repair", "retry"} /\ unseen = {} /\ scopes' = {} /\ scanDirs' = scanDirs \ scopes
      /\ UNCHANGED <<world, faults, watch, unseen, replayed, read, saved, dropped>>
  BY DEF FinishRecovery
<1>3. ToWalk = scanDirs \ scopes
  BY <1>2 DEF ToWalk, Walked
<1>4. CASE pc = "retry" /\ EndOfTurn
  <2>1. ToWalk' = ToWalk
    BY <1>2, <1>3, <1>4 DEF EndOfTurn, ToWalk, Walked
  <2>2. batch.logs = {} /\ batch.id <= saved
    BY <1>1, <1>4 DEF TurnShaped
  <2> QED BY <1>2, <1>4, <2>1, <2>2, EndOfTurnKeeps
<1>5. CASE pc = "repair" /\ pc' = "read" /\ UNCHANGED <<batch, checkpoint>>
  <2>1. ToWalk' = ToWalk
    BY <1>2, <1>3, <1>5 DEF ToWalk, Walked
  <2>2. Progress
    BY <1>1, <1>2, <2>1, NothingReadKeeps
  <2>3. \A i \in 1 .. Len(journal) : Handled(i) => Handled(i)'
    BY <1>1, <2>2, ProgressKeeps
  <2>4. Typed' /\ TurnShaped' /\ QueueOrdered'
    BY <1>1, <1>2, <1>5 DEF IInv, Typed, TurnShaped, QueueOrdered, PCs, world, watch
  <2>5. SavedIsHandled'
    BY <1>1, <1>2, <2>2, SavedKeeps DEF IInv
  <2>6. TakenIsHandled' /\ SentIsUnderWay'
    <3>1. \A i \in 1 .. batch.id : Handled(i) => Handled(i)'
      BY <1>1, <2>3, Bounds
    <3>2. \A i \in 1 .. sent : Handled(i) => Handled(i)'
      BY <1>1, <2>3, Bounds
    <3> QED BY <1>2, <1>5, <3>1, <3>2 DEF IInv, TakenIsHandled, SentIsUnderWay, world, watch
  <2>7. VnodesAreFresh'
    BY <1>2, <1>5, <2>1 DEF IInv, VnodesAreFresh, world, watch
  <2> QED BY <2>4, <2>5, <2>6, <2>7 DEF IInv
<1> QED BY <1>2, <1>4, <1>5 DEF FinishRecovery

\* The batch of a failed repair is given up, unless the new watch replays it.
LEMMA RepairFailsStep ==
  ASSUME IInv, RepairFails
  PROVE  IInv'
<1>1. Typed /\ TurnShaped
  BY DEF IInv
<1>2. /\ pc \in {"queue", "repair", "retry"} /\ pc' = "wait" /\ batch' = Nothing /\ scopes' = {}
      /\ UNCHANGED <<world, watch, checkpoint, replayed, read, saved, scanDirs>>
  BY DEF RepairFails
<1>3. /\ dropped \subseteq dropped'
      /\ pc # "retry" /\ ~replayed => /\ batch.logs \subseteq dropped'
                                     /\ \A f \in Files : DirOf[f] \in scopes \ scanDirs => f \in dropped'
  BY DEF RepairFails
<1>4. ToWalk \subseteq scanDirs /\ ToWalk' = scanDirs
  BY <1>2 DEF ToWalk, Walked
<1>5. Progress
  BY <1>1, <1>2, <1>3, <1>4, SameJournal DEF Progress, world
<1>6. \A i \in 1 .. Len(journal) : Handled(i) => Handled(i)'
  BY <1>1, <1>5, ProgressKeeps
<1>7. Typed' /\ TurnShaped' /\ QueueOrdered' /\ TakenIsHandled'
  BY <1>1, <1>2, NothingIs, Bounds DEF IInv, Typed, TurnShaped, QueueOrdered, TakenIsHandled, PCs, world, watch
<1>8. SavedIsHandled'
  BY <1>1, <1>2, <1>5, SavedKeeps DEF IInv
<1>9. SentIsUnderWay'
  <2>1. ASSUME NEW i \in 1 .. sent, i <= batch.id, ~replayed
        PROVE  Handled(i)'
    <3>1. i \in 1 .. batch.id /\ i \in 1 .. Len(journal) /\ journal[i].log \in Files
      BY <1>1, <2>1, Bounds, EventTyped
    <3>2. \/ Handled(i) \/ journal[i].log \in batch.logs
          \/ pc = "queue" /\ DirOf[journal[i].log] \in scopes
      BY <1>2, <3>1 DEF IInv, TakenIsHandled
    <3>3. CASE journal[i].log \in batch.logs
      <4>1. pc # "retry"
        BY <1>1, <3>3 DEF TurnShaped
      <4> QED BY <1>2, <1>3, <2>1, <3>3, <4>1 DEF Handled, world
    <3>4. CASE pc = "queue" /\ DirOf[journal[i].log] \in scopes
      BY <1>2, <1>3, <1>4, <2>1, <3>1, <3>4 DEF Handled, world
    <3> QED BY <1>6, <3>1, <3>2, <3>3, <3>4
  <2>2. \A i \in 1 .. sent : Handled(i) => Handled(i)'
    BY <1>1, <1>6, Bounds
  <2> QED BY <1>2, <2>1, <2>2 DEF IInv, SentIsUnderWay, world, watch
<1>10. VnodesAreFresh'
  <2>1. ASSUME NEW f \in vnodes, f \in batch.logs \/ (pc = "queue" /\ DirOf[f] \in scopes)
        PROVE  f \in dropped' \/ DirOf[f] \in ToWalk'
    <3>1. f \in Files /\ pc # "retry" /\ ~replayed
      BY <1>1, <1>2, <2>1 DEF Typed, TurnShaped
    <3> QED BY <1>3, <1>4, <2>1, <3>1
  <2> QED BY <1>2, <1>3, <1>4, <2>1 DEF IInv, VnodesAreFresh, world, watch
<1> QED BY <1>7, <1>8, <1>9, <1>10 DEF IInv

LEMMA ReadBatchStep ==
  ASSUME IInv, ReadBatch
  PROVE  IInv'
<1>1. Typed /\ TurnShaped
  BY DEF IInv
<1>2. /\ ReadLogs(batch.logs) /\ pc = "read" /\ pc' = "follow" /\ saved' = Later(saved, batch.id)
      /\ batch' = [batch EXCEPT !.logs = {}]
      /\ UNCHANGED <<world, watch, scopes, checkpoint, replayed, scanDirs>>
  BY DEF ReadBatch
<1>3. batch' \in Batch /\ batch'.id = batch.id /\ batch'.logs = {}
  BY <1>1, <1>2 DEF Typed, Batch
<1>4. ToWalk' = ToWalk
  BY <1>2 DEF ToWalk, Walked
<1>5. /\ read' \in [Files -> Nat]
      /\ \A f \in Files : read'[f] = IF f \in batch.logs THEN written[f] ELSE read[f]
      /\ \A f \in dropped : f \in dropped' \/ f \in batch.logs
  BY <1>1, <1>2, ReadTyped
<1>6. Progress
  <2>1. JournalGrows /\ batch.logs \subseteq Files
    BY <1>1, <1>2, SameJournal DEF world, Typed, Batch
  <2> QED BY <1>4, <1>5, <2>1 DEF Progress
<1>7. \A i \in 1 .. Len(journal) : Handled(i) => Handled(i)'
  BY <1>1, <1>6, ProgressKeeps
<1>8. \A i \in 1 .. batch.id : Handled(i)'
  <2> TAKE i \in 1 .. batch.id
  <2>1. i \in 1 .. Len(journal) /\ journal[i].log \in Files
    BY <1>1, Bounds, EventTyped
  <2>2. Handled(i) \/ journal[i].log \in batch.logs
    BY <1>2 DEF IInv, TakenIsHandled
  <2>3. journal[i].log \in batch.logs => Handled(i)'
    BY <1>1, <1>5, <1>6, <2>1, ReadIsHandled
  <2> QED BY <1>7, <2>1, <2>2, <2>3
<1>9. /\ saved' = saved \/ saved' = batch.id
      /\ saved' \in 0 .. Len(journal) /\ saved <= saved' /\ batch.id <= saved'
  <2>1. /\ saved \in 0 .. Len(journal) /\ batch.id \in Nat /\ batch.id <= Len(journal)
        /\ Len(journal) \in Nat
    BY <1>1, Bounds DEF Typed
  <2> QED BY <1>2, <2>1 DEF Later
<1>10. Typed'
  <2>1. checkpoint <= saved'
    BY <1>1, <1>9, Bounds DEF Typed
  <2> QED BY <1>1, <1>2, <1>3, <1>5, <1>9, <2>1 DEF Typed, world, watch
<1>11. TurnShaped' /\ QueueOrdered'
  BY <1>1, <1>2, <1>3, <1>9 DEF IInv, TurnShaped, QueueOrdered, PCs, watch
<1>12. SavedIsHandled' /\ TakenIsHandled'
  <2>1. \A i \in 1 .. saved : Handled(i)'
    BY <1>1, <1>7, Bounds DEF IInv, SavedIsHandled
  <2> QED BY <1>3, <1>8, <1>9, <2>1 DEF SavedIsHandled, TakenIsHandled
<1>13. SentIsUnderWay'
  <2>1. \A i \in 1 .. sent : Handled(i) => Handled(i)'
    BY <1>1, <1>7, Bounds
  <2> QED BY <1>2, <1>3, <2>1 DEF IInv, SentIsUnderWay, world, watch
<1>14. VnodesAreFresh'
  <2>1. ASSUME NEW f \in vnodes, read'[f] < written[f]
        PROVE  read'[f] = read[f] /\ f \notin batch.logs /\ (f \in dropped => f \in dropped')
    <3>1. f \in Files /\ written[f] \in Nat
      BY <1>1 DEF Typed
    <3> QED BY <1>5, <2>1, <3>1
  <2> QED BY <1>2, <1>4, <2>1 DEF IInv, VnodesAreFresh, world, watch
<1> QED BY <1>10, <1>11, <1>12, <1>13, <1>14 DEF IInv

LEMMA ExamineStep ==
  ASSUME IInv, Examine
  PROVE  IInv'
<1>1. Typed /\ TurnShaped
  BY DEF IInv
<1>2. /\ pc = "taken" /\ scopes' = overflow \cup batch.gaps /\ batch' = [batch EXCEPT !.gaps = {}]
      /\ (scopes' # {} /\ pc' = "queue") \/ (scopes' = {} /\ pc' = "read")
      /\ replayed' => overflow # {}
      /\ overflow # {} => replayed'
      /\ UNCHANGED <<world, faults, unseen, checkpoint, phase, read, saved, scanDirs, dropped>>
  <2>1. /\ pc = "taken" /\ scopes' = overflow \cup batch.gaps /\ batch' = [batch EXCEPT !.gaps = {}]
        /\ UNCHANGED <<world, faults, unseen, checkpoint, phase, read, saved, scanDirs, dropped>>
    BY DEF Examine, database
  <2>2. (scopes' # {} /\ pc' = "queue") \/ (scopes' = {} /\ pc' = "read")
    BY DEF Examine
  <2>3. replayed' = (overflow # {})
    BY DEF Examine
  <2> QED BY <2>1, <2>2, <2>3
<1>3. batch' \in Batch /\ batch'.id = batch.id /\ batch'.logs = batch.logs
  BY <1>1, <1>2 DEF Typed, Batch
<1>4. /\ checkpoint \in 0 .. Len(journal) /\ checkpoint <= saved /\ checkpoint \in Nat
      /\ saved \in Nat /\ batch.id <= Len(journal)
  BY <1>1, Bounds DEF Typed
<1>5. ToWalk' = ToWalk
  BY <1>2 DEF ToWalk, Walked
<1>6. Progress
  BY <1>1, <1>2, <1>5, NothingReadKeeps
<1>7. \A i \in 1 .. Len(journal) : Handled(i) => Handled(i)'
  BY <1>1, <1>6, ProgressKeeps
<1>8. SavedIsHandled'
  BY <1>1, <1>2, <1>6, SavedKeeps DEF IInv
<1>9. TakenIsHandled'
  <2>1. \A i \in 1 .. batch.id : Handled(i) => Handled(i)'
    BY <1>1, <1>7, Bounds
  <2>2. ASSUME NEW i \in 1 .. batch.id, DirOf[journal[i].log] \in batch.gaps \cup overflow
        PROVE  pc' = "queue" /\ DirOf[journal'[i].log] \in scopes'
    BY <1>2, <2>2 DEF world
  <2>3. \A i \in 1 .. batch.id : journal'[i] = journal[i]
    BY <1>2 DEF world
  <2> QED BY <1>2, <1>3, <2>1, <2>2, <2>3 DEF IInv, TakenIsHandled
<1>10. CASE overflow # {} /\ NewWatch(checkpoint)
  <2>1. Typed'
    <3>1. checkpoint' \in 0 .. saved
      BY <1>2, <1>4
    <3> QED BY <1>1, <1>2, <1>3, <1>4, <1>10, <3>1, NewWatchTyped
  <2>2. TurnShaped'
    BY <1>2, <1>10 DEF TurnShaped, PCs, NewWatch
  <2>3. QueueOrdered' /\ SentIsUnderWay' /\ VnodesAreFresh'
    <3>1. checkpoint <= saved' /\ saved' \in Nat
      BY <1>2, <1>4
    <3> QED BY <1>4, <1>8, <1>10, <3>1, FreshWatch
  <2> QED BY <1>8, <1>9, <2>1, <2>2, <2>3 DEF IInv
<1>11. CASE overflow = {} /\ UNCHANGED watch
  <2>1. Typed' /\ QueueOrdered'
    BY <1>1, <1>2, <1>3, <1>11 DEF IInv, Typed, QueueOrdered, world, watch
  <2>2. TurnShaped'
    BY <1>2, <1>11 DEF TurnShaped, PCs
  <2>3. SentIsUnderWay'
    <3>1. \A i \in 1 .. sent : Handled(i) => Handled(i)'
      BY <1>1, <1>7, Bounds
    <3> QED BY <1>2, <1>3, <1>11, <3>1 DEF IInv, SentIsUnderWay, world, watch
  <2>4. VnodesAreFresh'
    BY <1>2, <1>3, <1>5, <1>11 DEF IInv, VnodesAreFresh, world, watch
  <2> QED BY <1>8, <1>9, <2>1, <2>2, <2>3, <2>4 DEF IInv
<1> QED BY <1>10, <1>11 DEF Examine

\* What is taken is the oldest of the queue: all that was sent up to its id.
LEMMA ReceiveStep ==
  ASSUME IInv, Receive
  PROVE  IInv'
<1>1. Typed /\ TurnShaped /\ QueueOrdered
  BY DEF IInv
<1>2. /\ pc = "wait" /\ pc' = "taken"
      /\ UNCHANGED <<world, faults, sent, vnodes, raised, refused, overflow, scopes,
                     unseen, checkpoint, replayed, phase, read, saved, scanDirs, dropped>>
  BY DEF Receive, database
<1>3. PICK n \in 1 .. Len(queue) : /\ batch' = Joined(SubSeq(queue, 1, n))
                                  /\ queue' = SubSeq(queue, n + 1, Len(queue))
  BY DEF Receive
<1>4. /\ batch' \in Batch /\ batch'.id \in Nat /\ batch'.id <= sent
      /\ \E k \in 1 .. n : batch'.id = queue[k].id
      /\ \A k \in 1 .. n : /\ queue[k].id <= batch'.id
                          /\ queue[k].logs \subseteq batch'.logs /\ queue[k].gaps \subseteq batch'.gaps
  <2>1. queue \in Seq(Batch) /\ sent \in Nat /\ \A k \in 1 .. Len(queue) : queue[k].id <= sent
    BY <1>1, Bounds DEF Typed, QueueOrdered
  <2>2. LET j == Joined(SubSeq(queue, 1, n)) IN
         /\ j \in Batch /\ j.id <= sent
         /\ \E k \in 1 .. n : j.id = queue[k].id
         /\ \A k \in 1 .. n : /\ queue[k].id <= j.id
                             /\ queue[k].logs \subseteq j.logs /\ queue[k].gaps \subseteq j.gaps
    BY <2>1, JoinedIs
  <2>3. batch' \in Batch => batch'.id \in Nat
    BY DEF Batch
  <2> QED BY <1>3, <2>2, <2>3
<1>5. /\ queue' \in Seq(Batch) /\ Len(queue) \in Nat /\ Len(queue') = Len(queue) - n
      /\ \A k \in 1 .. Len(queue') : k + n \in 1 .. Len(queue) /\ queue'[k] = queue[k + n]
      /\ \A k \in 1 .. Len(queue) : k > n => k - n \in 1 .. Len(queue') /\ queue'[k - n] = queue[k]
  <2>1. queue \in Seq(Batch) /\ Len(queue) \in Nat /\ n \in Nat
    BY <1>1 DEF Typed
  <2> QED BY <1>3, <2>1
<1>6. Typed'
  <2>1. batch'.id <= Len(journal)
    <3>1. sent \in 0 .. Len(journal) /\ Len(journal) \in Nat
      BY <1>1, Bounds DEF Typed
    <3> QED BY <1>4, <3>1
  <2> QED BY <1>1, <1>2, <1>4, <1>5, <2>1 DEF Typed, world
<1>7. TurnShaped'
  BY <1>1, <1>2 DEF TurnShaped, PCs
<1>8. QueueOrdered'
  <2>1. ASSUME NEW j \in 1 .. Len(queue'), NEW k \in 1 .. Len(queue'), j < k, queue'[k].id > 0
        PROVE  queue'[j].id < queue'[k].id
    <3>1. j + n < k + n /\ j + n \in 1 .. Len(queue) /\ k + n \in 1 .. Len(queue)
      BY <1>5, <2>1
    <3>2. queue'[j] = queue[j + n] /\ queue'[k] = queue[k + n]
      BY <1>5
    <3> QED BY <1>1, <2>1, <3>1, <3>2 DEF QueueOrdered
  <2> QED BY <1>1, <1>2, <1>5, <2>1 DEF QueueOrdered
<1>9. ToWalk' = ToWalk
  BY <1>2 DEF ToWalk, Walked
<1>10. Progress
  BY <1>1, <1>2, <1>9, NothingReadKeeps
<1>11. \A i \in 1 .. Len(journal) : Handled(i) => Handled(i)'
  BY <1>1, <1>10, ProgressKeeps
<1>12. SavedIsHandled'
  BY <1>1, <1>2, <1>10, SavedKeeps DEF IInv
<1>13. \A k \in 1 .. Len(queue) : queue[k].id \in Nat
  BY <1>1, Bounds
<1>14. ASSUME NEW i \in 1 .. sent
       PROVE  \/ Handled(i)'
              \/ \E k \in 1 .. Len(queue) :
                   /\ queue[k].id = i
                   /\ journal[i].log \in queue[k].logs \/ DirOf[journal[i].log] \in queue[k].gaps
              \/ DirOf[journal[i].log] \in overflow
              \/ i = sent /\ DirOf[journal[i].log] \in refused["stream"]
  <2>1. batch.id = 0 /\ i \in Nat /\ i > 0 /\ i \in 1 .. Len(journal)
    BY <1>1, <1>2, Bounds DEF TurnShaped
  <2>2. ~(i <= batch.id)
    BY <2>1
  <2> QED BY <1>11, <2>1, <2>2 DEF IInv, SentIsUnderWay
<1>15. TakenIsHandled'
  <2> SUFFICES ASSUME NEW i \in 1 .. batch'.id
               PROVE  \/ Handled(i)'
                      \/ journal[i].log \in batch'.logs
                      \/ DirOf[journal[i].log] \in batch'.gaps \cup overflow
    BY <1>2 DEF TakenIsHandled, world
  <2>1. i \in 1 .. sent /\ sent \in Nat /\ i \in Nat /\ i <= batch'.id
    BY <1>1, <1>4, Bounds
  <2>2. PICK m \in 1 .. n : batch'.id = queue[m].id
    BY <1>4
  <2>3. m \in 1 .. Len(queue) /\ queue[m].id > 0
    <3>1. m \in 1 .. n /\ n \in 1 .. Len(queue) /\ Len(queue) \in Nat
      BY <1>5
    <3>2. batch'.id \in Nat /\ i <= batch'.id /\ i \in 1 .. batch'.id
      BY <1>4, <2>1
    <3> QED BY <2>2, <3>1, <3>2
  <2>4. ASSUME NEW k \in 1 .. Len(queue), queue[k].id = i
        PROVE  k \in 1 .. n
    <3>1. CASE k > n
      <4>1. m < k /\ queue[k].id > 0
        BY <2>1, <2>4, <3>1
      <4>2. queue[m].id < queue[k].id
        BY <1>1, <2>3, <4>1 DEF QueueOrdered
      <4> QED BY <1>13, <2>1, <2>2, <2>3, <2>4, <4>2
    <3> QED BY <1>5, <3>1
  <2>5. ASSUME i = sent, refused["stream"] # {} PROVE FALSE
    <3>1. queue[m].id < sent
      BY <1>1, <2>3, <2>5 DEF QueueOrdered
    <3> QED BY <1>13, <2>1, <2>2, <2>3, <2>5, <3>1
  <2>6. ASSUME NEW k \in 1 .. Len(queue), queue[k].id = i,
               journal[i].log \in queue[k].logs \/ DirOf[journal[i].log] \in queue[k].gaps
        PROVE  journal[i].log \in batch'.logs \/ DirOf[journal[i].log] \in batch'.gaps
    BY <1>4, <2>4, <2>6
  <2> QED BY <1>14, <2>1, <2>5, <2>6
<1>16. SentIsUnderWay'
  <2> SUFFICES ASSUME NEW i \in 1 .. sent
               PROVE  \/ Handled(i)'
                      \/ i <= batch'.id
                      \/ \E k \in 1 .. Len(queue') :
                           /\ queue'[k].id = i
                           /\ journal[i].log \in queue'[k].logs \/ DirOf[journal[i].log] \in queue'[k].gaps
                      \/ DirOf[journal[i].log] \in overflow
                      \/ i = sent /\ DirOf[journal[i].log] \in refused["stream"]
    BY <1>2 DEF SentIsUnderWay, world
  <2>1. ASSUME NEW k \in 1 .. Len(queue), queue[k].id = i, ~(k > n)
        PROVE  i <= batch'.id
    <3>1. k \in 1 .. n
      BY <1>5, <2>1
    <3> QED BY <1>4, <2>1, <3>1
  <2>2. ASSUME NEW k \in 1 .. Len(queue), queue[k].id = i, k > n,
               journal[i].log \in queue[k].logs \/ DirOf[journal[i].log] \in queue[k].gaps
        PROVE  \E l \in 1 .. Len(queue') :
                 /\ queue'[l].id = i
                 /\ journal[i].log \in queue'[l].logs \/ DirOf[journal[i].log] \in queue'[l].gaps
    <3>1. k - n \in 1 .. Len(queue') /\ queue'[k - n] = queue[k]
      BY <1>5, <2>2
    <3> QED BY <2>2, <3>1
  <2> QED BY <1>14, <2>1, <2>2
<1>17. VnodesAreFresh'
  <2> SUFFICES ASSUME NEW f \in vnodes, read[f] < written[f]
               PROVE  \/ f \in raised \cup batch'.logs \cup dropped
                      \/ \E k \in 1 .. Len(queue') : f \in queue'[k].logs
                      \/ DirOf[f] \in ToWalk
                      \/ DirOf[f] \in overflow \cup UNION {refused[s] : s \in Sources}
    BY <1>2, <1>9 DEF VnodesAreFresh, world
  <2>1. batch.logs = {}
    BY <1>1, <1>2 DEF TurnShaped
  <2>2. ASSUME NEW k \in 1 .. Len(queue), f \in queue[k].logs
        PROVE  f \in batch'.logs \/ \E l \in 1 .. Len(queue') : f \in queue'[l].logs
    <3>1. CASE k > n
      <4>1. k - n \in 1 .. Len(queue') /\ queue'[k - n] = queue[k]
        BY <1>5, <3>1
      <4> QED BY <2>2, <4>1
    <3>2. CASE ~(k > n)
      <4>1. k \in 1 .. n
        BY <1>5, <3>2
      <4> QED BY <1>4, <2>2, <4>1
    <3> QED BY <3>1, <3>2
  <2> QED BY <1>2, <2>1, <2>2 DEF IInv, VnodesAreFresh
<1> QED BY <1>6, <1>7, <1>8, <1>12, <1>15, <1>16, <1>17 DEF IInv

(***************************************************************************)
(* The theorems.                                                           *)
(***************************************************************************)
LEMMA InitIInv ==
  Init => IInv
<1> SUFFICES ASSUME Init PROVE IInv
  OBVIOUS
<1>1. Typed
  <2>1. /\ written \in [Files -> Nat] /\ read \in [Files -> Nat]
        /\ refused \in [Sources -> SUBSET Dirs]
    BY DEF Init
  <2>2. journal = <<>> /\ Len(journal) = 0 /\ queue = <<>> /\ batch \in Batch /\ batch.id = 0
    BY NothingIs DEF Init
  <2>3. journal \in Seq([log : Files, upto : Nat]) /\ queue \in Seq(Batch)
    BY <2>2
  <2> QED BY <2>1, <2>2, <2>3 DEF Init, Typed
<1>2. TurnShaped
  BY NothingIs DEF Init, TurnShaped, PCs
<1>3. QueueOrdered
  BY DEF Init, QueueOrdered, Sources
<1>4. SavedIsHandled /\ TakenIsHandled /\ SentIsUnderWay /\ VnodesAreFresh
  BY NothingIs DEF Init, SavedIsHandled, TakenIsHandled, SentIsUnderWay, VnodesAreFresh
<1> QED BY <1>1, <1>2, <1>3, <1>4 DEF IInv

LEMMA StutterKeeps ==
  IInv /\ UNCHANGED vars => IInv'
<1> SUFFICES ASSUME IInv, UNCHANGED vars PROVE IInv'
  OBVIOUS
<1> USE DEF vars, world, watch, thread, database
<1>1. Typed' /\ TurnShaped' /\ QueueOrdered'
  BY DEF IInv, Typed, TurnShaped, QueueOrdered
<1>2. SavedIsHandled' /\ TakenIsHandled' /\ SentIsUnderWay' /\ VnodesAreFresh'
  BY DEF IInv, SavedIsHandled, TakenIsHandled, SentIsUnderWay, VnodesAreFresh,
         Handled, Unread, ToWalk, Walked
<1> QED BY <1>1, <1>2 DEF IInv

LEMMA NextIInv ==
  IInv /\ [Next]_vars => IInv'
<1> SUFFICES ASSUME IInv, [Next]_vars PROVE IInv'
  OBVIOUS
<1>1. CASE World
  BY <1>1, WriteStep, ReportStep, AssociateStep DEF World
<1>2. CASE Delivery
  BY <1>2, DeliveryStep, OverflowStep DEF Delivery
<1>3. CASE Thread
  BY <1>3, StartStep, FollowStep, FollowedStep, ReceiveStep, ExamineStep, QueueRecoveryStep,
     FinishRecoveryStep, ReadBatchStep, BootDirStep, RepairDirStep, ReadFollowedStep DEF Thread
<1>4. CASE Fail \/ RepairFails
  BY <1>4, FailStep, RepairFailsStep
<1>5. CASE UNCHANGED vars
  BY <1>5, StutterKeeps
<1> QED BY <1>1, <1>2, <1>3, <1>4, <1>5 DEF Next

\* The inductive invariant holds, however many logs, directories, batches and
\* faults there are.
THEOREM Invariants ==
  Spec => []IInv
BY InitIInv, NextIInv, PTL DEF Spec

\* The checkpoint is saved with the logs of the events it covers, so whatever
\* crashes, overflows or gaps there are, a restart that replays from it misses
\* no line but those of a batch that a failed repair gave up.
THEOREM NoLineIsLost ==
  Spec => []OnlyDroppedAreLost
<1>1. IInv => OnlyDroppedAreLost
  BY DEF IInv, SavedIsHandled, Handled, OnlyDroppedAreLost, ToWalk
<1> QED BY <1>1, Invariants, PTL

\* A log is registered before it is read, so one that the vnode listener
\* follows is read to its end or its reading is under way, in the queue, in a
\* repair, or in the scopes kept when the queue was full.
THEOREM NoFollowedLineWaits ==
  Spec => []FollowedIsFresh
<1>1. IInv => FollowedIsFresh
  <2> SUFFICES ASSUME IInv PROVE FollowedIsFresh
    OBVIOUS
  <2>1. DOMAIN queue = 1 .. Len(queue)
    BY DEF IInv, Typed
  <2> QED BY <2>1 DEF IInv, VnodesAreFresh, FollowedIsFresh, ToWalk
<1> QED BY <1>1, Invariants, PTL

(***************************************************************************)
(* The types of what IInv does not speak of.                               *)
(***************************************************************************)
Rest ==
    /\ late \subseteq Files /\ assoc \subseteq Managed /\ faults \in 0 .. MaxFaults
    /\ Len(queue) <= QueueCap
    /\ scopes \subseteq Dirs /\ unseen \subseteq Files \cup Dirs
    /\ replayed \in BOOLEAN /\ phase \in {"Healthy", "Interrupted", "Recovering"}
    /\ scanDirs \subseteq Dirs /\ dropped \subseteq Files

LEMMA RestIsType == IInv /\ Rest => TypeOK
<1> SUFFICES ASSUME IInv, Rest PROVE TypeOK
  OBVIOUS
<1>1. Len(journal) \in Nat /\ {sent, saved, checkpoint} \subseteq 0 .. Len(journal)
  BY DEF IInv, Typed
<1>2. sent \in Nat /\ saved \in Nat /\ checkpoint \in Nat
  BY <1>1
<1>3. vnodes \in SUBSET Files /\ raised \in SUBSET Files /\ pc \in PCs
  BY DEF IInv, Typed, TurnShaped
<1> QED BY <1>2, <1>3 DEF IInv, Typed, Rest, TypeOK

LEMMA RestIsOutside ==
  ASSUME IInv, Rest, World
  PROVE  Rest'
<1>1. \A f \in Files : Write(f) => Rest'
  BY DEF Write, Rest, thread, database
<1>2. \A f \in Files : Report(f) => Rest'
  BY DEF Report, Rest, watch, thread, database
<1>3. \A f \in Files : Associate(f) => Rest'
  BY DEF Associate, Rest, watch, thread, database
<1> QED BY <1>1, <1>2, <1>3 DEF World

LEMMA RestIsDelivered ==
  ASSUME IInv, Rest, Delivery
  PROVE  Rest'
<1>1. queue \in Seq(Batch) /\ Len(queue) \in Nat /\ QueueCap \in Nat
  BY LogAssumption DEF IInv, Typed
<1>2. ASSUME NEW source, NEW b, Deliver(source, b) PROVE Len(queue') <= QueueCap
  BY <1>1, <1>2 DEF Deliver, Rest
<1> USE DEF Rest, world, thread, database
<1>3. DeliverEvent \/ DeliverGap => Rest'
  BY <1>2 DEF DeliverEvent, DeliverGap
<1>4. DeliverVnodes => Rest'
  BY <1>2 DEF DeliverVnodes
<1>5. \A f \in Files : Notify(f) => Rest'
  BY <1>2 DEF Notify
<1>6. \A source \in Sources : Overflow(source) => Rest'
  BY DEF Overflow
<1> QED BY <1>3, <1>4, <1>5, <1>6 DEF Delivery

LEMMA RestIsThread ==
  ASSUME IInv, Rest, Thread
  PROVE  Rest'
<1>1. /\ queue \in Seq(Batch) /\ Len(queue) \in Nat /\ QueueCap \in Nat
      /\ batch.gaps \subseteq Dirs /\ overflow \subseteq Dirs
      /\ Managed \subseteq Files
  BY LogAssumption DEF IInv, Typed, Batch
<1>2. queue' = <<>> => Len(queue') <= QueueCap
  BY LogAssumption
<1> USE DEF Rest, world, watch, thread, database
<1>3. Start => Rest'
  BY <1>2 DEF Start, NewWatch
<1>4. Follow => Rest'
  BY <1>1 DEF Follow
<1>5. Followed => Rest'
  BY DEF Followed, EndOfTurn
<1>6. Receive => Rest'
  <2> SUFFICES ASSUME Receive PROVE Rest'
    OBVIOUS
  <2>1. PICK n \in 1 .. Len(queue) : queue' = SubSeq(queue, n + 1, Len(queue))
    BY DEF Receive
  <2>2. Len(queue') <= QueueCap
    BY <1>1, <2>1
  <2> QED BY <2>2 DEF Receive
<1>7. Examine => Rest'
  BY <1>1, <1>2 DEF Examine, NewWatch
<1>8. QueueRecovery => Rest'
  BY DEF QueueRecovery
<1>9. FinishRecovery => Rest'
  BY DEF FinishRecovery, EndOfTurn
<1>10. ReadBatch => Rest'
  BY DEF ReadBatch, ReadLogs
<1>11. \A d \in Dirs : BootDir(d) \/ RepairDir(d) => Rest'
  BY DEF BootDir, RepairDir, ReadLogs
<1>12. \A f \in Files : ReadFollowed(f) => Rest'
  BY DEF ReadFollowed, ReadLogs
<1> QED BY <1>3, <1>4, <1>5, <1>6, <1>7, <1>8, <1>9, <1>10, <1>11, <1>12 DEF Thread

LEMMA RestIsFailing ==
  ASSUME IInv, Rest, Fail \/ RepairFails
  PROVE  Rest'
<1>1. MaxFaults \in Nat /\ QueueCap \in Nat /\ batch.logs \subseteq Files
  BY LogAssumption DEF IInv, Typed, Batch
<1>2. Fail => Rest'
  <2>1. queue' = <<>> => Len(queue') <= QueueCap
    BY <1>1
  <2>2. faults \in 0 .. MaxFaults /\ faults < MaxFaults => faults + 1 \in 0 .. MaxFaults
    BY <1>1
  <2> QED BY <2>1, <2>2 DEF Rest, Fail, NoWatch, NewWatch, world, database
<1>3. RepairFails => Rest'
  BY <1>1 DEF Rest, RepairFails, world, watch
<1> QED BY <1>2, <1>3

\* Every variable keeps its type: the queue its capacity, the thread what it
\* holds at each point of a turn, the cursors and the ids their range.
THEOREM TypeCorrect ==
  Spec => []TypeOK
<1>1. Init => Rest
  <2>1. 0 \in 0 .. MaxFaults /\ Len(<<>>) <= QueueCap
    BY LogAssumption
  <2> QED BY <2>1 DEF Init, Rest
<1>2. IInv /\ Rest /\ [Next]_vars => Rest'
  <2>1. IInv /\ Rest /\ UNCHANGED vars => Rest'
    BY DEF Rest, vars, world, watch, thread, database
  <2> QED BY <2>1, RestIsOutside, RestIsDelivered, RestIsThread, RestIsFailing DEF Next
<1>3. Spec => []Rest
  BY <1>1, <1>2, Invariants, PTL DEF Spec
<1> QED BY <1>3, RestIsType, Invariants, PTL
=============================================================================
