--------------------------- MODULE LogSubscription ---------------------------
(***************************************************************************)
(* How the host reads the logs of coding agents without polling: FSEvents  *)
(* (a journal that can be replayed from an id, late while a writer keeps   *)
(* its file open), vnode notifications for the logs of current             *)
(* conversations, hooks that name a log, one bounded queue, one thread     *)
(* that reads logs from durable cursors and keeps a durable checkpoint,    *)
(* and repairs of whole directories when events are lost.                  *)
(*                                                                         *)
(* A log is the number of its lines, a directory a scope.  Logs only grow. *)
(***************************************************************************)
EXTENDS Naturals, Sequences, FiniteSetsExt

CONSTANTS
    Files,      \* logs
    Managed,    \* of these, logs a conversation in a terminal may write
    Dirs,       \* disjoint directories
    DirOf,      \* the directory of each log
    Lines,      \* bound: lines of each log
    QueueCap,   \* batches the queue holds: 16 in the code
    MaxFaults   \* bound: crashes and errors

ASSUME LogAssumption ==
    /\ Managed \subseteq Files
    /\ DirOf \in [Files -> Dirs]
    /\ Lines \in [Files -> Nat]
    /\ QueueCap \in Nat \ {0}
    /\ MaxFaults \in Nat

VARIABLES
    \* The world
    written,    \* lines of each log
    late,       \* logs with lines FSEvents has not reported
    assoc,      \* logs of current conversations
    journal,    \* FSEvents' history: the id of an event is its index
    faults,     \* faults that have happened
    \* The watch: the stream, the vnode listener, the queue
    sent,       \* the id of the last event the stream has delivered
    vnodes,     \* logs the vnode listener follows
    raised,     \* followed logs whose notification waits in the kqueue
    queue,      \* batches for the thread
    refused,    \* scopes of a batch each source found no room for
    overflow,   \* scopes of such batches
    \* The thread
    pc,
    batch,      \* what it has taken: logs to read, the highest id
    scopes,     \* directories under repair
    unseen,     \* of these, those not yet walked, or logs just followed
    checkpoint, \* its copy of the durable checkpoint
    replayed,   \* whether the watch was renewed for this batch
    phase,      \* the recognition status it publishes
    \* The database
    read,       \* the cursor of each log
    saved,      \* the durable checkpoint
    scanDirs,   \* the durable worklist of directories
    \* History
    dropped     \* logs in batches given up with a failed repair, unread since

world == <<written, late, assoc, journal>>
watch == <<sent, vnodes, raised, queue, refused, overflow>>
thread == <<pc, batch, scopes, unseen, checkpoint, replayed, phase>>
database == <<read, saved, scanDirs, dropped>>
vars == <<world, faults, watch, thread, database>>

Sources == {"stream", "vnode", "hook"}

(* Batches: the id of an event of the stream or 0, the logs it names, and  *)
(* the directories it asks to be searched because events of them are gone. *)
Batch == [id : Nat, logs : SUBSET Files, gaps : SUBSET Dirs]
Nothing == [id |-> 0, logs |-> {}, gaps |-> {}]

PCs == {"start", "boot", "follow", "wait", "taken", "queue", "repair", "read",
        "followed", "retry"}

TypeOK ==
    /\ written \in [Files -> Nat]
    /\ late \in SUBSET Files /\ assoc \in SUBSET Managed
    /\ journal \in Seq([log : Files, upto : Nat])
    /\ faults \in 0 .. MaxFaults
    /\ sent \in Nat /\ vnodes \in SUBSET Files /\ raised \in SUBSET Files
    /\ queue \in Seq(Batch) /\ Len(queue) <= QueueCap
    /\ refused \in [Sources -> SUBSET Dirs] /\ overflow \in SUBSET Dirs
    /\ pc \in PCs /\ batch \in Batch /\ scopes \in SUBSET Dirs
    /\ unseen \in SUBSET (Files \cup Dirs) /\ checkpoint \in Nat
    /\ replayed \in BOOLEAN
    /\ phase \in {"Healthy", "Interrupted", "Recovering"}
    /\ read \in [Files -> Nat] /\ saved \in Nat /\ scanDirs \in SUBSET Dirs
    /\ dropped \in SUBSET Files

(* The first start: nothing is indexed, every directory is to be walked,   *)
(* and the checkpoint is the current id.                                   *)
Init ==
    /\ written = [f \in Files |-> 0] /\ late = {} /\ assoc = {}
    /\ journal = <<>> /\ faults = 0
    /\ sent = 0 /\ vnodes = {} /\ raised = {} /\ queue = <<>>
    /\ refused = [s \in Sources |-> {}] /\ overflow = {}
    /\ pc = "start" /\ batch = Nothing /\ scopes = {} /\ unseen = {}
    /\ checkpoint = 0 /\ replayed = FALSE /\ phase = "Interrupted"
    /\ read = [f \in Files |-> 0] /\ saved = 0 /\ scanDirs = Dirs
    /\ dropped = {}

-----------------------------------------------------------------------------
(* The world. *)

Watching == pc # "start"

Write(f) ==
    /\ written[f] < Lines[f]
    /\ written' = [written EXCEPT ![f] = @ + 1]
    /\ late' = late \cup {f}
    /\ raised' = IF f \in vnodes THEN raised \cup {f} ELSE raised
    /\ UNCHANGED <<assoc, journal, faults, sent, vnodes, queue, refused, overflow,
                   thread, database>>

(* FSEvents reports a log when its writer closes it, or before: nothing    *)
(* obliges a writer to close its log.                                      *)
Report(f) ==
    /\ f \in late
    /\ late' = late \ {f}
    /\ journal' = Append(journal, [log |-> f, upto |-> written[f]])
    /\ UNCHANGED <<written, assoc, faults, watch, thread, database>>

(* A conversation becomes current or stops being it: commits of the host   *)
(* that do not concern the thread.                                         *)
Associate(f) ==
    /\ f \in Managed
    /\ assoc' \in {assoc \cup {f}, assoc \ {f}}
    /\ UNCHANGED <<written, late, journal, faults, watch, thread, database>>

-----------------------------------------------------------------------------
(* Delivery.  A source that finds the queue full adds the directories to   *)
(* `overflow` in a second step: the queue and `overflow` are not locked    *)
(* together.                                                               *)

ScopesOf(b) == b.gaps \cup {DirOf[f] : f \in b.logs}

\* Mutant: a batch that finds no room is forgotten.
Deliver_Drops(source, b) ==
    /\ refused[source] = {}
    /\ IF Len(queue) < QueueCap THEN queue' = Append(queue, b) ELSE UNCHANGED queue
    /\ UNCHANGED refused
Deliver(source, b) ==
    /\ refused[source] = {}
    /\ IF Len(queue) < QueueCap
       THEN queue' = Append(queue, b) /\ UNCHANGED refused
       ELSE refused' = [refused EXCEPT ![source] = ScopesOf(b)] /\ UNCHANGED queue

Overflow(source) ==
    /\ refused[source] # {}
    /\ overflow' = overflow \cup refused[source]
    /\ refused' = [refused EXCEPT ![source] = {}]
    /\ UNCHANGED <<world, faults, sent, vnodes, raised, queue, thread, database>>

DeliverEvent ==
    /\ Watching /\ sent < Len(journal)
    /\ sent' = sent + 1
    /\ Deliver("stream", [id |-> sent + 1, logs |-> {journal[sent + 1].log}, gaps |-> {}])
    /\ UNCHANGED <<world, faults, vnodes, raised, overflow, thread, database>>

(* The kernel has lost the event and says which directory to search. *)
DeliverGap ==
    /\ Watching /\ sent < Len(journal)
    /\ sent' = sent + 1
    /\ Deliver("stream", [id |-> sent + 1, logs |-> {},
                          gaps |-> {DirOf[journal[sent + 1].log]}])
    /\ UNCHANGED <<world, faults, vnodes, raised, overflow, thread, database>>

DeliverVnodes ==
    /\ Watching /\ raised # {}
    /\ raised' = {}
    /\ Deliver("vnode", [id |-> 0, logs |-> raised, gaps |-> {}])
    /\ UNCHANGED <<world, faults, sent, vnodes, overflow, thread, database>>

(* A hook, an exit or a finished agent names its log. *)
Notify(f) ==
    /\ Watching /\ f \in assoc
    /\ Deliver("hook", [id |-> 0, logs |-> {f}, gaps |-> {}])
    /\ UNCHANGED <<world, faults, sent, vnodes, raised, overflow, thread, database>>

-----------------------------------------------------------------------------
(* The thread. *)

(* A new watch replays the journal after `since`; what the old one had     *)
(* queued, refused or followed is gone with it.                            *)
NewWatch(since) ==
    /\ sent' = since
    /\ vnodes' = {} /\ raised' = {} /\ queue' = <<>> /\ overflow' = {}
    /\ refused' = [s \in Sources |-> {}]

NoWatch == NewWatch(0)

(* Reading a log goes from its cursor to its end. *)
ReadLogs(logs) ==
    /\ read' = [f \in Files |-> IF f \in logs THEN written[f] ELSE read[f]]
    /\ dropped' = dropped \ logs

LogsIn(d) == {f \in Files : DirOf[f] = d}

(* Any error, and a crash: the thread starts again from the database. *)
Fail ==
    /\ faults < MaxFaults
    /\ faults' = faults + 1
    /\ pc' = "start" /\ phase' = "Interrupted"
    /\ batch' = Nothing /\ scopes' = {} /\ unseen' = {} /\ checkpoint' = 0
    /\ replayed' = FALSE
    /\ NoWatch
    /\ UNCHANGED <<world, database>>

Start ==
    /\ pc = "start"
    /\ checkpoint' = saved
    /\ NewWatch(saved)
    /\ pc' = "boot"
    /\ UNCHANGED <<world, faults, batch, scopes, unseen, replayed, phase, database>>

(* bootstrap: one directory of the worklist, then its row. *)
BootDir(d) ==
    /\ pc = "boot" /\ d \in scanDirs
    /\ ReadLogs(LogsIn(d))
    /\ scanDirs' = scanDirs \ {d}
    /\ UNCHANGED <<world, faults, watch, thread, saved>>

(* follow_associated, at the end of bootstrap and of every batch: register *)
(* all logs, then read the new ones one by one.                            *)
\* Mutant: a log is followed, and what was written before is not looked at.
Follow_WithoutReading ==
    /\ \/ pc = "boot" /\ scanDirs = {} /\ phase' = "Healthy"
       \/ pc = "follow" /\ UNCHANGED phase
    /\ vnodes' = assoc
    /\ raised' = raised \cap assoc
    /\ unseen' = {}
    /\ pc' = "followed"
    /\ UNCHANGED <<world, faults, sent, queue, refused, overflow, batch, scopes,
                   checkpoint, replayed, database>>
Follow ==
    /\ \/ pc = "boot" /\ scanDirs = {} /\ phase' = "Healthy"
       \/ pc = "follow" /\ UNCHANGED phase
    /\ vnodes' = assoc
    /\ raised' = raised \cap assoc
    /\ unseen' = assoc \ vnodes
    /\ pc' = "followed"
    /\ UNCHANGED <<world, faults, sent, queue, refused, overflow, batch, scopes,
                   checkpoint, replayed, database>>

ReadFollowed(f) ==
    /\ pc = "followed" /\ f \in unseen
    /\ ReadLogs({f})
    /\ unseen' = unseen \ {f}
    /\ UNCHANGED <<world, faults, watch, pc, batch, scopes, checkpoint, replayed,
                   phase, saved, scanDirs>>

Later(m, n) == IF m < n THEN n ELSE m

(* The end of a turn of the loop: the copy of the checkpoint follows.      *)
EndOfTurn ==
    /\ checkpoint' = Later(checkpoint, batch.id)
    /\ batch' = Nothing
    /\ pc' = "wait"

(* recv, and what else comes within 200 ms. *)
Joined(bs) ==
    LET ids == {bs[i].id : i \in DOMAIN bs}
    IN  [id |-> Max(ids),
         logs |-> UNION {bs[i].logs : i \in DOMAIN bs},
         gaps |-> UNION {bs[i].gaps : i \in DOMAIN bs}]

\* Mutant: the checkpoint is saved when a batch is taken.
Receive_Saves ==
    /\ pc = "wait"
    /\ \E n \in 1 .. Len(queue) :
         /\ batch' = Joined(SubSeq(queue, 1, n))
         /\ queue' = SubSeq(queue, n + 1, Len(queue))
    /\ saved' = Later(saved, batch'.id)
    /\ pc' = "taken"
    /\ UNCHANGED <<world, faults, sent, vnodes, raised, refused, overflow, scopes,
                   unseen, checkpoint, replayed, phase, read, scanDirs, dropped>>
Receive ==
    /\ pc = "wait"
    /\ \E n \in 1 .. Len(queue) :
         /\ batch' = Joined(SubSeq(queue, 1, n))
         /\ queue' = SubSeq(queue, n + 1, Len(queue))
    /\ pc' = "taken"
    /\ UNCHANGED <<world, faults, sent, vnodes, raised, refused, overflow, scopes,
                   unseen, checkpoint, replayed, phase, database>>

(* take_overflow and event_scopes; lost batches need a new watch. *)
Examine ==
    /\ pc = "taken"
    /\ scopes' = overflow \cup batch.gaps
    /\ batch' = [batch EXCEPT !.gaps = {}]
    /\ IF overflow # {} THEN NewWatch(checkpoint)
       ELSE UNCHANGED watch
    /\ replayed' = (overflow # {})
    /\ pc' = IF scopes' # {} THEN "queue" ELSE "read"
    /\ UNCHANGED <<world, faults, unseen, checkpoint, phase, database>>

(* recover_logs: the scopes become durable, then they are walked.          *)
QueueRecovery ==
    /\ pc = "queue"
    /\ scanDirs' = scanDirs \cup scopes
    /\ unseen' = scopes
    /\ phase' = "Recovering"
    /\ pc' = "repair"
    /\ UNCHANGED <<world, faults, watch, batch, scopes, checkpoint, replayed, read,
                   saved, dropped>>

RepairDir(d) ==
    /\ pc \in {"repair", "retry"} /\ d \in unseen
    /\ ReadLogs(LogsIn(d))
    /\ unseen' = unseen \ {d}
    /\ UNCHANGED <<world, faults, watch, pc, batch, scopes, checkpoint, replayed,
                   phase, saved, scanDirs>>

FinishRecovery ==
    /\ pc \in {"repair", "retry"} /\ unseen = {}
    /\ scanDirs' = scanDirs \ scopes
    /\ phase' = "Healthy"
    /\ IF pc = "repair" THEN pc' = "read" /\ UNCHANGED <<batch, checkpoint>>
       ELSE EndOfTurn
    /\ scopes' = {}
    /\ UNCHANGED <<world, faults, watch, unseen, replayed, read, saved, dropped>>

(* A repair that fails leaves its directories on the worklist, if it got   *)
(* that far, and ends the turn: the batch it came with is not read.        *)
RepairFails ==
    /\ pc \in {"queue", "repair", "retry"} /\ faults < MaxFaults
    /\ faults' = faults + 1
    /\ dropped' = IF pc = "retry" \/ replayed THEN dropped
                  ELSE dropped \cup batch.logs
                               \cup {f \in Files : DirOf[f] \in scopes \ scanDirs}
    /\ phase' = "Interrupted"
    /\ pc' = "wait" /\ batch' = Nothing /\ scopes' = {} /\ unseen' = {}
    /\ UNCHANGED <<world, watch, checkpoint, replayed, read, saved, scanDirs>>

(* update_many: the logs of the batch and the checkpoint, in one           *)
(* transaction.                                                            *)
ReadBatch ==
    /\ pc = "read"
    /\ ReadLogs(batch.logs)
    /\ saved' = Later(saved, batch.id)
    /\ batch' = [batch EXCEPT !.logs = {}]
    /\ pc' = "follow"
    /\ UNCHANGED <<world, faults, watch, scopes, unseen, checkpoint, replayed,
                   phase, scanDirs>>

(* The end of the turn; what an earlier repair left is tried again first,  *)
(* but only after an event.                                                *)
Followed ==
    /\ pc = "followed" /\ unseen = {}
    /\ IF scanDirs = {}
       THEN EndOfTurn /\ UNCHANGED <<scopes, unseen, phase>>
       ELSE /\ scopes' = scanDirs /\ unseen' = scanDirs
            /\ phase' = "Recovering"
            /\ pc' = "retry"
            /\ UNCHANGED <<batch, checkpoint>>
    /\ UNCHANGED <<world, faults, watch, replayed, database>>

Thread ==
    \/ Start \/ Follow \/ Followed \/ Receive \/ Examine
    \/ QueueRecovery \/ FinishRecovery \/ ReadBatch
    \/ \E d \in Dirs : BootDir(d) \/ RepairDir(d)
    \/ \E f \in Files : ReadFollowed(f)

World == \E f \in Files : Write(f) \/ Report(f) \/ Associate(f)

Delivery ==
    \/ DeliverEvent \/ DeliverGap \/ DeliverVnodes
    \/ \E f \in Files : Notify(f)
    \/ \E s \in Sources : Overflow(s)

Next == World \/ Delivery \/ Thread \/ Fail \/ RepairFails

(* The thread does not stop by itself, and callbacks are called.           *)
Fairness ==
    /\ WF_vars(Thread)
    /\ WF_vars(DeliverEvent)
    /\ WF_vars(DeliverVnodes)
    /\ \A s \in Sources : WF_vars(Overflow(s))

Spec == Init /\ [][Next]_vars /\ Fairness

-----------------------------------------------------------------------------
(* Properties. *)

(* An event of the journal that was logged and whose lines are unread.     *)
Unread(i) == journal[i].upto > read[journal[i].log]

(* What nothing will read before the thread is woken by another event: a   *)
(* failed repair waits for it by design, a late overflow by accident.      *)
AwaitsEvent(d) == pc = "wait" /\ queue = <<>> /\ d \in overflow \cup scanDirs

(* The durable checkpoint is never past an event whose lines are unread,   *)
(* unless its directory is on the durable worklist (the promise of the     *)
(* restart that replays from it) or a failed repair made the thread give   *)
(* its batch up: crashes, errors, gaps and full queues lose no line.       *)
OnlyDroppedAreLost ==
    \A i \in 1 .. saved :
        Unread(i) => \/ DirOf[journal[i].log] \in scanDirs
                     \/ journal[i].log \in dropped

(* A log the vnode listener follows is read to its end, or something that  *)
(* leads to its reading is under way: registering first and reading after  *)
(* leaves no gap, nor does a full queue.                                   *)
FollowedIsFresh ==
    \A f \in vnodes : read[f] < written[f] =>
        \/ f \in raised \cup batch.logs \cup unseen \cup dropped
        \/ \E i \in DOMAIN queue : f \in queue[i].logs
        \/ DirOf[f] \in overflow \cup scopes \cup scanDirs
                        \cup UNION {refused[s] : s \in Sources}

(* Whatever happens in between, an event of the journal is read, unless it *)
(* was dropped, or its directory waits for another event.  Hooks that kept *)
(* filling the queue would make the thread renew its watch for ever, which *)
(* is why they must come to an end.                                        *)
ReportedIsRead ==
    <>[][~\E f \in Files : Notify(f)]_vars =>
    \A f \in Files :
        (\E i \in DOMAIN journal : journal[i].log = f /\ Unread(i))
        ~> (\/ \A i \in DOMAIN journal : journal[i].log = f => ~Unread(i)
            \/ f \in dropped \/ AwaitsEvent(DirOf[f]))
=============================================================================
