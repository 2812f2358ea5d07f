------------------------------ MODULE SyncQueue ------------------------------
(***************************************************************************)
(* The upstream half of one browser: the wrapped file system queues what   *)
(* the user changes (an xattr on the sync root that is read, changed and   *)
(* written back), and the sync manager works the queue off, one path at a  *)
(* time, through the conversation with the server.                         *)
(*                                                                         *)
(* The code runs as callbacks of asynchronous calls: syncUpstream() calls, *)
(* message handlers (tasks here) and the user's operation take their steps *)
(* in any order.  The server is what SyncSession shows of it: it answers   *)
(* every step of a client that holds its lock, and may take the lock away. *)
(* A file is the number of its last write; 0 is a file that is not there.  *)
(* The storage returns copies, as IndexedDB does, so the `syncing` flag    *)
(* that setSyncing() puts on its copy is never stored.                     *)
(***************************************************************************)
EXTENDS Naturals, Sequences, SequencesExt

CONSTANTS Paths,
          None,
          Calls,     \* identities of the syncUpstream() calls under way
          Tasks      \* identities of the message handlers under way

VARIABLES
  file,      \* what the browser has at each path
  writes,    \* the number of the last write
  unsynced,  \* the unsynced xattr
  queue,     \* pathsToSync.toSync: a sequence of path, type, old
  op,        \* the user's operation under way
  call,      \* the syncUpstream() calls: pc, info
  task,      \* the handlers: pc, entry, then, seen (the queue as read)
  current,   \* syncManager.currentSync
  socket,    \* the web socket is open
  up, down,  \* messages on it
  lock,      \* the path this client has locked on the server
  srv,       \* what the server has
  left,      \* bounds: operations, refusals, faults, cuts, doubled requests
  \* history, read only by the properties
  crossed,   \* an operation fell on a queued path of another kind
  raced,     \* two changes of the queue overlapped
  during,    \* an operation overlapped with the sync of its path
  doubled,   \* two syncUpstream() calls overlapped
  late,      \* a step of one sync met another, or the lock of another
  dropped,   \* the server wanted a downstream first
  jammed,    \* something happened that leaves currentSync set
  unqueued,  \* the files written by descriptor and not in the queue
  unflagged, \* the files whose flag could not be set
  botched    \* an operation failed after it had been queued

disk    == <<file, writes, unsynced, queue>>
manager == <<call, task, current>>
net     == <<socket, up, down>>
server  == <<lock, srv>>
lapses  == <<unqueued, unflagged, botched>>
history == <<crossed, raced, during, doubled, late, dropped, jammed, lapses>>
vars    == <<disk, op, manager, net, server, left, history>>

Types   == {"create", "rename", "delete"}
Entry(p, type, old) == [path |-> p, type |-> type, old |-> old]
Entries == [path : Paths, type : Types, old : Paths \cup {None}]

ASSUME NoneAssumption == None \notin Paths /\ None \notin Entries

NoOp    == [pc |-> "idle", entry |-> None, seen |-> <<>>]
NoCall  == [pc |-> "none", info |-> None]
NoTask  == [pc |-> "none", entry |-> None, then |-> "none", seen |-> <<>>]

\* The files in `present` are there and in sync.
InitWith(bounds, present) ==
  /\ file = [p \in Paths |-> IF p \in present THEN 1 ELSE 0] /\ writes = 1
  /\ unsynced = [p \in Paths |-> FALSE] /\ queue = <<>>
  /\ op = NoOp
  /\ call = [c \in Calls |-> NoCall] /\ task = [t \in Tasks |-> NoTask] /\ current = None
  /\ socket = TRUE /\ up = <<>> /\ down = <<>>
  /\ lock = None /\ srv = file
  /\ left = bounds
  /\ crossed = FALSE /\ raced = FALSE /\ during = FALSE /\ doubled = FALSE
  /\ late = FALSE /\ dropped = FALSE /\ jammed = FALSE
  /\ unqueued = {} /\ unflagged = {} /\ botched = FALSE

-----------------------------------------------------------------------------
(* Helpers *)

Spend(what) == left[what] > 0 /\ left' = [left EXCEPT ![what] = @ - 1]

\* findPathIndexInArray(): 0 when there is none.
Index(q, p) == SelectInSeq(q, LAMBDA e : e.path = p)

PathsOf(entry) == IF entry = None THEN {} ELSE {entry.path, entry.old} \ {None}
Overlap(e, f)  == PathsOf(e) \cap PathsOf(f) # {}

\* syncManager.send(): nothing is sent without a socket.
Message(kind, entry, version) == [kind |-> kind, entry |-> entry, version |-> version]
Send(kind, entry, version) ==
  up' = IF socket THEN Append(up, Message(kind, entry, version)) ELSE up

\* syncUpstream(), up to its first asynchronous call.  Without a socket it
\* throws, and nothing else happens.
StartCall ==
  \/ socket /\ \E c \in Calls :
       /\ call[c] = NoCall
       /\ call' = [call EXCEPT ![c].pc = "reading"]
       /\ doubled' = (doubled \/ \E d \in Calls : call[d] # NoCall)
  \/ ~socket /\ UNCHANGED <<call, doubled>>

-----------------------------------------------------------------------------
(* The user's operations: wrapMethod() *)

\* The path is not a conflicted copy: the queue is read.
BeginOp(p, type, old) ==
  LET entry == Entry(p, type, old) IN
  /\ op = NoOp
  /\ Spend("ops")
  /\ op' = [pc |-> "storing", entry |-> entry, seen |-> queue]
  /\ raced' = (raced \/ \E t \in Tasks : task[t].pc = "writing")
  /\ during' = (during \/ Overlap(entry, current))
  /\ UNCHANGED <<disk, manager, net, server, crossed, doubled, late, dropped, jammed, lapses>>

BeginWrite(p)     == BeginOp(p, "create", None)
BeginDelete(p)    == BeginOp(p, "delete", None)
BeginRename(p, q) == p # q /\ file[p] # 0 /\ file[q] = 0 /\ BeginOp(q, "rename", p)

\* The path is pushed, unless it is queued already, whatever for.
\* Mutant: what is queued already is queued again.
WithEntry_Again(q, entry) == Append(q, entry)
WithEntry(q, entry) == IF Index(q, entry.path) = 0 THEN Append(q, entry) ELSE q

SameKind(e, f) == e = f /\ e.type # "rename"
Crosses(q, entry) == \E i \in DOMAIN q : Overlap(q[i], entry) /\ ~SameKind(q[i], entry)

\* A write to an open file: neither queued nor noted, only flagged.
BeginDescriptor(p) ==
  LET entry == Entry(p, "create", None) IN
  /\ op = NoOp
  /\ Spend("descriptors")
  /\ op' = [pc |-> "doing", entry |-> entry, seen |-> <<>>]
  /\ crossed' = (crossed \/ Crosses(queue, entry))
  /\ during' = (during \/ Overlap(entry, current))
  /\ unqueued' = IF Index(queue, p) = 0 THEN unqueued \cup {p} ELSE unqueued
  /\ UNCHANGED <<disk, manager, net, server, raced, doubled, late, dropped, jammed, unflagged,
                 botched>>

StoreOp ==
  /\ op.pc = "storing"
  /\ queue' = WithEntry(op.seen, op.entry)
  /\ op' = [op EXCEPT !.pc = "doing", !.seen = <<>>]
  /\ crossed' = (crossed \/ Crosses(op.seen, op.entry) \/ op.entry.old \in unqueued)
  /\ unqueued' = unqueued \ {op.entry.path}
  /\ UNCHANGED <<file, writes, unsynced, manager, net, server, left, raced, during, doubled,
                 late, dropped, jammed, unflagged, botched>>

\* The operation itself.  One that deletes sets no flag.
DoWrite ==
  /\ op.pc = "doing" /\ op.entry.type = "create"
  /\ writes' = writes + 1
  /\ file' = [file EXCEPT ![op.entry.path] = writes']
  /\ op' = [op EXCEPT !.pc = "flagging"]
  /\ UNCHANGED <<unsynced, queue, manager, net, server, left, history>>

DoDelete ==
  /\ op.pc = "doing" /\ op.entry.type = "delete"
  /\ file' = [file EXCEPT ![op.entry.path] = 0]
  /\ unsynced' = [unsynced EXCEPT ![op.entry.path] = FALSE]
  /\ op' = NoOp
  /\ UNCHANGED <<writes, queue, manager, net, server, left, history>>

DoRename ==
  /\ op.pc = "doing" /\ op.entry.type = "rename"
  /\ LET p == op.entry.old  q == op.entry.path IN
     /\ file' = [file EXCEPT ![q] = file[p], ![p] = 0]
     /\ unsynced' = [unsynced EXCEPT ![q] = unsynced[p], ![p] = FALSE]
  /\ op' = [op EXCEPT !.pc = "flagging"]
  /\ UNCHANGED <<writes, queue, manager, net, server, left, history>>

FlagOp ==
  /\ op.pc = "flagging"
  /\ unsynced' = [unsynced EXCEPT ![op.entry.path] = TRUE]
  /\ unflagged' = unflagged \ {op.entry.path}
  /\ op' = NoOp
  /\ UNCHANGED <<file, writes, queue, manager, net, server, left, crossed, raced, during, doubled,
                 late, dropped, jammed, unqueued, botched>>

\* Any of these calls fails, and the user's callback gets the error: the queue is
\* as it was, or the path is queued and nothing done, or it is done and not flagged.
OpFails ==
  /\ op.pc # "idle" /\ Spend("faults")
  /\ op' = NoOp
  /\ botched' = (botched \/ op.pc = "doing")
  /\ unflagged' = IF op.pc = "flagging" THEN unflagged \cup {op.entry.path} ELSE unflagged
  /\ UNCHANGED <<disk, manager, net, server, crossed, raced, during, doubled, late, dropped,
                 jammed, unqueued>>

-----------------------------------------------------------------------------
(* The sync manager *)

\* sync.request(), by the user or by the timer of sync.auto(): nothing but an
\* error event while currentSync is set.
Request ==
  /\ socket /\ current = None
  /\ StartCall
  /\ IF \E c \in Calls : call[c] # NoCall THEN Spend("doubles") ELSE UNCHANGED left
  /\ UNCHANGED <<disk, op, task, current, net, server, crossed, raced, during, late, dropped,
                 jammed, lapses>>

\* syncUpstream(): getPathsToSync() ...
CallReads(c) ==
  /\ call[c].pc = "reading"
  /\ call' = [call EXCEPT ![c] = IF queue = <<>> THEN NoCall
                                 ELSE [pc |-> "setting", info |-> Head(queue)]]
  /\ UNCHANGED <<disk, op, task, current, net, server, left, history>>

\* ... setSyncing(), which stores nothing, and only then currentSync is set.
\* Mutant: only the path is kept.
CallSends_Path(c) ==
  /\ call[c].pc = "setting"
  /\ current' = call[c].info.path
  /\ Send("sync", call[c].info, 0)
  /\ call' = [call EXCEPT ![c] = NoCall]
  /\ UNCHANGED <<disk, op, task, socket, down, server, left, history>>
CallSends(c) ==
  /\ call[c].pc = "setting"
  /\ current' = call[c].info
  /\ Send("sync", call[c].info, 0)
  /\ during' = (during \/ Overlap(op.entry, call[c].info))
  /\ jammed' = (jammed \/ ~socket)
  /\ call' = [call EXCEPT ![c] = NoCall]
  /\ UNCHANGED <<disk, op, task, socket, down, server, left, crossed, raced, doubled, late,
                 dropped, lapses>>

\* Either read fails: onError(), and the call is over.
CallFails(c) ==
  /\ call[c].pc # "none"
  /\ Spend("faults")
  /\ call' = [call EXCEPT ![c] = NoCall]
  /\ UNCHANGED <<disk, op, task, current, net, server, history>>

-----------------------------------------------------------------------------
(* The browser's message handlers *)

Received(kind) == down # <<>> /\ Head(down).kind = kind /\ down' = Tail(down)

\* A handler starts its first asynchronous call.
StartTask(kind, pc, then) ==
  /\ Received(kind)
  /\ \E t \in Tasks :
       /\ task[t] = NoTask
       /\ task' = [task EXCEPT ![t] = [pc |-> pc, entry |-> Head(down).entry, then |-> then,
                                       seen |-> <<>>]]
  /\ UNCHANGED <<disk, op, call, current, socket, up, server, left, history>>

\* handleSourceListResponse()
HandleGrant ==
  \/ down # <<>> /\ Head(down).entry.type = "create" /\ StartTask("sync", "listing", "none")
  \/ /\ Received("sync")
     /\ Head(down).entry.type # "create"
     /\ Send(Head(down).entry.type, Head(down).entry, 0)
     /\ UNCHANGED <<disk, op, manager, socket, server, left, history>>

\* handleDiffRequest(), handlePatchAckResponse(), handleUpstreamError() and
\* handleForcedDownstream()
HandleDiffRequest      == StartTask("diffs", "diffing", "none")
\* Mutants: an acknowledged sync is delayed; currentSync is not reset.
HandlePatchAckResponse_Delays == StartTask("patch", "clearing", "retry")
HandleUpstreamError_Keeps     == StartTask("error", "reading", "jam")
HandlePatchAckResponse == StartTask("patch", "clearing", "next")
HandleUpstreamError    == StartTask("error", "reading", "stop")
HandleForcedDownstream == StartTask("needsDownstream", "reading", "drop")

\* handleError(): error.rename and error.del are unknown, and only logged.
IgnoreError ==
  /\ Received("unknown")
  /\ jammed' = TRUE
  /\ UNCHANGED <<disk, op, manager, socket, up, server, left, crossed, raced, during,
                 doubled, late, dropped, lapses>>

\* A handler of one sync still runs during another, or would start one.
Belated(entry) == entry # current /\ (current # None \/ file[entry.path] = 0)

\* The source list or the diffs; a file that is not there delays the sync, even
\* when that sync was interrupted and its path is no longer the one under way.
ReadFile(t, pc, request) ==
  /\ task[t].pc = pc
  /\ LET e == task[t].entry IN
     IF file[e.path] = 0
     THEN /\ task' = [task EXCEPT ![t].pc = "reading", ![t].then = "retry"]
          /\ UNCHANGED up
     ELSE /\ task' = [task EXCEPT ![t] = NoTask]
          /\ Send(request, e, file[e.path])
  /\ late' = (late \/ Belated(task[t].entry))
  /\ UNCHANGED <<disk, op, call, current, socket, down, server, left, crossed, raced, during,
                 doubled, dropped, jammed, lapses>>

SendSourceList(t) == ReadFile(t, "listing", "checksums")
SendDiffs(t)      == ReadFile(t, "diffing", "diffs")

\* handlePatchAckResponse(): the file is stamped and its flag removed ...
ClearUnsynced(t) ==
  /\ task[t].pc = "clearing"
  /\ unsynced' = [unsynced EXCEPT ![task[t].entry.path] = FALSE]
  /\ task' = [task EXCEPT ![t].pc = "reading"]
  /\ UNCHANGED <<file, writes, queue, op, call, current, net, server, left, history>>

\* ... or cannot be: the sync is delayed, but currentSync stays.
AckFails(t) ==
  /\ task[t].pc = "clearing" /\ Spend("faults")
  /\ task' = [task EXCEPT ![t].pc = "reading", ![t].then = "jam"]
  /\ jammed' = TRUE
  /\ UNCHANGED <<disk, op, call, current, net, server, crossed, raced, during, doubled,
                 late, dropped, lapses>>

\* A flag that cannot be removed stays, which is only logged.
UnflagFails(t) ==
  /\ task[t].pc = "clearing" /\ Spend("faults")
  /\ task' = [task EXCEPT ![t].pc = "reading"]
  /\ UNCHANGED <<disk, op, call, current, net, server, history>>

\* delaySync() and dequeueSync() read the queue ...
TaskReads(t) ==
  /\ task[t].pc = "reading"
  /\ task' = [task EXCEPT ![t].pc = "writing", ![t].seen = queue]
  /\ raced' = (raced \/ op.pc = "storing" \/ \E u \in Tasks : task[u].pc = "writing")
  /\ UNCHANGED <<disk, op, call, current, net, server, left, crossed, during, doubled, late,
                 dropped, jammed, lapses>>

\* ... and write it back: its head goes to the end, or goes for good.
\* Mutant: the delayed path is not put back.
delaySync_Drops(q) == IF q = <<>> THEN queue ELSE Tail(q)
delaySync(q)   == IF q = <<>> THEN queue ELSE Append(Tail(q), Head(q))
dequeueSync(q) == IF q = <<>> THEN queue ELSE Tail(q)

\* Then the sync is over, and the next one begins or waits for a request.
TaskWrites(t) ==
  /\ task[t].pc = "writing"
  /\ queue' = IF task[t].then \in {"next", "drop"} THEN dequeueSync(task[t].seen)
              ELSE delaySync(task[t].seen)
  /\ task' = [task EXCEPT ![t] = NoTask]
  /\ current' = IF task[t].then = "jam" THEN current ELSE None
  /\ IF task[t].then \in {"next", "retry"} THEN StartCall ELSE UNCHANGED <<call, doubled>>
  /\ dropped' = (dropped \/ task[t].then = "drop")
  /\ UNCHANGED <<file, writes, unsynced, op, net, server, left, crossed, raced, during, late,
                 jammed, lapses>>

\* Either fails, and the queue is as it was.  syncNext() logs that and goes on, with
\* the path it has just synced; the others log it and leave currentSync set.
TaskFails(t) ==
  /\ task[t].pc \in {"reading", "writing"} /\ Spend("faults")
  /\ task' = [task EXCEPT ![t] = NoTask]
  /\ IF task[t].then = "next"
     THEN current' = None /\ StartCall /\ UNCHANGED jammed
     ELSE jammed' = (jammed \/ current # None) /\ UNCHANGED <<current, call, doubled>>
  /\ UNCHANGED <<disk, op, net, server, crossed, raced, during, late, dropped, lapses>>

-----------------------------------------------------------------------------
(* The server, as SyncSession has it *)

Asked(kind) == up # <<>> /\ Head(up).kind = kind /\ up' = Tail(up)
Answer(kind) == down' = Append(down, Message(kind, Head(up).entry, 0))
OtherThanLock == UNCHANGED <<disk, op, manager, socket>>

\* handleSyncInitRequest(): the lock is granted (of what a rename moves, of the old
\* path), or the browser is told why not: locked, impl, or that it needs a
\* downstream first.
Locked(entry) == IF entry.type = "rename" THEN entry.old ELSE entry.path

ServerGrants ==
  /\ Asked("sync") /\ Answer("sync")
  /\ lock' = Locked(Head(up).entry)
  /\ UNCHANGED <<disk, op, manager, socket, srv, left, history>>

ServerRefuses ==
  /\ Asked("sync") /\ Spend("refusals")
  /\ \E why \in {"error", "needsDownstream"} : Answer(why)
  /\ UNCHANGED <<disk, op, manager, socket, server, history>>

\* ensureLock() asks for a lock, not for the lock of the path.
StepOf(kind) ==
  /\ Asked(kind) /\ lock # None
  /\ late' = (late \/ lock \notin PathsOf(Head(up).entry))
  /\ UNCHANGED <<disk, op, manager, socket, crossed, raced, during, doubled, dropped, jammed,
                 lapses>>

\* A step without a lock is dropped in silence.
ServerDrops ==
  /\ up # <<>> /\ Head(up).kind # "sync" /\ lock = None
  /\ up' = Tail(up)
  /\ UNCHANGED <<disk, op, manager, socket, down, server, left, history>>

ServerSums ==
  /\ StepOf("checksums") /\ Answer("diffs")
  /\ UNCHANGED <<server, left>>

\* error.checksums, error.patch: the lock is released first.
ServerFails ==
  /\ \E kind \in {"checksums", "diffs"} : StepOf(kind)
  /\ Spend("refusals") /\ Answer("error")
  /\ lock' = None
  /\ UNCHANGED srv

ServerPatches ==
  /\ StepOf("diffs") /\ Answer("patch")
  /\ srv' = [srv EXCEPT ![Head(up).entry.path] = Head(up).version]
  /\ lock' = None
  /\ UNCHANGED left

\* rsyncUtils.rename() and del(), with their errors.
ServerRenames ==
  /\ StepOf("rename")
  /\ LET e == Head(up).entry IN
     IF srv[e.old] # 0 /\ srv[e.path] = 0
     THEN Answer("patch") /\ srv' = [srv EXCEPT ![e.path] = srv[e.old], ![e.old] = 0]
     ELSE Answer("unknown") /\ UNCHANGED srv
  /\ lock' = None
  /\ UNCHANGED left

ServerDeletes ==
  /\ StepOf("delete")
  /\ LET p == Head(up).entry.path IN
     IF srv[p] # 0 THEN Answer("patch") /\ srv' = [srv EXCEPT ![p] = 0]
     ELSE Answer("unknown") /\ UNCHANGED srv
  /\ lock' = None
  /\ UNCHANGED left

\* The lock goes to another client between two steps: error.interrupted.
ServerInterrupts ==
  /\ lock # None /\ Spend("refusals")
  /\ lock' = None
  /\ down' = Append(down, Message("error", Entry(lock, "create", None), 0))
  /\ UNCHANGED <<disk, op, manager, socket, up, srv, history>>

\* The socket closes, and with it the session on the server; the manager
\* reconnects by itself (autoReconnect).
Cut ==
  /\ socket /\ Spend("cuts")
  /\ socket' = FALSE /\ up' = <<>> /\ down' = <<>> /\ lock' = None
  /\ jammed' = (jammed \/ current # None)
  /\ UNCHANGED <<disk, op, manager, srv, crossed, raced, during, doubled, late, dropped,
                 lapses>>

Reconnect ==
  /\ ~socket /\ socket' = TRUE
  /\ UNCHANGED <<disk, op, manager, up, down, server, left, history>>

-----------------------------------------------------------------------------
Begin == \E p \in Paths : BeginWrite(p) \/ BeginDelete(p) \/ BeginDescriptor(p)
                          \/ \E q \in Paths : BeginRename(p, q)
OpStep == StoreOp \/ DoWrite \/ DoDelete \/ DoRename \/ FlagOp
CallStep == \E c \in Calls : CallReads(c) \/ CallSends(c)
Handle == \/ HandleGrant \/ HandleDiffRequest \/ HandlePatchAckResponse \/ HandleUpstreamError
          \/ HandleForcedDownstream \/ IgnoreError
TaskStep == \E t \in Tasks : \/ SendSourceList(t) \/ SendDiffs(t) \/ ClearUnsynced(t)
                             \/ TaskReads(t) \/ TaskWrites(t)
TaskFault(t) == AckFails(t) \/ UnflagFails(t) \/ TaskFails(t)
Fault == OpFails \/ (\E c \in Calls : CallFails(c)) \/ (\E t \in Tasks : TaskFault(t))
ServerStep == \/ ServerGrants \/ ServerDrops \/ ServerSums \/ ServerPatches \/ ServerRenames
              \/ ServerDeletes
Refusal == ServerRefuses \/ ServerFails \/ ServerInterrupts

Next == \/ Begin \/ OpStep \/ Request \/ CallStep \/ Handle \/ TaskStep \/ Fault
        \/ ServerStep \/ Refusal \/ Cut \/ Reconnect

Init == \E bounds \in [{"ops", "refusals", "faults", "cuts", "doubles", "descriptors"} -> Nat],
           present \in SUBSET Paths :
          InitWith(bounds, present)
Spec == Init /\ [][Next]_vars

\* Callbacks run, messages arrive, the server answers, and sync.auto() keeps
\* asking for a sync.  Faults, refusals and cuts are finite (`left`).
Fairness ==
  /\ WF_vars(OpStep) /\ WF_vars(CallStep) /\ WF_vars(Handle) /\ WF_vars(TaskStep)
  /\ WF_vars(ServerStep) /\ WF_vars(Request) /\ WF_vars(Reconnect)
FairSpec == Spec /\ Fairness

-----------------------------------------------------------------------------
(* Properties *)

TypeOK ==
  /\ file \in [Paths -> Nat] /\ srv \in [Paths -> Nat] /\ writes \in Nat
  /\ unsynced \in [Paths -> BOOLEAN]
  /\ queue \in Seq(Entries)
  /\ op.pc \in {"idle", "storing", "doing", "flagging"}
  /\ op.entry \in Entries \cup {None} /\ op.seen \in Seq(Entries)
  /\ call \in [Calls -> [pc : {"none", "reading", "setting"}, info : Entries \cup {None}]]
  /\ \A t \in Tasks : task[t].pc \in {"none", "listing", "diffing", "clearing", "reading", "writing"}
  /\ current \in Entries \cup {None}
  /\ lock \in Paths \cup {None}

\* What the browser's file system shields against: none of these happened.
Undisturbed == ~(crossed \/ raced \/ during \/ doubled \/ late \/ dropped \/ botched)

\* A change of the user's that the server does not have is always queued (unless
\* it was made through a file descriptor), and the file is flagged (unless the flag
\* could not be set), so that no downstream sync can overwrite it unseen: through
\* refusals, interruptions, lost connections and failed steps.  It is forgotten only
\* if an operation fails after it was queued or falls on a queued path of another
\* kind or on a path that is being synced, if two
\* read-modify-writes of the queue overlap, if two syncUpstream() calls do, if a
\* step of an interrupted sync meets another sync, in the browser or at the lock,
\* or if the server asks for a downstream that it then does not send.
NothingForgotten ==
  Undisturbed => \A p \in Paths : file[p] # srv[p] =>
    \/ p \in PathsOf(op.entry)
    \/ /\ p \in unqueued \/ \E i \in DOMAIN queue : p \in PathsOf(queue[i])
       /\ file[p] # 0 => unsynced[p] \/ p \in unflagged

\* A manager that waits for a sync to end (currentSync) while nothing is under
\* way in the browser, on the wire or at the server waits for ever.  That takes
\* a rename or a delete that the server rejects, a file that cannot be stamped,
\* a delay or a forced dequeue of the queue that fails, or a connection lost during
\* a sync or before its request is sent.
Idle == /\ socket /\ up = <<>> /\ down = <<>>
        /\ \A c \in Calls : call[c] = NoCall
        /\ \A t \in Tasks : task[t] = NoTask
StuckOnlyIfJammed == (Idle /\ current # None) => jammed

\* A path that is queued twice would be sent twice, and dequeued once.
QueuedOnce == ~raced => \A i, j \in DOMAIN queue : queue[i].path = queue[j].path => i = j

\* With automatic syncs, and a server and a storage that refuse or fail finitely
\* often, the queue is worked off, unless one of these mishaps left currentSync
\* set: no order of delays, retries and operations starves a path.
QueueDrains == []<>(queue = <<>> \/ ~Undisturbed \/ jammed)

=============================================================================
