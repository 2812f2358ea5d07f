-------------------------- MODULE SyncQueueProofs --------------------------
(***************************************************************************)
(* Theorems about SyncQueue, for every set of paths, of syncUpstream()     *)
(* calls and of message handlers, and for every budget of operations,      *)
(* refusals, faults and cuts.                                              *)
(***************************************************************************)
EXTENDS SyncQueue, ListProofs, TLAPS

-----------------------------------------------------------------------------
(* The types, finer than TypeOK: what the entries and messages can be. *)

\* A rename, and nothing else, has an old path, and it is another one.
Legal == {e \in Entries : /\ e.type = "rename" <=> e.old # None
                          /\ e.old # e.path}

Finals == {"patch", "error", "needsDownstream", "unknown"}
UpMessages ==
  {m \in [kind : {"sync", "checksums", "diffs", "rename", "delete"}, entry : Legal, version : Nat] :
     /\ m.kind \in {"checksums", "diffs"} => m.entry.type = "create"
     /\ m.kind \in {"rename", "delete"} => m.entry.type = m.kind}
DownMessages ==
  {m \in [kind : {"sync", "diffs"} \cup Finals, entry : Legal, version : {0}] :
     m.kind = "diffs" => m.entry.type = "create"}

\* A handler that reads the file; one that ends the sync.
Working(t) == task[t].pc \in {"listing", "diffing"}
Ending(t)  == task[t].pc \in {"clearing", "reading", "writing"}

OpType   == [pc : {"idle", "storing", "doing", "flagging"}, entry : Legal \cup {None},
             seen : Seq(Legal)]
CallType == [pc : {"none", "reading", "setting"}, info : Legal \cup {None}]
TaskType == [pc : {"none", "listing", "diffing", "clearing", "reading", "writing"},
             entry : Legal \cup {None},
             then : {"none", "next", "stop", "drop", "retry", "jam"}, seen : Seq(Legal)]

DiskTypes ==
  /\ file \in [Paths -> Nat] /\ srv \in [Paths -> Nat] /\ writes \in Nat
  /\ unsynced \in [Paths -> BOOLEAN]
  /\ lock \in Paths \cup {None}
  /\ unqueued \in SUBSET Paths /\ unflagged \in SUBSET Paths
QueueTypes ==
  /\ queue \in Seq(Legal)
  /\ op \in OpType
  /\ op.pc = "idle" <=> op.entry = None
TaskTypes ==
  /\ task \in [Tasks -> TaskType]
  /\ \A t \in Tasks : task[t].pc # "none" => task[t].entry \in Legal
  /\ \A t \in Tasks : Working(t) => task[t].entry.type = "create"
CallTypes ==
  /\ call \in [Calls -> CallType]
  /\ \A c \in Calls : call[c].pc = "setting" => call[c].info \in Legal
  /\ current \in Legal \cup {None}
NetTypes ==
  /\ socket \in BOOLEAN
  /\ up \in Seq(UpMessages)
  /\ down \in Seq(DownMessages)
TypeInv == DiskTypes /\ QueueTypes /\ TaskTypes /\ CallTypes /\ NetTypes

-----------------------------------------------------------------------------
(* The entries and the messages *)

LEMMA LegalFacts ==
  ASSUME NEW e \in Legal
  PROVE  /\ e \in Entries /\ e # None /\ e.path \in Paths /\ e.type \in Types
         /\ e.old \in Paths \cup {None}
         /\ e.type = "rename" <=> e.old # None
         /\ e.old # e.path
         /\ PathsOf(e) = {e.path, e.old} \ {None}
         /\ e.path \in PathsOf(e)
BY NoneAssumption DEF Legal, Entries, PathsOf

LEMMA NewEntry ==
  /\ \A p \in Paths : Entry(p, "create", None) \in Legal /\ Entry(p, "delete", None) \in Legal
  /\ \A p, q \in Paths : p # q => Entry(q, "rename", p) \in Legal
BY NoneAssumption DEF Legal, Entries, Types, Entry

LEMMA UpFacts ==
  ASSUME NEW m \in UpMessages
  PROVE  /\ m.kind \in {"sync", "checksums", "diffs", "rename", "delete"}
         /\ m.entry \in Legal /\ m.version \in Nat
         /\ m.kind \in {"checksums", "diffs"} => m.entry.type = "create"
         /\ m.kind \in {"rename", "delete"} => m.entry.type = m.kind
BY DEF UpMessages

LEMMA DownFacts ==
  ASSUME NEW m \in DownMessages
  PROVE  /\ m.kind \in {"sync", "diffs"} \cup Finals
         /\ m.entry \in Legal
         /\ m.kind = "diffs" => m.entry.type = "create"
BY DEF DownMessages

LEMMA NewMessage ==
  /\ \A e \in Legal : Message("sync", e, 0) \in UpMessages
  /\ \A e \in Legal, n \in Nat : e.type = "create" =>
       Message("checksums", e, n) \in UpMessages /\ Message("diffs", e, n) \in UpMessages
  /\ \A e \in Legal : e.type # "create" => Message(e.type, e, 0) \in UpMessages
  /\ \A e \in Legal : \A kind \in {"sync"} \cup Finals : Message(kind, e, 0) \in DownMessages
  /\ \A e \in Legal : e.type = "create" => Message("diffs", e, 0) \in DownMessages
<1>1. \A e \in Legal : e.type \in {"create", "rename", "delete"}
  BY LegalFacts DEF Types
<1>2. /\ \A e \in Legal : Message("sync", e, 0) \in UpMessages
      /\ \A e \in Legal, n \in Nat : e.type = "create" =>
           Message("checksums", e, n) \in UpMessages /\ Message("diffs", e, n) \in UpMessages
  BY DEF Message, UpMessages
<1>3. \A e \in Legal : e.type # "create" => Message(e.type, e, 0) \in UpMessages
  BY <1>1 DEF Message, UpMessages
<1>4. /\ \A e \in Legal : \A kind \in {"sync"} \cup Finals : Message(kind, e, 0) \in DownMessages
      /\ \A e \in Legal : e.type = "create" => Message("diffs", e, 0) \in DownMessages
  BY DEF Message, DownMessages, Finals
<1>. QED BY <1>2, <1>3, <1>4

-----------------------------------------------------------------------------
(* Types *)

LEMMA InitTypes == Init => TypeInv
BY EmptySeq DEF Init, InitWith, TypeInv, DiskTypes, QueueTypes, TaskTypes, CallTypes, NetTypes,
     OpType, CallType, TaskType, NoOp, NoCall, NoTask, Working

LEMMA SendTypes ==
  ASSUME NetTypes, NEW kind, NEW e, NEW n, Send(kind, e, n), Message(kind, e, n) \in UpMessages
  PROVE  up' \in Seq(UpMessages)
BY AppendFacts DEF Send, NetTypes

LEMMA StartTypes ==
  ASSUME CallTypes, StartCall, UNCHANGED current
  PROVE  CallTypes'
<1>1. CASE UNCHANGED call
  BY <1>1 DEF CallTypes
<1>2. ASSUME NEW c \in Calls, call[c] = NoCall, call' = [call EXCEPT ![c].pc = "reading"]
      PROVE  CallTypes'
  BY <1>2 DEF CallTypes, CallType, NoCall
<1>. QED BY <1>1, <1>2 DEF StartCall

LEMMA BeginTypes ==
  ASSUME TypeInv, NEW p \in Paths, NEW type, NEW old, Entry(p, type, old) \in Legal,
         BeginOp(p, type, old)
  PROVE  TypeInv'
<1>1. QueueTypes'
  BY LegalFacts DEF BeginOp, QueueTypes, OpType, TypeInv, disk
<1>. QED BY <1>1 DEF BeginOp, vars, disk, manager, net, server, history, lapses, TypeInv, DiskTypes, QueueTypes, TaskTypes, CallTypes, NetTypes, Working

LEMMA UserTypes ==
  ASSUME TypeInv, Begin \/ OpStep \/ OpFails
  PROVE  TypeInv'
<1>1. ASSUME NEW p \in Paths, BeginWrite(p) \/ BeginDelete(p) PROVE TypeInv'
  BY <1>1, BeginTypes, NewEntry DEF BeginWrite, BeginDelete
<1>2. ASSUME NEW p \in Paths, NEW q \in Paths, BeginRename(p, q) PROVE TypeInv'
  BY <1>2, BeginTypes, NewEntry DEF BeginRename
<1>3. ASSUME NEW p \in Paths, BeginDescriptor(p) PROVE TypeInv'
  <2>1. QueueTypes'
    BY <1>3, NewEntry, LegalFacts, EmptySeq DEF BeginDescriptor, QueueTypes, OpType, TypeInv, disk
  <2>. QED BY <1>3, <2>1 DEF BeginDescriptor, vars, disk, manager, net, server, history, lapses, TypeInv, DiskTypes, QueueTypes, TaskTypes, CallTypes, NetTypes, Working
<1>4. CASE StoreOp
  <2>1. op.entry \in Legal /\ op.seen \in Seq(Legal)
    BY <1>4 DEF StoreOp, TypeInv, QueueTypes, OpType
  <2>2. queue' \in Seq(Legal)
    BY <1>4, <2>1, AppendFacts DEF StoreOp, WithEntry
  <2>3. op' \in OpType /\ op'.pc = "doing" /\ op'.entry = op.entry
    BY <1>4, <2>1, EmptySeq DEF StoreOp, TypeInv, QueueTypes, OpType
  <2>4. QueueTypes'
    BY <2>1, <2>2, <2>3, LegalFacts DEF QueueTypes
  <2>. QED BY <1>4, <2>4 DEF StoreOp, vars, disk, manager, net, server, history, lapses, TypeInv, DiskTypes, QueueTypes, TaskTypes, CallTypes, NetTypes, Working
<1>5. CASE DoWrite \/ DoRename
  <2>1. op.entry \in Legal
    BY <1>5 DEF DoWrite, DoRename, TypeInv, QueueTypes, OpType
  <2>2. QueueTypes'
    BY <1>5, <2>1, LegalFacts DEF DoWrite, DoRename, TypeInv, QueueTypes, OpType
  <2>3. DiskTypes'
    <3>1. CASE DoWrite
      BY <3>1, <2>1, LegalFacts DEF DoWrite, TypeInv, DiskTypes, server, history, lapses
    <3>2. CASE DoRename
      <4>1. op.entry.old \in Paths /\ op.entry.path \in Paths
        BY <2>1, <3>2, LegalFacts DEF DoRename
      <4>2. file[op.entry.old] \in Nat /\ unsynced[op.entry.old] \in BOOLEAN
        BY <4>1 DEF TypeInv, DiskTypes
      <4>3. file' \in [Paths -> Nat] /\ unsynced' \in [Paths -> BOOLEAN]
        BY <3>2, <4>1, <4>2 DEF DoRename, TypeInv, DiskTypes
      <4>. QED BY <3>2, <4>3 DEF DoRename, TypeInv, DiskTypes, server, history, lapses
    <3>. QED BY <1>5, <3>1, <3>2
  <2>. QED BY <1>5, <2>2, <2>3 DEF DoWrite, DoRename, vars, disk, manager, net, server, history, lapses, TypeInv, DiskTypes, QueueTypes, TaskTypes, CallTypes, NetTypes, Working
<1>6. CASE DoDelete \/ FlagOp
  <2>1. op.entry \in Legal
    BY <1>6 DEF DoDelete, FlagOp, TypeInv, QueueTypes, OpType
  <2>2. QueueTypes'
    <3>1. queue' \in Seq(Legal) /\ op' = NoOp
      BY <1>6 DEF DoDelete, FlagOp, TypeInv, QueueTypes
    <3>2. NoOp \in OpType /\ NoOp.pc = "idle" /\ NoOp.entry = None
      BY EmptySeq DEF NoOp, OpType
    <3>. QED BY <3>1, <3>2 DEF QueueTypes
  <2>3. DiskTypes'
    <3>1. op.entry.path \in Paths
      BY <2>1, LegalFacts
    <3>2. file' \in [Paths -> Nat] /\ unsynced' \in [Paths -> BOOLEAN]
      <4>1. CASE DoDelete
        BY <3>1, <4>1 DEF DoDelete, TypeInv, DiskTypes
      <4>2. CASE FlagOp
        BY <3>1, <4>2 DEF FlagOp, TypeInv, DiskTypes
      <4>. QED BY <1>6, <4>1, <4>2
    <3>3. unflagged' \in SUBSET Paths
      BY <1>6 DEF DoDelete, FlagOp, TypeInv, DiskTypes, history, lapses
    <3>. QED BY <1>6, <3>2, <3>3 DEF DoDelete, FlagOp, TypeInv, DiskTypes, server, history, lapses
  <2>. QED BY <1>6, <2>2, <2>3 DEF DoDelete, FlagOp, vars, disk, manager, net, server, history, lapses, TypeInv, DiskTypes, QueueTypes, TaskTypes, CallTypes, NetTypes, Working
<1>7. CASE OpFails
  <2>1. QueueTypes'
    <3>1. queue' \in Seq(Legal) /\ op' = NoOp
      BY <1>7 DEF OpFails, TypeInv, QueueTypes, disk
    <3>2. NoOp \in OpType /\ NoOp.pc = "idle" /\ NoOp.entry = None
      BY EmptySeq DEF NoOp, OpType
    <3>. QED BY <3>1, <3>2 DEF QueueTypes
  <2>2. DiskTypes'
    <3>1. op.entry \in Legal
      BY <1>7 DEF OpFails, TypeInv, QueueTypes, OpType
    <3>2. unflagged' \in SUBSET Paths
      BY <1>7, <3>1, LegalFacts DEF OpFails, TypeInv, DiskTypes
    <3>. QED BY <1>7, <3>2 DEF OpFails, TypeInv, DiskTypes, disk, server
  <2>. QED BY <1>7, <2>1, <2>2 DEF OpFails, vars, disk, manager, net, server, history, lapses, TypeInv, DiskTypes, QueueTypes, TaskTypes, CallTypes, NetTypes, Working
<1>. QED BY <1>1, <1>2, <1>3, <1>4, <1>5, <1>6, <1>7 DEF Begin, OpStep

LEMMA CallStepTypes ==
  ASSUME TypeInv, Request \/ CallStep \/ Cut \/ Reconnect \/ \E c \in Calls : CallFails(c)
  PROVE  TypeInv'
<1>1. CASE Request
  BY <1>1, StartTypes DEF Request, vars, disk, manager, net, server, history, lapses, TypeInv, DiskTypes, QueueTypes, TaskTypes, CallTypes, NetTypes, Working
<1>2. ASSUME NEW c \in Calls, CallReads(c) PROVE TypeInv'
  <2>1. CallTypes'
    BY <1>2, SeqFacts DEF CallReads, NoCall, CallType, CallTypes, TypeInv, QueueTypes
  <2>. QED BY <1>2, <2>1 DEF CallReads, vars, disk, manager, net, server, history, lapses, TypeInv, DiskTypes, QueueTypes, TaskTypes, CallTypes, NetTypes, Working
<1>3. ASSUME NEW c \in Calls, CallSends(c) PROVE TypeInv'
  <2>1. call[c].info \in Legal
    BY <1>3 DEF CallSends, TypeInv, CallTypes
  <2>2. CallTypes'
    BY <1>3, <2>1 DEF CallSends, TypeInv, CallTypes, CallType, NoCall
  <2>3. up' \in Seq(UpMessages)
    BY <1>3, <2>1, SendTypes, NewMessage DEF CallSends, TypeInv
  <2>. QED BY <1>3, <2>2, <2>3 DEF CallSends, vars, disk, manager, net, server, history, lapses, TypeInv, DiskTypes, QueueTypes, TaskTypes, CallTypes, NetTypes, Working
<1>4. ASSUME NEW c \in Calls, CallFails(c) PROVE TypeInv'
  <2>1. CallTypes'
    BY <1>4 DEF CallFails, NoCall, CallType, CallTypes, TypeInv
  <2>. QED BY <1>4, <2>1 DEF CallFails, vars, disk, manager, net, server, history, lapses, TypeInv, DiskTypes, QueueTypes, TaskTypes, CallTypes, NetTypes, Working
<1>5. CASE Cut
  BY <1>5, EmptySeq DEF Cut, vars, disk, manager, net, server, history, lapses, TypeInv, DiskTypes, QueueTypes, TaskTypes, CallTypes, NetTypes, Working
<1>6. CASE Reconnect
  BY <1>6 DEF Reconnect, vars, disk, manager, net, server, history, lapses, TypeInv, DiskTypes, QueueTypes, TaskTypes, CallTypes, NetTypes, Working
<1>. QED BY <1>1, <1>2, <1>3, <1>4, <1>5, <1>6 DEF CallStep

LEMMA TaskStarts ==
  ASSUME TypeInv, NEW kind, NEW pc, NEW then, StartTask(kind, pc, then),
         pc \in {"listing", "diffing", "clearing", "reading"},
         then \in {"none", "next", "stop", "drop", "retry", "jam"},
         pc \in {"listing", "diffing"} => Head(down).entry.type = "create"
  PROVE  TypeInv'
<1>1. down # <<>> /\ Head(down).entry \in Legal /\ down' \in Seq(DownMessages)
  BY SeqFacts, DownFacts DEF StartTask, Received, TypeInv, NetTypes
<1>2. PICK t \in Tasks :
        task' = [task EXCEPT ![t] = [pc |-> pc, entry |-> Head(down).entry, then |-> then,
                                     seen |-> <<>>]]
  BY DEF StartTask
<1>3. TaskTypes'
  BY <1>1, <1>2, EmptySeq DEF TypeInv, TaskTypes, TaskType, Working
<1>. QED BY <1>1, <1>3 DEF StartTask, vars, disk, manager, net, server, history, lapses, TypeInv, DiskTypes, QueueTypes, TaskTypes, CallTypes, NetTypes, Working

LEMMA HandleTypes ==
  ASSUME TypeInv, Handle
  PROVE  TypeInv'
<1>1. CASE HandleGrant
  <2>1. CASE /\ Received("sync") /\ Head(down).entry.type # "create"
             /\ Send(Head(down).entry.type, Head(down).entry, 0)
             /\ UNCHANGED <<disk, op, manager, socket, server, left, history>>
    <3>1. down # <<>> /\ Head(down).entry \in Legal /\ down' \in Seq(DownMessages)
      BY <2>1, SeqFacts, DownFacts DEF Received, TypeInv, NetTypes
    <3>2. up' \in Seq(UpMessages)
      BY <2>1, <3>1, SendTypes, NewMessage DEF TypeInv
    <3>. QED BY <2>1, <3>1, <3>2 DEF vars, disk, manager, net, server, history, lapses, TypeInv, DiskTypes, QueueTypes, TaskTypes, CallTypes, NetTypes, Working
  <2>. QED BY <1>1, <2>1, TaskStarts DEF HandleGrant
<1>2. CASE HandleDiffRequest
  <2>1. Head(down).entry.type = "create"
    BY <1>2, SeqFacts, DownFacts DEF HandleDiffRequest, StartTask, Received, TypeInv, NetTypes
  <2>. QED BY <1>2, <2>1, TaskStarts DEF HandleDiffRequest
<1>3. CASE HandlePatchAckResponse \/ HandleUpstreamError \/ HandleForcedDownstream
  BY <1>3, TaskStarts DEF HandlePatchAckResponse, HandleUpstreamError, HandleForcedDownstream
<1>4. CASE IgnoreError
  BY <1>4, SeqFacts DEF IgnoreError, Received, vars, disk, manager, net, server, history, lapses, TypeInv, DiskTypes, QueueTypes, TaskTypes, CallTypes, NetTypes, Working
<1>. QED BY <1>1, <1>2, <1>3, <1>4 DEF Handle

LEMMA ReadTypes ==
  ASSUME TypeInv, NEW t \in Tasks, NEW pc \in {"listing", "diffing"},
         NEW request \in {"checksums", "diffs"}, ReadFile(t, pc, request)
  PROVE  TypeInv'
<1>1. task[t].entry \in Legal /\ task[t].entry.type = "create" /\ task[t].entry.path \in Paths
  BY LegalFacts DEF ReadFile, TypeInv, TaskTypes, Working
<1>2. TaskTypes'
  <2>1. NoTask \in TaskType /\ NoTask.pc = "none"
    BY EmptySeq DEF NoTask, TaskType
  <2>2. CASE task' = [task EXCEPT ![t] = NoTask]
    BY <2>1, <2>2 DEF TypeInv, TaskTypes, Working
  <2>3. CASE task' = [task EXCEPT ![t].pc = "reading", ![t].then = "retry"]
    BY <1>1, <2>3, ZenonT(30) DEF TypeInv, TaskTypes, TaskType, Working
  <2>. QED BY <2>2, <2>3 DEF ReadFile
<1>3. up' \in Seq(UpMessages)
  <2>1. CASE Send(request, task[t].entry, file[task[t].entry.path])
    BY <1>1, <2>1, SendTypes, NewMessage DEF TypeInv, DiskTypes
  <2>2. CASE UNCHANGED up
    BY <2>2 DEF TypeInv, NetTypes
  <2>. QED BY <2>1, <2>2 DEF ReadFile
<1>. QED BY <1>2, <1>3 DEF ReadFile, vars, disk, manager, net, server, history, lapses, TypeInv, DiskTypes, QueueTypes, TaskTypes, CallTypes, NetTypes, Working

LEMMA TaskStepTypes ==
  ASSUME TypeInv, TaskStep \/ \E t \in Tasks : TaskFault(t)
  PROVE  TypeInv'
<1>1. ASSUME NEW t \in Tasks, SendSourceList(t) \/ SendDiffs(t) PROVE TypeInv'
  BY <1>1, ReadTypes DEF SendSourceList, SendDiffs
<1>2. ASSUME NEW t \in Tasks, ClearUnsynced(t) PROVE TypeInv'
  <2>1. TaskTypes'
    BY <1>2 DEF ClearUnsynced, TypeInv, TaskTypes, TaskType, Working
  <2>. QED BY <1>2, <2>1 DEF ClearUnsynced, vars, disk, manager, net, server, history, lapses, TypeInv, DiskTypes, QueueTypes, TaskTypes, CallTypes, NetTypes, Working
<1>3. ASSUME NEW t \in Tasks, AckFails(t) \/ UnflagFails(t) PROVE TypeInv'
  <2>1. TaskTypes'
    <3>1. CASE AckFails(t)
      BY <3>1 DEF AckFails, TypeInv, TaskTypes, TaskType, Working
    <3>2. CASE UnflagFails(t)
      BY <3>2 DEF UnflagFails, TypeInv, TaskTypes, TaskType, Working
    <3>. QED BY <1>3, <3>1, <3>2
  <2>. QED BY <1>3, <2>1 DEF AckFails, UnflagFails, vars, disk, manager, net, server, history, lapses, TypeInv, DiskTypes, QueueTypes, TaskTypes, CallTypes, NetTypes, Working
<1>4. ASSUME NEW t \in Tasks, TaskReads(t) PROVE TypeInv'
  <2>1. TaskTypes'
    BY <1>4 DEF TaskReads, TypeInv, TaskTypes, TaskType, QueueTypes, Working
  <2>. QED BY <1>4, <2>1 DEF TaskReads, vars, disk, manager, net, server, history, lapses, TypeInv, DiskTypes, QueueTypes, TaskTypes, CallTypes, NetTypes, Working
<1>5. ASSUME NEW t \in Tasks, TaskWrites(t) PROVE TypeInv'
  <2>1. TaskTypes'
    BY <1>5, EmptySeq DEF TaskWrites, NoTask, TypeInv, TaskTypes, TaskType, Working
  <2>2. task[t].seen \in Seq(Legal) /\ queue \in Seq(Legal)
    BY DEF TypeInv, TaskTypes, TaskType, QueueTypes
  <2>3. dequeueSync(task[t].seen) \in Seq(Legal) /\ delaySync(task[t].seen) \in Seq(Legal)
    BY <2>2, SeqFacts, AppendFacts DEF dequeueSync, delaySync
  <2>4. QueueTypes'
    BY <1>5, <2>3 DEF TaskWrites, TypeInv, QueueTypes
  <2>5. CallTypes'
    <3>1. current' \in Legal \cup {None}
      BY <1>5 DEF TaskWrites, TypeInv, CallTypes
    <3>2. /\ call' \in [Calls -> CallType]
          /\ \A c \in Calls : call'[c].pc = "setting" => call'[c].info \in Legal
      <4>1. CASE UNCHANGED call
        BY <4>1 DEF TypeInv, CallTypes
      <4>2. ASSUME NEW c \in Calls, call[c] = NoCall, call' = [call EXCEPT ![c].pc = "reading"]
            PROVE  <3>2!1 /\ <3>2!2
        BY <4>2 DEF TypeInv, CallTypes, CallType, NoCall
      <4>. QED BY <1>5, <4>1, <4>2 DEF TaskWrites, StartCall
    <3>. QED BY <3>1, <3>2 DEF CallTypes
  <2>. QED BY <1>5, <2>1, <2>4, <2>5 DEF TaskWrites, vars, disk, manager, net, server, history, lapses, TypeInv, DiskTypes, QueueTypes, TaskTypes, CallTypes, NetTypes, Working
<1>6. ASSUME NEW t \in Tasks, TaskFails(t) PROVE TypeInv'
  <2>1. TaskTypes'
    BY <1>6, EmptySeq DEF TaskFails, NoTask, TypeInv, TaskTypes, TaskType, Working
  <2>2. CallTypes'
    <3>1. current' \in Legal \cup {None}
      BY <1>6 DEF TaskFails, TypeInv, CallTypes
    <3>2. /\ call' \in [Calls -> CallType]
          /\ \A c \in Calls : call'[c].pc = "setting" => call'[c].info \in Legal
      <4>1. CASE UNCHANGED call
        BY <4>1 DEF TypeInv, CallTypes
      <4>2. ASSUME NEW c \in Calls, call[c] = NoCall, call' = [call EXCEPT ![c].pc = "reading"]
            PROVE  <3>2!1 /\ <3>2!2
        BY <4>2 DEF TypeInv, CallTypes, CallType, NoCall
      <4>. QED BY <1>6, <4>1, <4>2 DEF TaskFails, StartCall
    <3>. QED BY <3>1, <3>2 DEF CallTypes
  <2>. QED BY <1>6, <2>1, <2>2 DEF TaskFails, vars, disk, manager, net, server, history, lapses, TypeInv, DiskTypes, QueueTypes, TaskTypes, CallTypes, NetTypes, Working
<1>. QED BY <1>1, <1>2, <1>3, <1>4, <1>5, <1>6 DEF TaskStep, TaskFault

LEMMA AskedFacts ==
  ASSUME TypeInv, NEW kind, Asked(kind)
  PROVE  /\ up # <<>> /\ Head(up) \in UpMessages /\ up' \in Seq(UpMessages)
         /\ Head(up).kind = kind /\ Head(up).entry \in Legal /\ Head(up).version \in Nat
         /\ kind \in {"checksums", "diffs"} => Head(up).entry.type = "create"
         /\ kind \in {"rename", "delete"} => Head(up).entry.type = kind
         /\ Head(up).entry.path \in Paths
         /\ kind = "rename" => Head(up).entry.old \in Paths
BY SeqFacts, UpFacts, LegalFacts DEF Asked, TypeInv, NetTypes

LEMMA AnswerTypes ==
  ASSUME TypeInv, NEW kind, Answer(kind), Head(up).entry \in Legal,
         kind \in {"sync"} \cup Finals \/ (kind = "diffs" /\ Head(up).entry.type = "create")
  PROVE  down' \in Seq(DownMessages)
BY AppendFacts, NewMessage DEF Answer, TypeInv, NetTypes

LEMMA ServerTypes ==
  ASSUME TypeInv, ServerStep \/ Refusal
  PROVE  TypeInv'
<1>1. CASE ServerGrants
  <2>1. down' \in Seq(DownMessages)
    BY <1>1, AskedFacts, AnswerTypes DEF ServerGrants
  <2>2. lock' \in Paths
    BY <1>1, AskedFacts, LegalFacts DEF ServerGrants, Locked
  <2>. QED BY <1>1, <2>1, <2>2, AskedFacts DEF ServerGrants, vars, disk, manager, net, server, history, lapses, TypeInv, DiskTypes, QueueTypes, TaskTypes, CallTypes, NetTypes, Working
<1>2. CASE ServerRefuses
  <2>1. down' \in Seq(DownMessages)
    BY <1>2, AskedFacts, AnswerTypes DEF ServerRefuses, Finals
  <2>. QED BY <1>2, <2>1, AskedFacts DEF ServerRefuses, vars, disk, manager, net, server, history, lapses, TypeInv, DiskTypes, QueueTypes, TaskTypes, CallTypes, NetTypes, Working
<1>3. CASE ServerDrops
  BY <1>3, SeqFacts DEF ServerDrops, vars, disk, manager, net, server, history, lapses, TypeInv, DiskTypes, QueueTypes, TaskTypes, CallTypes, NetTypes, Working
<1>4. CASE ServerSums
  <2>1. down' \in Seq(DownMessages)
    BY <1>4, AskedFacts, AnswerTypes DEF ServerSums, StepOf
  <2>. QED BY <1>4, <2>1, AskedFacts DEF ServerSums, StepOf, vars, disk, manager, net, server, history, lapses, TypeInv, DiskTypes, QueueTypes, TaskTypes, CallTypes, NetTypes, Working
<1>5. CASE ServerFails
  <2>1. down' \in Seq(DownMessages)
    BY <1>5, AskedFacts, AnswerTypes DEF ServerFails, StepOf, Finals
  <2>. QED BY <1>5, <2>1, AskedFacts DEF ServerFails, StepOf, vars, disk, manager, net, server, history, lapses, TypeInv, DiskTypes, QueueTypes, TaskTypes, CallTypes, NetTypes, Working
<1>6. CASE ServerPatches
  <2>1. down' \in Seq(DownMessages)
    BY <1>6, AskedFacts, AnswerTypes DEF ServerPatches, StepOf, Finals
  <2>. QED BY <1>6, <2>1, AskedFacts DEF ServerPatches, StepOf, vars, disk, manager, net, server, history, lapses, TypeInv, DiskTypes, QueueTypes, TaskTypes, CallTypes, NetTypes, Working
<1>7. CASE ServerRenames
  <2>1. down' \in Seq(DownMessages)
    BY <1>7, AskedFacts, AnswerTypes DEF ServerRenames, StepOf, Finals
  <2>2. srv' \in [Paths -> Nat]
    BY <1>7, AskedFacts DEF ServerRenames, StepOf, TypeInv, DiskTypes
  <2>. QED BY <1>7, <2>1, <2>2, AskedFacts DEF ServerRenames, StepOf, vars, disk, manager, net, server, history, lapses, TypeInv, DiskTypes, QueueTypes, TaskTypes, CallTypes, NetTypes, Working
<1>8. CASE ServerDeletes
  <2>1. down' \in Seq(DownMessages)
    BY <1>8, AskedFacts, AnswerTypes DEF ServerDeletes, StepOf, Finals
  <2>2. srv' \in [Paths -> Nat]
    BY <1>8, AskedFacts DEF ServerDeletes, StepOf, TypeInv, DiskTypes
  <2>. QED BY <1>8, <2>1, <2>2, AskedFacts DEF ServerDeletes, StepOf, vars, disk, manager, net, server, history, lapses, TypeInv, DiskTypes, QueueTypes, TaskTypes, CallTypes, NetTypes, Working
<1>9. CASE ServerInterrupts
  <2>1. Entry(lock, "create", None) \in Legal
    BY <1>9, NewEntry DEF ServerInterrupts, TypeInv, DiskTypes
  <2>2. down' \in Seq(DownMessages)
    BY <1>9, <2>1, AppendFacts, NewMessage DEF ServerInterrupts, TypeInv, NetTypes, Finals
  <2>. QED BY <1>9, <2>2 DEF ServerInterrupts, vars, disk, manager, net, server, history, lapses, TypeInv, DiskTypes, QueueTypes, TaskTypes, CallTypes, NetTypes, Working
<1>. QED BY <1>1, <1>2, <1>3, <1>4, <1>5, <1>6, <1>7, <1>8, <1>9 DEF ServerStep, Refusal

LEMMA NextTypes == TypeInv /\ [Next]_vars => TypeInv'
<1>. SUFFICES ASSUME TypeInv, [Next]_vars PROVE TypeInv'
  OBVIOUS
<1>1. CASE UNCHANGED vars
  BY <1>1 DEF vars, disk, manager, net, server, history, lapses, TypeInv, DiskTypes, QueueTypes, TaskTypes, CallTypes, NetTypes, Working
<1>. QED BY <1>1, UserTypes, CallStepTypes, HandleTypes, TaskStepTypes, ServerTypes
         DEF Next, Fault

LEMMA TypesHold == Spec => []TypeInv
BY InitTypes, NextTypes, PTL DEF Spec

\* The state is well typed: every entry of the queue, of an operation, of a call
\* and of a handler is a path with its type (and its old path), whatever failed.
THEOREM TypeCorrect == Spec => []TypeOK
<1>1. Legal \subseteq Entries
  BY DEF Legal
<1>2. ASSUME TypeInv PROVE TypeOK
  <2>1. queue \in Seq(Entries) /\ op.seen \in Seq(Entries)
    BY <1>1, <1>2, SeqMonotonic DEF TypeInv, QueueTypes, OpType
  <2>2. call \in [Calls -> [pc : {"none", "reading", "setting"}, info : Entries \cup {None}]]
    BY <1>1, <1>2 DEF TypeInv, CallTypes, CallType
  <2>. QED BY <1>1, <1>2, <2>1, <2>2 DEF TypeOK, TypeInv, DiskTypes, QueueTypes, OpType, TaskTypes,
              TaskType, CallTypes
<1>. QED BY <1>2, TypesHold, PTL

-----------------------------------------------------------------------------
(* The queue is read, changed and written back.  While no two changes have    *)
(* overlapped, whoever is between the read and the write-back is alone, and   *)
(* holds the queue as it still is.                                            *)

QueueDistinct == \A i, j \in DOMAIN queue : queue[i].path = queue[j].path => i = j
OpSeen == op.pc = "storing" => op.seen = queue /\ \A t \in Tasks : task[t].pc # "writing"
TaskSeen ==
  \A t \in Tasks : task[t].pc = "writing" =>
    /\ task[t].seen = queue
    /\ \A u \in Tasks : task[u].pc = "writing" => u = t
RaceInv == ~raced => QueueDistinct /\ OpSeen /\ TaskSeen

LEMMA IndexFinds ==
  ASSUME NEW q \in Seq(Legal), NEW p
  PROVE  /\ Index(q, p) = 0 => \A i \in DOMAIN q : q[i].path # p
         /\ Index(q, p) # 0 => Index(q, p) \in DOMAIN q /\ q[Index(q, p)].path = p
<1>. DEFINE I == {i \in 1..Len(q) : q[i].path = p}
<1>1. Index(q, p) = IF I # {} THEN Min(I) ELSE 0
  BY DEF Index, SelectInSeq
<1>2. I \subseteq Nat /\ \A i \in I : i # 0 /\ i \in 1..Len(q) /\ q[i].path = p
  OBVIOUS
<1>3. DOMAIN q = 1..Len(q) /\ \A i \in 1..Len(q) : q[i].path = p => i \in I
  OBVIOUS
<1>. HIDE DEF I
<1>4. I # {} => Min(I) \in I
  BY <1>2, LeastIsMin
<1>. QED BY <1>1, <1>2, <1>3, <1>4

\* Each of the three ways to change the queue keeps its paths distinct.
Distinct(q) == \A i, j \in DOMAIN q : q[i].path = q[j].path => i = j

LEMMA WithEntryDistinct ==
  ASSUME NEW q \in Seq(Legal), NEW e \in Legal, Distinct(q)
  PROVE  Distinct(WithEntry(q, e))
<1>1. CASE Index(q, e.path) # 0
  BY <1>1 DEF WithEntry
<1>2. CASE Index(q, e.path) = 0
  <2>1. WithEntry(q, e) = Append(q, e) /\ \A i \in DOMAIN q : q[i].path # e.path
    BY <1>2, IndexFinds DEF WithEntry
  <2>. QED BY <2>1, AppendFacts DEF Distinct
<1>. QED BY <1>1, <1>2

LEMMA DequeueDistinct ==
  ASSUME NEW q \in Seq(Legal), q # <<>>, Distinct(q)
  PROVE  Distinct(dequeueSync(q)) /\ Distinct(delaySync(q))
<1>1. ASSUME NEW i \in 1..(Len(q) - 1), NEW j \in 1..(Len(q) - 1),
             Tail(q)[i].path = Tail(q)[j].path
      PROVE  i = j
  <2>1. i + 1 \in DOMAIN q /\ j + 1 \in DOMAIN q
        /\ Tail(q)[i] = q[i + 1] /\ Tail(q)[j] = q[j + 1]
    BY SeqFacts
  <2>2. i + 1 = j + 1
    BY <1>1, <2>1 DEF Distinct
  <2>. QED BY <2>2, SeqFacts
<1>2. Distinct(Tail(q))
  BY <1>1, SeqFacts DEF Distinct
<1>3. ASSUME NEW i \in DOMAIN Tail(q) PROVE Tail(q)[i].path # Head(q).path
  <2>1. i + 1 \in DOMAIN q /\ 1 \in DOMAIN q /\ i + 1 # 1
        /\ Tail(q)[i] = q[i + 1] /\ Head(q) = q[1]
    BY SeqFacts
  <2>. QED BY <2>1 DEF Distinct
<1>4. Tail(q) \in Seq(Legal) /\ Head(q) \in Legal
  BY SeqFacts
<1>5. Distinct(Append(Tail(q), Head(q)))
  BY <1>2, <1>3, <1>4, AppendFacts DEF Distinct
<1>. QED BY <1>2, <1>5 DEF dequeueSync, delaySync

LEMMA InitRace == Init => RaceInv
BY DEF Init, InitWith, RaceInv, QueueDistinct, OpSeen, TaskSeen, NoOp, NoTask

\* A step that touches neither the queue nor who is changing it.
LEMMA RaceKept ==
  ASSUME RaceInv, UNCHANGED queue, raced' = raced,
         op'.pc = "storing" => op' = op,
         \A t \in Tasks : task'[t].pc = "writing" => task'[t] = task[t]
  PROVE  RaceInv'
BY DEF RaceInv, QueueDistinct, OpSeen, TaskSeen

LEMMA NextRace == TypeInv /\ RaceInv /\ [Next]_vars => RaceInv'
<1>. SUFFICES ASSUME TypeInv, RaceInv, [Next]_vars PROVE RaceInv'
  OBVIOUS
<1>1. ASSUME NEW p, NEW type, NEW old, BeginOp(p, type, old) PROVE RaceInv'
  BY <1>1 DEF BeginOp, disk, manager, RaceInv, QueueDistinct, OpSeen, TaskSeen
<1>2. ASSUME NEW p \in Paths, BeginDescriptor(p) PROVE RaceInv'
  BY <1>2, RaceKept DEF BeginDescriptor, disk, manager
<1>3. CASE Begin
  BY <1>1, <1>2, <1>3 DEF Begin, BeginWrite, BeginDelete, BeginRename
<1>4. CASE StoreOp
  <2>. SUFFICES ASSUME ~raced' PROVE QueueDistinct' /\ OpSeen' /\ TaskSeen'
    BY DEF RaceInv
  <2>1. ~raced /\ op.seen = queue /\ Distinct(queue) /\ \A t \in Tasks : task[t].pc # "writing"
    BY <1>4 DEF StoreOp, RaceInv, OpSeen, QueueDistinct, Distinct
  <2>2. op.entry \in Legal /\ queue \in Seq(Legal)
    BY <1>4 DEF StoreOp, TypeInv, QueueTypes, OpType
  <2>3. Distinct(queue')
    BY <1>4, <2>1, <2>2, WithEntryDistinct DEF StoreOp
  <2>4. op'.pc = "doing" /\ task' = task
    BY <1>4 DEF StoreOp, TypeInv, QueueTypes, OpType, manager
  <2>. QED BY <2>1, <2>3, <2>4 DEF QueueDistinct, Distinct, OpSeen, TaskSeen
<1>5. CASE DoWrite \/ DoDelete \/ DoRename \/ FlagOp \/ OpFails
  <2>1. op'.pc # "storing"
    <3>1. NoOp.pc = "idle" /\ [op EXCEPT !.pc = "flagging"].pc = "flagging"
      BY DEF NoOp, TypeInv, QueueTypes, OpType
    <3>2. op' = NoOp \/ op' = [op EXCEPT !.pc = "flagging"]
      BY <1>5 DEF DoWrite, DoDelete, DoRename, FlagOp, OpFails
    <3>. QED BY <3>1, <3>2
  <2>. QED BY <1>5, <2>1, RaceKept DEF DoWrite, DoDelete, DoRename, FlagOp, OpFails, disk, manager,
              history, lapses
<1>6. CASE Request \/ CallStep \/ \E c \in Calls : CallFails(c)
  BY <1>6, RaceKept DEF Request, CallStep, CallReads, CallSends, CallFails, disk, history, lapses
<1>7. CASE Cut \/ Reconnect \/ ServerStep \/ Refusal
  BY <1>7, RaceKept DEF Cut, Reconnect, disk, manager, history, lapses, ServerStep, Refusal, ServerGrants,
     ServerDrops, ServerSums, ServerPatches, ServerRenames, ServerDeletes, ServerRefuses,
     ServerFails, ServerInterrupts, StepOf
<1>8. ASSUME NEW kind, NEW pc \in {"listing", "diffing", "clearing", "reading"}, NEW then,
             StartTask(kind, pc, then)
      PROVE  RaceInv'
  <2>1. \A t \in Tasks : task'[t].pc = "writing" => task'[t] = task[t]
    BY <1>8 DEF StartTask, TypeInv, TaskTypes
  <2>. QED BY <1>8, <2>1, RaceKept DEF StartTask, disk, history, lapses
<1>9. CASE Handle
  <2>1. CASE HandleGrant
    BY <1>8, <2>1, RaceKept DEF HandleGrant, disk, manager, history, lapses
  <2>2. CASE IgnoreError
    BY <2>2, RaceKept DEF IgnoreError, disk, manager
  <2>. QED BY <1>8, <1>9, <2>1, <2>2 DEF Handle, HandleDiffRequest, HandlePatchAckResponse,
              HandleUpstreamError, HandleForcedDownstream
<1>10. ASSUME NEW t \in Tasks,
              SendSourceList(t) \/ SendDiffs(t) \/ ClearUnsynced(t) \/ TaskFault(t)
       PROVE  RaceInv'
  <2>1. \A u \in Tasks : task'[u].pc = "writing" => task'[u] = task[u]
    BY <1>10 DEF SendSourceList, SendDiffs, ReadFile, ClearUnsynced, TaskFault, AckFails, UnflagFails,
       TaskFails, NoTask, TypeInv, TaskTypes, TaskType
  <2>. QED BY <1>10, <2>1, RaceKept DEF SendSourceList, SendDiffs, ReadFile, ClearUnsynced, TaskFault,
              AckFails, UnflagFails, TaskFails, disk, history, lapses
<1>11. ASSUME NEW t \in Tasks, TaskReads(t) PROVE RaceInv'
  BY <1>11 DEF TaskReads, disk, RaceInv, QueueDistinct, OpSeen, TaskSeen, TypeInv, TaskTypes, TaskType
<1>12. ASSUME NEW t \in Tasks, TaskWrites(t) PROVE RaceInv'
  <2>. SUFFICES ASSUME ~raced' PROVE QueueDistinct' /\ OpSeen' /\ TaskSeen'
    BY DEF RaceInv
  <2>1. /\ task[t].seen = queue /\ Distinct(queue) /\ op.pc # "storing"
        /\ \A u \in Tasks : task[u].pc = "writing" => u = t
    BY <1>12 DEF TaskWrites, RaceInv, OpSeen, TaskSeen, QueueDistinct, Distinct
  <2>2. Distinct(queue')
    <3>1. CASE queue = <<>>
      BY <1>12, <2>1, <3>1 DEF TaskWrites, dequeueSync, delaySync
    <3>2. CASE queue # <<>>
      BY <1>12, <2>1, <3>2, DequeueDistinct DEF TaskWrites, TypeInv, QueueTypes
    <3>. QED BY <3>1, <3>2
  <2>3. op' = op /\ \A u \in Tasks : task'[u].pc # "writing"
    BY <1>12, <2>1 DEF TaskWrites, NoTask, TypeInv, TaskTypes
  <2>. QED BY <2>1, <2>2, <2>3 DEF QueueDistinct, Distinct, OpSeen, TaskSeen
<1>13. CASE UNCHANGED vars
  BY <1>13, RaceKept DEF vars, disk, manager, history, lapses
<1>. QED BY <1>3, <1>4, <1>5, <1>6, <1>7, <1>9, <1>10, <1>11, <1>12, <1>13
         DEF Next, OpStep, TaskStep, Fault

LEMMA RaceHolds == Spec => []RaceInv
<1>1. Init => RaceInv
  BY InitRace
<1>2. TypeInv /\ RaceInv /\ [Next]_vars => RaceInv'
  BY NextRace
<1>. QED BY <1>1, <1>2, TypesHold, PTL DEF Spec

\* A path is queued once, as long as no two changes of the queue have overlapped:
\* StoreOp looks for it, and delaySync() puts back what it took.
THEOREM QueuedOnceHolds == Spec => []QueuedOnce
<1>1. RaceInv => QueuedOnce
  BY DEF RaceInv, QueueDistinct, QueuedOnce
<1>. QED BY <1>1, RaceHolds, PTL

-----------------------------------------------------------------------------
(* A sync that has not met a mishap is somewhere: on the wire, at the server, *)
(* or with a handler that will end it.                                        *)

JamInv == \A t \in Tasks : Ending(t) /\ task[t].then = "jam" => jammed

FinalDown == \E i \in DOMAIN down : down[i].kind \in Finals
SyncUp    == \E i \in DOMAIN up : up[i].kind = "sync"
AnEnding  == \E t \in Tasks : Ending(t)
AWorking  == \E t \in Tasks : Working(t)
UnderWay  == \/ FinalDown \/ AnEnding \/ SyncUp
             \/ lock # None /\ (up # <<>> \/ down # <<>> \/ AWorking)
StuckInv  == JamInv /\ (~jammed /\ current # None => socket /\ UnderWay)

LEMMA AppendedUp ==
  ASSUME TypeInv, NEW m, up' = Append(up, m), m \in UpMessages
  PROVE  up' # <<>> /\ (SyncUp => SyncUp') /\ (m.kind = "sync" => SyncUp')
BY AppendFacts DEF TypeInv, NetTypes, SyncUp

LEMMA AppendedDown ==
  ASSUME TypeInv, NEW m, down' = Append(down, m), m \in DownMessages
  PROVE  down' # <<>> /\ (FinalDown => FinalDown') /\ (m.kind \in Finals => FinalDown')
BY AppendFacts DEF TypeInv, NetTypes, FinalDown

LEMMA TakenUp ==
  ASSUME TypeInv, up # <<>>, up' = Tail(up), SyncUp, Head(up).kind # "sync"
  PROVE  SyncUp'
<1>1. PICK i \in DOMAIN up : up[i].kind = "sync"
  BY DEF SyncUp
<1>2. i # 1 /\ i \in 1..Len(up) /\ Len(up) \in Nat
  BY <1>1, SeqFacts DEF TypeInv, NetTypes
<1>3. i - 1 \in 1..(Len(up) - 1) /\ (i - 1) + 1 = i
  BY <1>2
<1>4. i - 1 \in DOMAIN Tail(up) /\ Tail(up)[i - 1] = up[i]
  BY <1>3, SeqFacts DEF TypeInv, NetTypes
<1>. QED BY <1>1, <1>4 DEF SyncUp

LEMMA TakenDown ==
  ASSUME TypeInv, down # <<>>, down' = Tail(down), FinalDown, Head(down).kind \notin Finals
  PROVE  FinalDown'
<1>1. PICK i \in DOMAIN down : down[i].kind \in Finals
  BY DEF FinalDown
<1>2. i # 1 /\ i \in 1..Len(down) /\ Len(down) \in Nat
  BY <1>1, SeqFacts DEF TypeInv, NetTypes
<1>3. i - 1 \in 1..(Len(down) - 1) /\ (i - 1) + 1 = i
  BY <1>2
<1>4. i - 1 \in DOMAIN Tail(down) /\ Tail(down)[i - 1] = down[i]
  BY <1>3, SeqFacts DEF TypeInv, NetTypes
<1>. QED BY <1>1, <1>4 DEF FinalDown

LEMMA InitStuck == Init => StuckInv
BY DEF Init, InitWith, StuckInv, JamInv, Ending, NoTask

\* A step that touches none of it.
LEMMA StuckKept ==
  ASSUME StuckInv, UNCHANGED <<task, current, socket, up, down, lock, jammed>>
  PROVE  StuckInv'
BY DEF StuckInv, JamInv, UnderWay, FinalDown, SyncUp, AnEnding, AWorking, Ending, Working

\* The handlers' own steps, and those of the messages' senders.
LEMMA StuckTask ==
  ASSUME TypeInv, StuckInv, TaskStep \/ \E t \in Tasks : TaskFault(t)
  PROVE  StuckInv'
<1>1. ASSUME NEW t \in Tasks, NEW pc \in {"listing", "diffing"},
             NEW request \in {"checksums", "diffs"}, ReadFile(t, pc, request)
      PROVE  StuckInv'
  <2>1. /\ UNCHANGED <<current, socket, down, lock, jammed>>
        /\ FinalDown' <=> FinalDown
    BY <1>1 DEF ReadFile, server, FinalDown
  <2>2. task[t].entry \in Legal /\ task[t].entry.type = "create" /\ task[t].entry.path \in Paths
    BY <1>1, LegalFacts DEF ReadFile, TypeInv, TaskTypes, Working
  <2>3. CASE task' = [task EXCEPT ![t].pc = "reading", ![t].then = "retry"] /\ UNCHANGED up
    <3>1. task'[t].pc = "reading" /\ task'[t].then = "retry"
          /\ \A u \in Tasks : u # t => task'[u] = task[u]
      BY <2>3 DEF TypeInv, TaskTypes, TaskType
    <3>2. AnEnding'
      BY <3>1 DEF AnEnding, Ending
    <3>3. JamInv'
      BY <2>1, <3>1 DEF StuckInv, JamInv, Ending
    <3>. QED BY <2>1, <3>2, <3>3 DEF StuckInv, UnderWay
  <2>4. CASE task' = [task EXCEPT ![t] = NoTask] /\ Send(request, task[t].entry, file[task[t].entry.path])
    <3>1. task'[t].pc = "none" /\ \A u \in Tasks : u # t => task'[u] = task[u]
      BY <2>4 DEF TypeInv, TaskTypes, TaskType, NoTask
    <3>2. JamInv'
      BY <2>1, <3>1 DEF StuckInv, JamInv, Ending
    <3>3. AnEnding => AnEnding'
      BY <1>1, <3>1 DEF AnEnding, Ending, ReadFile
    <3>4. socket => up' # <<>> /\ (SyncUp => SyncUp')
      <4>1. Message(request, task[t].entry, file[task[t].entry.path]) \in UpMessages
        BY <2>2, NewMessage DEF TypeInv, DiskTypes
      <4>. QED BY <2>4, <4>1, AppendedUp DEF Send
    <3>. QED BY <2>1, <3>2, <3>3, <3>4 DEF StuckInv, UnderWay
  <2>. QED BY <1>1, <2>3, <2>4 DEF ReadFile
<1>2. ASSUME NEW t \in Tasks, ClearUnsynced(t) \/ TaskReads(t) \/ UnflagFails(t) PROVE StuckInv'
  <2>1. /\ UNCHANGED <<current, socket, up, down, lock, jammed>>
        /\ task'[t].pc \in {"reading", "writing"} /\ task'[t].then = task[t].then
        /\ \A u \in Tasks : u # t => task'[u] = task[u]
    BY <1>2 DEF ClearUnsynced, TaskReads, UnflagFails, net, server, history, lapses, TypeInv,
       TaskTypes, TaskType
  <2>2. AnEnding'
    BY <2>1 DEF AnEnding, Ending
  <2>3. Ending(t)
    BY <1>2 DEF Ending, ClearUnsynced, TaskReads, UnflagFails
  <2>4. JamInv'
    BY <2>1, <2>3 DEF StuckInv, JamInv, Ending
  <2>. QED BY <2>1, <2>2, <2>4 DEF StuckInv, UnderWay
<1>3. ASSUME NEW t \in Tasks, AckFails(t) PROVE StuckInv'
  BY <1>3 DEF AckFails, StuckInv, JamInv, Ending
<1>4. ASSUME NEW t \in Tasks, TaskWrites(t) PROVE StuckInv'
  <2>1. /\ task[t].pc = "writing" /\ jammed' = jammed
        /\ current' = IF task[t].then = "jam" THEN current ELSE None
    BY <1>4 DEF TaskWrites
  <2>2. JamInv'
    BY <1>4, <2>1 DEF TaskWrites, NoTask, StuckInv, JamInv, Ending, TypeInv, TaskTypes
  <2>. QED BY <2>1, <2>2 DEF StuckInv, JamInv, Ending
<1>5. ASSUME NEW t \in Tasks, TaskFails(t) PROVE StuckInv'
  <2>1. \/ current' = None /\ jammed' = jammed
        \/ current' = current /\ jammed' = (jammed \/ current # None)
    BY <1>5 DEF TaskFails
  <2>2. \A u \in Tasks : Ending(u)' => task'[u] = task[u]
    BY <1>5 DEF TaskFails, NoTask, Ending, TypeInv, TaskTypes
  <2>3. jammed => jammed'
    BY <2>1
  <2>4. \A u \in Tasks : Ending(u)' => Ending(u) /\ task'[u].then = task[u].then
    BY <2>2 DEF Ending
  <2>5. JamInv'
    BY <2>3, <2>4 DEF StuckInv, JamInv
  <2>. QED BY <2>1, <2>5 DEF StuckInv
<1>. QED BY <1>1, <1>2, <1>3, <1>4, <1>5 DEF TaskStep, TaskFault, SendSourceList, SendDiffs

LEMMA StuckHandle ==
  ASSUME TypeInv, StuckInv, Handle
  PROVE  StuckInv'
<1>1. ASSUME NEW kind, NEW pc, NEW then, StartTask(kind, pc, then),
             \/ pc \in {"listing", "diffing"} /\ kind \notin Finals
             \/ pc \in {"clearing", "reading"} /\ then # "jam"
      PROVE  StuckInv'
  <2>1. /\ UNCHANGED <<current, socket, up, lock, jammed>>
        /\ down # <<>> /\ down' = Tail(down) /\ Head(down).kind = kind
    BY <1>1 DEF StartTask, Received, server, history, lapses
  <2>2. PICK t \in Tasks :
          task[t] = NoTask /\
          task' = [task EXCEPT ![t] = [pc |-> pc, entry |-> Head(down).entry, then |-> then,
                                       seen |-> <<>>]]
    BY <1>1 DEF StartTask
  <2>3. task'[t].pc = pc /\ task'[t].then = then /\ \A u \in Tasks : u # t => task'[u] = task[u]
    BY <2>2 DEF TypeInv, TaskTypes
  <2>4. JamInv'
    BY <1>1, <2>1, <2>3 DEF StuckInv, JamInv, Ending
  <2>5. AnEnding => AnEnding'
    BY <2>2, <2>3 DEF AnEnding, Ending, NoTask
  <2>6. SyncUp <=> SyncUp'
    BY <2>1 DEF SyncUp
  <2>7. CASE pc \in {"clearing", "reading"}
    <3>1. AnEnding'
      BY <2>3, <2>7 DEF AnEnding, Ending
    <3>. QED BY <2>1, <2>4, <3>1 DEF StuckInv, UnderWay
  <2>8. CASE pc \in {"listing", "diffing"} /\ kind \notin Finals
    <3>1. AWorking'
      BY <2>3, <2>8 DEF AWorking, Working
    <3>2. FinalDown => FinalDown'
      BY <2>1, <2>8, TakenDown
    <3>. QED BY <2>1, <2>4, <2>5, <2>6, <3>1, <3>2 DEF StuckInv, UnderWay
  <2>. QED BY <1>1, <2>7, <2>8
<1>2. CASE HandleGrant
  <2>1. CASE StartTask("sync", "listing", "none")
    BY <1>1, <2>1 DEF Finals
  <2>2. CASE /\ Received("sync") /\ Head(down).entry.type # "create"
             /\ Send(Head(down).entry.type, Head(down).entry, 0)
             /\ UNCHANGED <<disk, op, manager, socket, server, left, history>>
    <3>1. /\ UNCHANGED <<task, current, socket, lock, jammed>>
          /\ down # <<>> /\ down' = Tail(down) /\ Head(down).kind \notin Finals
      BY <2>2 DEF Received, manager, server, history, lapses, Finals
    <3>2. Message(Head(down).entry.type, Head(down).entry, 0) \in UpMessages
      BY <2>2, <3>1, SeqFacts, DownFacts, NewMessage DEF TypeInv, NetTypes
    <3>3. socket => up' # <<>> /\ (SyncUp => SyncUp')
      BY <2>2, <3>2, AppendedUp DEF Send
    <3>4. FinalDown => FinalDown'
      BY <3>1, TakenDown
    <3>5. (AnEnding => AnEnding') /\ (JamInv => JamInv')
      BY <3>1 DEF AnEnding, JamInv, Ending
    <3>. QED BY <3>1, <3>3, <3>4, <3>5 DEF StuckInv, UnderWay
  <2>. QED BY <1>2, <2>1, <2>2 DEF HandleGrant
<1>3. CASE HandleDiffRequest
  BY <1>1, <1>3 DEF HandleDiffRequest, Finals
<1>4. CASE HandlePatchAckResponse \/ HandleUpstreamError \/ HandleForcedDownstream
  BY <1>1, <1>4 DEF HandlePatchAckResponse, HandleUpstreamError, HandleForcedDownstream
<1>5. CASE IgnoreError
  BY <1>5 DEF IgnoreError, manager, StuckInv, JamInv, Ending
<1>. QED BY <1>2, <1>3, <1>4, <1>5 DEF Handle

LEMMA StuckServer ==
  ASSUME TypeInv, StuckInv, ServerStep \/ Refusal
  PROVE  StuckInv'
<1>1. UNCHANGED <<task, current, socket, jammed>>
  BY DEF ServerStep, Refusal, ServerGrants, ServerDrops, ServerSums, ServerPatches, ServerRenames,
     ServerDeletes, ServerRefuses, ServerFails, ServerInterrupts, StepOf, manager, history, lapses
<1>2. JamInv' /\ (AnEnding => AnEnding')
  BY <1>1 DEF StuckInv, JamInv, Ending, AnEnding, Ending
<1>3. CASE ServerDrops
  <2>1. lock = None /\ UNCHANGED down /\ (SyncUp => SyncUp')
    BY <1>3, TakenUp DEF ServerDrops, server
  <2>. QED BY <1>1, <1>2, <2>1 DEF StuckInv, UnderWay, FinalDown
<1>4. ASSUME FinalDown' \/ (lock' # None /\ down' # <<>>) PROVE StuckInv'
  BY <1>1, <1>2, <1>4 DEF StuckInv, UnderWay
<1>5. CASE ServerGrants
  <2>1. lock' # None
    <3>1. lock' \in Paths
      BY <1>5, AskedFacts, LegalFacts DEF ServerGrants, Locked
    <3>. QED BY <3>1, NoneAssumption
  <2>2. down' # <<>>
    BY <1>5, AskedFacts, NewMessage, AppendedDown DEF ServerGrants, Answer
  <2>. QED BY <1>4, <2>1, <2>2
<1>6. CASE ServerSums
  <2>1. lock' # None
    BY <1>6 DEF ServerSums, StepOf, server
  <2>2. down' # <<>>
    BY <1>6, AskedFacts, NewMessage, AppendedDown DEF ServerSums, StepOf, Answer
  <2>. QED BY <1>4, <2>1, <2>2
<1>7. ASSUME NEW kind, NEW answer \in Finals, Asked(kind), Answer(answer) PROVE StuckInv'
  <2>1. Message(answer, Head(up).entry, 0) \in DownMessages
        /\ Message(answer, Head(up).entry, 0).kind \in Finals
    BY <1>7, AskedFacts, NewMessage DEF Message
  <2>. QED BY <1>4, <1>7, <2>1, AppendedDown DEF Answer
<1>8. CASE ServerRefuses
  BY <1>7, <1>8 DEF ServerRefuses, Finals
<1>9. CASE ServerFails \/ ServerPatches \/ ServerRenames \/ ServerDeletes
  BY <1>7, <1>9 DEF ServerFails, ServerPatches, ServerRenames, ServerDeletes, StepOf, Finals
<1>10. CASE ServerInterrupts
  <2>1. Message("error", Entry(lock, "create", None), 0) \in DownMessages
        /\ Message("error", Entry(lock, "create", None), 0).kind \in Finals
    BY <1>10, NewEntry, NewMessage DEF ServerInterrupts, TypeInv, DiskTypes, Message, Finals
  <2>. QED BY <1>4, <1>10, <2>1, AppendedDown DEF ServerInterrupts
<1>. QED BY <1>3, <1>5, <1>6, <1>8, <1>9, <1>10 DEF ServerStep, Refusal

LEMMA NextStuck == TypeInv /\ StuckInv /\ [Next]_vars => StuckInv'
<1>. SUFFICES ASSUME TypeInv, StuckInv, [Next]_vars PROVE StuckInv'
  OBVIOUS
<1>1. CASE Begin \/ OpStep \/ OpFails
  BY <1>1, StuckKept DEF Begin, BeginWrite, BeginDelete, BeginRename, BeginOp, BeginDescriptor, OpStep,
     StoreOp, DoWrite, DoDelete, DoRename, FlagOp, OpFails, manager, net, server, history, lapses
<1>2. CASE Request
  BY <1>2, StuckKept DEF Request, net, server
<1>3. ASSUME NEW c \in Calls, CallReads(c) \/ CallFails(c) PROVE StuckInv'
  BY <1>3, StuckKept DEF CallReads, CallFails, net, server, history, lapses
<1>4. ASSUME NEW c \in Calls, CallSends(c) PROVE StuckInv'
  <2>1. JamInv'
    BY <1>4 DEF CallSends, StuckInv, JamInv, Ending
  <2>2. socket => SyncUp'
    <3>1. Message("sync", call[c].info, 0) \in UpMessages /\ Message("sync", call[c].info, 0).kind = "sync"
      BY <1>4, NewMessage DEF CallSends, TypeInv, CallTypes, Message
    <3>. QED BY <1>4, <3>1, AppendedUp DEF CallSends, Send
  <2>3. socket' = socket /\ jammed' = (jammed \/ ~socket) /\ socket \in BOOLEAN
    BY <1>4 DEF CallSends, TypeInv, NetTypes
  <2>. QED BY <2>1, <2>2, <2>3 DEF StuckInv, UnderWay
<1>5. CASE Cut
  BY <1>5 DEF Cut, manager, StuckInv, JamInv, Ending
<1>6. CASE Reconnect
  BY <1>6 DEF Reconnect, manager, server, history, lapses, StuckInv, JamInv, UnderWay, FinalDown, SyncUp,
     AnEnding, AWorking, Ending, Working
<1>7. CASE UNCHANGED vars
  BY <1>7, StuckKept DEF vars, manager, net, server, history, lapses
<1>. QED BY <1>1, <1>2, <1>3, <1>4, <1>5, <1>6, <1>7, StuckTask, StuckHandle, StuckServer
         DEF Next, CallStep, Fault

\* A sync manager waits for ever only after a mishap that the code does not
\* handle: the web socket went away, the stamping of a file failed, or the delay or
\* the forced dequeue of a path, or the server sent an error that handleError() does
\* not know.
THEOREM StuckOnlyIfJammedHolds == Spec => []StuckOnlyIfJammed
<1>1. Init => StuckInv
  BY InitStuck
<1>2. TypeInv /\ StuckInv /\ [Next]_vars => StuckInv'
  BY NextStuck
<1>3. StuckInv => StuckOnlyIfJammed
  BY DEF StuckInv, StuckOnlyIfJammed, Idle, UnderWay, FinalDown, SyncUp, AnEnding, AWorking,
     Ending, Working, NoTask
<1>. QED BY <1>1, <1>2, <1>3, TypesHold, PTL DEF Spec

-----------------------------------------------------------------------------
(* While the queue is undisturbed there is one baton: a request for a sync on *)
(* the wire, a lock at the server, a last answer on the wire, or a handler    *)
(* that ends the sync.  Whoever has it works on currentSync, the head of the  *)
(* queue, and the server's file is the browser's once it says it is done.     *)

NoSync   == \A i \in DOMAIN up : up[i].kind # "sync"
NoFinal  == \A i \in DOMAIN down : down[i].kind \notin Finals
NoEnding == \A t \in Tasks : ~Ending(t)
Live     == lock # None \/ ~NoSync \/ ~NoFinal \/ ~NoEnding

\* The baton is in one place only.
LockPart ==
  lock # None => current # None /\ lock \in PathsOf(current) /\ NoSync /\ NoFinal /\ NoEnding
SyncPart ==
  \A i \in DOMAIN up : up[i].kind = "sync" =>
    /\ up[i].entry = current /\ lock = None /\ down = <<>> /\ NoEnding
    /\ \A j \in DOMAIN up : up[j].kind = "sync" => j = i
FinalPart ==
  \A i \in DOMAIN down : down[i].kind \in Finals =>
    i = Len(down) /\ current # None /\ lock = None /\ NoSync /\ NoEnding
EndPart ==
  \A t \in Tasks : Ending(t) =>
    /\ current # None /\ lock = None /\ NoSync /\ down = <<>>
    /\ task[t].then \in {"next", "stop", "drop", "jam"}
    /\ \A u \in Tasks : Ending(u) => u = t

\* The answers, and the steps that a server with the lock will see, are about
\* currentSync; a file that is sent is still as it was read.
AnswerPart == \A i \in DOMAIN down : down[i].kind \notin Finals => down[i].entry = current
Ours(m)    == m.entry = current /\ (m.kind = "diffs" => m.version = file[current.path])
StepPart   ==
  \A i \in DOMAIN up :
    /\ up[i].kind # "sync"
    /\ lock # None \/ \E j \in DOMAIN up : j < i /\ up[j].kind = "sync"
    => Ours(up[i])

\* What is acknowledged is on the server.
Agrees  == \A p \in PathsOf(current) : srv[p] = file[p]
AckDown == \A i \in DOMAIN down : down[i].kind = "patch" => down[i].entry = current /\ Agrees
AckTask ==
  \A t \in Tasks :
    /\ Ending(t) /\ task[t].then = "next" => task[t].entry = current /\ Agrees
    /\ task[t].pc = "clearing" => task[t].then = "next"

\* currentSync is in the queue, at its head while the sync is alive.
HeadPart ==
  /\ Live => queue # <<>> /\ Head(queue) = current
  /\ current # None => \E i \in DOMAIN queue : queue[i] = current

\* No operation is on the path being synced, and one call starts one sync.
OpPart   == ~Overlap(op.entry, current)
CallPart ==
  /\ \A c \in Calls : call[c].pc # "none" => current = None
  /\ \A c, d \in Calls : call[c].pc # "none" /\ call[d].pc # "none" => c = d
  /\ \A c \in Calls : call[c].pc = "setting" => queue # <<>> /\ call[c].info = Head(queue)

BatonInv == /\ LockPart /\ SyncPart /\ FinalPart /\ EndPart /\ AnswerPart /\ StepPart
            /\ AckDown /\ AckTask /\ HeadPart /\ OpPart /\ CallPart

-----------------------------------------------------------------------------
(* Every step keeps the baton in one hand.  The lemmas are one for each kind  *)
(* of step: what it does to the messages, the handlers and the lock.          *)

LEMMA Quiet ==
  ASSUME TypeInv, BatonInv, current = None
  PROVE  lock = None /\ NoSync /\ down = <<>> /\ NoEnding
<1>1. lock = None /\ NoEnding
  BY DEF BatonInv, LockPart, EndPart, NoEnding
<1>2. NoSync
  <2>1. ASSUME NEW i \in DOMAIN up, up[i].kind = "sync" PROVE FALSE
    <3>1. up[i].entry \in Legal /\ up[i].entry = current
      BY <2>1, UpFacts DEF BatonInv, SyncPart, TypeInv, NetTypes
    <3>. QED BY <3>1, LegalFacts
  <2>. QED BY <2>1 DEF NoSync
<1>3. down = <<>>
  <2>1. SUFFICES ASSUME down # <<>> PROVE FALSE
    OBVIOUS
  <2>2. 1 \in DOMAIN down /\ down[1] \in DownMessages
    BY <2>1, SeqFacts DEF TypeInv, NetTypes
  <2>3. down[1].entry \in Legal
    BY <2>2, DownFacts
  <2>. QED BY <2>2, <2>3, LegalFacts DEF BatonInv, FinalPart, AnswerPart
<1>. QED BY <1>1, <1>2, <1>3

LEMMA CurrentPath ==
  ASSUME TypeInv, current # None
  PROVE  current \in Legal /\ current.path \in PathsOf(current) /\ current.path \in Paths
BY LegalFacts DEF TypeInv, CallTypes

\* The user's steps.
LEMMA UserBaton ==
  ASSUME TypeInv, BatonInv, UNCHANGED <<manager, net, server>>, OpPart',
         queue' = queue \/ (\E e \in Legal : queue' = Append(queue, e)),
         \A p \in PathsOf(current) : file'[p] = file[p]
  PROVE  BatonInv'
<1>1. UNCHANGED <<call, task, current, up, down, lock, srv>>
  BY DEF manager, net, server
<1>2. (NoSync' <=> NoSync) /\ (NoFinal' <=> NoFinal)
  BY <1>1 DEF NoSync, NoFinal
<1>3. \A t \in Tasks : Ending(t)' <=> Ending(t)
  BY <1>1 DEF Ending
<1>4. (NoEnding' <=> NoEnding) /\ (Agrees' <=> Agrees)
  BY <1>1, <1>3 DEF NoEnding, Agrees
<1>5. LockPart' /\ SyncPart' /\ FinalPart' /\ EndPart' /\ AnswerPart'
  BY <1>1, <1>2, <1>3, <1>4 DEF BatonInv, LockPart, SyncPart, FinalPart, EndPart, AnswerPart
<1>6. StepPart'
  <2>1. \A i \in DOMAIN up : up[i].entry = current => file'[current.path] = file[current.path]
    <3>1. ASSUME NEW i \in DOMAIN up, up[i].entry = current PROVE current # None
      BY <3>1, UpFacts, LegalFacts DEF TypeInv, NetTypes
    <3>. QED BY <3>1, CurrentPath
  <2>. QED BY <1>1, <2>1 DEF BatonInv, StepPart, Ours
<1>7. AckDown' /\ AckTask'
  BY <1>1, <1>3, <1>4 DEF BatonInv, AckDown, AckTask
<1>8. queue # <<>> => queue' # <<>> /\ Head(queue') = Head(queue)
  <2>1. ASSUME NEW e \in Legal, queue # <<>>, queue' = Append(queue, e)
        PROVE  queue' # <<>> /\ Head(queue') = Head(queue)
    <3>1. queue' \in Seq(Legal) /\ queue' # <<>> /\ queue'[1] = queue[1]
      BY <2>1, AppendFacts, SeqFacts DEF TypeInv, QueueTypes
    <3>. QED BY <2>1, <3>1, SeqFacts DEF TypeInv, QueueTypes
  <2>. QED BY <2>1
<1>9. (\E i \in DOMAIN queue : queue[i] = current) => \E i \in DOMAIN queue' : queue'[i] = current
  <2>1. ASSUME NEW i \in DOMAIN queue, queue[i] = current
        PROVE  i \in DOMAIN queue' /\ queue'[i] = current
    BY <2>1, AppendFacts DEF TypeInv, QueueTypes
  <2>. QED BY <2>1
<1>10. HeadPart' /\ CallPart'
  BY <1>1, <1>2, <1>4, <1>8, <1>9 DEF BatonInv, HeadPart, CallPart, Live
<1>. QED BY <1>5, <1>6, <1>7, <1>10 DEF BatonInv

\* A step that changes only the calls.
LEMMA CallBaton ==
  ASSUME TypeInv, BatonInv, CallPart',
         UNCHANGED <<task, current, up, down, lock, srv, file, queue, op>>
  PROVE  BatonInv'
BY DEF BatonInv, LockPart, SyncPart, FinalPart, EndPart, AnswerPart, StepPart, Ours, AckDown, AckTask,
   Agrees, HeadPart, Live, OpPart, NoSync, NoFinal, NoEnding, Ending

\* Messages that keep a sync going: one of the middle answers is taken, a step
\* is sent.
LEMMA Progress ==
  ASSUME TypeInv, BatonInv, UNCHANGED <<call, current, lock, srv, file, queue, op>>,
         \A t \in Tasks : (Ending(t)' <=> Ending(t)) /\ (Ending(t) => task'[t] = task[t]),
         \/ UNCHANGED down
         \/ down # <<>> /\ Head(down).kind \notin Finals /\ down' = Tail(down),
         \/ UNCHANGED up
         \/ \E m \in UpMessages : /\ up' = Append(up, m) /\ m.kind # "sync"
                                  /\ Ours(m) \/ (lock = None /\ NoSync)
  PROVE  BatonInv'
<1>1. \A i \in DOMAIN down' : \E k \in DOMAIN down :
        down'[i] = down[k] /\ (k = Len(down) => i = Len(down'))
  BY SeqFacts DEF TypeInv, NetTypes
<1>2. down = <<>> => down' = <<>>
  OBVIOUS
<1>3. NoFinal => NoFinal'
  BY <1>1 DEF NoFinal
<1>4. ~NoFinal' => ~NoFinal
  BY <1>3
<1>5. \A i \in DOMAIN up' : up'[i].kind = "sync" => i \in DOMAIN up /\ up'[i] = up[i]
  BY Grow DEF TypeInv, NetTypes
<1>6. NoSync => NoSync'
  BY <1>5 DEF NoSync
<1>7. NoEnding' <=> NoEnding
  BY DEF NoEnding
<1>8. LockPart' /\ EndPart'
  BY <1>2, <1>3, <1>6, <1>7 DEF BatonInv, LockPart, EndPart
<1>9. SyncPart'
  BY <1>2, <1>5, <1>7 DEF BatonInv, SyncPart
<1>10. FinalPart' /\ AnswerPart'
  BY <1>1, <1>6, <1>7 DEF BatonInv, FinalPart, AnswerPart
<1>11. AckDown'
  BY <1>1 DEF BatonInv, AckDown, Agrees
<1>12. AckTask'
  <2>1. \A t \in Tasks : task'[t].pc = "clearing" => Ending(t)'
    BY DEF Ending
  <2>. QED BY <2>1 DEF BatonInv, AckTask, Agrees
<1>13. StepPart'
  <2>1. CASE UNCHANGED up
    BY <2>1 DEF BatonInv, StepPart, Ours
  <2>2. ASSUME NEW m \in UpMessages, up' = Append(up, m), m.kind # "sync",
               Ours(m) \/ (lock = None /\ NoSync)
        PROVE  StepPart'
    <3>. SUFFICES ASSUME NEW i \in DOMAIN up', up'[i].kind # "sync",
                         lock # None \/ \E j \in DOMAIN up' : j < i /\ up'[j].kind = "sync"
                  PROVE  Ours(up'[i])
      BY DEF StepPart, Ours
    <3>1. CASE i \in DOMAIN up /\ up'[i] = up[i]
      BY <1>5, <3>1 DEF BatonInv, StepPart
    <3>2. CASE up'[i] = m
      BY <1>5, <2>2, <3>2 DEF NoSync
    <3>. QED BY <2>2, <3>1, <3>2, Grow DEF TypeInv, NetTypes
  <2>. QED BY <2>1, <2>2
<1>14. HeadPart'
  <2>1. Live' => Live
    BY <1>4, <1>6, <1>7 DEF Live
  <2>. QED BY <2>1 DEF BatonInv, HeadPart
<1>15. OpPart' /\ CallPart'
  BY DEF BatonInv, OpPart, CallPart
<1>. QED BY <1>8, <1>9, <1>10, <1>11, <1>12, <1>13, <1>14, <1>15 DEF BatonInv

\* A call makes its path currentSync and asks for the lock.
LEMMA SendsBaton ==
  ASSUME TypeInv, BatonInv, NEW c \in Calls, CallSends(c), ~during'
  PROVE  BatonInv'
<1>1. /\ current = None /\ call[c].info \in Legal /\ queue # <<>> /\ Head(queue) = call[c].info
      /\ current' = call[c].info /\ current' # None
  BY LegalFacts DEF CallSends, BatonInv, CallPart, TypeInv, CallTypes
<1>2. lock = None /\ NoSync /\ down = <<>> /\ NoEnding
  BY <1>1, Quiet
<1>3. UNCHANGED <<file, queue, op, task, down, lock, srv>>
  BY DEF CallSends, disk, server
<1>4. NoEnding'
  BY <1>2, <1>3 DEF NoEnding, Ending
<1>5. \A i \in DOMAIN up' : up'[i].kind = "sync" =>
        up'[i].entry = current' /\ \A j \in DOMAIN up' : j <= i
  <2>1. Message("sync", call[c].info, 0) \in UpMessages
        /\ Message("sync", call[c].info, 0).entry = call[c].info
    BY <1>1, NewMessage DEF Message
  <2>2. CASE UNCHANGED up
    BY <1>2, <2>2 DEF NoSync
  <2>3. CASE up' = Append(up, Message("sync", call[c].info, 0))
    BY <1>1, <1>2, <2>1, <2>3, Grow DEF NoSync, TypeInv, NetTypes
  <2>. QED BY <2>2, <2>3 DEF CallSends, Send
<1>6. \A i \in DOMAIN up' : i \in Int
  <2>1. up' \in Seq(UpMessages)
    BY <1>1, SendTypes, NewMessage DEF CallSends, TypeInv
  <2>. QED BY <2>1
<1>7. LockPart' /\ FinalPart' /\ EndPart' /\ AnswerPart' /\ AckDown'
  BY <1>2, <1>3, <1>4 DEF LockPart, FinalPart, EndPart, AnswerPart, AckDown, NoEnding
<1>8. SyncPart' /\ StepPart'
  <2>1. \A i, j \in DOMAIN up' : up'[i].kind = "sync" /\ up'[j].kind = "sync" => i = j
    BY <1>5, <1>6
  <2>2. \A i, j \in DOMAIN up' : up'[i].kind = "sync" => ~(i < j)
    BY <1>5, <1>6
  <2>. QED BY <1>2, <1>3, <1>4, <1>5, <2>1, <2>2 DEF SyncPart, StepPart
<1>9. AckTask'
  <2>1. \A t \in Tasks : task'[t].pc = "clearing" => Ending(t)'
    BY DEF Ending
  <2>. QED BY <1>4, <2>1 DEF AckTask, NoEnding
<1>10. HeadPart'
  <2>1. 1 \in DOMAIN queue /\ queue[1] = Head(queue)
    BY <1>1, SeqFacts DEF TypeInv, QueueTypes
  <2>. QED BY <1>1, <1>3, <2>1 DEF HeadPart
<1>11. OpPart'
  BY <1>1, <1>3 DEF CallSends, OpPart
<1>12. CallPart'
  <2>1. call' = [call EXCEPT ![c] = NoCall] /\ call[c].pc # "none"
    BY DEF CallSends
  <2>2. \A d \in Calls : call'[d].pc = "none"
    BY <2>1 DEF BatonInv, CallPart, NoCall, TypeInv, CallTypes
  <2>. QED BY <2>2 DEF CallPart
<1>. QED BY <1>7, <1>8, <1>9, <1>10, <1>11, <1>12 DEF BatonInv

\* The last answer: taken by a handler, which will end the sync, or ignored.
LEMMA LastTaken ==
  ASSUME TypeInv, BatonInv, down # <<>>, Head(down).kind \in Finals, down' = Tail(down)
  PROVE  /\ down' = <<>> /\ current # None /\ lock = None /\ NoSync /\ NoEnding
         /\ queue # <<>> /\ Head(queue) = current
         /\ Head(down).kind = "patch" => Head(down).entry = current /\ Agrees
<1>1. 1 \in DOMAIN down /\ Head(down) = down[1]
  BY SeqFacts DEF TypeInv, NetTypes
<1>2. Len(down) = 1 /\ current # None /\ lock = None /\ NoSync /\ NoEnding
  BY <1>1 DEF BatonInv, FinalPart
<1>3. down' = <<>>
  BY <1>2, SeqFacts DEF TypeInv, NetTypes
<1>4. ~NoFinal
  BY <1>1 DEF NoFinal
<1>. QED BY <1>1, <1>2, <1>3, <1>4 DEF BatonInv, HeadPart, Live, AckDown

LEMMA EndsBaton ==
  ASSUME TypeInv, BatonInv, NEW kind \in Finals, NEW pc \in {"clearing", "reading"},
         NEW then \in {"next", "stop", "drop"}, StartTask(kind, pc, then),
         then = "next" => kind = "patch", pc = "clearing" => then = "next"
  PROVE  BatonInv'
<1>1. /\ UNCHANGED <<call, current, up, lock, srv, file, queue, op>>
      /\ down # <<>> /\ down' = Tail(down) /\ Head(down).kind = kind
  BY DEF StartTask, Received, server, disk
<1>2. PICK t \in Tasks :
        /\ task[t] = NoTask
        /\ task' = [task EXCEPT ![t] = [pc |-> pc, entry |-> Head(down).entry, then |-> then,
                                        seen |-> <<>>]]
  BY DEF StartTask
<1>3. /\ task'[t].pc = pc /\ task'[t].then = then /\ task'[t].entry = Head(down).entry
      /\ \A u \in Tasks : u # t => task'[u] = task[u]
  BY <1>2 DEF TypeInv, TaskTypes
<1>4. /\ down' = <<>> /\ current # None /\ lock = None /\ NoSync /\ NoEnding
      /\ queue # <<>> /\ Head(queue) = current
      /\ Head(down).kind = "patch" => Head(down).entry = current /\ Agrees
  BY <1>1, LastTaken
<1>5. \A u \in Tasks : Ending(u)' => u = t
  BY <1>3, <1>4 DEF NoEnding, Ending
<1>6. NoSync'
  BY <1>1, <1>4 DEF NoSync
<1>7. Agrees' <=> Agrees
  BY <1>1 DEF Agrees
<1>8. LockPart' /\ SyncPart' /\ FinalPart' /\ AnswerPart' /\ AckDown'
  BY <1>1, <1>4, <1>6 DEF LockPart, SyncPart, FinalPart, AnswerPart, AckDown, NoSync
<1>9. EndPart'
  BY <1>1, <1>3, <1>4, <1>5, <1>6 DEF EndPart
<1>10. StepPart'
  BY <1>1, <1>4, <1>6 DEF StepPart, NoSync
<1>11. AckTask'
  <2>1. \A u \in Tasks : task'[u].pc = "clearing" => Ending(u)'
    BY DEF Ending
  <2>. QED BY <1>1, <1>3, <1>4, <1>5, <1>7, <2>1 DEF AckTask
<1>12. HeadPart' /\ OpPart' /\ CallPart'
  <2>1. HeadPart'
    BY <1>1, <1>4 DEF BatonInv, HeadPart
  <2>. QED BY <1>1, <2>1 DEF BatonInv, OpPart, CallPart
<1>. QED BY <1>8, <1>9, <1>10, <1>11, <1>12 DEF BatonInv

LEMMA IgnoreBaton ==
  ASSUME TypeInv, BatonInv, IgnoreError
  PROVE  BatonInv'
<1>1. /\ UNCHANGED <<call, task, current, up, lock, srv, file, queue, op>>
      /\ down # <<>> /\ down' = Tail(down) /\ Head(down).kind \in Finals
  BY DEF IgnoreError, Received, server, disk, manager, Finals
<1>2. down' = <<>> /\ current # None /\ lock = None /\ NoSync /\ NoEnding
      /\ queue # <<>> /\ Head(queue) = current
  BY <1>1, LastTaken
<1>3. NoSync' /\ NoEnding' /\ (Agrees' <=> Agrees)
  BY <1>1, <1>2 DEF NoSync, NoEnding, Ending, Agrees
<1>4. LockPart' /\ SyncPart' /\ FinalPart' /\ EndPart' /\ AnswerPart' /\ AckDown' /\ StepPart'
  BY <1>1, <1>2, <1>3 DEF LockPart, SyncPart, FinalPart, EndPart, AnswerPart, AckDown, StepPart,
     NoSync, NoEnding
<1>5. AckTask'
  BY <1>1, <1>3 DEF BatonInv, AckTask, Ending
<1>6. HeadPart' /\ OpPart' /\ CallPart'
  <2>1. HeadPart'
    BY <1>1, <1>2 DEF BatonInv, HeadPart
  <2>. QED BY <1>1, <2>1 DEF BatonInv, OpPart, CallPart
<1>. QED BY <1>4, <1>5, <1>6 DEF BatonInv

\* The handler that ends the sync takes a step, ...
LEMMA EndingBaton ==
  ASSUME TypeInv, BatonInv, UNCHANGED <<call, current, up, down, lock, srv, file, queue, op>>,
         NEW t \in Tasks, Ending(t), Ending(t)', task'[t].pc # "clearing",
         task'[t].entry = task[t].entry,
         task'[t].then = task[t].then \/ task'[t].then = "jam",
         \A u \in Tasks : u # t => task'[u] = task[u]
  PROVE  BatonInv'
<1>1. (NoSync' <=> NoSync) /\ (NoFinal' <=> NoFinal) /\ (Agrees' <=> Agrees)
  BY DEF NoSync, NoFinal, Agrees
<1>2. \A u \in Tasks : Ending(u)' <=> Ending(u)
  BY DEF Ending
<1>3. NoEnding' <=> NoEnding
  BY <1>2 DEF NoEnding
<1>4. LockPart' /\ SyncPart' /\ FinalPart' /\ AnswerPart' /\ AckDown'
  BY <1>1, <1>3 DEF BatonInv, LockPart, SyncPart, FinalPart, AnswerPart, AckDown
<1>5. EndPart'
  <2>1. \A u \in Tasks : task'[u].then = task[u].then \/ task'[u].then = "jam"
    OBVIOUS
  <2>. QED BY <1>1, <1>2, <2>1 DEF BatonInv, EndPart
<1>6. AckTask'
  <2>1. \A u \in Tasks : Ending(u)' /\ task'[u].then = "next" => task'[u].entry = current' /\ Agrees'
    BY <1>1, <1>2 DEF BatonInv, AckTask
  <2>2. \A u \in Tasks : task'[u].pc = "clearing" => task'[u].then = "next"
    BY DEF BatonInv, AckTask
  <2>. QED BY <2>1, <2>2 DEF AckTask
<1>7. StepPart' /\ HeadPart' /\ OpPart' /\ CallPart'
  BY <1>1, <1>3 DEF BatonInv, StepPart, Ours, HeadPart, Live, OpPart, CallPart
<1>. QED BY <1>4, <1>5, <1>6, <1>7 DEF BatonInv

\* ... and the last one, which changes the queue.
LEMMA WritesBaton ==
  ASSUME TypeInv, RaceInv, ~raced, BatonInv, NEW t \in Tasks, TaskWrites(t), ~dropped'
  PROVE  BatonInv'
<1>1. /\ task[t].seen = queue /\ Ending(t) /\ UNCHANGED <<file, op, up, down, lock, srv>>
      /\ task[t].pc = "writing"
  BY DEF TaskWrites, RaceInv, TaskSeen, Ending, net, server
<1>2. /\ current # None /\ lock = None /\ NoSync /\ down = <<>>
      /\ task[t].then \in {"next", "stop", "jam"}
      /\ \A u \in Tasks : Ending(u) => u = t
      /\ queue # <<>> /\ Head(queue) = current
  <2>1. Live /\ task[t].then # "drop"
    BY <1>1 DEF Live, NoEnding, TaskWrites
  <2>. QED BY <1>1, <2>1 DEF BatonInv, EndPart, HeadPart
<1>3. NoEnding' /\ NoSync' /\ NoFinal'
  <2>1. \A u \in Tasks : task'[u] = IF u = t THEN NoTask ELSE task[u]
    BY DEF TaskWrites, TypeInv, TaskTypes
  <2>2. NoEnding'
    BY <1>2, <2>1 DEF NoEnding, Ending, NoTask
  <2>. QED BY <1>1, <1>2, <2>2 DEF NoSync, NoFinal
<1>4. LockPart' /\ SyncPart' /\ FinalPart' /\ EndPart' /\ AnswerPart' /\ AckDown' /\ StepPart'
  BY <1>1, <1>2, <1>3 DEF LockPart, SyncPart, FinalPart, EndPart, AnswerPart, AckDown, StepPart,
     NoSync, NoEnding
<1>5. AckTask'
  BY <1>3 DEF AckTask, NoEnding, Ending
<1>6. \A c \in Calls : call[c].pc = "none"
  BY <1>2 DEF BatonInv, CallPart
<1>7. CASE task[t].then = "jam"
  <2>1. /\ UNCHANGED <<call, current>> /\ queue' = Append(Tail(queue), Head(queue))
    BY <1>1, <1>2, <1>7 DEF TaskWrites, delaySync
  <2>2. \E i \in DOMAIN queue' : queue'[i] = current
    <3>1. Tail(queue) \in Seq(Legal) /\ Head(queue) \in Legal
      BY <1>2, SeqFacts DEF TypeInv, QueueTypes
    <3>2. Len(Tail(queue)) + 1 \in DOMAIN queue' /\ queue'[Len(Tail(queue)) + 1] = current
      BY <1>2, <2>1, <3>1, AppendFacts
    <3>. QED BY <3>2
  <2>3. HeadPart'
    BY <1>1, <1>2, <1>3, <2>1, <2>2 DEF HeadPart, Live
  <2>4. OpPart' /\ CallPart'
    BY <1>1, <1>6, <2>1 DEF BatonInv, OpPart, CallPart
  <2>. QED BY <1>4, <1>5, <2>3, <2>4 DEF BatonInv
<1>8. CASE task[t].then \in {"next", "stop"}
  <2>1. current' = None
    BY <1>8 DEF TaskWrites
  <2>2. HeadPart' /\ OpPart'
    BY <1>1, <1>2, <1>3, <2>1 DEF HeadPart, Live, OpPart, Overlap, PathsOf
  <2>3. CallPart'
    <3>1. CASE UNCHANGED call
      BY <1>6, <2>1, <3>1 DEF CallPart
    <3>2. ASSUME NEW c \in Calls, call' = [call EXCEPT ![c].pc = "reading"] PROVE CallPart'
      <4>1. \A d \in Calls : call'[d].pc = IF d = c THEN "reading" ELSE "none"
        BY <1>6, <3>2 DEF TypeInv, CallTypes, CallType
      <4>. QED BY <2>1, <4>1 DEF CallPart
    <3>. QED BY <1>8, <3>1, <3>2 DEF TaskWrites, StartCall
  <2>. QED BY <1>4, <1>5, <2>2, <2>3 DEF BatonInv
<1>. QED BY <1>2, <1>7, <1>8

\* ... or fails, and the queue stays as it is.
LEMMA FailsBaton ==
  ASSUME TypeInv, BatonInv, NEW t \in Tasks, TaskFails(t)
  PROVE  BatonInv'
<1>1. /\ UNCHANGED <<file, queue, op, up, down, lock, srv>> /\ Ending(t)
  BY DEF TaskFails, Ending, net, server, disk
<1>2. /\ current # None /\ lock = None /\ NoSync /\ down = <<>>
      /\ \A u \in Tasks : Ending(u) => u = t
  BY <1>1 DEF BatonInv, EndPart
<1>3. NoEnding' /\ NoSync' /\ NoFinal'
  <2>1. \A u \in Tasks : task'[u] = IF u = t THEN NoTask ELSE task[u]
    BY DEF TaskFails, TypeInv, TaskTypes
  <2>2. NoEnding'
    BY <1>2, <2>1 DEF NoEnding, Ending, NoTask
  <2>. QED BY <1>1, <1>2, <2>2 DEF NoSync, NoFinal
<1>4. LockPart' /\ SyncPart' /\ FinalPart' /\ EndPart' /\ AnswerPart' /\ AckDown' /\ StepPart'
  BY <1>1, <1>2, <1>3 DEF LockPart, SyncPart, FinalPart, EndPart, AnswerPart, AckDown, StepPart,
     NoSync, NoEnding
<1>5. AckTask'
  BY <1>3 DEF AckTask, NoEnding, Ending
<1>6. \A c \in Calls : call[c].pc = "none"
  BY <1>2 DEF BatonInv, CallPart
<1>7. CASE task[t].then # "next"
  <2>1. UNCHANGED <<call, current>>
    BY <1>7 DEF TaskFails
  <2>2. HeadPart'
    BY <1>1, <1>3, <2>1 DEF BatonInv, HeadPart, Live
  <2>3. OpPart' /\ CallPart'
    BY <1>1, <1>6, <2>1 DEF BatonInv, OpPart, CallPart
  <2>. QED BY <1>4, <1>5, <2>2, <2>3 DEF BatonInv
<1>8. CASE task[t].then = "next"
  <2>1. current' = None /\ StartCall
    BY <1>8 DEF TaskFails
  <2>2. HeadPart' /\ OpPart'
    BY <1>1, <1>2, <1>3, <2>1 DEF HeadPart, Live, OpPart, Overlap, PathsOf
  <2>3. CallPart'
    <3>1. CASE UNCHANGED call
      BY <1>6, <2>1, <3>1 DEF CallPart
    <3>2. ASSUME NEW c \in Calls, call' = [call EXCEPT ![c].pc = "reading"] PROVE CallPart'
      <4>1. \A d \in Calls : call'[d].pc = IF d = c THEN "reading" ELSE "none"
        BY <1>6, <3>2 DEF TypeInv, CallTypes, CallType
      <4>. QED BY <2>1, <4>1 DEF CallPart
    <3>. QED BY <2>1, <3>1, <3>2 DEF StartCall
  <2>. QED BY <1>4, <1>5, <2>2, <2>3 DEF BatonInv
<1>. QED BY <1>7, <1>8

\* The server takes a request or a step.
LEMMA TakenStep ==
  ASSUME TypeInv, BatonInv, up # <<>>, up' = Tail(up), UNCHANGED <<current, file>>
  PROVE  /\ NoSync => NoSync'
         /\ Head(up).kind = "sync" => NoSync'
         /\ (lock' # None => lock # None \/ Head(up).kind = "sync") => StepPart'
<1>1. up \in Seq(UpMessages) /\ 1 \in DOMAIN up /\ up[1] = Head(up)
  BY SeqFacts DEF TypeInv, NetTypes
<1>2. \A i \in DOMAIN up' : /\ i \in Int /\ i + 1 \in DOMAIN up /\ up'[i] = up[i + 1]
                            /\ i >= 1
  BY <1>1, Shift
<1>3. NoSync => NoSync'
  BY <1>2 DEF NoSync
<1>4. ASSUME Head(up).kind = "sync" PROVE NoSync'
  <2>1. \A j \in DOMAIN up : up[j].kind = "sync" => j = 1
    BY <1>1, <1>4 DEF BatonInv, SyncPart
  <2>2. \A i \in DOMAIN up' : i + 1 # 1
    BY <1>2
  <2>. QED BY <1>2, <2>1, <2>2 DEF NoSync
<1>5. ASSUME lock' # None => lock # None \/ Head(up).kind = "sync" PROVE StepPart'
  <2>. SUFFICES ASSUME NEW i \in DOMAIN up', up'[i].kind # "sync",
                       lock' # None \/ \E j \in DOMAIN up' : j < i /\ up'[j].kind = "sync"
                PROVE  up'[i].entry = current /\ (up'[i].kind = "diffs" => up'[i].version = file[current.path])
    BY DEF StepPart, Ours
  <2>1. i + 1 \in DOMAIN up /\ up[i + 1] = up'[i] /\ 1 < i + 1
    BY <1>2
  <2>2. lock # None \/ \E k \in DOMAIN up : k < i + 1 /\ up[k].kind = "sync"
    <3>1. CASE lock' # None
      BY <1>1, <1>5, <2>1, <3>1
    <3>2. ASSUME NEW j \in DOMAIN up', j < i, up'[j].kind = "sync"
          PROVE  j + 1 \in DOMAIN up /\ j + 1 < i + 1 /\ up[j + 1].kind = "sync"
      BY <1>2, <3>2
    <3>. QED BY <3>1, <3>2
  <2>. QED BY <2>1, <2>2 DEF BatonInv, StepPart, Ours
<1>. QED BY <1>3, <1>4, <1>5

LEMMA AskedHead ==
  ASSUME TypeInv, BatonInv, up # <<>>
  PROVE  /\ Head(up).kind = "sync" =>
              /\ Head(up).entry = current /\ current # None /\ lock = None /\ down = <<>>
              /\ NoEnding
         /\ Head(up).kind # "sync" /\ lock # None => Ours(Head(up))
         /\ Head(up).kind = "sync" \/ lock # None => queue # <<>> /\ Head(queue) = current
<1>1. up \in Seq(UpMessages) /\ 1 \in DOMAIN up /\ up[1] = Head(up) /\ Head(up).entry \in Legal
  BY SeqFacts, UpFacts DEF TypeInv, NetTypes
<1>2. Head(up).kind = "sync" => ~NoSync
  BY <1>1 DEF NoSync
<1>. QED BY <1>1, <1>2, LegalFacts DEF BatonInv, SyncPart, StepPart, HeadPart, Live

\* What no step of the server touches.
LEMMA ServerBaton ==
  ASSUME TypeInv, BatonInv, UNCHANGED <<call, task, current, file, queue, op>>
  PROVE  /\ OpPart' /\ CallPart' /\ (NoEnding' <=> NoEnding)
         /\ \A t \in Tasks : Ending(t)' <=> Ending(t)
         /\ queue # <<>> /\ Head(queue) = current => HeadPart'
         /\ NoEnding => EndPart' /\ AckTask'
         /\ NoEnding /\ NoSync' => SyncPart'
<1>1. \A t \in Tasks : Ending(t)' <=> Ending(t)
  BY DEF Ending
<1>2. NoEnding' <=> NoEnding
  BY <1>1 DEF NoEnding
<1>3. NoEnding => EndPart' /\ AckTask'
  BY <1>1 DEF EndPart, AckTask, NoEnding, Ending
<1>. QED BY <1>1, <1>2, <1>3 DEF BatonInv, OpPart, CallPart, HeadPart, SyncPart, NoSync

LEMMA GrantsBaton ==
  ASSUME TypeInv, BatonInv, ServerGrants
  PROVE  BatonInv'
<1>1. /\ UNCHANGED <<call, task, current, file, queue, op, srv>>
      /\ up # <<>> /\ Head(up).kind = "sync" /\ up' = Tail(up)
      /\ down' = Append(down, Message("sync", Head(up).entry, 0)) /\ lock' = Locked(Head(up).entry)
  BY DEF ServerGrants, Asked, Answer, disk, manager
<1>2. /\ Head(up).entry = current /\ current # None /\ lock = None /\ down = <<>> /\ NoEnding
      /\ queue # <<>> /\ Head(queue) = current
  BY <1>1, AskedHead
<1>3. NoSync' /\ StepPart'
  BY <1>1, TakenStep
<1>4. \A i \in DOMAIN down' : down'[i].kind = "sync" /\ down'[i].entry = current
  BY <1>1, <1>2 DEF Message
<1>5. NoFinal' /\ FinalPart' /\ AnswerPart' /\ AckDown'
  BY <1>1, <1>4 DEF NoFinal, FinalPart, AnswerPart, AckDown, Finals
<1>6. /\ OpPart' /\ CallPart' /\ NoEnding' /\ HeadPart' /\ EndPart' /\ AckTask' /\ SyncPart'
  BY <1>1, <1>2, <1>3, ServerBaton
<1>7. Locked(current) \in PathsOf(current)
  BY <1>2, CurrentPath, LegalFacts, NoneAssumption DEF Locked
<1>8. LockPart'
  BY <1>1, <1>2, <1>3, <1>5, <1>6, <1>7 DEF LockPart
<1>. QED BY <1>3, <1>5, <1>6, <1>8 DEF BatonInv

LEMMA RefusesBaton ==
  ASSUME TypeInv, BatonInv, ServerRefuses
  PROVE  BatonInv'
<1>1. PICK why \in {"error", "needsDownstream"} :
      /\ UNCHANGED <<call, task, current, file, queue, op, srv, lock>>
      /\ up # <<>> /\ Head(up).kind = "sync" /\ up' = Tail(up)
      /\ down' = Append(down, Message(why, Head(up).entry, 0))
  BY DEF ServerRefuses, Asked, Answer, disk, manager, server
<1>2. /\ Head(up).entry = current /\ current # None /\ lock = None /\ down = <<>> /\ NoEnding
      /\ queue # <<>> /\ Head(queue) = current
  BY <1>1, AskedHead
<1>3. NoSync' /\ StepPart'
  BY <1>1, <1>2, TakenStep
<1>4. Len(down') = 1 /\ \A i \in DOMAIN down' : i = 1 /\ down'[i].kind = why
  BY <1>1, <1>2 DEF Message
<1>5. /\ OpPart' /\ CallPart' /\ NoEnding' /\ HeadPart' /\ EndPart' /\ AckTask' /\ SyncPart'
  BY <1>1, <1>2, <1>3, ServerBaton
<1>6. FinalPart' /\ AnswerPart' /\ AckDown' /\ LockPart'
  BY <1>1, <1>2, <1>3, <1>4, <1>5 DEF FinalPart, AnswerPart, AckDown, LockPart, Finals
<1>. QED BY <1>3, <1>5, <1>6 DEF BatonInv

LEMMA DropsBaton ==
  ASSUME TypeInv, BatonInv, ServerDrops
  PROVE  BatonInv'
<1>1. /\ UNCHANGED <<call, task, current, file, queue, op, srv, lock, down>>
      /\ up # <<>> /\ Head(up).kind # "sync" /\ up' = Tail(up) /\ lock = None
  BY DEF ServerDrops, disk, manager, server
<1>2. StepPart' /\ (NoSync => NoSync')
  BY <1>1, TakenStep
<1>3. \A i \in DOMAIN up' : /\ i \in Int /\ i + 1 \in DOMAIN up /\ up'[i] = up[i + 1]
  BY <1>1, Shift DEF TypeInv, NetTypes
<1>4. OpPart' /\ CallPart' /\ (NoEnding' <=> NoEnding) /\ (NoFinal' <=> NoFinal)
      /\ (\A t \in Tasks : Ending(t)' <=> Ending(t)) /\ (Agrees' <=> Agrees)
  BY <1>1, ServerBaton DEF NoFinal, Agrees
<1>5. SyncPart'
  <2>. SUFFICES ASSUME NEW i \in DOMAIN up', up'[i].kind = "sync"
                PROVE  /\ up'[i].entry = current' /\ lock' = None /\ down' = <<>> /\ NoEnding'
                       /\ \A j \in DOMAIN up' : up'[j].kind = "sync" => j = i
    BY DEF SyncPart
  <2>1. i + 1 \in DOMAIN up /\ up[i + 1].kind = "sync"
    BY <1>3
  <2>2. up[i + 1].entry = current /\ down = <<>> /\ NoEnding
        /\ \A k \in DOMAIN up : up[k].kind = "sync" => k = i + 1
    BY <2>1 DEF BatonInv, SyncPart
  <2>3. ASSUME NEW j \in DOMAIN up', up'[j].kind = "sync" PROVE j = i
    <3>1. j + 1 = i + 1
      BY <1>3, <2>2, <2>3
    <3>. QED BY <1>3, <3>1
  <2>. QED BY <1>1, <1>3, <1>4, <2>2, <2>3
<1>6. LockPart' /\ FinalPart' /\ EndPart' /\ AnswerPart'
  BY <1>1, <1>2, <1>4 DEF BatonInv, LockPart, FinalPart, EndPart, AnswerPart
<1>7. AckDown' /\ AckTask'
  BY <1>1, <1>4 DEF BatonInv, AckDown, AckTask
<1>8. HeadPart'
  BY <1>1, <1>2, <1>4 DEF BatonInv, HeadPart, Live
<1>. QED BY <1>2, <1>4, <1>5, <1>6, <1>7, <1>8 DEF BatonInv

LEMMA SumsBaton ==
  ASSUME TypeInv, BatonInv, ServerSums
  PROVE  BatonInv'
<1>1. /\ UNCHANGED <<call, task, current, file, queue, op, srv, lock>>
      /\ up # <<>> /\ Head(up).kind # "sync" /\ up' = Tail(up) /\ lock # None
      /\ down' = Append(down, Message("diffs", Head(up).entry, 0))
  BY DEF ServerSums, StepOf, Asked, Answer, disk, manager, server
<1>2. current # None /\ lock \in PathsOf(current) /\ NoSync /\ NoFinal /\ NoEnding
      /\ Head(up).entry = current /\ queue # <<>> /\ Head(queue) = current
  BY <1>1, AskedHead DEF BatonInv, LockPart, Ours
<1>3. NoSync' /\ StepPart'
  BY <1>1, <1>2, TakenStep
<1>4. Message("diffs", Head(up).entry, 0) \in DownMessages
  BY <1>1, AskedFacts, NewMessage DEF ServerSums, StepOf
<1>5. \A i \in DOMAIN down' : \/ i \in DOMAIN down /\ down'[i] = down[i]
                              \/ down'[i] = Message("diffs", Head(up).entry, 0)
  BY <1>1, <1>4, Grow DEF TypeInv, NetTypes
<1>6. \A i \in DOMAIN down' : down'[i].kind \notin Finals /\ down'[i].entry = current
  BY <1>2, <1>5 DEF BatonInv, AnswerPart, NoFinal, Message, Finals
<1>7. NoFinal' /\ FinalPart' /\ AnswerPart' /\ AckDown'
  BY <1>1, <1>6 DEF NoFinal, FinalPart, AnswerPart, AckDown, Finals
<1>8. /\ OpPart' /\ CallPart' /\ NoEnding' /\ HeadPart' /\ EndPart' /\ AckTask' /\ SyncPart'
  BY <1>1, <1>2, <1>3, ServerBaton
<1>9. LockPart'
  BY <1>1, <1>2, <1>3, <1>7, <1>8 DEF LockPart
<1>. QED BY <1>3, <1>7, <1>8, <1>9 DEF BatonInv

\* The server ends the sync, one way or another, and gives the lock back.
LEMMA LastBaton ==
  ASSUME TypeInv, BatonInv, UNCHANGED <<call, task, current, file, queue, op>>,
         lock # None, lock' = None,
         UNCHANGED up \/ (up # <<>> /\ up' = Tail(up)),
         NEW m \in DownMessages, down' = Append(down, m), m.kind \in Finals,
         m.kind = "patch" => m.entry = current /\ Agrees'
  PROVE  BatonInv'
<1>1. /\ current # None /\ lock \in PathsOf(current) /\ NoSync /\ NoFinal /\ NoEnding
      /\ queue # <<>> /\ Head(queue) = current
  BY DEF BatonInv, LockPart, HeadPart, Live
<1>2. NoSync'
  BY <1>1, TakenStep DEF NoSync
<1>3. StepPart'
  BY <1>2 DEF StepPart, NoSync
<1>4. \A i \in DOMAIN down' : \/ i \in DOMAIN down /\ down'[i] = down[i]
                              \/ i = Len(down') /\ down'[i] = m
  BY Grow DEF TypeInv, NetTypes
<1>5. /\ OpPart' /\ CallPart' /\ NoEnding' /\ HeadPart' /\ EndPart' /\ AckTask' /\ SyncPart'
  BY <1>1, <1>2, ServerBaton
<1>6. FinalPart'
  BY <1>1, <1>2, <1>4, <1>5 DEF FinalPart, NoFinal
<1>7. AnswerPart'
  BY <1>4 DEF BatonInv, AnswerPart
<1>8. AckDown'
  BY <1>1, <1>4 DEF AckDown, NoFinal, Finals
<1>9. LockPart'
  BY DEF LockPart
<1>. QED BY <1>3, <1>5, <1>6, <1>7, <1>8, <1>9 DEF BatonInv

\* The socket closes.
LEMMA CutBaton ==
  ASSUME TypeInv, BatonInv, Cut
  PROVE  BatonInv'
<1>1. /\ UNCHANGED <<call, task, current, file, queue, op, srv>>
      /\ up' = <<>> /\ down' = <<>> /\ lock' = None
  BY DEF Cut, disk, manager
<1>2. OpPart' /\ CallPart' /\ (NoEnding' <=> NoEnding)
      /\ (\A t \in Tasks : Ending(t)' <=> Ending(t)) /\ (Agrees' <=> Agrees)
  BY <1>1, ServerBaton DEF Agrees
<1>3. NoSync' /\ NoFinal'
  BY <1>1 DEF NoSync, NoFinal
<1>4. LockPart' /\ SyncPart' /\ FinalPart' /\ AnswerPart' /\ StepPart' /\ AckDown'
  BY <1>1 DEF LockPart, SyncPart, FinalPart, AnswerPart, StepPart, AckDown
<1>5. EndPart' /\ AckTask'
  BY <1>1, <1>2, <1>3 DEF BatonInv, EndPart, AckTask
<1>6. HeadPart'
  BY <1>1, <1>2, <1>3 DEF BatonInv, HeadPart, Live
<1>. QED BY <1>2, <1>4, <1>5, <1>6 DEF BatonInv

-----------------------------------------------------------------------------
(* What the queue says of the files: a queued path has its file, or no longer *)
(* has it, and what neither the queue nor the flag accounts for is in sync.   *)

Covered(p) == \E i \in DOMAIN queue : p \in PathsOf(queue[i])

\* The entry is not that of an operation which has been queued and not done.
Settled(e) == op.pc = "storing" \/ e # op.entry

QueuePart ==
  /\ \A i, j \in DOMAIN queue : Overlap(queue[i], queue[j]) => i = j
  /\ \A p \in unqueued : ~Covered(p)
KindPart ==
  \A i \in DOMAIN queue : Settled(queue[i]) =>
    /\ queue[i].type = "create" => file[queue[i].path] # 0
    /\ queue[i].type = "delete" => file[queue[i].path] = 0
    /\ queue[i].type = "rename" =>
         /\ file[queue[i].old] = 0
         /\ \/ file[queue[i].path] = srv[queue[i].old]
            \/ srv[queue[i].old] = 0 /\ srv[queue[i].path] = file[queue[i].path]
UnqueuedPart ==
  \A p \in unqueued : file[p] # 0 \/ (op.pc # "storing" /\ p \in PathsOf(op.entry))
Safe(p) ==
  file[p] # srv[p] => /\ p \in unqueued \/ Covered(p)
                      /\ file[p] # 0 => unsynced[p] \/ p \in unflagged
SafePart == \A p \in Paths : op.pc = "storing" \/ p \notin PathsOf(op.entry) => Safe(p)

\* The operation under way, from its place in the queue to its flag.
EntryPart ==
  op.pc \in {"doing", "flagging"} =>
    \/ \E i \in DOMAIN queue : queue[i] = op.entry
    \/ op.entry.type = "create" /\ op.entry.path \in unqueued
DonePart ==
  op.pc = "flagging" =>
    /\ op.entry.type # "delete"
    /\ op.entry.type = "create" => file[op.entry.path] # 0
MovePart ==
  op.entry # None /\ op.entry.type = "rename" =>
    /\ op.pc = "storing" => file[op.entry.old] # 0 /\ file[op.entry.path] = 0
    /\ op.pc = "doing" =>
         /\ file[op.entry.old] = srv[op.entry.old]
         /\ file[op.entry.path] = 0 /\ srv[op.entry.path] = 0
    /\ op.pc = "flagging" =>
         file[op.entry.old] = 0 /\ file[op.entry.path] = srv[op.entry.old]

FileInv == QueuePart /\ KindPart /\ UnqueuedPart /\ SafePart /\ EntryPart /\ DonePart /\ MovePart

LEMMA FileKept ==
  ASSUME FileInv, UNCHANGED <<queue, unqueued, unflagged, file, srv, unsynced, op>>
  PROVE  FileInv'
BY DEF FileInv, QueuePart, KindPart, UnqueuedPart, SafePart, EntryPart, DonePart, MovePart, Safe,
   Settled, Covered

LEMMA QueuedLegal ==
  ASSUME TypeInv
  PROVE  /\ \A i \in DOMAIN queue : queue[i] \in Legal
         /\ op.pc # "idle" => op.entry \in Legal
         /\ op.entry # None => op.entry \in Legal
BY DEF TypeInv, QueueTypes, OpType

\* The operation is apart from every other entry of the queue.
LEMMA Apart ==
  ASSUME TypeInv, FileInv, op.pc \in {"doing", "flagging"}
  PROVE  /\ \A i \in DOMAIN queue : queue[i] # op.entry => ~Overlap(queue[i], op.entry)
         /\ \A p \in unqueued : p \in PathsOf(op.entry) =>
              op.entry.type = "create" /\ p = op.entry.path
<1>1. op.entry \in Legal /\ \A i \in DOMAIN queue : queue[i] \in Legal
  BY QueuedLegal
<1>2. CASE \E i \in DOMAIN queue : queue[i] = op.entry
  BY <1>2 DEF FileInv, QueuePart, Covered
<1>3. CASE op.entry.type = "create" /\ op.entry.path \in unqueued
  <2>1. PathsOf(op.entry) = {op.entry.path}
    BY <1>1, <1>3, LegalFacts, NoneAssumption
  <2>. QED BY <1>3, <2>1 DEF FileInv, QueuePart, Covered, Overlap
<1>. QED BY <1>2, <1>3 DEF FileInv, EntryPart

LEMMA BeginFile ==
  ASSUME TypeInv, FileInv, NEW p \in Paths, NEW type, NEW old, Entry(p, type, old) \in Legal,
         BeginOp(p, type, old), type = "rename" => file[old] # 0 /\ file[p] = 0
  PROVE  FileInv'
<1>1. /\ UNCHANGED <<queue, unqueued, unflagged, file, srv, unsynced>>
      /\ op = NoOp /\ op' = [pc |-> "storing", entry |-> Entry(p, type, old), seen |-> queue]
  BY DEF BeginOp, disk, server, lapses
<1>2. op.pc = "idle" /\ op.entry = None /\ PathsOf(op.entry) = {}
  BY <1>1 DEF NoOp, PathsOf
<1>3. \A i \in DOMAIN queue : Settled(queue[i])
  BY <1>2, QueuedLegal, LegalFacts DEF Settled
<1>4. QueuePart' /\ KindPart'
  BY <1>1, <1>3 DEF FileInv, QueuePart, KindPart, Covered
<1>5. UnqueuedPart' /\ SafePart'
  BY <1>1, <1>2 DEF FileInv, UnqueuedPart, SafePart, Safe, Covered
<1>6. EntryPart' /\ DonePart' /\ MovePart'
  BY <1>1 DEF EntryPart, DonePart, MovePart, Entry
<1>. QED BY <1>4, <1>5, <1>6 DEF FileInv

\* An operation that does not cross the queue overlaps with its own entry only.
LEMMA NotCrossing ==
  ASSUME NEW q \in Seq(Legal), NEW e \in Legal, ~Crosses(q, e)
  PROVE  /\ \A i \in DOMAIN q : Overlap(q[i], e) => q[i] = e /\ e.type # "rename"
         /\ Index(q, e.path) = 0 => \A i \in DOMAIN q : ~Overlap(q[i], e)
         /\ Index(q, e.path) # 0 => \E i \in DOMAIN q : q[i] = e
<1>1. \A i \in DOMAIN q : Overlap(q[i], e) => q[i] = e /\ e.type # "rename"
  BY DEF Crosses, SameKind
<1>2. \A i \in DOMAIN q : q[i] \in Legal
  OBVIOUS
<1>3. \A i \in DOMAIN q : q[i].path = e.path => Overlap(q[i], e)
  BY <1>2, LegalFacts DEF Overlap
<1>. QED BY <1>1, <1>3, IndexFinds

LEMMA DescriptorFile ==
  ASSUME TypeInv, FileInv, NEW p \in Paths, BeginDescriptor(p), ~crossed'
  PROVE  FileInv'
<1>. DEFINE e == Entry(p, "create", None)
<1>1. e \in Legal /\ e.path = p /\ e.type = "create" /\ PathsOf(e) = {p}
  <2>1. e \in Legal /\ e.path = p /\ e.type = "create" /\ e.old = None
    BY NewEntry DEF Entry
  <2>. QED BY <2>1, LegalFacts, NoneAssumption
<1>2. /\ UNCHANGED <<queue, file, srv, unsynced, unflagged>> /\ op = NoOp /\ ~Crosses(queue, e)
      /\ op' = [pc |-> "doing", entry |-> e, seen |-> <<>>]
      /\ unqueued' = IF Index(queue, p) = 0 THEN unqueued \cup {p} ELSE unqueued
  BY DEF BeginDescriptor, disk, server
<1>. HIDE DEF e
<1>3. /\ op.pc = "idle" /\ op.entry = None /\ PathsOf(op.entry) = {}
      /\ op'.pc = "doing" /\ op'.entry = e
  BY <1>2 DEF NoOp, PathsOf
<1>4. \A i \in DOMAIN queue : Settled(queue[i])
  BY <1>3, QueuedLegal, LegalFacts DEF Settled
<1>5. /\ Index(queue, p) = 0 => \A i \in DOMAIN queue : p \notin PathsOf(queue[i])
      /\ Index(queue, p) # 0 => \E i \in DOMAIN queue : queue[i] = e
  BY <1>1, <1>2, NotCrossing DEF Overlap, TypeInv, QueueTypes
<1>6. QueuePart' /\ KindPart'
  BY <1>2, <1>4, <1>5 DEF FileInv, QueuePart, KindPart, Covered
<1>7. UnqueuedPart' /\ SafePart'
  BY <1>1, <1>2, <1>3 DEF FileInv, UnqueuedPart, SafePart, Safe, Covered
<1>8. EntryPart' /\ DonePart' /\ MovePart'
  BY <1>1, <1>2, <1>3, <1>5 DEF EntryPart, DonePart, MovePart
<1>. QED BY <1>6, <1>7, <1>8 DEF FileInv

LEMMA StoreFile ==
  ASSUME TypeInv, RaceInv, ~raced, FileInv, StoreOp, ~crossed'
  PROVE  FileInv'
<1>. DEFINE e == op.entry
<1>1. /\ UNCHANGED <<file, srv, unsynced, unflagged>> /\ op.pc = "storing" /\ op.seen = queue
      /\ queue' = WithEntry(queue, e) /\ op'.pc = "doing" /\ op'.entry = e
      /\ ~Crosses(queue, e) /\ e.old \notin unqueued /\ unqueued' = unqueued \ {e.path}
  <2>1. op.pc = "storing" /\ op.seen = queue
    BY DEF StoreOp, RaceInv, OpSeen
  <2>. QED BY <2>1 DEF StoreOp, server, TypeInv, QueueTypes, OpType
<1>2. e \in Legal /\ \A i \in DOMAIN queue : queue[i] \in Legal
  BY <1>1, QueuedLegal
<1>. HIDE DEF e
<1>3. /\ \A i \in DOMAIN queue : Overlap(queue[i], e) => queue[i] = e /\ e.type # "rename"
      /\ Index(queue, e.path) = 0 => \A i \in DOMAIN queue : ~Overlap(queue[i], e)
      /\ Index(queue, e.path) # 0 => \E i \in DOMAIN queue : queue[i] = e
  BY <1>1, <1>2, NotCrossing DEF TypeInv, QueueTypes
<1>4. /\ \A i \in DOMAIN queue : i \in DOMAIN queue' /\ queue'[i] = queue[i]
      /\ \A i \in DOMAIN queue' : (i \in DOMAIN queue /\ queue'[i] = queue[i]) \/ queue'[i] = e
      /\ \E i \in DOMAIN queue' : queue'[i] = e
  <2>1. CASE Index(queue, e.path) # 0
    BY <1>1, <1>3, <2>1 DEF WithEntry
  <2>2. CASE Index(queue, e.path) = 0
    BY <1>1, <1>2, <2>2, AppendFacts DEF WithEntry, TypeInv, QueueTypes
  <2>. QED BY <2>1, <2>2
<1>5. \A i, j \in DOMAIN queue' : Overlap(queue'[i], queue'[j]) => i = j
  <2>1. CASE Index(queue, e.path) # 0
    BY <1>1, <2>1 DEF WithEntry, FileInv, QueuePart
  <2>2. CASE Index(queue, e.path) = 0
    <3>1. \A i \in DOMAIN queue' : \/ i \in DOMAIN queue /\ queue'[i] = queue[i]
                                   \/ i = Len(queue) + 1 /\ queue'[i] = e
      BY <1>1, <1>2, <2>2, Grow DEF WithEntry, TypeInv, QueueTypes
    <3>2. \A i \in DOMAIN queue : ~Overlap(queue[i], e) /\ ~Overlap(e, queue[i])
      BY <1>3, <2>2 DEF Overlap
    <3>. QED BY <3>1, <3>2 DEF FileInv, QueuePart
  <2>. QED BY <2>1, <2>2
<1>6. \A p : Covered(p)' <=> Covered(p) \/ p \in PathsOf(e)
  BY <1>4 DEF Covered
<1>7. PathsOf(e) \subseteq {e.path, e.old}
  BY <1>2, LegalFacts
<1>8. QueuePart'
  BY <1>1, <1>5, <1>6, <1>7 DEF FileInv, QueuePart
<1>9. KindPart'
  <2>1. \A i \in DOMAIN queue' : op'.pc = "storing" \/ queue'[i] # op'.entry =>
          i \in DOMAIN queue /\ queue'[i] = queue[i]
    BY <1>1, <1>4
  <2>. QED BY <1>1, <2>1 DEF FileInv, KindPart, Settled
<1>10. UnqueuedPart'
  BY <1>1 DEF FileInv, UnqueuedPart
<1>11. SafePart'
  BY <1>1, <1>2, <1>6, LegalFacts DEF FileInv, SafePart, Safe
<1>12. EntryPart' /\ DonePart'
  BY <1>1, <1>4 DEF EntryPart, DonePart
<1>13. MovePart'
  <2>. SUFFICES ASSUME e.type = "rename"
                PROVE  file[e.old] = srv[e.old] /\ file[e.path] = 0 /\ srv[e.path] = 0
    BY <1>1 DEF MovePart
  <2>1. file[e.path] = 0 /\ e.old \in Paths /\ e.path \in Paths
    BY <1>1, <1>2, LegalFacts DEF FileInv, MovePart, e
  <2>2. e.path \notin unqueued
    BY <1>1, <2>1 DEF FileInv, UnqueuedPart
  <2>3. \A i \in DOMAIN queue : ~Overlap(queue[i], e)
    BY <1>3
  <2>4. {e.path, e.old} \subseteq PathsOf(e)
    BY <1>2, <2>1, LegalFacts, NoneAssumption
  <2>5. ~Covered(e.path) /\ ~Covered(e.old)
    BY <2>3, <2>4 DEF Covered, Overlap
  <2>6. Safe(e.path) /\ Safe(e.old)
    BY <1>1, <2>1 DEF FileInv, SafePart
  <2>. QED BY <1>1, <2>1, <2>2, <2>5, <2>6 DEF Safe
<1>. QED BY <1>8, <1>9, <1>10, <1>11, <1>12, <1>13 DEF FileInv

\* The three ways to change the files leave the other paths of the queue alone.
LEMMA DoneFile ==
  ASSUME TypeInv, FileInv, op.pc \in {"doing", "flagging"}, UNCHANGED <<queue, unqueued, srv>>,
         \A p \in Paths : p \notin PathsOf(op.entry) =>
           /\ file'[p] = file[p] /\ unsynced'[p] = unsynced[p]
           /\ p \in unflagged' <=> p \in unflagged
  PROVE  /\ QueuePart'
         /\ \A i \in DOMAIN queue : queue[i] # op.entry =>
              /\ queue[i].type = "create" => file'[queue[i].path] # 0
              /\ queue[i].type = "delete" => file'[queue[i].path] = 0
              /\ queue[i].type = "rename" =>
                   /\ file'[queue[i].old] = 0
                   /\ \/ file'[queue[i].path] = srv'[queue[i].old]
                      \/ srv'[queue[i].old] = 0 /\ srv'[queue[i].path] = file'[queue[i].path]
         /\ \A p \in unqueued : p \notin PathsOf(op.entry) => file'[p] # 0
         /\ \A p \in Paths : p \notin PathsOf(op.entry) => Safe(p)'
         /\ \A p : Covered(p)' <=> Covered(p)
<1>1. \A p : Covered(p)' <=> Covered(p)
  BY DEF Covered
<1>2. QueuePart'
  BY <1>1 DEF FileInv, QueuePart
<1>3. ASSUME NEW i \in DOMAIN queue, queue[i] # op.entry
      PROVE  /\ queue[i].type = "create" => file'[queue[i].path] # 0
             /\ queue[i].type = "delete" => file'[queue[i].path] = 0
             /\ queue[i].type = "rename" =>
                   /\ file'[queue[i].old] = 0
                   /\ \/ file'[queue[i].path] = srv'[queue[i].old]
                      \/ srv'[queue[i].old] = 0 /\ srv'[queue[i].path] = file'[queue[i].path]
  <2>1. queue[i] \in Legal /\ ~Overlap(queue[i], op.entry) /\ Settled(queue[i])
    BY <1>3, Apart, QueuedLegal DEF Settled
  <2>2. queue[i].path \in Paths /\ queue[i].path \notin PathsOf(op.entry)
    BY <2>1, LegalFacts DEF Overlap
  <2>3. queue[i].type = "rename" =>
          queue[i].old \in Paths /\ queue[i].old \notin PathsOf(op.entry)
    BY <2>1, LegalFacts, NoneAssumption DEF Overlap
  <2>. QED BY <2>1, <2>2, <2>3 DEF FileInv, KindPart
<1>4. \A p \in unqueued : p \notin PathsOf(op.entry) => file'[p] # 0
  BY DEF FileInv, UnqueuedPart, TypeInv, DiskTypes
<1>5. \A p \in Paths : p \notin PathsOf(op.entry) => Safe(p)'
  BY <1>1 DEF FileInv, SafePart, Safe
<1>. QED BY <1>1, <1>2, <1>3, <1>4, <1>5

LEMMA WriteFile ==
  ASSUME TypeInv, FileInv, DoWrite
  PROVE  FileInv'
<1>. DEFINE e == op.entry
<1>1. /\ UNCHANGED <<queue, unqueued, unflagged, srv, unsynced>> /\ op.pc = "doing" /\ e.type = "create"
      /\ file' = [file EXCEPT ![e.path] = writes + 1]
      /\ op'.pc = "flagging" /\ op'.entry = e
  BY DEF DoWrite, server, history, lapses, TypeInv, QueueTypes, OpType
<1>2. e \in Legal /\ e.path \in Paths /\ e.path \in PathsOf(e) /\ PathsOf(e) = {e.path}
  BY <1>1, QueuedLegal, LegalFacts, NoneAssumption
<1>3. file'[e.path] # 0 /\ \A p \in Paths : p # e.path => file'[p] = file[p]
  BY <1>1, <1>2 DEF TypeInv, DiskTypes
<1>4. QueuePart' /\ SafePart'
  BY <1>1, <1>2, <1>3, DoneFile DEF SafePart
<1>5. KindPart'
  BY <1>1, <1>2, <1>3, DoneFile DEF KindPart, Settled
<1>6. UnqueuedPart'
  BY <1>1, <1>2, <1>3, DoneFile DEF UnqueuedPart
<1>7. EntryPart' /\ DonePart' /\ MovePart'
  BY <1>1, <1>3 DEF FileInv, EntryPart, DonePart, MovePart
<1>. QED BY <1>4, <1>5, <1>6, <1>7 DEF FileInv

LEMMA DeleteFile ==
  ASSUME TypeInv, FileInv, DoDelete
  PROVE  FileInv'
<1>. DEFINE e == op.entry
<1>1. /\ UNCHANGED <<queue, unqueued, unflagged, srv>> /\ op.pc = "doing" /\ e.type = "delete"
      /\ file' = [file EXCEPT ![e.path] = 0] /\ unsynced' = [unsynced EXCEPT ![e.path] = FALSE]
      /\ op' = NoOp
  BY DEF DoDelete, server, history, lapses
<1>2. e \in Legal /\ e.path \in Paths /\ e.path \in PathsOf(e) /\ PathsOf(e) = {e.path}
  BY <1>1, QueuedLegal, LegalFacts, NoneAssumption
<1>3. /\ file'[e.path] = 0
      /\ \A p \in Paths : p # e.path => file'[p] = file[p] /\ unsynced'[p] = unsynced[p]
  BY <1>1, <1>2 DEF TypeInv, DiskTypes
<1>4. op'.pc = "idle" /\ op'.entry = None /\ PathsOf(op'.entry) = {}
  BY <1>1 DEF NoOp, PathsOf
<1>5. e.path \notin unqueued
  BY <1>1, <1>2, Apart
<1>6. Covered(e.path)
  BY <1>1, <1>2 DEF FileInv, EntryPart, Covered
<1>7. QueuePart'
  BY <1>1, <1>2, <1>3, DoneFile
<1>8. SafePart'
  <2>1. \A p \in Paths : p = e.path => Safe(p)'
    <3>1. \A p \in Paths : p = e.path => Covered(p)'
      BY <1>1, <1>2, <1>3, <1>6, DoneFile
    <3>. QED BY <1>3, <3>1 DEF Safe
  <2>. QED BY <1>1, <1>2, <1>3, <2>1, DoneFile DEF SafePart
<1>9. KindPart'
  <2>1. \A i \in DOMAIN queue : queue[i] = e => queue[i].type = "delete" /\ file'[queue[i].path] = 0
    BY <1>1, <1>3
  <2>. QED BY <1>1, <1>2, <1>3, <2>1, DoneFile DEF KindPart
<1>10. UnqueuedPart'
  BY <1>1, <1>2, <1>3, <1>5, DoneFile DEF UnqueuedPart
<1>11. EntryPart' /\ DonePart' /\ MovePart'
  BY <1>4 DEF EntryPart, DonePart, MovePart
<1>. QED BY <1>7, <1>8, <1>9, <1>10, <1>11 DEF FileInv

LEMMA RenameFile ==
  ASSUME TypeInv, FileInv, DoRename
  PROVE  FileInv'
<1>. DEFINE e == op.entry
<1>1. /\ UNCHANGED <<queue, unqueued, unflagged, srv>> /\ op.pc = "doing" /\ e.type = "rename"
      /\ file' = [file EXCEPT ![e.path] = file[e.old], ![e.old] = 0]
      /\ unsynced' = [unsynced EXCEPT ![e.path] = unsynced[e.old], ![e.old] = FALSE]
      /\ op'.pc = "flagging" /\ op'.entry = e
  BY DEF DoRename, server, history, lapses, TypeInv, QueueTypes, OpType
<1>2. /\ e \in Legal /\ e.path \in Paths /\ e.old \in Paths /\ e.old # e.path
      /\ PathsOf(e) = {e.path, e.old}
  BY <1>1, QueuedLegal, LegalFacts, NoneAssumption
<1>3. /\ file'[e.path] = file[e.old] /\ file'[e.old] = 0
      /\ \A p \in Paths : p \notin {e.path, e.old} => file'[p] = file[p] /\ unsynced'[p] = unsynced[p]
  BY <1>1, <1>2 DEF TypeInv, DiskTypes
<1>4. \A p \in unqueued : p \notin PathsOf(e)
  BY <1>1, Apart
<1>5. QueuePart' /\ SafePart'
  BY <1>1, <1>2, <1>3, DoneFile DEF SafePart
<1>6. KindPart'
  <2>1. \A p \in Paths : p \notin PathsOf(op.entry) => file'[p] = file[p] /\ unsynced'[p] = unsynced[p]
    BY <1>2, <1>3
  <2>2. \A i \in DOMAIN queue' : op'.pc = "storing" \/ queue'[i] # op'.entry =>
          i \in DOMAIN queue /\ queue'[i] = queue[i] /\ queue[i] # op.entry
    BY <1>1
  <2>3. \A i \in DOMAIN queue : queue[i] # op.entry =>
          /\ queue[i].type = "create" => file'[queue[i].path] # 0
          /\ queue[i].type = "delete" => file'[queue[i].path] = 0
          /\ queue[i].type = "rename" =>
               /\ file'[queue[i].old] = 0
               /\ \/ file'[queue[i].path] = srv'[queue[i].old]
                  \/ srv'[queue[i].old] = 0 /\ srv'[queue[i].path] = file'[queue[i].path]
    BY <1>1, <2>1, DoneFile
  <2>. QED BY <2>2, <2>3 DEF KindPart, Settled
<1>7. UnqueuedPart'
  BY <1>1, <1>2, <1>3, <1>4, DoneFile DEF UnqueuedPart
<1>8. EntryPart' /\ DonePart'
  BY <1>1 DEF FileInv, EntryPart, DonePart
<1>9. MovePart'
  BY <1>1, <1>2, <1>3, LegalFacts DEF FileInv, MovePart
<1>. QED BY <1>5, <1>6, <1>7, <1>8, <1>9 DEF FileInv

LEMMA FlagFile ==
  ASSUME TypeInv, FileInv, FlagOp \/ (OpFails /\ op.pc = "flagging")
  PROVE  FileInv'
<1>. DEFINE e == op.entry
<1>1. /\ UNCHANGED <<queue, unqueued, srv, file>> /\ op.pc = "flagging"
      /\ op' = NoOp
      /\ \/ /\ unsynced' = [unsynced EXCEPT ![e.path] = TRUE]
            /\ unflagged' = unflagged \ {e.path}
         \/ UNCHANGED unsynced /\ unflagged' = unflagged \cup {e.path}
  BY DEF FlagOp, OpFails, disk, server, history, lapses
<1>2. e \in Legal /\ e.path \in Paths /\ e.path \in PathsOf(e) /\ e # None
  BY <1>1, QueuedLegal, LegalFacts
<1>3. /\ unsynced'[e.path] \/ e.path \in unflagged'
      /\ \A p \in Paths : p # e.path =>
           unsynced'[p] = unsynced[p] /\ (p \in unflagged' <=> p \in unflagged)
  BY <1>1, <1>2 DEF TypeInv, DiskTypes
<1>4. op'.pc = "idle" /\ op'.entry = None /\ PathsOf(op'.entry) = {}
  BY <1>1 DEF NoOp, PathsOf
<1>5. \A p \in Paths : p \notin PathsOf(e) =>
        /\ file'[p] = file[p] /\ unsynced'[p] = unsynced[p]
        /\ p \in unflagged' <=> p \in unflagged
  BY <1>1, <1>2, <1>3
<1>6. /\ e.type # "delete" /\ (e.type = "create" => file[e.path] # 0)
      /\ (e.type = "rename" => file[e.old] = 0 /\ file[e.path] = srv[e.old])
  BY <1>1, <1>2 DEF FileInv, DonePart, MovePart
<1>7. QueuePart'
  BY <1>1, <1>5, DoneFile
<1>8. \A p \in PathsOf(e) : p = e.path \/ (e.type = "rename" /\ p = e.old)
  BY <1>2, LegalFacts
<1>9. SafePart'
  <2>1. ASSUME NEW p \in PathsOf(e) PROVE Safe(p)'
    <3>1. Covered(p) \/ p \in unqueued
      BY <1>1, <1>8 DEF FileInv, EntryPart, Covered
    <3>2. Covered(p)' \/ p \in unqueued'
      BY <1>1, <1>5, <3>1, DoneFile
    <3>3. file'[p] # 0 => unsynced'[p] \/ p \in unflagged'
      BY <1>1, <1>3, <1>6, <1>8
    <3>. QED BY <3>2, <3>3 DEF Safe
  <2>. QED BY <1>1, <1>5, <2>1, DoneFile DEF SafePart
<1>10. KindPart'
  <2>1. ASSUME NEW i \in DOMAIN queue, queue[i] = e
        PROVE  /\ queue[i].type = "create" => file[queue[i].path] # 0
               /\ queue[i].type # "delete"
               /\ queue[i].type = "rename" => file[queue[i].old] = 0 /\ file[queue[i].path] = srv[queue[i].old]
    BY <1>6, <2>1
  <2>. QED BY <1>1, <1>5, <2>1, DoneFile DEF KindPart
<1>11. UnqueuedPart'
  <2>1. \A p \in unqueued : p \in PathsOf(e) => file[p] # 0
    BY <1>1, <1>6, Apart
  <2>. QED BY <1>1, <1>5, <2>1, DoneFile DEF UnqueuedPart
<1>12. EntryPart' /\ DonePart' /\ MovePart'
  BY <1>4 DEF EntryPart, DonePart, MovePart
<1>. QED BY <1>7, <1>9, <1>10, <1>11, <1>12 DEF FileInv

\* An operation that fails before it is stored leaves nothing behind.
LEMMA UnstoredFile ==
  ASSUME TypeInv, FileInv, OpFails, op.pc = "storing"
  PROVE  FileInv'
<1>1. UNCHANGED <<queue, unqueued, unflagged, srv, file, unsynced>> /\ op' = NoOp
  BY DEF OpFails, disk, server
<1>2. op'.pc = "idle" /\ op'.entry = None /\ PathsOf(op'.entry) = {}
  BY <1>1 DEF NoOp, PathsOf
<1>3. \A i \in DOMAIN queue : Settled(queue[i])
  BY DEF Settled
<1>4. QueuePart' /\ KindPart'
  BY <1>1, <1>3 DEF FileInv, QueuePart, KindPart, Covered
<1>5. UnqueuedPart' /\ SafePart'
  BY <1>1, <1>2 DEF FileInv, UnqueuedPart, SafePart, Safe, Covered
<1>6. EntryPart' /\ DonePart' /\ MovePart'
  BY <1>2 DEF EntryPart, DonePart, MovePart
<1>. QED BY <1>4, <1>5, <1>6 DEF FileInv

\* currentSync is in the queue, and no operation is on it.
LEMMA CurrentQueued ==
  ASSUME TypeInv, BatonInv, current # None
  PROVE  /\ current \in Legal /\ Settled(current)
         /\ \E i \in DOMAIN queue : queue[i] = current
<1>1. current \in Legal /\ current.path \in PathsOf(current)
  BY CurrentPath
<1>2. current # op.entry
  BY <1>1 DEF BatonInv, OpPart, Overlap
<1>. QED BY <1>1, <1>2 DEF BatonInv, HeadPart, Settled

\* A created file that is being synced is there.
LEMMA CurrentFile ==
  ASSUME TypeInv, BatonInv, FileInv, current # None, current.type = "create"
  PROVE  file[current.path] # 0
BY CurrentQueued DEF FileInv, KindPart

LEMMA ClearFile ==
  ASSUME TypeInv, BatonInv, FileInv, NEW t \in Tasks, ClearUnsynced(t)
  PROVE  FileInv'
<1>1. /\ UNCHANGED <<queue, unqueued, unflagged, file, srv, op>>
      /\ unsynced' = [unsynced EXCEPT ![task[t].entry.path] = FALSE]
      /\ Ending(t) /\ task[t].pc = "clearing"
  BY DEF ClearUnsynced, server, history, lapses, Ending
<1>2. task[t].entry = current /\ Agrees /\ current # None
  BY <1>1 DEF BatonInv, AckTask, EndPart
<1>3. current.path \in Paths /\ srv[current.path] = file[current.path]
  BY <1>2, CurrentPath DEF Agrees
<1>4. QueuePart' /\ KindPart' /\ UnqueuedPart' /\ EntryPart' /\ DonePart' /\ MovePart'
  BY <1>1 DEF FileInv, QueuePart, KindPart, UnqueuedPart, EntryPart, DonePart, MovePart, Settled, Covered
<1>5. SafePart'
  <2>1. \A p \in Paths : p # current.path => unsynced'[p] = unsynced[p]
    BY <1>1, <1>2, <1>3 DEF TypeInv, DiskTypes
  <2>. QED BY <1>1, <1>3, <2>1 DEF FileInv, SafePart, Safe, Covered
<1>. QED BY <1>4, <1>5 DEF FileInv

\* The entries of the queue with its head at the end, and without its head.
LEMMA Rotated ==
  ASSUME NEW q \in Seq(Legal), q # <<>>,
         \A i, j \in DOMAIN q : Overlap(q[i], q[j]) => i = j
  PROVE  /\ \A i \in DOMAIN delaySync(q) : \E k \in DOMAIN q : delaySync(q)[i] = q[k]
         /\ \A k \in DOMAIN q : \E i \in DOMAIN delaySync(q) : delaySync(q)[i] = q[k]
         /\ \A i, j \in DOMAIN delaySync(q) : Overlap(delaySync(q)[i], delaySync(q)[j]) => i = j
<1>. DEFINE r == delaySync(q)
<1>1. Len(q) \in Nat /\ Len(q) >= 1 /\ DOMAIN q = 1..Len(q)
  BY SeqFacts
<1>2. /\ DOMAIN r = 1..Len(q)
      /\ \A i \in 1..(Len(q) - 1) : r[i] = q[i + 1]
      /\ r[Len(q)] = q[1]
  <2>1. Tail(q) \in Seq(Legal) /\ Head(q) \in Legal /\ Len(Tail(q)) = Len(q) - 1 /\ Head(q) = q[1]
    BY SeqFacts
  <2>2. r = Append(Tail(q), Head(q))
    BY DEF delaySync
  <2>. QED BY <1>1, <2>1, <2>2, SeqFacts, AppendFacts
<1>. HIDE DEF r
<1>3. \A i \in DOMAIN r : /\ i < Len(q) => i + 1 \in DOMAIN q /\ r[i] = q[i + 1]
                          /\ ~(i < Len(q)) => i = Len(q) /\ r[i] = q[1]
  BY <1>1, <1>2
<1>4. \A i \in DOMAIN r : \E k \in DOMAIN q : r[i] = q[k]
  BY <1>1, <1>3
<1>5. \A k \in DOMAIN q : \E i \in DOMAIN r : r[i] = q[k]
  <2>1. ASSUME NEW k \in DOMAIN q, k # 1 PROVE k - 1 \in DOMAIN r /\ r[k - 1] = q[k]
    BY <1>1, <1>2, <2>1
  <2>2. Len(q) \in DOMAIN r /\ r[Len(q)] = q[1]
    BY <1>1, <1>2
  <2>. QED BY <2>1, <2>2
<1>6. ASSUME NEW i \in DOMAIN r, NEW j \in DOMAIN r, Overlap(r[i], r[j]) PROVE i = j
  <2>. DEFINE at(n) == IF n < Len(q) THEN n + 1 ELSE 1
  <2>1. at(i) \in DOMAIN q /\ at(j) \in DOMAIN q /\ r[i] = q[at(i)] /\ r[j] = q[at(j)]
    BY <1>1, <1>3
  <2>2. at(i) = at(j)
    BY <1>6, <2>1
  <2>. QED BY <1>1, <1>2, <2>2
<1>. QED BY <1>4, <1>5, <1>6 DEF r

LEMMA Dequeued ==
  ASSUME NEW q \in Seq(Legal), q # <<>>,
         \A i, j \in DOMAIN q : Overlap(q[i], q[j]) => i = j
  PROVE  /\ \A i \in DOMAIN Tail(q) : \E k \in DOMAIN q : Tail(q)[i] = q[k]
         /\ \A k \in DOMAIN q : q[k] # Head(q) => \E i \in DOMAIN Tail(q) : Tail(q)[i] = q[k]
         /\ \A i, j \in DOMAIN Tail(q) : Overlap(Tail(q)[i], Tail(q)[j]) => i = j
<1>1. Len(q) \in Nat /\ DOMAIN q = 1..Len(q) /\ Head(q) = q[1]
      /\ DOMAIN Tail(q) = 1..(Len(q) - 1)
      /\ \A i \in 1..(Len(q) - 1) : Tail(q)[i] = q[i + 1]
  BY SeqFacts
<1>2. \A i \in DOMAIN Tail(q) : i + 1 \in DOMAIN q /\ Tail(q)[i] = q[i + 1]
  BY <1>1
<1>3. ASSUME NEW k \in DOMAIN q, q[k] # Head(q) PROVE k - 1 \in DOMAIN Tail(q) /\ Tail(q)[k - 1] = q[k]
  <2>1. k # 1 /\ k - 1 \in 1..(Len(q) - 1) /\ (k - 1) + 1 = k
    BY <1>1, <1>3
  <2>. QED BY <1>1, <2>1
<1>4. ASSUME NEW i \in DOMAIN Tail(q), NEW j \in DOMAIN Tail(q), Overlap(Tail(q)[i], Tail(q)[j])
      PROVE  i = j
  <2>1. i + 1 = j + 1
    BY <1>2, <1>4
  <2>. QED BY <1>1, <2>1
<1>. QED BY <1>2, <1>3, <1>4

LEMMA WritesFile ==
  ASSUME TypeInv, RaceInv, ~raced, BatonInv, FileInv, NEW t \in Tasks, TaskWrites(t), ~dropped'
  PROVE  FileInv'
<1>1. /\ UNCHANGED <<unqueued, unflagged, file, srv, unsynced, op>> /\ task[t].seen = queue /\ Ending(t)
      /\ queue' = IF task[t].then \in {"next", "drop"} THEN dequeueSync(queue) ELSE delaySync(queue)
      /\ task[t].then # "drop"
  BY DEF TaskWrites, RaceInv, TaskSeen, Ending, server, lapses
<1>2. current # None /\ queue # <<>> /\ Head(queue) = current /\ queue \in Seq(Legal)
      /\ \A i, j \in DOMAIN queue : Overlap(queue[i], queue[j]) => i = j
  <2>1. Live
    BY <1>1 DEF Live, NoEnding
  <2>. QED BY <1>1, <2>1 DEF BatonInv, EndPart, HeadPart, FileInv, QueuePart, TypeInv, QueueTypes
<1>3. op.entry # current /\ current \in Legal
  BY <1>2, CurrentPath DEF BatonInv, OpPart, Overlap
<1>4. CASE task[t].then # "next"
  <2>1. queue' = delaySync(queue)
    BY <1>1, <1>4
  <2>2. /\ \A i \in DOMAIN queue' : \E k \in DOMAIN queue : queue'[i] = queue[k]
        /\ \A k \in DOMAIN queue : \E i \in DOMAIN queue' : queue'[i] = queue[k]
        /\ \A i, j \in DOMAIN queue' : Overlap(queue'[i], queue'[j]) => i = j
    BY <1>2, <2>1, Rotated
  <2>3. \A p : Covered(p)' <=> Covered(p)
    BY <2>2 DEF Covered
  <2>4. QueuePart' /\ SafePart' /\ UnqueuedPart'
    BY <1>1, <2>2, <2>3 DEF FileInv, QueuePart, SafePart, Safe, UnqueuedPart
  <2>5. KindPart'
    BY <1>1, <2>2 DEF FileInv, KindPart, Settled
  <2>6. EntryPart' /\ DonePart' /\ MovePart'
    BY <1>1, <2>2 DEF FileInv, EntryPart, DonePart, MovePart
  <2>. QED BY <2>4, <2>5, <2>6 DEF FileInv
<1>5. CASE task[t].then = "next"
  <2>1. queue' = Tail(queue)
    BY <1>1, <1>2, <1>5 DEF dequeueSync
  <2>2. /\ \A i \in DOMAIN queue' : \E k \in DOMAIN queue : queue'[i] = queue[k]
        /\ \A k \in DOMAIN queue : queue[k] # current => \E i \in DOMAIN queue' : queue'[i] = queue[k]
        /\ \A i, j \in DOMAIN queue' : Overlap(queue'[i], queue'[j]) => i = j
    BY <1>2, <2>1, Dequeued
  <2>3. \A p : /\ Covered(p)' => Covered(p)
              /\ Covered(p) => Covered(p)' \/ p \in PathsOf(current)
    BY <2>2 DEF Covered
  <2>4. \A p \in PathsOf(current) : srv[p] = file[p]
    BY <1>1, <1>5 DEF BatonInv, AckTask, Agrees
  <2>5. QueuePart' /\ UnqueuedPart'
    <3>1. \A p \in unqueued' : ~Covered(p)'
      <4>1. \A p \in unqueued : ~Covered(p)
        BY DEF FileInv, QueuePart
      <4>2. unqueued' = unqueued
        BY <1>1
      <4>3. ASSUME NEW p \in unqueued PROVE ~Covered(p)'
        <5>1. ASSUME NEW i \in DOMAIN queue', p \in PathsOf(queue'[i]) PROVE FALSE
          BY <2>2, <4>1, <4>3, <5>1 DEF Covered
        <5>. QED BY <5>1 DEF Covered
      <4>. QED BY <4>2, <4>3
    <3>2. UnqueuedPart'
      BY <1>1 DEF FileInv, UnqueuedPart
    <3>. QED BY <2>2, <3>1, <3>2 DEF QueuePart
  <2>6. SafePart'
    BY <1>1, <2>3, <2>4 DEF FileInv, SafePart, Safe
  <2>7. KindPart'
    BY <1>1, <2>2 DEF FileInv, KindPart, Settled
  <2>8. EntryPart' /\ DonePart' /\ MovePart'
    BY <1>1, <1>3, <2>2 DEF FileInv, EntryPart, DonePart, MovePart
  <2>. QED BY <2>5, <2>6, <2>7, <2>8 DEF FileInv
<1>. QED BY <1>4, <1>5

\* The server's files change only where they come to agree with the browser's.
LEMMA ServerFile ==
  ASSUME TypeInv, BatonInv, FileInv, current # None,
         UNCHANGED <<current, queue, unqueued, unflagged, file, unsynced, op>>, Agrees',
         \A p \in Paths : p \notin PathsOf(current) => srv'[p] = srv[p]
  PROVE  FileInv'
<1>1. /\ current \in Legal /\ Settled(current)
      /\ \A i \in DOMAIN queue : queue[i] # current => ~Overlap(queue[i], current)
  BY CurrentQueued DEF FileInv, QueuePart
<1>2. \A p \in PathsOf(current) : srv'[p] = file[p]
  BY DEF Agrees
<1>3. QueuePart' /\ UnqueuedPart' /\ EntryPart' /\ DonePart'
  BY DEF FileInv, QueuePart, UnqueuedPart, EntryPart, DonePart, Covered
<1>4. SafePart'
  BY <1>2 DEF FileInv, SafePart, Safe, Covered
<1>5. KindPart'
  <2>1. ASSUME NEW i \in DOMAIN queue, Settled(queue[i]), queue[i].type = "rename"
        PROVE  \/ file[queue[i].path] = srv'[queue[i].old]
               \/ srv'[queue[i].old] = 0 /\ srv'[queue[i].path] = file[queue[i].path]
    <3>1. /\ queue[i] \in Legal /\ queue[i].old \in Paths /\ queue[i].path \in Paths
          /\ PathsOf(queue[i]) = {queue[i].path, queue[i].old}
      BY <2>1, QueuedLegal, LegalFacts, NoneAssumption
    <3>2. file[queue[i].old] = 0
      BY <2>1 DEF FileInv, KindPart
    <3>3. CASE queue[i] = current
      BY <1>2, <3>1, <3>2, <3>3
    <3>4. CASE queue[i] # current
      <4>1. srv'[queue[i].old] = srv[queue[i].old] /\ srv'[queue[i].path] = srv[queue[i].path]
        BY <1>1, <3>1, <3>4 DEF Overlap
      <4>. QED BY <2>1, <4>1 DEF FileInv, KindPart
    <3>. QED BY <3>3, <3>4
  <2>. QED BY <2>1 DEF FileInv, KindPart, Settled
<1>6. MovePart'
  <2>. SUFFICES ASSUME op.entry # None, op.entry.type = "rename"
                PROVE  srv'[op.entry.old] = srv[op.entry.old] /\ srv'[op.entry.path] = srv[op.entry.path]
    BY DEF FileInv, MovePart
  <2>1. op.entry.old \in Paths /\ op.entry.path \in Paths
        /\ PathsOf(op.entry) = {op.entry.path, op.entry.old}
    BY QueuedLegal, LegalFacts, NoneAssumption
  <2>. QED BY <2>1 DEF BatonInv, OpPart, Overlap
<1>. QED BY <1>3, <1>4, <1>5, <1>6 DEF FileInv

-----------------------------------------------------------------------------
(* Undisturbed, the baton and the files hold together. *)

CleanInv == Undisturbed => BatonInv /\ FileInv

LEMMA InitClean == Init => CleanInv
<1>. SUFFICES ASSUME Init PROVE BatonInv /\ FileInv
  BY DEF CleanInv
<1>1. /\ queue = <<>> /\ op = NoOp /\ current = None /\ up = <<>> /\ down = <<>> /\ lock = None
      /\ srv = file /\ unqueued = {} /\ call = [c \in Calls |-> NoCall] /\ task = [t \in Tasks |-> NoTask]
  BY DEF Init, InitWith
<1>2. op.pc = "idle" /\ op.entry = None
  BY <1>1 DEF NoOp
<1>3. BatonInv
  BY <1>1, <1>2 DEF BatonInv, LockPart, SyncPart, FinalPart, EndPart, AnswerPart, StepPart, AckDown, AckTask,
     HeadPart, Live, NoSync, NoFinal, NoEnding, Ending, OpPart, Overlap, PathsOf, CallPart, NoCall, NoTask
<1>4. FileInv
  BY <1>1, <1>2 DEF FileInv, QueuePart, KindPart, UnqueuedPart, SafePart, Safe, EntryPart, DonePart, MovePart
<1>. QED BY <1>3, <1>4

\* What the browser's file system shields against does not go away again.
LEMMA StaysDisturbed ==
  ASSUME [Next]_vars, Undisturbed'
  PROVE  Undisturbed
<1>1. CASE Begin \/ OpStep \/ OpFails
  BY <1>1 DEF Begin, BeginWrite, BeginDelete, BeginRename, BeginOp, BeginDescriptor, OpStep, StoreOp,
     DoWrite, DoDelete, DoRename, FlagOp, OpFails, history, lapses, Undisturbed
<1>2. CASE Request \/ CallStep \/ Fault
  BY <1>1, <1>2 DEF Request, StartCall, CallStep, CallReads, CallSends, Fault, CallFails, TaskFault,
     AckFails, UnflagFails, TaskFails, history, lapses, Undisturbed
<1>3. CASE Handle
  BY <1>3 DEF Handle, HandleGrant, HandleDiffRequest, HandlePatchAckResponse, HandleUpstreamError,
     HandleForcedDownstream, IgnoreError, StartTask, history, lapses, Undisturbed
<1>4. CASE TaskStep
  BY <1>4 DEF TaskStep, SendSourceList, SendDiffs, ReadFile, ClearUnsynced, TaskReads, TaskWrites,
     StartCall, history, lapses, Undisturbed
<1>5. CASE ServerStep \/ Refusal \/ Cut \/ Reconnect
  BY <1>5 DEF ServerStep, Refusal, ServerGrants, ServerDrops, ServerSums, ServerPatches, ServerRenames,
     ServerDeletes, ServerRefuses, ServerFails, ServerInterrupts, StepOf, Cut, Reconnect, history, lapses,
     Undisturbed
<1>6. CASE UNCHANGED vars
  BY <1>6 DEF vars, history, lapses, Undisturbed
<1>. QED BY <1>1, <1>2, <1>3, <1>4, <1>5, <1>6 DEF Next

LEMMA UserClean ==
  ASSUME TypeInv, RaceInv, Undisturbed, Undisturbed', BatonInv, FileInv,
         Begin \/ OpStep \/ OpFails
  PROVE  BatonInv' /\ FileInv'
<1>1. ASSUME NEW p \in Paths, NEW type, NEW old, Entry(p, type, old) \in Legal, BeginOp(p, type, old),
             type = "rename" => file[old] # 0 /\ file[p] = 0
      PROVE  BatonInv' /\ FileInv'
  <2>1. OpPart'
    BY <1>1 DEF BeginOp, Undisturbed, OpPart, manager
  <2>2. UNCHANGED <<manager, net, server, queue, file>>
    BY <1>1 DEF BeginOp, disk
  <2>. QED BY <1>1, <2>1, <2>2, UserBaton, BeginFile
<1>2. ASSUME NEW p \in Paths, BeginDescriptor(p) PROVE BatonInv' /\ FileInv'
  <2>1. OpPart'
    BY <1>2 DEF BeginDescriptor, Undisturbed, OpPart, manager
  <2>2. UNCHANGED <<manager, net, server, queue, file>> /\ ~crossed'
    BY <1>2 DEF BeginDescriptor, disk, Undisturbed
  <2>. QED BY <1>2, <2>1, <2>2, UserBaton, DescriptorFile
<1>3. CASE StoreOp
  <2>1. OpPart'
    BY <1>3 DEF StoreOp, OpPart, BatonInv, manager, TypeInv, QueueTypes, OpType
  <2>2. UNCHANGED <<manager, net, server, file>> /\ ~crossed' /\ ~raced
    BY <1>3 DEF StoreOp, Undisturbed
  <2>3. queue' = queue \/ \E e \in Legal : queue' = Append(queue, e)
    <3>1. op.seen = queue /\ op.entry \in Legal
      BY <1>3, <2>2, QueuedLegal DEF StoreOp, RaceInv, OpSeen
    <3>. QED BY <1>3, <3>1 DEF StoreOp, WithEntry
  <2>. QED BY <1>3, <2>1, <2>2, <2>3, UserBaton, StoreFile
<1>4. ASSUME DoWrite \/ DoDelete \/ DoRename \/ FlagOp \/ OpFails PROVE BatonInv'
  <2>1. op.entry \in Legal
    BY <1>4, QueuedLegal DEF DoWrite, DoDelete, DoRename, FlagOp, OpFails, disk
  <2>2. UNCHANGED <<manager, net, server, queue>>
    BY <1>4 DEF DoWrite, DoDelete, DoRename, FlagOp, OpFails, disk
  <2>3. op'.entry = op.entry \/ op'.entry = None
    <3>1. NoOp.entry = None /\ [op EXCEPT !.pc = "flagging"].entry = op.entry
      BY DEF NoOp, TypeInv, QueueTypes, OpType
    <3>2. op' = NoOp \/ op' = [op EXCEPT !.pc = "flagging"]
      BY <1>4 DEF DoWrite, DoDelete, DoRename, FlagOp, OpFails, disk
    <3>. QED BY <3>1, <3>2
  <2>4. OpPart'
    BY <2>2, <2>3 DEF BatonInv, OpPart, manager, Overlap, PathsOf
  <2>5. \A p \in PathsOf(current) : file'[p] = file[p]
    <3>1. \A p \in PathsOf(current) : p # op.entry.path /\ (op.entry.type = "rename" => p # op.entry.old)
      BY <2>1, LegalFacts DEF BatonInv, OpPart, Overlap
    <3>2. \A p \in PathsOf(current) : p \in DOMAIN file
      BY LegalFacts, NoneAssumption, ZenonT(30) DEF PathsOf, TypeInv, CallTypes, DiskTypes
    <3>. QED BY <1>4, <3>1, <3>2 DEF DoWrite, DoDelete, DoRename, FlagOp, OpFails, disk
  <2>. QED BY <2>2, <2>4, <2>5, UserBaton
<1>5. CASE Begin
  <2>1. ASSUME NEW p \in Paths, BeginWrite(p) \/ BeginDelete(p) PROVE BatonInv' /\ FileInv'
    BY <1>1, <2>1, NewEntry DEF BeginWrite, BeginDelete
  <2>2. ASSUME NEW p \in Paths, NEW q \in Paths, BeginRename(p, q) PROVE BatonInv' /\ FileInv'
    BY <1>1, <2>2, NewEntry DEF BeginRename
  <2>. QED BY <1>2, <1>5, <2>1, <2>2 DEF Begin
<1>6. ASSUME OpFails PROVE FileInv'
  <2>1. op.pc \in {"storing", "flagging"}
    BY <1>6 DEF OpFails, Undisturbed, TypeInv, QueueTypes, OpType
  <2>. QED BY <1>6, <2>1, FlagFile, UnstoredFile
<1>. QED BY <1>3, <1>4, <1>5, <1>6, WriteFile, DeleteFile, RenameFile, FlagFile DEF OpStep

LEMMA CallClean ==
  ASSUME TypeInv, Undisturbed', BatonInv, FileInv,
         Request \/ CallStep \/ \E c \in Calls : CallFails(c)
  PROVE  BatonInv' /\ FileInv'
<1>1. FileInv'
  <2>1. UNCHANGED <<queue, unqueued, unflagged, file, srv, unsynced, op>>
    BY DEF Request, CallStep, CallReads, CallSends, CallFails, disk, server, history, lapses
  <2>. QED BY <2>1, FileKept
<1>2. CASE Request
  <2>1. /\ UNCHANGED <<task, current, up, down, lock, srv, file, queue, op>> /\ current = None
        /\ doubled' = (doubled \/ \E d \in Calls : call[d] # NoCall)
        /\ \E c \in Calls : call[c] = NoCall /\ call' = [call EXCEPT ![c].pc = "reading"]
    BY <1>2 DEF Request, StartCall, disk, net, server
  <2>2. \A d \in Calls : call[d].pc = "none"
    <3>1. ~doubled'
      BY DEF Undisturbed
    <3>2. \A d \in Calls : call[d] = NoCall
      BY <2>1, <3>1
    <3>. QED BY <3>2 DEF NoCall
  <2>3. CallPart'
    <3>1. PICK c \in Calls : call' = [call EXCEPT ![c].pc = "reading"]
      BY <2>1
    <3>2. \A d \in Calls : call'[d].pc = IF d = c THEN "reading" ELSE "none"
      BY <2>2, <3>1 DEF TypeInv, CallTypes, CallType
    <3>. QED BY <2>1, <3>2 DEF CallPart
  <2>. QED BY <1>1, <2>1, <2>3, CallBaton
<1>3. ASSUME NEW c \in Calls, CallReads(c) PROVE BatonInv'
  <2>1. /\ UNCHANGED <<task, current, up, down, lock, srv, file, queue, op>> /\ call[c].pc = "reading"
        /\ call' = [call EXCEPT ![c] = IF queue = <<>> THEN NoCall
                                       ELSE [pc |-> "setting", info |-> Head(queue)]]
    BY <1>3 DEF CallReads, disk, net, server
  <2>2. /\ \A d \in Calls : d # c => call'[d] = call[d]
        /\ call'[c].pc # "none" => queue # <<>> /\ call'[c].info = Head(queue)
    BY <2>1 DEF TypeInv, CallTypes, NoCall
  <2>3. CallPart'
    BY <2>1, <2>2 DEF BatonInv, CallPart
  <2>. QED BY <2>1, <2>3, CallBaton
<1>4. ASSUME NEW c \in Calls, CallFails(c) PROVE BatonInv'
  <2>1. /\ UNCHANGED <<task, current, up, down, lock, srv, file, queue, op>>
        /\ call' = [call EXCEPT ![c] = NoCall]
    BY <1>4 DEF CallFails, disk, net, server
  <2>2. \A d \in Calls : call'[d] = call[d] \/ call'[d].pc = "none"
    BY <2>1 DEF TypeInv, CallTypes, NoCall
  <2>3. CallPart'
    BY <2>1, <2>2 DEF BatonInv, CallPart
  <2>. QED BY <2>1, <2>3, CallBaton
<1>5. ASSUME NEW c \in Calls, CallSends(c) PROVE BatonInv'
  BY <1>5, SendsBaton DEF Undisturbed
<1>. QED BY <1>1, <1>2, <1>3, <1>4, <1>5 DEF CallStep

LEMMA HandleClean ==
  ASSUME TypeInv, BatonInv, FileInv, Handle
  PROVE  BatonInv' /\ FileInv'
<1>1. UNCHANGED <<queue, unqueued, unflagged, file, srv, unsynced, op>>
  BY DEF Handle, HandleGrant, HandleDiffRequest, HandlePatchAckResponse, HandleUpstreamError,
     HandleForcedDownstream, IgnoreError, StartTask, disk, server, history, lapses
<1>2. FileInv'
  BY <1>1, FileKept
<1>3. ASSUME NEW kind \in {"sync", "diffs"}, NEW pc \in {"listing", "diffing"},
             StartTask(kind, pc, "none")
      PROVE  BatonInv'
  <2>1. /\ UNCHANGED <<call, current, lock, up>>
        /\ down # <<>> /\ Head(down).kind \notin Finals /\ down' = Tail(down)
    BY <1>3 DEF StartTask, Received, server, Finals
  <2>2. PICK t \in Tasks : /\ task[t] = NoTask
                           /\ task' = [task EXCEPT ![t] = [pc |-> pc, entry |-> Head(down).entry,
                                                           then |-> "none", seen |-> <<>>]]
    BY <1>3 DEF StartTask
  <2>3. \A u \in Tasks : (Ending(u)' <=> Ending(u)) /\ (Ending(u) => task'[u] = task[u])
    <3>1. task'[t].pc = pc /\ task[t].pc = "none" /\ \A u \in Tasks : u # t => task'[u] = task[u]
      BY <2>2 DEF TypeInv, TaskTypes, NoTask
    <3>. QED BY <3>1 DEF Ending
  <2>. QED BY <1>1, <2>1, <2>3, Progress
<1>4. CASE HandleGrant
  <2>1. CASE /\ Received("sync") /\ Head(down).entry.type # "create"
             /\ Send(Head(down).entry.type, Head(down).entry, 0)
             /\ UNCHANGED <<disk, op, manager, socket, server, left, history>>
    <3>1. /\ UNCHANGED <<call, task, current, lock>>
          /\ down # <<>> /\ Head(down).kind \notin Finals /\ down' = Tail(down)
      BY <2>1 DEF Received, manager, server, Finals
    <3>2. 1 \in DOMAIN down /\ down[1] = Head(down) /\ Head(down).entry \in Legal
      BY <3>1, SeqFacts, DownFacts DEF TypeInv, NetTypes
    <3>3. Head(down).entry = current /\ Head(down).entry.type \in {"rename", "delete"}
      BY <2>1, <3>1, <3>2, LegalFacts DEF BatonInv, AnswerPart, Types
    <3>. DEFINE m == Message(Head(down).entry.type, Head(down).entry, 0)
    <3>4. m \in UpMessages /\ m.kind # "sync" /\ Ours(m)
      BY <2>1, <3>2, <3>3, NewMessage DEF Ours, Message
    <3>5. UNCHANGED up \/ up' = Append(up, m)
      BY <2>1 DEF Send
    <3>. HIDE DEF m
    <3>6. \A u \in Tasks : (Ending(u)' <=> Ending(u)) /\ (Ending(u) => task'[u] = task[u])
      BY <3>1 DEF Ending
    <3>7. \/ UNCHANGED up
          \/ \E n \in UpMessages : /\ up' = Append(up, n) /\ n.kind # "sync"
                                   /\ Ours(n) \/ (lock = None /\ NoSync)
      BY <3>4, <3>5
    <3>8. UNCHANGED <<call, current, lock, srv, file, queue, op>>
      BY <1>1, <3>1
    <3>9. UNCHANGED down \/ (down # <<>> /\ Head(down).kind \notin Finals /\ down' = Tail(down))
      BY <3>1
    <3>. QED BY <1>2, <3>6, <3>7, <3>8, <3>9, Progress
  <2>2. CASE StartTask("sync", "listing", "none")
    BY <1>3, <1>2, <2>2
  <2>. QED BY <1>4, <2>1, <2>2 DEF HandleGrant
<1>5. CASE HandlePatchAckResponse
  BY <1>5, <1>2, EndsBaton DEF HandlePatchAckResponse, Finals
<1>6. CASE HandleUpstreamError
  BY <1>6, <1>2, EndsBaton DEF HandleUpstreamError, Finals
<1>7. CASE HandleForcedDownstream
  BY <1>7, <1>2, EndsBaton DEF HandleForcedDownstream, Finals
<1>8. CASE HandleDiffRequest
  BY <1>3, <1>8, <1>2 DEF HandleDiffRequest
<1>. QED BY <1>4, <1>5, <1>6, <1>7, <1>8, <1>2, IgnoreBaton DEF Handle

LEMMA TaskClean ==
  ASSUME TypeInv, RaceInv, Undisturbed, Undisturbed', BatonInv, FileInv,
         TaskStep \/ \E t \in Tasks : TaskFault(t)
  PROVE  BatonInv' /\ FileInv'
<1>1. ASSUME NEW t \in Tasks, NEW pc \in {"listing", "diffing"},
             NEW request \in {"checksums", "diffs"}, ReadFile(t, pc, request)
      PROVE  BatonInv' /\ FileInv'
  <2>. DEFINE e == task[t].entry
             m == Message(request, e, file[e.path])
  <2>1. /\ UNCHANGED <<queue, unqueued, unflagged, file, srv, unsynced, op, call, current, down, lock>>
        /\ task[t].pc = pc /\ ~Belated(e)
    BY <1>1 DEF ReadFile, disk, server, lapses, Undisturbed
  <2>2. e \in Legal /\ e.type = "create" /\ e.path \in Paths
    BY <2>1, LegalFacts DEF TypeInv, TaskTypes, Working
  <2>3. file[e.path] # 0 /\ (e = current \/ current = None)
    BY <2>1, <2>2, LegalFacts, CurrentFile DEF Belated
  <2>4. task' = [task EXCEPT ![t] = NoTask] /\ (UNCHANGED up \/ up' = Append(up, m))
    BY <1>1, <2>3 DEF ReadFile, Send
  <2>5. m \in UpMessages /\ m.kind # "sync" /\ (Ours(m) \/ (lock = None /\ NoSync))
    <3>1. m \in UpMessages
      BY <2>2, NewMessage DEF TypeInv, DiskTypes
    <3>2. m.kind = request /\ m.entry = e /\ m.version = file[e.path]
      BY DEF Message
    <3>3. e = current => Ours(m)
      BY <3>2 DEF Ours
    <3>. QED BY <2>3, <3>1, <3>2, <3>3, Quiet
  <2>. HIDE DEF m
  <2>6. \A u \in Tasks : (Ending(u)' <=> Ending(u)) /\ (Ending(u) => task'[u] = task[u])
    <3>1. task'[t].pc = "none" /\ \A u \in Tasks : u # t => task'[u] = task[u]
      BY <2>4 DEF TypeInv, TaskTypes, NoTask
    <3>. QED BY <2>1, <3>1 DEF Ending
  <2>. QED BY <2>1, <2>4, <2>5, <2>6, Progress, FileKept
<1>2. ASSUME NEW t \in Tasks, ClearUnsynced(t) \/ AckFails(t) \/ UnflagFails(t) \/ TaskReads(t)
      PROVE  BatonInv'
  <2>1. UNCHANGED <<call, current, up, down, lock, srv, file, queue, op>>
    BY <1>2 DEF ClearUnsynced, AckFails, UnflagFails, TaskReads, net, server, disk
  <2>2. Ending(t)
    BY <1>2 DEF ClearUnsynced, AckFails, UnflagFails, TaskReads, Ending
  <2>3. /\ task'[t].pc \in {"reading", "writing"} /\ task'[t].entry = task[t].entry
        /\ task'[t].then = task[t].then \/ task'[t].then = "jam"
        /\ \A u \in Tasks : u # t => task'[u] = task[u]
    BY <1>2 DEF ClearUnsynced, AckFails, UnflagFails, TaskReads, TypeInv, TaskTypes, TaskType
  <2>4. Ending(t)' /\ task'[t].pc # "clearing"
    BY <2>3 DEF Ending
  <2>. QED BY <2>1, <2>2, <2>3, <2>4, EndingBaton
<1>3. ASSUME NEW t \in Tasks, TaskFault(t) \/ TaskReads(t) PROVE FileInv'
  BY <1>3, FileKept DEF TaskFault, AckFails, UnflagFails, TaskFails, TaskReads, disk, server, history,
     lapses
<1>4. ASSUME NEW t \in Tasks, TaskWrites(t) PROVE BatonInv' /\ FileInv'
  BY <1>4, WritesBaton, WritesFile DEF Undisturbed
<1>. QED BY <1>1, <1>2, <1>3, <1>4, ClearFile, FailsBaton
         DEF TaskStep, TaskFault, SendSourceList, SendDiffs

\* The server's steps: what it patches, renames or deletes is currentSync.
LEMMA ServerClean ==
  ASSUME TypeInv, Undisturbed', BatonInv, FileInv, ServerStep \/ Refusal
  PROVE  BatonInv' /\ FileInv'
<1>1. UNCHANGED <<call, task, current, queue, file, unsynced, op, unqueued, unflagged>>
  BY DEF ServerStep, Refusal, ServerGrants, ServerDrops, ServerSums, ServerPatches, ServerRenames,
     ServerDeletes, ServerRefuses, ServerFails, ServerInterrupts, StepOf, disk, manager, history, lapses
<1>2. CASE ServerGrants \/ ServerDrops \/ ServerSums \/ ServerRefuses
  <2>1. UNCHANGED srv
    BY <1>2 DEF ServerGrants, ServerDrops, ServerSums, ServerRefuses, server
  <2>. QED BY <1>1, <1>2, <2>1, FileKept, GrantsBaton, DropsBaton, SumsBaton, RefusesBaton
<1>3. CASE ServerFails
  <2>1. /\ UNCHANGED srv /\ up # <<>> /\ up' = Tail(up) /\ lock # None /\ lock' = None
        /\ down' = Append(down, Message("error", Head(up).entry, 0))
    BY <1>3 DEF ServerFails, StepOf, Asked, Answer
  <2>2. Head(up).entry \in Legal
    BY <2>1, SeqFacts, UpFacts DEF TypeInv, NetTypes
  <2>3. /\ Message("error", Head(up).entry, 0) \in DownMessages
        /\ Message("error", Head(up).entry, 0).kind = "error"
    BY <2>2, NewMessage DEF Finals, Message
  <2>4. BatonInv'
    BY <1>1, <2>1, <2>3, LastBaton DEF Finals
  <2>. QED BY <1>1, <2>1, <2>4, FileKept
<1>4. CASE ServerInterrupts
  <2>1. /\ UNCHANGED <<srv, up>> /\ lock # None /\ lock' = None
        /\ down' = Append(down, Message("error", Entry(lock, "create", None), 0))
    BY <1>4 DEF ServerInterrupts
  <2>2. Entry(lock, "create", None) \in Legal
    BY <2>1, NewEntry DEF TypeInv, DiskTypes
  <2>3. /\ Message("error", Entry(lock, "create", None), 0) \in DownMessages
        /\ Message("error", Entry(lock, "create", None), 0).kind = "error"
    BY <2>2, NewMessage DEF Finals, Message
  <2>4. BatonInv'
    BY <1>1, <2>1, <2>3, LastBaton DEF Finals
  <2>. QED BY <1>1, <2>1, <2>4, FileKept
<1>5. ASSUME NEW kind \in {"diffs", "rename", "delete"}, StepOf(kind), lock' = None
      PROVE  /\ up # <<>> /\ up' = Tail(up) /\ Head(up).kind = kind /\ lock # None
             /\ Head(up).entry = current /\ current # None /\ current \in Legal
             /\ kind = "diffs" => Head(up).version = file[current.path] /\ current.type = "create"
             /\ kind # "diffs" => current.type = kind
             /\ \E i \in DOMAIN queue : queue[i] = current
             /\ Settled(current)
  <2>1. up # <<>> /\ up' = Tail(up) /\ Head(up).kind = kind /\ lock # None
    BY <1>5 DEF StepOf, Asked
  <2>2. Head(up) \in UpMessages
    BY <2>1, SeqFacts DEF TypeInv, NetTypes
  <2>3. Ours(Head(up))
    BY <2>1, AskedHead
  <2>4. Head(up).entry = current /\ current # None
    BY <2>2, <2>3, UpFacts, LegalFacts DEF Ours
  <2>. QED BY <2>1, <2>2, <2>3, <2>4, UpFacts, CurrentQueued DEF Ours
<1>6. ASSUME NEW kind \in {"diffs", "rename", "delete"}, StepOf(kind), lock' = None,
             Answer("patch"), Agrees', \A p \in Paths : p \notin PathsOf(current) => srv'[p] = srv[p]
      PROVE  BatonInv' /\ FileInv'
  <2>. DEFINE m == Message("patch", Head(up).entry, 0)
  <2>1. m \in DownMessages /\ m.kind = "patch" /\ m.entry = current
    BY <1>5, <1>6, NewMessage DEF Finals, Message
  <2>2. down' = Append(down, m)
    BY <1>6 DEF Answer
  <2>. HIDE DEF m
  <2>3. BatonInv'
    BY <1>1, <1>5, <1>6, <2>1, <2>2, LastBaton DEF Finals
  <2>. QED BY <1>1, <1>5, <1>6, <2>3, ServerFile
<1>7. ASSUME NEW kind \in {"diffs", "rename", "delete"}, StepOf(kind), lock' = None,
             Answer("unknown"), UNCHANGED srv
      PROVE  BatonInv' /\ FileInv'
  <2>. DEFINE m == Message("unknown", Head(up).entry, 0)
  <2>1. m \in DownMessages /\ m.kind = "unknown"
    BY <1>5, <1>7, NewMessage DEF Finals, Message
  <2>2. down' = Append(down, m)
    BY <1>7 DEF Answer
  <2>. HIDE DEF m
  <2>3. BatonInv'
    BY <1>1, <1>5, <1>7, <2>1, <2>2, LastBaton DEF Finals
  <2>. QED BY <1>1, <1>7, <2>3, FileKept
<1>8. CASE ServerPatches
  <2>1. StepOf("diffs") /\ Answer("patch") /\ lock' = None
        /\ srv' = [srv EXCEPT ![Head(up).entry.path] = Head(up).version]
    BY <1>8 DEF ServerPatches
  <2>2. Head(up).entry = current /\ Head(up).version = file[current.path] /\ current \in Legal
        /\ current.type = "create"
    BY <1>5, <2>1
  <2>3. PathsOf(current) = {current.path} /\ current.path \in Paths
    BY <2>2, LegalFacts, NoneAssumption
  <2>4. srv' = [srv EXCEPT ![current.path] = file[current.path]] /\ srv \in [Paths -> Nat]
    BY <2>1, <2>2 DEF TypeInv, DiskTypes
  <2>5. Agrees' /\ \A p \in Paths : p \notin PathsOf(current) => srv'[p] = srv[p]
    BY <1>1, <2>3, <2>4 DEF Agrees
  <2>. QED BY <1>6, <2>1, <2>5
<1>9. CASE ServerRenames
  <2>1. StepOf("rename") /\ lock' = None
    BY <1>9 DEF ServerRenames
  <2>2. Head(up).entry = current /\ current \in Legal /\ current.type = "rename"
        /\ Settled(current) /\ \E i \in DOMAIN queue : queue[i] = current
    BY <1>5, <2>1
  <2>3. PathsOf(current) = {current.path, current.old} /\ current.path \in Paths
        /\ current.old \in Paths /\ current.old # current.path
    BY <2>2, LegalFacts, NoneAssumption
  <2>4. CASE srv[current.old] # 0 /\ srv[current.path] = 0
    <3>1. Answer("patch")
          /\ srv' = [srv EXCEPT ![current.path] = srv[current.old], ![current.old] = 0]
      BY <1>9, <2>2, <2>4 DEF ServerRenames
    <3>2. file[current.old] = 0 /\ file[current.path] = srv[current.old]
      BY <2>2, <2>4 DEF FileInv, KindPart
    <3>3. srv'[current.path] = srv[current.old] /\ srv'[current.old] = 0
          /\ \A p \in Paths : p \notin PathsOf(current) => srv'[p] = srv[p]
      BY <2>3, <3>1 DEF TypeInv, DiskTypes
    <3>4. Agrees'
      BY <1>1, <2>3, <3>2, <3>3 DEF Agrees
    <3>. QED BY <1>6, <2>1, <3>1, <3>3, <3>4
  <2>5. CASE ~(srv[current.old] # 0 /\ srv[current.path] = 0)
    <3>1. Answer("unknown") /\ UNCHANGED srv
      BY <1>9, <2>2, <2>5 DEF ServerRenames
    <3>. QED BY <1>7, <2>1, <3>1
  <2>. QED BY <2>4, <2>5
<1>10. CASE ServerDeletes
  <2>1. StepOf("delete") /\ lock' = None
    BY <1>10 DEF ServerDeletes
  <2>2. Head(up).entry = current /\ current \in Legal /\ current.type = "delete"
        /\ Settled(current) /\ \E i \in DOMAIN queue : queue[i] = current
    BY <1>5, <2>1
  <2>3. PathsOf(current) = {current.path} /\ current.path \in Paths
    BY <2>2, LegalFacts, NoneAssumption
  <2>4. CASE srv[current.path] # 0
    <3>1. Answer("patch") /\ srv' = [srv EXCEPT ![current.path] = 0]
      BY <1>10, <2>2, <2>4 DEF ServerDeletes
    <3>2. file[current.path] = 0
      BY <2>2 DEF FileInv, KindPart
    <3>3. srv'[current.path] = 0 /\ \A p \in Paths : p \notin PathsOf(current) => srv'[p] = srv[p]
      BY <2>3, <3>1 DEF TypeInv, DiskTypes
    <3>4. Agrees'
      BY <1>1, <2>3, <3>2, <3>3 DEF Agrees
    <3>. QED BY <1>6, <2>1, <3>1, <3>3, <3>4
  <2>5. CASE srv[current.path] = 0
    <3>1. Answer("unknown") /\ UNCHANGED srv
      BY <1>10, <2>2, <2>5 DEF ServerDeletes
    <3>. QED BY <1>7, <2>1, <3>1
  <2>. QED BY <2>4, <2>5
<1>. QED BY <1>2, <1>3, <1>4, <1>8, <1>9, <1>10 DEF ServerStep, Refusal

LEMMA NextClean == TypeInv /\ RaceInv /\ CleanInv /\ [Next]_vars => CleanInv'
<1>. SUFFICES ASSUME TypeInv, RaceInv, CleanInv, [Next]_vars, Undisturbed' PROVE BatonInv' /\ FileInv'
  BY DEF CleanInv
<1>1. Undisturbed /\ BatonInv /\ FileInv
  BY StaysDisturbed DEF CleanInv
<1>2. CASE Begin \/ OpStep \/ OpFails
  BY <1>1, <1>2, UserClean
<1>3. CASE Request \/ CallStep \/ \E c \in Calls : CallFails(c)
  BY <1>1, <1>3, CallClean
<1>4. CASE Handle
  BY <1>1, <1>4, HandleClean
<1>5. CASE TaskStep \/ \E t \in Tasks : TaskFault(t)
  BY <1>1, <1>5, TaskClean
<1>6. CASE ServerStep \/ Refusal
  BY <1>1, <1>6, ServerClean
<1>7. CASE Cut
  <2>1. UNCHANGED <<queue, unqueued, unflagged, file, srv, unsynced, op>>
    BY <1>7 DEF Cut, disk, lapses
  <2>. QED BY <1>1, <1>7, <2>1, CutBaton, FileKept
<1>8. CASE Reconnect \/ UNCHANGED vars
  <2>1. UNCHANGED <<queue, unqueued, unflagged, file, srv, unsynced, op, call, task, current, up, down, lock>>
    BY <1>8 DEF Reconnect, vars, disk, manager, net, server, history, lapses
  <2>2. CallPart'
    BY <1>1, <2>1 DEF BatonInv, CallPart
  <2>. QED BY <1>1, <2>1, <2>2, CallBaton, FileKept
<1>. QED BY <1>2, <1>3, <1>4, <1>5, <1>6, <1>7, <1>8 DEF Next, Fault

LEMMA CleanHolds == Spec => []CleanInv
<1>1. Init => CleanInv
  BY InitClean
<1>2. TypeInv /\ RaceInv /\ CleanInv /\ [Next]_vars => CleanInv'
  BY NextClean
<1>. QED BY <1>1, <1>2, TypesHold, RaceHolds, PTL DEF Spec

\* Unless what NothingForgotten names has happened, a change that the server does
\* not have is queued and its file flagged: wrapMethod(), syncUpstream(), the
\* handlers of the answers, delaySync() and dequeueSync() lose none, whatever the
\* order of their steps and whichever of them fails.
THEOREM NothingForgottenHolds == Spec => []NothingForgotten
<1>1. TypeInv /\ CleanInv => NothingForgotten
  <2>. SUFFICES ASSUME TypeInv, CleanInv, Undisturbed, NEW p \in Paths, file[p] # srv[p],
                       p \notin PathsOf(op.entry)
                PROVE  /\ p \in unqueued \/ \E i \in DOMAIN queue : p \in PathsOf(queue[i])
                       /\ file[p] # 0 => unsynced[p] \/ p \in unflagged
    BY DEF NothingForgotten
  <2>1. Safe(p)
    BY DEF CleanInv, FileInv, SafePart
  <2>. QED BY <2>1 DEF Safe, Covered
<1>. QED BY <1>1, TypesHold, CleanHolds, PTL

=============================================================================
