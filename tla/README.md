# MakeDrive: a verification project

MakeDrive keeps a user's file system in step between browsers and a server: a
browser queues the paths its user changes, and syncs them one at a time to the
server over a web socket ("upstream"); the server tells the user's other
browsers which paths are now out of date, and each of them syncs those back
("downstream").  The files are compared with rsync.  Server processes share
nothing but a redis instance, which holds the locks of the paths being synced
and carries three pub/sub channels.

This directory holds TLA+ modules of the parts of that program whose
correctness depends on the order of things, TLC configurations that check them
on small instances, and TLAPS proofs.  Definitions keep the names of the source;
PROJECT.json maps each to the lines it stands for.

    tlc -workers 2 -config SyncLock_safety.cfg MCSyncLock
    tlapm SyncLockProofs.tla
    tlapm SyncSessionProofs.tla
    tlapm ConnectionsProofs.tla
    tlapm ConnectionsServerProofs.tla
    tlapm PathSyncProofs.tla
    tlapm SyncQueueProofs.tla
    tlapm DownstreamProofs.tla
    tlapm ListProofs.tla

## The system

| Component | State | Operations | Talks to |
|---|---|---|---|
| sync lock (`server/lib/sync-lock.js`) | a hash in redis (path -> client id); per call a timer and a listener; per lock a listener and `unlocked` | `request`, `release`, `isUserLocked`, handlers of both lock channels | redis; called by the protocol handler |
| redis connections (`server/redis-clients.js`) | three connections, one emitter | `hsetnx`, `hset`, `hdel`, `hget`, `publish`, `start`, `close` | redis |
| client object (`server/lib/client.js`) | `state`, `closable`, `lock`, `outOfDate`, `currentDownstream`, `upstreamSync` | `close`, `sendMessage`, `delaySync`, `endDownstream`, broadcast handler | its handler, its socket |
| protocol handler (`server/lib/sync-protocol-handler.js`) | its client, the 'closable' event | upstream: SYNC, CHKSUM, DIFFS, RENAME, DEL, `end`, `broadcastUpdate`; downstream: authz, DIFFS, PATCH, DELAY, ROOT; `close` | lock, rsync, client |
| client manager (`client-manager.js`, `client-info.js`) | list of clients, table of infos | `add`, `remove`, `shutdown`, the token handshake | client, tokens |
| tokens (`websocket-auth.js`, `/api/sync`) | tokens per user, each with a timer | generate, look up and revoke | client manager |
| server processes (`server.js`, `socket-server.js`, `web-server.js`, `server-cluster.js`) | start-up and shutdown order | | everything |
| browser API (`client/src/index.js`) | the sync state, the auto-sync timer | connect, request, disconnect, callbacks | sync manager |
| sync manager (`client/src/sync-manager.js`) | socket, `currentSync`, `downstreams`, `needsUpstream` | `syncUpstream`, `syncNext`, reconnection | message handler, sync file system |
| message handler (`client/src/message-handler.js`) | none | one handler per message and error | sync manager |
| sync file system (`client/src/sync-filesystem.js`, `lib/fs-utils.js`) | the queue `pathsToSync` in an extended attribute, the changes tracked during a downstream | queue, dequeue, delay, the wrapped file operations | Filer |
| rsync (`lib/rsync/`) | none | source list, checksums, diff, patch, rename, delete | Filer |
| everything else | | HTTP views, authentication, logging, build, demo, tests | |

What is hard in it, by component (PROJECT.json lists each hazard at its line):

* lock: the race of the denial with the timer, listeners that are registered
  late and removed early, one listener slot per client, entries that outlive
  their process, a release that does not look whose entry it deletes;
* session: `close()` against the asynchronous steps (grant, checksums, patch,
  release), locks of syncs that the browser gave up, a second SYNC while one is
  pending, exceptions that nobody catches;
* downstream: updates broadcast while others are under way, index -1 splices,
  entries found by path alone, the look at the lock before an asynchronous diff;
* browser queue: unsynchronised read-modify-write of an attribute, changes during
  a sync of either direction, reconnection in the middle of a sync;
* whole protocol: an update can be lost between the check of `outOfDate`, the
  lock, and the broadcast; a rename locks one of its two paths;
* rsync: block boundaries, the rolling checksum, and what JSON does to a diff;
* connections: `disconnect()` against a socket that opens or closes, tokens that
  expire or come twice, a failed `/api/sync`;
* shutdown: a list changed while it is walked.

What makes each component correct: the lock is exclusive, answered once and
always; a step changes files only under its own lock and `close()` never cuts it
short; a broadcast reaches every client and each outdated path is eventually
synced down; no queued change is dropped unless it was synced or superseded;
patch(diff(checksums)) reproduces the source; every client is closed before the
process says so.

## Modules

### LockService

What `SyncLock.request()` and `release()` promise to a caller.  A call is
granted, denied or failed, and a granted one is given back.  A path is granted to
one call at a time, until a call that was not answered in time breaks in
(`broken`): from then on the path is no longer exclusive, and the code offers no
way back.  A denial is given only where another call was granted the path.

### SyncLock

`sync-lock.js` over `redis-clients.js`, several processes.  Each element of
`Requests` is one call of `request()` and, once granted, its lock object; `pc`
says how far it has got, with redis commands on their way out ("hsetnx",
"hset", "hdel") and back ("won", "lost", "seized", "deleted") as states of
their own, so that other steps fall in between.  `store` is the redis hash;
`inbox` holds, per process, the messages published and not yet delivered, in
order; `slot` is `client._handleLockResponseFn`; `listening` the calls whose
response listener is on the emitter.  `up` tells a process that was killed or has
thrown.  The history variables are `takeovers` (how often a timed-out call overwrote
a path's entry; `takenOver` are the paths it happened to), `answers` and `asked`.

Abstractions: keys and paths of one user are one identifier; commands of a
process that has died may still be run or not; messages reach every live process
in the order of the publishes; a command that redis answers with an error was not
run (a connection error ends the process by way of the 'error' event and is
`Kill`).  The branch of `handleLockRequest` that hands a lock over
is left out, because nothing sets `allowLockRequest`.  With `Prompt`, the timer
expires only when nothing about the path is on its way (`Quiet`): the timeout is
longer than the delays.  Without it the timer may expire at any time.

### SyncSession

The upstream half of `sync-protocol-handler.js` and `close()` of `client.js`, in
one process, over `LockService` (instantiated with the session's calls).  `object`
is the state of a lock object as the handler sees it; `after` what the callback
of a release goes on with; `work` the rsync operation under way; `awaiting`
whether `close()` waits for 'closable'; `phase` what the browser is doing, so
that a message arrives only when the browser would send it.  An exception nobody
catches sets `fault` and stops the process.

A browser means to have one sync under way, but looks at `currentSync` before two
asynchronous calls, and `handleSyncInitRequest()` does not look at all: browsers of
`MayDouble` may send a second SYNC while one is pending.  `Talks` are the conversations
that a session then has at once, `Main` the one that `currentSync` allows.  They share
the client object: its one `lock` (which `ensureLock()` accepts for any path), its
`closable` and its `close()`.  `doubled` remembers who did so.

Each step is one action, with its early returns and errors; the callback of an
asynchronous operation is an action of its own.  Malformed messages are left
out; so are the contents of files.  `HangUp` may come at any time for clients of
`MayHangUp`, `Shutdown` for those of `MayShutdown`; browsers of `MayAbandon` may
fail to list or diff their own file and go on to the next sync without telling
the server; clients of `MaySpoil` may send a diff without data, which throws in
`deserialize()`, before the `try`, or one that `rsync.patch()` throws on, which the `try`
only logs (`HandleSpoiledDiff`; `spoiled` remembers); and sending to those of `MayMiss` may
fail on an open socket, which `sendMessage()` answers by `close()`.

### Rsync

The block arithmetic of `lib/rsync/rsync-utils.js` and `patch.js`, on sequences of
bytes: `blockChecksums` on the destination's side, `roll` with its rolling weak
checksum on the source's, what of the result survives `JSON` and `new Buffer`
(`Deserializable`), and `getPatchedData`.  The first window is weighed over one
byte too many, as the code does; reading past the end gives `NaN`.  MD5 is taken
to be injective; the 16-bit hash only orders the search.  Each loop of the code is
a recursive function of its turns (`WeakTurn`, `RollTurn`), so that a module with
proofs may extend it.  `UndefinedAssumption`: JavaScript's `undefined` is no
sequence of numbers.

Because of that extra byte a block matches only after `Size + 1` zeros
(`RollSendsWholeFile` below): every other file is sent whole, which is correct, if
not what rsync is for.

### PathSync

The downstream syncs of one path, each asynchronous call an action: source list,
checksums, the question whether the path is locked, the diff and its second read
of the file, the comparison of versions, the conflicted copy, the write and its
time stamp, the browser's queue, the checksums and their verification.  Every
broadcast lists the path again, so several syncs (`Syncs`) run at once: `phase`, `list`,
`sums`, `diff`, `raw`, `needs`, `seen` and `report`, what closures and messages carry,
are functions over them; the file, the queue, the cached source lists and
`syncManager.downstreams` are shared.  In between the user writes the file through
the wrapped file system (`EditMark`, `EditQueue`, `EditWrite`, `EditFlag` are the
callbacks of `wrapMethod()`) or through a descriptor (`DescriptorWrite`, flagged and
not queued), another client locks, patches or deletes the server's, and an
upload that is refused for a downstream takes the path off the queue
(`ForcedDequeue`).  `StoreQueue` writes back the queue as it was read, which undoes what
was queued meanwhile; `MakeConflictedCopy` may find its name taken and replace the
copy.  A file may be unsynced and unqueued from the start (`loose`).  The options are
`rsyncDefaults`.  `BrowserFails` is any failing call of the browser: it asks for
a delay and nothing more.  Contents are sequences of bytes and times are numbers
(`EditsAssumption`, `TimesAssumption`).  History: `mine` (what the user last wrote),
`overlap`, `loose`, `halfway`, `clashed`, `raced`; and, for each sync, `disturbed`, `stale`
and `crossed`.

### SyncQueue

The upstream half of a browser: `wrapMethod()`, the queue `pathsToSync`, the calls
of `syncUpstream()`, and the message handlers, each with its asynchronous reads
and writes of the queue (`seen` is the queue as it was read).  A user operation,
a set of calls and a set of handlers are under way at once.  The server is what
SyncSession shows of it: it answers the head of `up`, may refuse, interrupt or
reject, and locks the old path of a rename (`Locked`).  The storage returns copies, so the flag `setSyncing()` puts on an
entry is never stored.  `BeginDescriptor` is a write to an open file, which the wrapped
file system flags and does not queue; `unqueued` are the files it left that
way.  What the storage does may fail: an operation after it was queued (`OpFails`), the
flag (`UnflagFails`), and the queue's reads and writes in a handler (`TaskFails`,
`TaskFault`), which logs that and returns with `currentSync` set.  `jammed` records the steps after which `currentSync` stays set; the
other history variables name the interleavings that `NothingForgotten` excludes.

### Connections

`connect()` and `disconnect()` of the API, the sync manager that opens and reopens
its socket, tokens, the handshake, the list of clients, `shutdown()`, and the
end and restart of the process.  A socket has one record, `ws`, for its network
state and the browser's handlers on it (`on` for onmessage, `onclose`), and one,
`cl`, for the client object of the server.  Losing one takes two steps, since
`readyState` changes before `onclose` runs: `manager.close()` behaves differently
in between.  Managers, sockets and tokens that nobody refers to any more are used
again, so that the state space is finite; `shown` and `granted` are reset when a
token is.  `busy` are the clients in a step that sets `closable`; SyncSession has
what happens in it.  Of its exceptions two end the process here: the double
release after a patch that a `close()` waits for (`Dies`), and any other, at any time, as
an event with a budget (`Crash`); `crashed` remembers.  An upload ends in `SyncNext`, which
goes on to the next one and throws when the connection was lost meanwhile; `thrown`
are the calls that threw, with the state of the API at that moment.  Messages that
`manager.send()` cannot send because the connection is lost in the middle of a
handler are left out.  `Walk` is the loop of `shutdown()`, a recursive function over
the index into a list that shrinks under it, and `Turn` its body.

### Downstream

The server's session of one browser: `outOfDate`, `currentDownstream`, the
listing at its start, broadcasts, and every downstream message, with the
browser's side of each; and the browser's own uploads as far as `outOfDate`
matters to them.  Each side answers by asynchronous calls, hence messages of a
direction are a bag.  Files are version numbers, and an entry carries the number
of its update (`no`), which the code does not have, to tell two updates of a path apart.
History: `told`, the paths whose last update the session heard of; `known`,
the versions of a path that the browser has had or compared with its own; `own.knew`,
whether the path was in `told` when the upload was accepted; and `late`, `unheard`,
`away`, `replaced`, `struck` and `held`, each named at its declaration.
`changed` are the paths that may be in `changesDuringDownstream`: a patch finds the change
and asks for the path again (`ResendChecksums`).  A diff that cannot be deserialized
throws in the browser, which then answers nothing (`BrowserThrows`).  The lock of an
own upload may be denied or fail (`OwnDenied`, `OwnFails`).  Other browsers are one
upload, rename or delete at a time, under the lock, which may fail or end with its process between
the release and the broadcast.

## Runs

| Run | Instance | Shows |
|---|---|---|
| lock_safety | 3 clients on 2 processes, one may be killed; 3 calls, 1 path; each client one call at a time | exclusion until a takeover, truth of the redis entry, no more holders than takeovers allow, callbacks once, no exception |
| lock_prompt | 2 clients on 2 processes, one may be killed, with `Prompt`, under fairness | a holder whose process lives and whose listener was there to be asked keeps its lock; every call is answered |
| lock_overlap | 2 clients on 2 processes, overlapping calls, redis errors | SyncLock implements LockService |
| lock_one_holder | `Prompt`, no kill, no error | *violated*: two live clients hold the lock of a path |
| session_safety | 2 clients, 3 calls, 2 paths; one client sends a second SYNC and may hang up; the other hangs up, is shut down, abandons, spoils a diff, is missed by a send | patches run under a lock of one's own, exclusively; `close()` waits for them; a release is of `client.lock`; what can end the process |
| session_upstream | the same on 1 path, one SYNC at a time, under fairness | every browser that waits is answered and every `close()` ends |
| session_double_release | one client may hang up | *violated*: a hang-up during a patch brings the process down |
| path_sync | two syncs at once; files of 1 or 3 bytes with blocks of 2, edits by path and by descriptor, uploads, faults, refused uploads in pairs; and every pair of files of up to 4 bytes over {0, 1, 2}, undisturbed | what the user wrote survives; a completed sync leaves the server's file; an undisturbed sync completes; a newer file is queued |
| path_sync_two_patches | the same, budgets as above | *violated*: a second patch remakes the conflicted copy from the file that the first overwrote |
| sync_queue | 2 paths, 2 calls, 2 handlers, up to 2 operations (by path or by descriptor) with a refusal, a fault of the storage, a cut or a doubled request each, and one of everything | a change is queued until the server has it; who waits for ever; the queue is worked off |
| connections | 2 managers, 3 sockets, 4 tokens; budgets of connects, disconnects, cuts, failed requests, expiries, syncs, patches, a shutdown, a crash, in pairs | one session per browser, no lockout, a token admits one, a shutdown calls back once, a browser gets connected |
| downstream | 2 paths, one of which may be outside of the root; up to 2 updates of others, with faults, edits, uploads and disconnections in pairs | updates are delivered or still listed, and nothing known is overwritten |

Bounds.  Two contenders and a third party are what the lock's scenarios take: a
holder, a call that takes over, and one that observes the result; the three calls
are also enough for a client to come back for a second lock.  Paths do not
interact in the lock (entries, messages and listeners are matched by path, except
for the per-client slot, which only the overlapping run exercises), hence one
path.  In the sessions three calls let one client leave a lock behind, or two be
granted to one browser, while both contend; two paths let a step of one run under the
lock of the other.  Liveness is checked on one path, without doubled SYNCs (which
StepsAnswered excludes) and without symmetry.

The other four modules have budgets: `left` counts, for each kind of event that
somebody chooses (an edit, an upload, a fault, a cut ...), how many may still
come, and each action that `Spend`s is bounded by it.  Their MC modules start from several
small budgets rather than one large one, so that every two kinds of events meet
in any order within minutes; MCSyncQueue also starts from one present file
only, where two operations meet a refusal or a doubled request.  In PathSync, blocks of 2 and files of up to 4 bytes
reach empty files, a short last block, two equal blocks, a match at the start, in
the middle and at the end, and `Size + 1` leading zeros; `MaxLen` bounds the
files.  In SyncQueue two paths suffice for a head of the queue and another entry,
and for a rename; two handlers for two overlapping writes of the queue.  In
Connections a second manager is one that `disconnect()` has left, a third
socket one that opens while two are closing; `Attempts` is 1, and the counter stops above it.
In Downstream a second path is what a wrong splice strikes.

The properties of these runs carve out what the code does not shield against, by
history variables that name the interleaving: `NothingForgotten` says which seven of
them lose a change of the user's; `EditKept` and `NewerFileIsQueued` that a directory which
comes in a file's place does, a patch that failed half-way, and a sync that copies or
compares what another one has just written (`raced`, `crossed`), and that a change is
flagged but unqueued (`loose`) after a write by descriptor or a refused upload; `Delivered`
which five lose an update (`late`, `unheard`, `replaced`, `struck`, `away`);
`ConnectedHasSocket` that a hasty `disconnect()` breaks a session, and that `syncNext()`
throws where the connection was lost before its sync had ended; `CutOnlyBehindIdle` which
clients a shutdown cuts off, short of a crash.  Each was found by TLC as a
counterexample of the property without it.

Three runs disagree with what comments of the code say; the findings in
PROJECT.json quote them.  The passing properties say what does hold: exclusion until a
takeover; the session properties for clients that are `Orderly`, that is neither overtaken
by a `close()` (`Overtaken`) nor `doubled`; and what becomes of the user's file.  Without
`Orderly`, TLC shows a lock granted to a closed client, which nobody releases; a
patch that starts while `close()` gives the lock back and runs on without it; and, of two
SYNCs, one that loses its lock to the end of the other.  `CloseWaitsForPatch` shows that
hang-ups alone, without `shutdown()`, never overtake a patch.  What can throw is in
`FaultHasCause`: a `close()`, a second SYNC, or a diff that cannot be read.

Deadlock is not checked: calls and budgets are finite and sessions end.

## Fairness

`SyncLock!Fairness`: redis answers every command, processes handle their
messages and expired timers.  Nobody is obliged to ask or to release.  Kills are
never fair.  `SyncSession!Fairness`: the lock service decides (which is what
EveryCallAnswered of SyncLock justifies), and callbacks of redis and of the file
system run.  Browsers are free to stop at any point.

`SyncQueue!Fairness`: callbacks run, messages arrive, the server answers, a lost
socket is reopened, and `sync.auto()` keeps asking, since `QueueDrains` is about
the queue under automatic syncs.  Faults, refusals and cuts are not fair and
finite.  `Connections!Fairness`: each socket's events and each manager's timers
happen, a patch ends (one that throws in the `try` never does: SyncSession has that),
and the cluster master replaces a worker that is gone; the
application, the network's failures and the timers of tokens are free.  PathSync
and Downstream are checked for safety only: their budgets run out, and
`QuietSyncCompletes` and `Delivered` say in which state they may stop.

## Proofs

SyncLockProofs proves, for every value of the constants that satisfies
`ConstantsAssumption` (any number of clients, processes, paths and calls):

* TypeCorrect, Exclusive, EntryTruthful, HoldersBounded: the type invariant, the
  exclusion, the truth of the entry and the bound on what a foreign release can do.
  `ExclusiveUntilTakeover` is not inductive by itself; `EntryInv` adds that on a
  path not taken over a call covers the path exactly if the entry names its client
  (so a second hsetnx loses), and that a call on its way to hset has not
  covered anything.  HoldersBounded is a count: an hsetnx adds a call and an entry, an
  hset a call and a takeover, and an hdel takes away its own call with the entry,
  whoever it named (`Bounded`, over the cardinality of `Covering`);
* NoFaultWhenSerial, AnsweredOnceWhenSerial: if no client has overlapping calls,
  no listener is removed twice and no callback runs twice, by `WaitInv`: a call
  waits exactly if it is its client's slot and has a listener on the emitter;
* AskedHolderKeepsLockWhenSerial: under the same assumption, and with messages faster
  than the timer, a lock that was there to hear a lock-request is not taken over
  while it is held.  `AskedInv` follows the request: as long as the caller waits,
  each running holder of the path that it asked has the lock-request in its inbox or
  has sent a denial that the caller has still to read, so `Timeout` finds a message
  under way; a call that was asked has held its lock and never holds it again;
* Implementation: every behaviour of SyncLock is one of LockService under the
  mapping `Outcome`; a denial maps to `Deny` of all the calls that the message
  reaches, for which `CauseInv` supplies the lock that denied them, in the past if
  not now.

SyncSessionProofs proves, for any number of clients, paths and calls, and whoever
may hang up, be shut down or abandon a sync (`SessionAssumption`): TypeCorrect,
PatchIsUnderLock, PatchIsExclusive, CloseWaits, ReleaserHolds, FaultTakesCause.
They hold with any number of SYNCs of a browser in flight, any of whose diffs may throw.
None of them is inductive.  `Inv` has two halves:

* `SafeInv` holds whatever happens: what a call has come to fits its object
  (`OutcomeInv`), a client's lock came from a call of its own (`OwnerInv`), nobody is at the
  other end of a closed session (`GoneInv`), and two granted calls share a path only if it
  was broken (`ExclusionInv`, from the guard of `Lock!Grant`);
* `SessionInv` is the state machine of each session that is not `doubled`, as long as
  nothing has thrown: it has one talk (`OneTalk`), and it serves, with `closable`, `work` and
  the lock fitting the browser's phase (`Serving`); or it drains, its close() waiting
  for the patch under way (`Draining`); or close() has overtaken it (`Overrun`), which
  only a shutdown does under a patch, while a browser that still waits is never
  answered (`Muted`).

A step is first shown to leave the other sessions alone (`Touches`, `Apart`, `Alone`), then to
keep its own session's condition, one lemma for each action (`Own...`).  For
FaultTakesCause the same conditions say that a session which serves has the lock that
its step gives back (`Caused`, for the step that throws).  A fault is the end of the
machine, so CloseWaitsForPatch and FaultHasCause stand beside it in `Inv`.

ConnectionsProofs proves, for any sets of managers, sockets and tokens and any
limit of attempts: OneSessionHolds, ConnectedHasSocketHolds, TokenAdmitsOnceHolds.
The first two need `Inv`: a live socket has one owner, which has no second one and
no timer (`Owned`); a manager's socket is a live one of its own that has been
open (`SocketOf`); a socket that carries messages is its owner's
(`Attached`); and, as long as no `disconnect()` was hasty, every manager but the
API's is on its way out (`NoneLeft`) and a connected state has its socket
(`Session`).  All steps of the server and the network are one case:
they move sockets towards their end and leave the browser alone
(`ServerMoves`).  TokenAdmitsOnceHolds has an invariant of its own: a token still in
the table has admitted nobody.

PathSyncProofs proves, for any finite number of syncs at once, any block size, contents, times
and budgets: TypeCorrect, EditKeptHolds, CompletedInSyncHolds, NewerFileIsQueuedHolds; and, for blocks
of up to 256 bytes (`rsyncDefaults.size` is 5), RollSendsWholeFile and QuietSyncCompletesHolds.
The first ones have each an inductive invariant that says, phase by phase, what the steps
so far have secured; each has a part about the file, and one about every sync:

* `KeptInv` (`KeptFile`, `KeptBy(c)`): without an overlap no write of the user's is under way
  while a patch is; so what one sync saw of the flag holds, or another has copied the file
  since, and from a sync's conflicted copy on, `mine` is one of `copies`, unless it was `raced`; if
  no copy was made, the file is newer (`needs`) and stays queued; and a write by path is
  queued before it happens;
* `SyncInv` (`SyncAt(c)`): as long as nothing made the sync `stale` or `crossed`, the file is
  not unsynced when `generateChecksums()` comes to it, so the report is of the file itself, and
  what the server compares with its own node is what the browser has.  A step
  of another sync is framed by what it `Made` of the file and whom it `Crosses`;
* `NewerInv` (`NewerFile`, `NewerBy(c)`): outside of a patch, a file that is neither queued nor
  `loose` has no stamp but its own content's; so if it looks newer and its stamp is the server's
  checksum, it is the server's file.

TypeCorrect counts the syncs that are tracked, none of which `downs` misses (`TrackShapes`,
`Counted`).  These three use nothing of what `roll` and `getPatchedData` compute: a patch may write
anything, since the verification is what finds it out.  TypeCorrect needs only that
`roll` answers with entries and that patching writes bytes (`RollType`, `PatchedType`,
with `SyncShapes` for what is on its way).  QuietSyncCompletesHolds is about the
computation itself, in three layers:

* `WeakOfWindowIsLoop` and `RolledSums`: the loops of `calcWeak32` and of the windows are
  functions whose turns are `WeakTurn` and `rollWeak32`, and the weak value of
  every window is, modulo `N`, the sums of its own bytes, plus those of the extra byte
  that the first window took in and, in `b`, the first window's bytes once more:
  no later step takes them out again;
* `NoMatch`: so it equals the weak checksum of the same bytes in a block only if that byte
  is zero and the first `Size` bytes add up to a multiple of `N`.  Up to 256 bytes
  cannot reach `N`, so they are zeros, and the file is `ZeroLed`.  RollSendsWholeFile:
  no window matches, and the one entry is the file;
* `QuietInv` (`QuietAt(c)`): an undisturbed sync is alone (`Alone`), its diff is the server's whole file
  (`Whole`), the patch makes the browser's equal to it (`Equal`), and it reports that.  `SameKind`
  says of what stays cached from syncs that ended early that it is of the same kind of
  node, so that a sync which is sent for once more is not sent for as something else.

The proof of `NewerInv`
showed the exception for a directory, which takes a run with three uploads and two
syncs to meet: `PatchDir` dequeues a file that it did not replace.

SyncQueueProofs proves, for any sets of paths, calls and handlers and any budget:
TypeCorrect, QueuedOnceHolds, StuckOnlyIfJammedHolds, NothingForgottenHolds.

* `TypeInv` types the entries and messages more finely than `TypeOK` (a rename, and
  nothing else, has an old path; only a create is summed and diffed);
* `RaceInv` adds to QueuedOnce that what an operation or a handler has read of the
  queue still is the queue when it writes it back;
* `StuckInv`: a manager with a `currentSync` has something under way that ends it, a
  final answer, a handler that does, a request, or a lock with a message or handler
  that works on it;
* `CleanInv` says of the undisturbed runs that the sync under way is a baton which
  is in one hand at a time (`BatonInv`: a request, a lock with one step of its path,
  a final answer or the handler that ends it; what that handler took off the queue
  is what was synced), and what a file owes the queue (`FileInv`: an entry of the
  queue has files of its kind, the paths of two entries do not overlap, a path
  without entry is as the server has it; `UnstoredFile` is the file of an operation not
  yet queued).  The failures of the storage keep it, since each of them either ends the
  baton with the sync still current (`FailsBaton`) or is named in `lapses`.

This proof corrected the model: `late` used to name only the handlers that come too
late, and the server, whose `ensureLock()` asks for a lock but not for which path,
could serve a step of one sync under the lock of another.  `StepOf` now
sets `late` there as well.

ConnectionsServerProofs continues ConnectionsProofs on the server's side:
ServerInvHolds, TypeCorrect, SessionHasInfoHolds, ShutdownOnceHolds,
CutOnlyBehindIdleHolds, NotLockedOutHolds.  ShutdownOnce and CutOnlyBehindIdle except a
process that crashes.  `ServerInv` says how a client object follows its
socket (`Served`), that a token names at most one client and stays shown
(`Named`) and keeps its info (`InfoKept`), that a running server lists all its
clients (`Listed`), and, once it shuts down, that those counted and those awaited are
no more than there were (`Counting`) and that the rest stood behind an idle client
(`PassedOver`).  ShutdownOnceHolds and CutOnlyBehindIdleHolds start from the loop: `Passed` is the invariant of
`Turn`, over an index that runs on while the list shrinks.
NotLockedOut needs both sides: `WayOut` is a manager that wants a session and has a
timer or a live socket that has something to do, and `Told` follows the token to the
server and the answer back.

DownstreamProofs proves, for any finite set of paths, any sync root and any budget:
TypeCorrect, DeliveredHolds, NoKnownOverwriteHolds, LeftOnlyIfHeldHolds.  Each step
is first shown to be of one of a few kinds (`Step`): it passes an entry on (`Relay`),
applies an update to the browser's files (`Applies`), removes an entry of `outOfDate` (`Removes`),
or is an action of its own.  `Base` is common to all:

* `TypeInv` says which messages there can be: a create is listed, summed and
  diffed, a rename or delete is sent at once, only a path outside of the root is answered
  by `root`;
* `Fresh`: an update under way is newer than all that the session works on, so that
  the entry it adds is no other's; `Distinct` then says that `outOfDate` has no entry twice.

DeliveredHolds adds `AllAccounted`, the reasons a file may differ from the server's:
those of Delivered, an update not yet published, a listing not yet made, or an
entry that nobody has answered for (`Pending`).  NoKnownOverwriteHolds adds `Heard`: for every path
the session was told of, either the browser has had the server's version, or an
entry is listed and what is under way about it leads there (`Hearing`); so a path that
handleSyncInitRequest() finds in no entry is known, and stays so up to the
patch (`Knew`).  LeftOnlyIfHeldHolds counts: each
entry of a path that is not `held` has a source list or a message of its own (`Retried`,
over `Count`, the copies in a bag; a resend keeps the count, and a diff that throws makes
its path `held`), and an answer that is spent removes an entry.
Since `handleRootResponse()` removes one only while `currentDownstream` is not at zero, a
second inequality bounds the entries of a path outside of the root by its
current syncs.

This proof corrected the model twice: a late delete of a file that another browser
has written again, and an answer to a duplicate of an entry equal in all but the
time it was made, both lose an update with nothing in the old histories to show it.
Entries now carry the number of their update (`no`), and `told` and `known` replace
the versions that were compared before.

ListProofs has the lemmas about lists that these share: what appending, removing
and finding the first element do, the least element of a set of indexes, the
existence of the function that a loop is (`LoopExists`), and what FlattenSeq makes of
sequences.

Only checked by TLC: liveness (EveryCallAnswered, StepsAnswered, CloseCompletes,
QueueDrains, EventuallyConnected), which this prover cannot do, and the three runs that
expect a violation.  Every invariant and every action property of the other runs is a
theorem.  The induction principles of the library take an operator as a parameter,
which the provers cannot instantiate; for the recursive functions that a proof needs
(`Walk`, and the loops of Rsync), their existence and the invariant of their turns
are shown by the least index at which they would fail (`UpTo` in ListProofs).

## Plan

Done: LockService, SyncLock, SyncSession; Rsync, PathSync, SyncQueue,
Connections, Downstream; the proofs above.  Next: a rename under the lock of its old
path, against an upload of the new one.

## Not modelled

* HTTP views, authentication providers, middleware, logging, settings, image
  finding: I/O without shared state.  `client/dist`, the demo and the views:
  generated or presentation.
* Connecting to redis and closing the connections (`redis-clients.js` start and
  close): start-up and the last step of a shutdown, with nothing else under way.
* Message encoding (`lib/syncmessage.js`) and the answers to messages that do not
  parse: every message is well formed.  What JSON does to diffs is modelled.
* `setRoot()` of the sync file system, and the rename of a conflicted copy, which
  removes its attribute and turns its entry of the queue into one of a new file.
* rsync options that MakeDrive never sets (recursive, links), and the lists of
  partial directories in `patch.js`, which only a recursive sync reads.
* The application's event listeners, and statistics (ClientInfo counters, sync
  durations).
