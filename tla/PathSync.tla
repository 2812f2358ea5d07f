------------------------------ MODULE PathSync ------------------------------
(***************************************************************************)
(* A downstream sync of one path, step by step: the server lists its node, *)
(* the browser sends the checksums of its own, the server looks at the     *)
(* lock and answers with diffs, the browser patches, takes the path off    *)
(* its queue, stamps the file, and the server verifies what it was told.   *)
(*                                                                         *)
(* Each asynchronous call of the code is a step.  Between the steps the    *)
(* user writes to the file through the wrapped file system, and other      *)
(* clients of the user patch the server's file (or delete it) under their  *)
(* lock.  The patch is modelled under rsyncDefaults: size, time,           *)
(* superficial and versions on, recursive and links off.                   *)
(*                                                                         *)
(* Every broadcast lists all that is out of date once more, so several     *)
(* syncs of the path run at once: they share the browser's file, its queue *)
(* and what it tracks, and each has messages and closures of its own.      *)
(* Downstream has the server's lists, and SyncQueue the browser's uploads; *)
(* of these only the refused one is here, which forces the path off the    *)
(* queue.  MD5 of a file is the file.                                      *)
(***************************************************************************)
EXTENDS Rsync

CONSTANTS Syncs,       \* the syncs of the path
          None,        \* no version stamp, no edit
          Times,       \* modification times, a set of numbers
          Edits        \* what the user and the other clients may write

ASSUME SyncsAssumption == IsFiniteSet(Syncs)
ASSUME TimesAssumption == Times \subseteq Nat
ASSUME EditsAssumption == Edits \subseteq Seq(Byte)

VARIABLES
  srv,      \* the server's node: kind, data, mtime
  locked,   \* another client's lock on the path is in redis
  node,     \* the browser's node: kind, data, mtime, unsynced and stamp (xattrs)
  copies,   \* the contents of the conflicted copies beside it
  queued,   \* the path is in the browser's pathsToSync
  cache,    \* source lists of tracked syncs (trackedPaths, sourceListCache)
  changed,  \* the path is in changesDuringDownstream
  downs,    \* how often it is in syncManager.downstreams
  \* for each sync
  phase,    \* how far it is
  list,     \* the source node in the message or closure: kind, mtime
  sums,     \* the browser's block checksums
  diff,     \* the diff node: diffs, modified, checksum
  raw,      \* the file as patchFile() read it
  needs,    \* the path is in paths.needsUpstream
  seen,     \* the path was in the queue that was read
  report,   \* the checksums sent for verification, a sequence of at most one
  \* the user
  edit,     \* the user's write in progress: pc, data
  left,     \* bounds: edits, uploads, faults, syncs and refusals to come
  \* history, read only by the properties
  mine,     \* what the user last wrote to the file, None if never
  overlap,  \* an edit and a patch were under way at the same time
  loose,    \* the file was last written, or taken off the queue, unqueued
  halfway,  \* a patch failed between writing the file and stamping it
  clashed,  \* a directory was patched over a file: mkdir() says EEXIST
  raced,    \* a sync wrote the file when another was about to copy it
  \* ... and for each sync
  disturbed,\* an edit, an upload, a fault or another sync since it started
  stale,    \* an edit since the patch began, or an upload since the verification
  crossed   \* another sync wrote the file after this one relied on it

server  == <<srv, locked>>
browser == <<node, copies, queued, cache, changed, downs>>
chain   == <<list, sums, diff, raw, needs, seen, report>>
causes  == <<overlap, loose, halfway, clashed, raced>>
marks   == <<disturbed, stale, crossed>>
history == <<mine, causes, marks>>
vars    == <<server, browser, phase, chain, edit, left, history>>

Kinds  == {"NONE", "FILE", "DIRECTORY"}
Patching == {"reading", "comparing", "checking", "copying", "clearing", "writing",
             "timing", "unqueuing", "storing", "stamping"}
Ended  == {"idle", "unlisted", "completed", "interrupted", "delayed", "threw"}
Phases == Ended \cup Patching
          \cup {"start", "listed", "summed", "asking", "diffing", "diffed", "refused",
                "answered", "patched", "verified", "mismatched"}

Absent == [kind |-> "NONE", data |-> <<>>, mtime |-> 0]
BrowserAbsent == [kind |-> "NONE", data |-> <<>>, mtime |-> 0,
                  unsynced |-> FALSE, stamp |-> None]
NoEdit == [pc |-> "idle", data |-> <<>>]
NoList == [kind |-> "NONE", mtime |-> 0]
NoDiff == [diffs |-> <<>>, modified |-> 0, checksum |-> <<>>]

ServerNodes(contents) ==
  {Absent} \cup [kind : {"FILE"}, data : contents, mtime : Times]
           \cup [kind : {"DIRECTORY"}, data : {<<>>}, mtime : Times]

\* A file that was not synced may carry the stamp of the version it had; one
\* that is synced has its own.
BrowserNodes(contents) ==
  {BrowserAbsent}
  \cup {n \in [kind : {"FILE"}, data : contents, mtime : Times, unsynced : BOOLEAN,
               stamp : contents \cup {None}] : n.unsynced \/ n.stamp \in {None, n.data}}
  \cup [kind : {"DIRECTORY"}, data : {<<>>}, mtime : Times, unsynced : {FALSE},
        stamp : {None}]

\* A file that was not synced is in the queue as well (wrapMethod), unless it
\* was written through a descriptor, or a refused upload took it out.
InitWith(servers, browsers, bounds) ==
  /\ srv \in servers
  /\ node \in browsers
  /\ queued \in {node.unsynced, FALSE} /\ loose = (node.unsynced /\ ~queued)
  /\ mine = IF node.unsynced THEN node.data ELSE None
  /\ left = bounds
  /\ locked = FALSE /\ copies = {} /\ cache = <<>> /\ changed = FALSE /\ downs = 0
  /\ phase = [c \in Syncs |-> "idle"] /\ list = [c \in Syncs |-> NoList]
  /\ sums = [c \in Syncs |-> <<>>] /\ diff = [c \in Syncs |-> NoDiff]
  /\ raw = [c \in Syncs |-> <<>>] /\ needs = [c \in Syncs |-> FALSE]
  /\ seen = [c \in Syncs |-> FALSE] /\ report = [c \in Syncs |-> <<>>]
  /\ edit = NoEdit
  /\ overlap = FALSE /\ halfway = FALSE /\ clashed = FALSE /\ raced = FALSE
  /\ disturbed = [c \in Syncs |-> FALSE] /\ stale = [c \in Syncs |-> FALSE]
  /\ crossed = [c \in Syncs |-> FALSE]

-----------------------------------------------------------------------------
(* Helpers *)

Moves(c, to) == phase' = [phase EXCEPT ![c] = to]
Trans(c, from, to) == phase[c] = from /\ Moves(c, to)

Spend(what) == left[what] > 0 /\ left' = [left EXCEPT ![what] = @ - 1]

\* A sync other than c is in one of the phases.
OtherIn(c, phases) == \E d \in Syncs \ {c} : phase[d] \in phases

Everyone == [c \in Syncs |-> TRUE]

\* trackChanges() and untrackChanges().  The latter forgets the change only
\* if the path was tracked.
trackChanges(c) == cache' = Append(cache, list[c])
untrackChanges ==
  IF cache = <<>> THEN UNCHANGED <<cache, changed>>
  ELSE cache' = Tail(cache) /\ changed' = FALSE

\* getChecksum(): the content, and "" (here None) for a node that is absent.
getChecksum(n) == IF n.kind = "NONE" THEN None ELSE n.data

-----------------------------------------------------------------------------
(* The server *)

\* syncDownstream() and sendSourceList(): a sync of the path begins, however
\* many there are of it.
NewSync(c) ==
  /\ list' = [list EXCEPT ![c] = NoList] /\ sums' = [sums EXCEPT ![c] = <<>>]
  /\ diff' = [diff EXCEPT ![c] = NoDiff] /\ raw' = [raw EXCEPT ![c] = <<>>]
  /\ needs' = [needs EXCEPT ![c] = FALSE] /\ seen' = [seen EXCEPT ![c] = FALSE]
  /\ report' = [report EXCEPT ![c] = <<>>]

\* What may disturb a sync from its start: an edit, a lock, another sync, or a
\* list that a sync which was given up left behind, of a node of another kind.
Unquiet(c) ==
  \/ edit.pc # "idle" \/ locked
  \/ OtherIn(c, Phases \ Ended)
  \/ \E i \in DOMAIN cache : cache[i].kind # srv.kind

SyncDownstream(c) ==
  /\ phase[c] \in Ended
  /\ Moves(c, "start")
  /\ Spend("syncs")
  /\ NewSync(c)
  /\ disturbed' = [Everyone EXCEPT ![c] = Unquiet(c)]
  /\ crossed' = [crossed EXCEPT ![c] = FALSE]
  /\ UNCHANGED <<server, browser, edit, mine, causes, stale>>

\* generateSourceListResponse(): without a node there is no list, and the
\* browser only logs the error.
SendSourceList(c) ==
  /\ phase[c] = "start"
  /\ IF srv.kind = "NONE"
     THEN Moves(c, "unlisted") /\ UNCHANGED list
     ELSE /\ Moves(c, "listed")
          /\ list' = [list EXCEPT ![c] = [kind |-> srv.kind, mtime |-> srv.mtime]]
  /\ UNCHANGED <<server, browser, sums, diff, raw, needs, seen, report, edit, left, history>>

\* handleDiffRequest(): isUserLocked() is asked, then the diffs are generated.
CheckLock(c) ==
  /\ Trans(c, "asking", IF locked THEN "refused" ELSE "diffing")
  /\ UNCHANGED <<server, browser, chain, edit, left, history>>

\* redis fails while it is asked.
CheckLockFails(c) ==
  /\ Trans(c, "asking", "refused")
  /\ Spend("faults")
  /\ disturbed' = Everyone
  /\ UNCHANGED <<server, browser, chain, edit, mine, causes, stale, crossed>>

\* rsync.diff(), up to the first read of the file.
ReadForDiff(c) ==
  /\ phase[c] = "diffing"
  /\ IF srv.kind = "NONE" \/ (srv.kind = "DIRECTORY" /\ list[c].kind = "FILE")
     THEN Moves(c, "refused") /\ UNCHANGED diff
     ELSE IF srv.kind = "DIRECTORY"
     THEN Moves(c, "answered") /\ diff' = [diff EXCEPT ![c] = NoDiff]
     ELSE /\ Moves(c, "diffed")
          /\ diff' = [diff EXCEPT ![c] = [diffs    |-> roll(srv.data, sums[c]),
                                          modified |-> list[c].mtime,
                                          checksum |-> <<>>]]
  /\ UNCHANGED <<server, browser, list, sums, raw, needs, seen, report, edit, left, history>>

\* appendChecksum() reads the file a second time.
AppendChecksum(c) ==
  /\ Trans(c, "diffed", "answered")
  /\ diff' = [diff EXCEPT ![c].checksum = getChecksum(srv)]
  /\ UNCHANGED <<server, browser, list, sums, raw, needs, seen, report, edit, left, history>>

\* Mutant: only the types of the two nodes are compared.
SameContents_TypesOnly(c) == report[c] = <<>> \/ report[c][1].kind = srv.kind

\* handlePatchResponse() and compareContents().
SameContents(c) ==
  report[c] = <<>> \/ /\ report[c][1].kind = srv.kind
                      /\ report[c][1].data = getChecksum(srv)

ComparePatch(c) ==
  /\ Trans(c, "patched", IF SameContents(c) THEN "verified" ELSE "mismatched")
  /\ UNCHANGED <<server, browser, chain, edit, left, history>>

-----------------------------------------------------------------------------
(* The browser's side of the sync *)

\* Mutant: the path is not pushed on syncManager.downstreams.
Checksums_NotPushed(c) ==
  /\ phase[c] = "listed"
  /\ IF list[c].kind = "FILE" /\ node.kind = "DIRECTORY"
     THEN Moves(c, "delayed") /\ UNCHANGED sums
     ELSE /\ Moves(c, "summed")
          /\ sums' = [sums EXCEPT ![c] = IF list[c].kind = "FILE"
                                         THEN blockChecksums(node.data) ELSE <<>>]
  /\ UNCHANGED <<server, browser, list, diff, raw, needs, seen, report, edit, left, history>>

\* sendChecksums(): the block checksums of the browser's file.
Checksums(c) ==
  /\ phase[c] = "listed"
  /\ downs' = downs + 1
  /\ IF list[c].kind = "FILE" /\ node.kind = "DIRECTORY"
     THEN Moves(c, "delayed") /\ UNCHANGED sums
     ELSE /\ Moves(c, "summed")
          /\ sums' = [sums EXCEPT ![c] = IF list[c].kind = "FILE"
                                         THEN blockChecksums(node.data) ELSE <<>>]
  /\ UNCHANGED <<server, node, copies, queued, cache, changed, list, diff, raw, needs, seen,
                 report, edit, left, history>>

\* ... and its callback.
SendChecksums(c) ==
  /\ Trans(c, "summed", "asking")
  /\ trackChanges(c)
  /\ UNCHANGED <<server, node, copies, queued, changed, downs, chain, edit, left, history>>

\* handleDiffResponse(): the diffs that cannot be deserialized throw, and a
\* path that changed since it is tracked is sent for once more.  What comes
\* out of the cache is the first list that was tracked, of whichever sync.
HandleDiffResponse(c) ==
  /\ phase[c] = "answered"
  /\ IF ~Deserializable(diff[c].diffs)
     THEN Moves(c, "threw") /\ UNCHANGED <<cache, changed, list, overlap, stale>>
     ELSE /\ untrackChanges
          /\ IF changed
             THEN /\ Moves(c, "listed")
                  /\ list' = [list EXCEPT ![c] = Head(cache)]
                  /\ UNCHANGED <<overlap, stale>>
             ELSE /\ Moves(c, "reading")
                  /\ overlap' = (overlap \/ edit.pc # "idle")
                  /\ stale' = [stale EXCEPT ![c] = (edit.pc # "idle")]
                  /\ UNCHANGED list
  /\ UNCHANGED <<server, node, copies, queued, downs, sums, diff, raw, needs, seen, report,
                 edit, left, mine, loose, halfway, clashed, raced, disturbed, crossed>>

\* patchNode(): a directory is made, or was there; a file is read.  (roll()
\* records something for every file, so "nothing to patch" does not arise.)
PatchDir(c) ==
  /\ list[c].kind = "DIRECTORY"
  /\ Trans(c, "reading", "unqueuing")
  /\ needs' = [needs EXCEPT ![c] = FALSE]
  /\ node' = IF node.kind = "NONE"
             THEN [BrowserAbsent EXCEPT !.kind = "DIRECTORY"] ELSE node
  /\ clashed' = (clashed \/ node.kind = "FILE")
  /\ UNCHANGED <<server, copies, queued, cache, changed, downs, list, sums, diff, raw, seen,
                 report, edit, left, mine, overlap, loose, halfway, raced, marks>>

PatchFile(c) ==
  /\ list[c].kind = "FILE"
  /\ Trans(c, "reading", CASE node.kind = "NONE" -> "checking"
                           [] node.kind = "FILE" -> "comparing"
                           [] node.kind = "DIRECTORY" -> "delayed")
  /\ raw' = [raw EXCEPT ![c] = node.data]
  /\ needs' = [needs EXCEPT ![c] = FALSE]
  /\ UNCHANGED <<server, browser, list, sums, diff, seen, report, edit, left, history>>

\* compareVersions(): a file that is newer than the server's, and that was
\* last synced in the server's version, is left for an upstream sync.
IsNewerVersion(c) ==
  node.mtime > diff[c].modified /\ node.stamp # None /\ node.stamp = diff[c].checksum

\* The sync has written the file and not stamped it yet.
Restamping(c) == phase[c] \in {"timing", "unqueuing", "storing", "stamping"} /\ ~needs[c]

CompareVersions(c) ==
  /\ Trans(c, "comparing", IF IsNewerVersion(c) THEN "unqueuing" ELSE "checking")
  /\ needs' = [needs EXCEPT ![c] = IsNewerVersion(c)]
  /\ crossed' = [crossed EXCEPT ![c] = IsNewerVersion(c) /\ \E d \in Syncs \ {c} : Restamping(d)]
  /\ UNCHANGED <<server, browser, list, sums, diff, raw, seen, report, edit, left, mine, causes,
                 disturbed, stale>>

\* Mutant: no conflicted copy of an unsynced file.
CheckUnsynced_NoCopy(c) ==
  /\ Trans(c, "checking", "writing")
  /\ UNCHANGED <<server, browser, chain, edit, left, history>>

\* maybeGenerateConflicted()
CheckUnsynced(c) ==
  /\ Trans(c, "checking", IF node.unsynced THEN "copying" ELSE "writing")
  /\ UNCHANGED <<server, browser, chain, edit, left, history>>

\* The copy has the second in its name, and replaces one of the same second.
MakeConflictedCopy(c) ==
  /\ Trans(c, "copying", "clearing")
  /\ \/ copies' = copies \cup {node.data}
     \/ \E old \in copies : copies' = (copies \ {old}) \cup {node.data}
  /\ UNCHANGED <<server, node, queued, cache, changed, downs, chain, edit, left, history>>

RemoveUnsynced(c) ==
  /\ Trans(c, "clearing", "writing")
  /\ node' = [node EXCEPT !.unsynced = FALSE]
  /\ UNCHANGED <<server, copies, queued, cache, changed, downs, chain, edit, left, history>>

\* The sync has reported the file as it is, or has left it because it is newer.
Relies(c) ==
  \/ phase[c] \in {"patched", "verified", "completed"}
  \/ phase[c] \in {"unqueuing", "storing", "stamping"} /\ needs[c]

\* writeFile() keeps the xattrs of a file that is there; its time is now.
\* Another sync may have made a directory since the file was found missing.
ApplyPatch(c) ==
  /\ phase[c] = "writing"
  /\ IF node.kind = "DIRECTORY"
     THEN Moves(c, "delayed") /\ UNCHANGED <<node, raced, crossed>>
     ELSE /\ Moves(c, "timing")
          /\ \E now \in Times :
               node' = [node EXCEPT !.kind = "FILE", !.mtime = now,
                                    !.data = getPatchedData(raw[c], diff[c].diffs)]
          /\ raced' = (raced \/ OtherIn(c, {"copying"}))
          /\ crossed' = [d \in Syncs |-> crossed[d] \/ (d # c /\ Relies(d))]
  /\ UNCHANGED <<server, copies, queued, cache, changed, downs, chain, edit, left, mine, overlap,
                 loose, halfway, clashed, disturbed, stale>>

UpdateModifiedTime(c) ==
  /\ Trans(c, "timing", "unqueuing")
  /\ node' = [node EXCEPT !.mtime = diff[c].modified]
  /\ UNCHANGED <<server, copies, queued, cache, changed, downs, chain, edit, left, history>>

\* After the patch the path leaves the queue, unless it needs upstream: the
\* queue is read ...
ReadQueue(c) ==
  /\ Trans(c, "unqueuing", "storing")
  /\ seen' = [seen EXCEPT ![c] = queued]
  /\ UNCHANGED <<server, browser, list, sums, diff, raw, needs, report, edit, left, history>>

\* Mutant: a path that needs upstream leaves the queue as well.
StoreQueue_NeedsIgnored(c) ==
  /\ Trans(c, "storing", "stamping")
  /\ queued' = FALSE
  /\ UNCHANGED <<server, node, copies, cache, changed, downs, chain, edit, left, history>>

\* ... and written back as it was read, without the path.  Whatever came between
\* the two is undone.
StoreQueue(c) ==
  /\ Trans(c, "storing", "stamping")
  /\ queued' = (needs[c] /\ seen[c])
  /\ UNCHANGED <<server, node, copies, cache, changed, downs, chain, edit, left, history>>

\* generateChecksums(paths.synced, stamp): an unsynced path is left out.
GenerateChecksums(c) ==
  /\ Trans(c, "stamping", "patched")
  /\ IF needs[c] \/ (node.kind = "FILE" /\ node.unsynced)
     THEN report' = [report EXCEPT ![c] = <<>>] /\ UNCHANGED node
     ELSE /\ report' = [report EXCEPT ![c] = <<[kind |-> node.kind, data |-> getChecksum(node)]>>]
          /\ node' = [node EXCEPT !.stamp = IF node.kind = "FILE" THEN getChecksum(node)
                                            ELSE @]
  /\ UNCHANGED <<server, copies, queued, cache, changed, downs, list, sums, diff, raw,
                 needs, seen, edit, left, history>>

\* handleVerificationResponse()
HandleVerification(c) ==
  /\ Trans(c, "verified", "completed")
  /\ downs' = downs - 1
  /\ UNCHANGED <<server, node, copies, queued, cache, changed, chain, edit, left, history>>

\* handleDownstreamError(): error.verification, error.diffs, downstreamLocked.
HandleDownstreamError(c) ==
  /\ phase[c] \in {"mismatched", "refused"}
  /\ Moves(c, "interrupted")
  /\ downs' = IF downs > 0 THEN downs - 1 ELSE 0
  /\ untrackChanges
  /\ UNCHANGED <<server, node, copies, queued, chain, edit, left, history>>

\* A file system call of the browser fails: it asks the server for a delay.
BrowserFails(c) ==
  /\ phase[c] \in {"summed"} \cup Patching
  /\ Moves(c, "delayed")
  /\ Spend("faults")
  /\ disturbed' = Everyone
  /\ halfway' = (halfway \/ phase[c] \in {"timing", "unqueuing", "storing", "stamping"})
  /\ UNCHANGED <<server, browser, chain, edit, mine, overlap, loose, clashed, raced, stale,
                 crossed>>

\* handleForcedDownstream(): an upload of the path is refused while the server
\* has it listed, and the path is taken off the queue.
ForcedDequeue ==
  /\ queued /\ \E c \in Syncs : phase[c] # "idle"
  /\ Spend("refusals")
  /\ queued' = FALSE /\ loose' = TRUE
  /\ UNCHANGED <<server, node, copies, cache, changed, downs, phase, chain, edit, mine, overlap,
                 halfway, clashed, raced, marks>>

-----------------------------------------------------------------------------
(* The user writes the file: wrapMethod('writeFile'), wrapMethod('write') *)

\* What a write may have to do with: every sync is disturbed, and a patch that
\* is under way overlaps.
Starts ==
  /\ edit.pc = "idle"
  /\ Spend("edits")
  /\ disturbed' = Everyone /\ stale' = Everyone
  /\ overlap' = (overlap \/ \E c \in Syncs : phase[c] \in Patching)
  /\ UNCHANGED <<server, node, copies, queued, cache, downs, phase, chain, mine, halfway,
                 clashed, raced, crossed>>

\* isConflictedCopy(), then the change is noted if the path is tracked.
EditMark ==
  /\ Starts
  /\ node.kind # "DIRECTORY"
  /\ \E d \in Edits : edit' = [pc |-> "queuing", data |-> d]
  /\ changed' = (changed \/ cache # <<>>)
  /\ UNCHANGED loose

\* Through a descriptor the write is neither noted nor queued.
DescriptorWrite ==
  /\ Starts
  /\ node.kind = "FILE"
  /\ \E d \in Edits : edit' = [pc |-> "writing", data |-> d]
  /\ loose' = TRUE
  /\ UNCHANGED changed

EditQueue ==
  /\ edit.pc = "queuing"
  /\ edit' = [edit EXCEPT !.pc = "writing"]
  /\ queued' = TRUE /\ loose' = FALSE
  /\ UNCHANGED <<server, node, copies, cache, changed, downs, phase, chain, left, mine, overlap,
                 halfway, clashed, raced, marks>>

EditWrite ==
  /\ edit.pc = "writing"
  /\ IF node.kind = "DIRECTORY"
     THEN edit' = NoEdit /\ UNCHANGED node
     ELSE /\ edit' = [edit EXCEPT !.pc = "flagging"]
          /\ \E now \in Times :
               node' = [node EXCEPT !.kind = "FILE", !.data = edit.data, !.mtime = now]
  /\ UNCHANGED <<server, copies, queued, cache, changed, downs, phase, chain, left, history>>

EditFlag ==
  /\ edit.pc = "flagging"
  /\ node' = [node EXCEPT !.unsynced = TRUE]
  /\ mine' = edit.data
  /\ edit' = NoEdit
  /\ UNCHANGED <<server, copies, queued, cache, changed, downs, phase, chain, left, causes,
                 marks>>

-----------------------------------------------------------------------------
(* Another client's upstream sync of the path: see SyncSession. *)

OtherLocks ==
  /\ ~locked
  /\ Spend("uploads")
  /\ locked' = TRUE
  /\ disturbed' = Everyone
  /\ UNCHANGED <<srv, browser, phase, chain, edit, mine, causes, stale, crossed>>

OtherPatches ==
  /\ locked
  /\ Spend("uploads")
  /\ \/ srv' = Absent
     \/ /\ srv.kind # "DIRECTORY"
        /\ srv' \in [kind : {"FILE"}, data : Edits, mtime : Times]
  /\ stale' = [c \in Syncs |-> stale[c] \/ phase[c] \in {"verified", "completed"}]
  /\ UNCHANGED <<locked, browser, phase, chain, edit, mine, causes, disturbed, crossed>>

OtherReleases ==
  /\ locked
  /\ locked' = FALSE
  /\ UNCHANGED <<srv, browser, phase, chain, edit, left, history>>

-----------------------------------------------------------------------------
SyncStep(c) ==
  \/ SendSourceList(c) \/ Checksums(c) \/ SendChecksums(c) \/ CheckLock(c) \/ ReadForDiff(c)
  \/ AppendChecksum(c) \/ HandleDiffResponse(c) \/ PatchDir(c) \/ PatchFile(c)
  \/ CompareVersions(c) \/ CheckUnsynced(c) \/ MakeConflictedCopy(c) \/ RemoveUnsynced(c)
  \/ ApplyPatch(c) \/ UpdateModifiedTime(c) \/ ReadQueue(c) \/ StoreQueue(c)
  \/ GenerateChecksums(c) \/ ComparePatch(c) \/ HandleVerification(c) \/ HandleDownstreamError(c)

EditStep == EditMark \/ DescriptorWrite \/ EditQueue \/ EditWrite \/ EditFlag
OtherStep == OtherLocks \/ OtherPatches \/ OtherReleases
Next == \/ \E c \in Syncs : SyncDownstream(c) \/ SyncStep(c) \/ CheckLockFails(c) \/ BrowserFails(c)
        \/ ForcedDequeue \/ EditStep \/ OtherStep
Init == \E bounds \in [{"edits", "uploads", "faults", "syncs", "refusals"} -> Nat] :
          InitWith(ServerNodes(Edits), BrowserNodes(Edits), bounds)
Spec == Init /\ [][Next]_vars

-----------------------------------------------------------------------------
(* Properties *)

IsNode(n) == /\ n.kind \in Kinds
             /\ n.data \in Seq(Int)
             /\ n.mtime \in Nat

\* Every variable keeps its shape: phases and write steps are the named ones,
\* and no counter of syncManager.downstreams goes below zero.
TypeOK ==
  /\ IsNode(srv) /\ IsNode(node)
  /\ node.unsynced \in BOOLEAN
  /\ {locked, queued, changed, overlap, loose, halfway, clashed, raced} \subseteq BOOLEAN
  /\ {needs, seen, disturbed, stale, crossed} \subseteq [Syncs -> BOOLEAN]
  /\ phase \in [Syncs -> Phases]
  /\ edit.pc \in {"idle", "queuing", "writing", "flagging"}
  /\ downs \in Nat
  /\ \A c \in Syncs : list[c].kind \in Kinds /\ Len(report[c]) <= 1

\* What the user wrote outlives every downstream sync that it did not overlap
\* with, however many patch the file at once: it is still the file, flagged,
\* and queued unless the queue was passed over or the upload refused; or it is
\* the content of a conflicted copy.  (Unless a directory came in its place:
\* mkdir() fails with EEXIST, which patchDir() takes for done.  Or a sync wrote
\* the file when another had seen the flag and was about to copy it: the copy
\* it makes then has the name of the right one.)
\* (wrapMethod, changesDuringDownstream, maybeGenerateConflicted, and the queue
\* in handleDiffResponse)
EditKept ==
  (edit.pc = "idle" /\ mine # None /\ ~overlap /\ ~clashed /\ ~raced) =>
    \/ mine \in copies
    \/ node.data = mine /\ node.kind = "FILE" /\ node.unsynced /\ (queued \/ loose)

\* The comment in maybeGenerateConflicted(): the flag is removed because "local
\* changes are in the conflicted copy now".
ChangesAreInCopy ==
  (edit.pc = "idle" /\ mine # None /\ ~overlap /\ ~clashed /\ ~node.unsynced) => mine \in copies

\* A sync reported as completed leaves the server's node in the browser, with
\* the stamp of its version, unless the browser's own version is newer, or
\* another sync wrote the file since this one reported it: diffs that raced
\* with another client's patch never pass the verification.
\* (handleDiffRequest asks for the lock before it reads, handlePatchResponse)
CompletedInSync ==
  \A c \in Syncs :
    (phase[c] = "completed" /\ ~stale[c] /\ ~needs[c] /\ ~clashed /\ ~crossed[c]) =>
      /\ node.kind = srv.kind
      /\ node.data = srv.data
      /\ node.kind = "FILE" => node.stamp = srv.data

\* The only files that rsync cannot transfer: the first window is weighed one
\* byte too long, so blocks match only after Size + 1 leading zeros, and a
\* match without data in front of it cannot be sent, nor block 0 with it.
ZeroLed(data) == Len(data) > Size /\ \A i \in 1 .. Size + 1 : data[i] = 0

\* A sync that nobody disturbs completes, whatever the two versions are, unless
\* the server has no such node, one is a file and the other a directory, or
\* the server's file starts with zeros.  (roll, jsonToBuffer, getPatchedData)
QuietSyncCompletes ==
  \A c \in Syncs :
    (phase[c] \in Ended \ {"idle", "completed"} /\ ~disturbed[c]) =>
      \/ srv.kind = "NONE"
      \/ node.kind \notin {srv.kind, "NONE"}
      \/ ZeroLed(srv.data)

\* The sync has left the file alone because it is newer, and the file is not
\* what the server has.
Newer(c) ==
  /\ phase[c] = "completed" /\ needs[c] /\ node.data # diff[c].checksum
  /\ edit.pc = "idle" /\ ~overlap /\ ~halfway /\ ~clashed /\ ~crossed[c]

\* A file that a sync leaves alone because it is newer is in the queue, or is
\* what the server has: the browser keeps a version of its own without a plan
\* to send it only if it was written past the queue, or its upload refused.
\* (compareVersions; handleDiffResponse drops needsUpstream, so only the queue
\* remembers.  A patch of another sync, or one that failed before its stamp, is
\* why a file may look newer that is not; and a directory that came in a file's
\* place took the file off the queue, unsent)
NewerFileIsQueued == \A c \in Syncs : Newer(c) => queued \/ loose

=============================================================================
