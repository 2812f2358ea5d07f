---------------------------- MODULE PathSyncProofs ----------------------------
(***************************************************************************)
(* Theorems about PathSync, for every block size, every content and every  *)
(* number of syncs, edits, uploads, faults and refusals: what the user     *)
(* wrote is not lost, a sync that completes has transferred the file, and  *)
(* one that nobody disturbs completes.                                     *)
(*                                                                         *)
(* The first two do not depend on what the block arithmetic computes: a    *)
(* patch may write anything, the verification is what finds it out.  That  *)
(* the undisturbed sync completes does, and the second half of the module  *)
(* is about it: Rsync's loops, whose windows never match.                  *)
(*                                                                         *)
(* Each invariant has a part for every sync.  A step of one sync leaves    *)
(* what the others carry alone (Elsewhere), so for the others only what    *)
(* the step does to the file and its queue matters.                        *)
(***************************************************************************)
EXTENDS PathSync, ListProofs, FiniteSetTheorems

-----------------------------------------------------------------------------
(* The variables keep their shape                                          *)

Flags == [Syncs -> BOOLEAN]

Chains ==
  /\ phase \in [Syncs -> Phases] /\ needs \in Flags /\ seen \in Flags
  /\ DOMAIN list = Syncs /\ DOMAIN sums = Syncs /\ DOMAIN diff = Syncs
  /\ DOMAIN raw = Syncs /\ DOMAIN report = Syncs

Fields ==
  /\ DOMAIN node = {"kind", "data", "mtime", "unsynced", "stamp"}
  /\ node.kind \in Kinds
  /\ edit \in [pc : {"idle", "queuing", "writing", "flagging"}, data : Edits \cup {<<>>}]
  /\ node.unsynced \in BOOLEAN /\ queued \in BOOLEAN
  /\ Chains

MarkShapes == disturbed \in Flags /\ stale \in Flags /\ crossed \in Flags

\* What the syncs other than c carry is left alone.
Elsewhere(c) ==
  \A d \in Syncs : d # c =>
    /\ phase'[d] = phase[d] /\ list'[d] = list[d] /\ sums'[d] = sums[d] /\ diff'[d] = diff[d]
    /\ raw'[d] = raw[d] /\ needs'[d] = needs[d] /\ seen'[d] = seen[d] /\ report'[d] = report[d]

LEMMA FieldsInit == Init => Fields /\ MarkShapes
<1>. SUFFICES ASSUME Init
              PROVE  Fields /\ MarkShapes
  OBVIOUS
<1>1. /\ node \in BrowserNodes(Edits)
      /\ queued \in {node.unsynced, FALSE} /\ edit = NoEdit
  BY DEF Init, InitWith
<1>2. /\ DOMAIN node = {"kind", "data", "mtime", "unsynced", "stamp"}
      /\ node.unsynced \in BOOLEAN /\ node.kind \in Kinds
  <2>1. CASE node = BrowserAbsent
    BY <2>1 DEF BrowserAbsent, Kinds
  <2>2. CASE node # BrowserAbsent
    BY <1>1, <2>2 DEF BrowserNodes, Kinds
  <2>. QED
    BY <2>1, <2>2
<1>3. Chains
  BY DEF Init, InitWith, Chains, Flags, Phases, Ended
<1>4. MarkShapes
  BY DEF Init, InitWith, MarkShapes, Flags
<1>. QED
  BY <1>1, <1>2, <1>3, <1>4 DEF Fields, NoEdit

\* The steps of a sync before its patch, in its patch, and after.
Before(c) == SendSourceList(c) \/ Checksums(c) \/ SendChecksums(c) \/ CheckLock(c)
             \/ ReadForDiff(c) \/ AppendChecksum(c) \/ HandleDiffResponse(c)
Within(c) == PatchDir(c) \/ PatchFile(c) \/ CompareVersions(c) \/ CheckUnsynced(c)
             \/ MakeConflictedCopy(c) \/ RemoveUnsynced(c) \/ ApplyPatch(c)
             \/ UpdateModifiedTime(c) \/ ReadQueue(c) \/ StoreQueue(c) \/ GenerateChecksums(c)
Beyond(c) == ComparePatch(c) \/ HandleVerification(c) \/ HandleDownstreamError(c)

LEMMA SyncSteps == \A c \in Syncs : SyncStep(c) <=> (Before(c) \/ Within(c) \/ Beyond(c))
BY DEF SyncStep, Before, Within, Beyond

LEMMA ChainsBefore ==
  ASSUME Fields, NEW c \in Syncs, Before(c)
  PROVE  Chains' /\ Elsewhere(c)
<1>. USE DEF Fields, Chains, Elsewhere, Flags, Phases, Ended, Patching, Moves, Trans
<1>1. CASE SendSourceList(c)
  BY <1>1 DEF SendSourceList
<1>2. CASE Checksums(c)
  BY <1>2 DEF Checksums
<1>3. CASE SendChecksums(c) \/ CheckLock(c)
  BY <1>3 DEF SendChecksums, CheckLock, chain
<1>4. CASE ReadForDiff(c)
  BY <1>4 DEF ReadForDiff
<1>5. CASE AppendChecksum(c)
  BY <1>5 DEF AppendChecksum
<1>6. CASE HandleDiffResponse(c)
  BY <1>6 DEF HandleDiffResponse
<1>. QED
  BY <1>1, <1>2, <1>3, <1>4, <1>5, <1>6 DEF Before

LEMMA ChainsWithin ==
  ASSUME Fields, NEW c \in Syncs, Within(c)
  PROVE  Chains' /\ Elsewhere(c)
<1>. USE DEF Fields, Chains, Elsewhere, Flags, Phases, Ended, Patching, Moves, Trans
<1>1. CASE PatchDir(c)
  BY <1>1 DEF PatchDir
<1>2. CASE PatchFile(c)
  BY <1>2 DEF PatchFile, Kinds
<1>3. CASE CompareVersions(c)
  BY <1>3 DEF CompareVersions, IsNewerVersion
<1>4. CASE CheckUnsynced(c) \/ MakeConflictedCopy(c) \/ RemoveUnsynced(c)
  BY <1>4 DEF CheckUnsynced, MakeConflictedCopy, RemoveUnsynced, chain
<1>5. CASE ApplyPatch(c)
  BY <1>5 DEF ApplyPatch, chain
<1>6. CASE UpdateModifiedTime(c)
  BY <1>6 DEF UpdateModifiedTime, chain
<1>7. CASE ReadQueue(c) \/ StoreQueue(c)
  BY <1>7 DEF ReadQueue, StoreQueue, chain
<1>8. CASE GenerateChecksums(c)
  BY <1>8 DEF GenerateChecksums
<1>. QED
  BY <1>1, <1>2, <1>3, <1>4, <1>5, <1>6, <1>7, <1>8 DEF Within

LEMMA ChainsOther ==
  ASSUME Fields, NEW c \in Syncs,
         Beyond(c) \/ SyncDownstream(c) \/ CheckLockFails(c) \/ BrowserFails(c)
  PROVE  Chains' /\ Elsewhere(c)
<1>. USE DEF Fields, Chains, Elsewhere, Flags, Phases, Ended, Patching, Moves, Trans
<1>1. CASE ComparePatch(c) \/ HandleVerification(c) \/ HandleDownstreamError(c)
  BY <1>1 DEF ComparePatch, HandleVerification, HandleDownstreamError, chain
<1>2. CASE SyncDownstream(c)
  BY <1>2 DEF SyncDownstream, NewSync
<1>3. CASE CheckLockFails(c) \/ BrowserFails(c)
  BY <1>3 DEF CheckLockFails, BrowserFails, chain
<1>. QED
  BY <1>1, <1>2, <1>3 DEF Beyond

\* Nothing else moves a sync.
Aloof == ForcedDequeue \/ EditStep \/ OtherStep

LEMMA ChainsAloof == Aloof => UNCHANGED <<phase, chain>>
BY DEF Aloof, ForcedDequeue, EditStep, EditMark, DescriptorWrite, Starts, EditQueue, EditWrite,
   EditFlag, OtherStep, OtherLocks, OtherPatches, OtherReleases

LEMMA ChainsStep ==
  ASSUME Fields, NEW c \in Syncs,
         SyncStep(c) \/ SyncDownstream(c) \/ CheckLockFails(c) \/ BrowserFails(c)
  PROVE  Chains' /\ Elsewhere(c)
BY SyncSteps, ChainsBefore, ChainsWithin, ChainsOther

\* The user's file and what is queued, but for the steps that write them.
LEMMA NodeAside ==
  ASSUME NEW c \in Syncs,
         SyncDownstream(c) \/ CheckLockFails(c) \/ BrowserFails(c) \/ Before(c) \/ Beyond(c)
  PROVE  UNCHANGED <<node, copies, queued, edit, mine>>
<1>1. CASE SyncDownstream(c) \/ CheckLockFails(c) \/ BrowserFails(c)
  BY <1>1 DEF SyncDownstream, CheckLockFails, BrowserFails, browser
<1>2. CASE Before(c)
  BY <1>2 DEF Before, SendSourceList, Checksums, SendChecksums, CheckLock, ReadForDiff,
     AppendChecksum, HandleDiffResponse, browser, history
<1>3. CASE Beyond(c)
  BY <1>3 DEF Beyond, ComparePatch, HandleVerification, HandleDownstreamError, browser, history
<1>. QED
  BY <1>1, <1>2, <1>3

LEMMA FieldsNext == Fields /\ [Next]_vars => Fields'
<1>. SUFFICES ASSUME Fields, [Next]_vars
              PROVE  Fields'
  OBVIOUS
<1>1. CASE Chains' /\ UNCHANGED <<node, edit, queued>>
  BY <1>1 DEF Fields
<1>2. ASSUME NEW c \in Syncs, SyncDownstream(c) \/ CheckLockFails(c) \/ BrowserFails(c)
                              \/ Before(c) \/ Beyond(c)
      PROVE  Fields'
  <2>1. Chains'
    BY <1>2, ChainsBefore, ChainsOther
  <2>2. UNCHANGED <<node, edit, queued>>
    BY <1>2, NodeAside
  <2>. QED
    BY <1>1, <2>1, <2>2
<1>3. ASSUME NEW c \in Syncs, Within(c)
      PROVE  Fields'
  <2>. USE DEF Kinds
  <2>1. Chains'
    BY <1>3, ChainsWithin
  <2>2. edit' = edit /\ queued' \in BOOLEAN
    <3>1. CASE PatchDir(c) \/ PatchFile(c) \/ CompareVersions(c) \/ CheckUnsynced(c)
               \/ MakeConflictedCopy(c) \/ RemoveUnsynced(c) \/ ApplyPatch(c)
               \/ UpdateModifiedTime(c) \/ ReadQueue(c) \/ GenerateChecksums(c)
      BY <3>1 DEF PatchDir, PatchFile, CompareVersions, CheckUnsynced, MakeConflictedCopy,
         RemoveUnsynced, ApplyPatch, UpdateModifiedTime, ReadQueue, GenerateChecksums, browser,
         Fields
    <3>2. CASE StoreQueue(c)
      BY <3>2 DEF StoreQueue, Fields, Chains, Flags
    <3>. QED
      BY <1>3, <3>1, <3>2 DEF Within
  <2>3. /\ DOMAIN node' = {"kind", "data", "mtime", "unsynced", "stamp"}
        /\ node'.kind \in Kinds /\ node'.unsynced \in BOOLEAN
    <3>1. CASE PatchDir(c)
      BY <3>1 DEF PatchDir, BrowserAbsent, Fields
    <3>2. CASE PatchFile(c) \/ CompareVersions(c) \/ CheckUnsynced(c) \/ MakeConflictedCopy(c)
               \/ ReadQueue(c) \/ StoreQueue(c)
      BY <3>2 DEF PatchFile, CompareVersions, CheckUnsynced, MakeConflictedCopy, ReadQueue,
         StoreQueue, browser, Fields
    <3>3. CASE RemoveUnsynced(c) \/ UpdateModifiedTime(c) \/ GenerateChecksums(c)
      BY <3>3 DEF RemoveUnsynced, UpdateModifiedTime, GenerateChecksums, Fields
    <3>4. CASE ApplyPatch(c)
      BY <3>4 DEF ApplyPatch, Fields
    <3>. QED
      BY <1>3, <3>1, <3>2, <3>3, <3>4 DEF Within
  <2>. QED
    BY <2>1, <2>2, <2>3 DEF Fields
<1>4. CASE Aloof
  <2>1. Chains'
    BY <1>4, ChainsAloof DEF Fields, Chains, chain
  <2>2. CASE EditMark \/ DescriptorWrite
    BY <2>1, <2>2 DEF EditMark, DescriptorWrite, Starts, Fields
  <2>3. CASE EditQueue
    <3>1. edit' = [edit EXCEPT !.pc = "writing"] /\ queued' = TRUE /\ node' = node
      BY <2>3 DEF EditQueue
    <3>2. edit' \in [pc : {"idle", "queuing", "writing", "flagging"}, data : Edits \cup {<<>>}]
      BY <3>1 DEF Fields
    <3>. QED
      BY <2>1, <3>1, <3>2 DEF Fields
  <2>4. CASE EditWrite
    <3>1. edit' = NoEdit \/ edit' = [edit EXCEPT !.pc = "flagging"]
      BY <2>4 DEF EditWrite
    <3>2. edit' \in [pc : {"idle", "queuing", "writing", "flagging"}, data : Edits \cup {<<>>}]
      BY <3>1 DEF Fields, NoEdit
    <3>3. DOMAIN node' = DOMAIN node /\ node'.unsynced = node.unsynced /\ node'.kind \in Kinds
      BY <2>4 DEF EditWrite, Kinds, Fields
    <3>4. queued' = queued
      BY <2>4 DEF EditWrite
    <3>. QED
      BY <2>1, <3>2, <3>3, <3>4 DEF Fields
  <2>5. CASE EditFlag
    BY <2>1, <2>5 DEF EditFlag, NoEdit, Fields
  <2>6. CASE ForcedDequeue \/ OtherStep
    BY <2>1, <2>6 DEF ForcedDequeue, OtherStep, OtherLocks, OtherPatches, OtherReleases, browser,
       Fields
  <2>. QED
    BY <1>4, <2>2, <2>3, <2>4, <2>5, <2>6 DEF Aloof, EditStep
<1>5. CASE UNCHANGED vars
  BY <1>5 DEF vars, browser, chain, Fields, Chains
<1>. QED
  BY <1>2, <1>3, <1>4, <1>5, SyncSteps DEF Next, Aloof

LEMMA FieldsHold == Spec => []Fields
<1>1. Init => Fields
  BY FieldsInit
<1>. QED
  BY <1>1, FieldsNext, PTL DEF Spec

LEMMA MarksNext == MarkShapes /\ Fields /\ [Next]_vars => MarkShapes'
<1>. SUFFICES ASSUME MarkShapes, Fields, [Next]_vars
              PROVE  MarkShapes'
  OBVIOUS
<1>. USE DEF MarkShapes, Flags, Everyone
<1>1. CASE UNCHANGED marks
  BY <1>1 DEF marks
<1>2. ASSUME NEW c \in Syncs, SyncDownstream(c)
      PROVE  MarkShapes'
  <2>1. Unquiet(c) \in BOOLEAN
    BY DEF Unquiet
  <2>. QED
    BY <1>2, <2>1 DEF SyncDownstream
<1>3. ASSUME NEW c \in Syncs, CheckLockFails(c) \/ BrowserFails(c)
      PROVE  MarkShapes'
  BY <1>3 DEF CheckLockFails, BrowserFails
<1>4. ASSUME NEW c \in Syncs, HandleDiffResponse(c)
      PROVE  MarkShapes'
  BY <1>4 DEF HandleDiffResponse
<1>5. ASSUME NEW c \in Syncs, CompareVersions(c)
      PROVE  MarkShapes'
  BY <1>5 DEF CompareVersions, IsNewerVersion
<1>6. ASSUME NEW c \in Syncs, ApplyPatch(c)
      PROVE  MarkShapes'
  BY <1>6 DEF ApplyPatch, Relies
<1>7. ASSUME NEW c \in Syncs, SyncStep(c), ~HandleDiffResponse(c), ~CompareVersions(c), ~ApplyPatch(c)
      PROVE  UNCHANGED marks
  <2>1. CASE SendSourceList(c) \/ Checksums(c) \/ SendChecksums(c) \/ CheckLock(c)
             \/ ReadForDiff(c) \/ AppendChecksum(c) \/ PatchDir(c) \/ PatchFile(c)
             \/ CheckUnsynced(c)
    BY <2>1 DEF SendSourceList, Checksums, SendChecksums, CheckLock, ReadForDiff, AppendChecksum,
       PatchDir, PatchFile, CheckUnsynced, history
  <2>2. CASE MakeConflictedCopy(c) \/ RemoveUnsynced(c) \/ UpdateModifiedTime(c) \/ ReadQueue(c)
             \/ StoreQueue(c) \/ GenerateChecksums(c) \/ Beyond(c)
    BY <2>2 DEF MakeConflictedCopy, RemoveUnsynced, UpdateModifiedTime, ReadQueue, StoreQueue,
       GenerateChecksums, Beyond, ComparePatch, HandleVerification, HandleDownstreamError, history
  <2>. QED
    BY <1>7, <2>1, <2>2 DEF SyncStep, Beyond
<1>8. CASE EditMark \/ DescriptorWrite \/ OtherLocks
  BY <1>8 DEF EditMark, DescriptorWrite, Starts, OtherLocks
<1>9. CASE OtherPatches
  BY <1>9 DEF OtherPatches
<1>10. CASE EditQueue \/ EditWrite \/ EditFlag \/ ForcedDequeue \/ OtherReleases \/ UNCHANGED vars
  BY <1>1, <1>10 DEF EditQueue, EditWrite, EditFlag, ForcedDequeue, OtherReleases, vars, history
<1>. QED
  BY <1>1, <1>2, <1>3, <1>4, <1>5, <1>6, <1>7, <1>8, <1>9, <1>10
     DEF Next, EditStep, OtherStep
-----------------------------------------------------------------------------
(* EditKept: no write runs while a patch does (else they overlap), the file *)
(* is still the user's until it is copied, and it stays queued until then.  *)
(* A flagged file is what the user wrote, so every sync that saw the flag   *)
(* copies that, unless another one has written the file (raced).            *)

Mine == node.data = mine /\ node.kind = "FILE" /\ node.unsynced /\ (queued \/ loose)

KeptFile ==
  /\ edit.pc \in {"writing", "flagging"} => queued \/ loose
  /\ edit.pc = "flagging" => node.data = edit.data /\ node.kind = "FILE"
  /\ (edit.pc # "flagging" /\ node.unsynced) => node.data = mine /\ node.kind = "FILE"
  /\ (edit.pc # "flagging" /\ mine # None /\ ~clashed /\ ~raced) => mine \in copies \/ Mine

KeptBy(c) ==
  /\ phase[c] \in Patching => edit.pc = "idle"
  /\ phase[c] = "writing" => ~node.unsynced
  /\ (phase[c] = "copying" /\ ~raced) => node.data = mine /\ node.kind = "FILE"
  /\ (mine # None /\ ~clashed /\ ~raced) =>
       /\ phase[c] \in {"clearing", "writing", "timing"} => mine \in copies
       /\ (phase[c] \in {"unqueuing", "storing"} /\ ~needs[c]) => mine \in copies
       /\ (phase[c] = "storing" /\ needs[c]) => mine \in copies \/ loose \/ seen[c]

KeptInv == ~overlap => KeptFile /\ \A c \in Syncs : KeptBy(c)

LEMMA KeptInit == Init => KeptInv
<1>. SUFFICES ASSUME Init
              PROVE  KeptInv
  OBVIOUS
<1>1. /\ node \in BrowserNodes(Edits)
      /\ queued \in {node.unsynced, FALSE} /\ loose = (node.unsynced /\ ~queued)
      /\ mine = IF node.unsynced THEN node.data ELSE None
      /\ edit = NoEdit /\ phase = [c \in Syncs |-> "idle"]
  BY DEF Init, InitWith
<1>2. node.unsynced \in BOOLEAN /\ (node.unsynced => node.kind = "FILE")
  <2>1. CASE node = BrowserAbsent
    BY <2>1 DEF BrowserAbsent
  <2>2. CASE node # BrowserAbsent
    BY <1>1, <2>2 DEF BrowserNodes
  <2>. QED
    BY <2>1, <2>2
<1>3. edit.pc = "idle"
  BY <1>1 DEF NoEdit
<1>4. node.unsynced => node.data = mine /\ node.kind = "FILE" /\ (queued \/ loose)
  BY <1>1, <1>2
<1>5. ~node.unsynced => mine = None
  BY <1>1
<1>6. KeptFile
  BY <1>3, <1>4, <1>5 DEF KeptFile, Mine
<1>7. ASSUME NEW c \in Syncs PROVE KeptBy(c)
  <2>1. phase[c] = "idle"
    BY <1>1
  <2>. QED
    BY <2>1 DEF KeptBy, Patching
<1>. QED
  BY <1>6, <1>7 DEF KeptInv

\* A step of a sync's that leaves the file, the queue and the write alone, and is not
\* one of a patch.
KeptVars == <<node, copies, queued, edit, mine, overlap, loose, clashed, raced>>

LEMMA KeptAside ==
  ASSUME Fields, KeptInv, NEW c \in Syncs, Elsewhere(c), UNCHANGED KeptVars,
         phase'[c] \notin Patching
  PROVE  KeptInv'
<1>. SUFFICES ASSUME ~overlap' PROVE KeptFile' /\ \A d \in Syncs : KeptBy(d)'
  BY DEF KeptInv
<1>. USE DEF KeptVars
<1>1. KeptFile'
  BY DEF KeptInv, KeptFile, Mine
<1>2. KeptBy(c)'
  BY DEF KeptBy, Patching
<1>3. ASSUME NEW d \in Syncs, d # c PROVE KeptBy(d)'
  <2>1. phase'[d] = phase[d] /\ needs'[d] = needs[d] /\ seen'[d] = seen[d]
    BY <1>3 DEF Elsewhere
  <2>2. KeptBy(d)
    BY DEF KeptInv
  <2>. QED
    BY <2>1, <2>2 DEF KeptBy
<1>. QED
  BY <1>1, <1>2, <1>3

\* What a step of a patch may do to the file, as far as the other syncs see it.
LEMMA KeptElsewhere ==
  ASSUME Fields, KeptInv, ~overlap, NEW c \in Syncs, Elsewhere(c), NEW d \in Syncs, d # c,
         UNCHANGED <<edit, mine, loose>>, clashed => clashed', raced => raced',
         node'.unsynced => node.unsynced,
         \/ node'.data = node.data /\ node'.kind = node.kind
         \/ raced' \/ phase[d] # "copying",
         (mine \in copies /\ ~raced') => mine \in copies'
  PROVE  KeptBy(d)'
<1>1. phase'[d] = phase[d] /\ needs'[d] = needs[d] /\ seen'[d] = seen[d]
  BY DEF Elsewhere
<1>2. KeptBy(d)
  BY DEF KeptInv
<1>3. /\ phase'[d] \in Patching => edit'.pc = "idle"
      /\ phase'[d] = "writing" => ~node'.unsynced
      /\ (phase'[d] = "copying" /\ ~raced') => node'.data = mine' /\ node'.kind = "FILE"
  BY <1>1, <1>2 DEF KeptBy
<1>4. ASSUME mine' # None, ~clashed', ~raced'
      PROVE  /\ phase'[d] \in {"clearing", "writing", "timing"} => mine' \in copies'
             /\ (phase'[d] \in {"unqueuing", "storing"} /\ ~needs'[d]) => mine' \in copies'
             /\ (phase'[d] = "storing" /\ needs'[d]) => mine' \in copies' \/ loose' \/ seen'[d]
  BY <1>1, <1>2, <1>4 DEF KeptBy
<1>. QED
  BY <1>3, <1>4 DEF KeptBy

LEMMA KeptWithin ==
  ASSUME Fields, KeptInv, NEW c \in Syncs, Within(c), Elsewhere(c), ~overlap'
  PROVE  KeptFile' /\ KeptBy(c)' /\ \A d \in Syncs \ {c} : KeptBy(d)'
<1>. USE DEF Moves, Trans
<1>1. overlap' = overlap /\ UNCHANGED <<edit, mine, loose>>
  BY DEF Within, PatchDir, PatchFile, CompareVersions, CheckUnsynced, MakeConflictedCopy,
     RemoveUnsynced, ApplyPatch, UpdateModifiedTime, ReadQueue, StoreQueue, GenerateChecksums,
     history, causes
<1>2. KeptFile /\ KeptBy(c)
  BY <1>1 DEF KeptInv
<1>3. phase \in [Syncs -> Phases] /\ needs \in [Syncs -> BOOLEAN] /\ seen \in [Syncs -> BOOLEAN]
  BY DEF Fields, Chains, Flags
<1>4. phase[c] \in Patching /\ edit.pc = "idle"
  <2>1. phase[c] \in Patching
    BY DEF Within, PatchDir, PatchFile, CompareVersions, CheckUnsynced, MakeConflictedCopy,
       RemoveUnsynced, ApplyPatch, UpdateModifiedTime, ReadQueue, StoreQueue, GenerateChecksums,
       Patching
  <2>. QED
    BY <1>2, <2>1 DEF KeptBy
<1>5. CASE PatchDir(c)
  <2>1. /\ UNCHANGED <<copies, queued, raced>> /\ clashed' = (clashed \/ node.kind = "FILE")
        /\ phase'[c] = "unqueuing" /\ ~needs'[c]
    BY <1>3, <1>5 DEF PatchDir
  <2>2. \/ node' = node
        \/ node.kind # "FILE" /\ node'.unsynced = FALSE
    BY <1>5 DEF PatchDir, BrowserAbsent
  <2>3. node.kind # "FILE" => ~node.unsynced
    BY <1>2, <1>4 DEF KeptFile
  <2>4. (mine # None /\ ~clashed' /\ ~raced) => mine \in copies
    BY <1>2, <1>4, <2>1, <2>3 DEF KeptFile, Mine
  <2>5. KeptFile'
    BY <1>1, <1>2, <1>4, <2>1, <2>2, <2>4 DEF KeptFile
  <2>6. KeptBy(c)'
    BY <1>1, <1>4, <2>1, <2>4 DEF KeptBy
  <2>7. ASSUME NEW d \in Syncs \ {c} PROVE KeptBy(d)'
    <3>1. ~raced /\ phase[d] = "copying" => node.kind = "FILE"
      BY <1>1 DEF KeptInv, KeptBy
    <3>2. \/ node'.data = node.data /\ node'.kind = node.kind
          \/ raced' \/ phase[d] # "copying"
      BY <2>1, <2>2, <3>1
    <3>3. node'.unsynced => node.unsynced
      BY <2>2
    <3>. QED
      BY <1>1, <2>1, <3>2, <3>3, KeptElsewhere
  <2>. QED
    BY <2>5, <2>6, <2>7
<1>6. CASE PatchFile(c) \/ CompareVersions(c) \/ CheckUnsynced(c) \/ ReadQueue(c)
  <2>1. UNCHANGED <<node, copies, queued, clashed, raced>>
    BY <1>6 DEF PatchFile, CompareVersions, CheckUnsynced, ReadQueue, browser, history, causes
  <2>2. KeptFile'
    BY <1>1, <1>2, <2>1 DEF KeptFile, Mine
  <2>3. \A d \in Syncs \ {c} : KeptBy(d)'
    BY <1>1, <2>1, KeptElsewhere
  <2>4. CASE PatchFile(c) \/ CompareVersions(c)
    <3>1. \/ phase'[c] \in {"comparing", "checking", "delayed"}
          \/ phase'[c] = "unqueuing" /\ needs'[c]
      BY <1>3, <2>4 DEF PatchFile, CompareVersions, Fields, Kinds
    <3>. QED
      BY <1>1, <1>4, <2>2, <2>3, <3>1 DEF KeptBy
  <2>5. CASE CheckUnsynced(c)
    <3>1. \/ node.unsynced /\ phase'[c] = "copying"
          \/ ~node.unsynced /\ phase'[c] = "writing"
      BY <1>3, <2>5 DEF CheckUnsynced, Fields
    <3>2. node.unsynced => node.data = mine /\ node.kind = "FILE"
      BY <1>2, <1>4 DEF KeptFile
    <3>3. (mine # None /\ ~clashed /\ ~raced /\ ~node.unsynced) => mine \in copies
      BY <1>2, <1>4 DEF KeptFile, Mine
    <3>4. KeptBy(c)'
      BY <1>1, <1>4, <2>1, <3>1, <3>2, <3>3 DEF KeptBy
    <3>. QED
      BY <2>2, <2>3, <3>4
  <2>6. CASE ReadQueue(c)
    <3>1. /\ phase[c] = "unqueuing" /\ phase'[c] = "storing"
          /\ needs' = needs /\ seen'[c] = queued
      BY <1>3, <2>6 DEF ReadQueue
    <3>2. (mine # None /\ ~clashed /\ ~raced) => mine \in copies \/ queued \/ loose
      BY <1>2, <1>4 DEF KeptFile, Mine
    <3>3. KeptBy(c)'
      BY <1>1, <1>2, <1>4, <2>1, <3>1, <3>2 DEF KeptBy
    <3>. QED
      BY <2>2, <2>3, <3>3
  <2>. QED
    BY <1>6, <2>4, <2>5, <2>6
<1>7. CASE MakeConflictedCopy(c)
  <2>1. /\ UNCHANGED <<node, queued, clashed, raced>>
        /\ phase[c] = "copying" /\ phase'[c] = "clearing"
    BY <1>3, <1>7 DEF MakeConflictedCopy, history, causes
  <2>2. node.data \in copies'
    BY <1>7 DEF MakeConflictedCopy
  <2>3. ~raced => mine \in copies'
    BY <1>2, <2>1, <2>2 DEF KeptBy
  <2>4. KeptFile'
    BY <1>1, <1>2, <1>4, <2>1, <2>3 DEF KeptFile
  <2>5. KeptBy(c)'
    BY <1>1, <1>4, <2>1, <2>3 DEF KeptBy
  <2>6. \A d \in Syncs \ {c} : KeptBy(d)'
    BY <1>1, <2>1, <2>3, KeptElsewhere
  <2>. QED
    BY <2>4, <2>5, <2>6
<1>8. CASE RemoveUnsynced(c)
  <2>1. /\ UNCHANGED <<copies, queued, clashed, raced>>
        /\ phase[c] = "clearing" /\ phase'[c] = "writing"
    BY <1>3, <1>8 DEF RemoveUnsynced, history, causes
  <2>2. node'.unsynced = FALSE /\ node'.data = node.data /\ node'.kind = node.kind
    BY <1>8 DEF RemoveUnsynced, Fields
  <2>3. (mine # None /\ ~clashed /\ ~raced) => mine \in copies
    BY <1>2, <2>1 DEF KeptBy
  <2>4. KeptFile'
    BY <1>1, <1>4, <2>1, <2>2, <2>3 DEF KeptFile
  <2>5. KeptBy(c)'
    BY <1>1, <1>4, <2>1, <2>2, <2>3 DEF KeptBy
  <2>6. \A d \in Syncs \ {c} : KeptBy(d)'
    BY <1>1, <2>1, <2>2, KeptElsewhere
  <2>. QED
    BY <2>4, <2>5, <2>6
<1>9. CASE ApplyPatch(c)
  <2>1. /\ UNCHANGED <<copies, queued, clashed>> /\ phase[c] = "writing"
        /\ raced => raced'
    BY <1>9 DEF ApplyPatch
  <2>2. /\ phase'[c] \in {"delayed", "timing"} /\ node'.unsynced = node.unsynced
    BY <1>3, <1>9 DEF ApplyPatch, Fields
  <2>3. ~node.unsynced
    BY <1>2, <2>1 DEF KeptBy
  <2>4. (mine # None /\ ~clashed /\ ~raced) => mine \in copies
    BY <1>2, <2>1 DEF KeptBy
  <2>5. KeptFile'
    BY <1>1, <1>4, <2>1, <2>2, <2>3, <2>4 DEF KeptFile
  <2>6. KeptBy(c)'
    BY <1>1, <1>4, <2>1, <2>2, <2>4 DEF KeptBy
  <2>7. ASSUME NEW d \in Syncs \ {c} PROVE KeptBy(d)'
    <3>1. \/ node'.data = node.data /\ node'.kind = node.kind
          \/ raced' \/ phase[d] # "copying"
      <4>1. CASE node.kind = "DIRECTORY"
        BY <1>9, <4>1 DEF ApplyPatch
      <4>2. CASE node.kind # "DIRECTORY"
        <5>1. raced' = (raced \/ OtherIn(c, {"copying"}))
          BY <1>9, <4>2 DEF ApplyPatch
        <5>2. phase[d] = "copying" => OtherIn(c, {"copying"})
          BY DEF OtherIn
        <5>. QED
          BY <5>1, <5>2
      <4>. QED
        BY <4>1, <4>2
    <3>. QED
      BY <1>1, <2>1, <2>2, <3>1, KeptElsewhere
  <2>. QED
    BY <2>5, <2>6, <2>7
<1>10. CASE UpdateModifiedTime(c) \/ GenerateChecksums(c)
  <2>1. /\ UNCHANGED <<copies, queued, clashed, raced, needs>>
        /\ \/ phase[c] = "timing" /\ phase'[c] = "unqueuing"
           \/ phase[c] = "stamping" /\ phase'[c] = "patched"
    BY <1>3, <1>10 DEF UpdateModifiedTime, GenerateChecksums, chain, history, causes
  <2>2. node'.unsynced = node.unsynced /\ node'.data = node.data /\ node'.kind = node.kind
    BY <1>10 DEF UpdateModifiedTime, GenerateChecksums, Fields
  <2>3. KeptFile'
    BY <1>1, <1>2, <2>1, <2>2 DEF KeptFile, Mine
  <2>4. KeptBy(c)'
    BY <1>1, <1>2, <1>4, <2>1, <2>2 DEF KeptBy
  <2>5. \A d \in Syncs \ {c} : KeptBy(d)'
    BY <1>1, <2>1, <2>2, KeptElsewhere
  <2>. QED
    BY <2>3, <2>4, <2>5
<1>11. CASE StoreQueue(c)
  <2>1. /\ UNCHANGED <<node, copies, clashed, raced, needs, seen>>
        /\ phase[c] = "storing" /\ phase'[c] = "stamping"
        /\ queued' = (needs[c] /\ seen[c])
    BY <1>3, <1>11 DEF StoreQueue, chain, history, causes
  <2>2. (mine # None /\ ~clashed /\ ~raced) => (mine \in copies \/ (Mine /\ (loose \/ queued')))
    <3>. SUFFICES ASSUME mine # None, ~clashed, ~raced, mine \notin copies
                  PROVE  Mine /\ (loose \/ queued')
      OBVIOUS
    <3>1. Mine
      BY <1>2, <1>4 DEF KeptFile
    <3>2. needs[c] \in BOOLEAN /\ seen[c] \in BOOLEAN
      BY <1>3
    <3>3. needs[c] /\ (loose \/ seen[c])
      BY <1>2, <2>1, <3>2 DEF KeptBy
    <3>. QED
      BY <2>1, <3>1, <3>3
  <2>3. KeptFile'
    BY <1>1, <1>2, <1>4, <2>1, <2>2 DEF KeptFile, Mine
  <2>4. KeptBy(c)'
    BY <1>1, <1>4, <2>1 DEF KeptBy
  <2>5. \A d \in Syncs \ {c} : KeptBy(d)'
    BY <1>1, <2>1, KeptElsewhere
  <2>. QED
    BY <2>3, <2>4, <2>5
<1>. QED
  BY <1>5, <1>6, <1>7, <1>8, <1>9, <1>10, <1>11 DEF Within

\* A step of the user's, or of another client's.
LEMMA KeptAloof ==
  ASSUME Fields, KeptInv, Aloof, ~overlap'
  PROVE  KeptFile' /\ \A c \in Syncs : KeptBy(c)'
<1>1. UNCHANGED <<phase, needs, seen>>
  BY ChainsAloof DEF chain
<1>2. UNCHANGED <<copies, clashed, raced>>
  BY DEF Aloof, ForcedDequeue, EditStep, EditMark, DescriptorWrite, Starts, EditQueue, EditWrite,
     EditFlag, OtherStep, OtherLocks, OtherPatches, OtherReleases, browser, history, causes
<1>3. CASE UNCHANGED <<node, queued, edit, mine, overlap, loose>>
  BY <1>1, <1>2, <1>3 DEF KeptInv, KeptFile, Mine, KeptBy
<1>4. CASE OtherStep
  BY <1>3, <1>4 DEF OtherStep, OtherLocks, OtherPatches, OtherReleases, browser, history, causes
<1>5. CASE ForcedDequeue
  <2>1. UNCHANGED <<node, edit, mine, overlap>> /\ loose' = TRUE
    BY <1>5 DEF ForcedDequeue
  <2>2. KeptFile /\ \A c \in Syncs : KeptBy(c)
    BY <2>1 DEF KeptInv
  <2>3. KeptFile'
    BY <1>2, <2>1, <2>2 DEF KeptFile, Mine
  <2>4. ASSUME NEW c \in Syncs PROVE KeptBy(c)'
    BY <1>1, <1>2, <2>1, <2>2 DEF KeptBy
  <2>. QED
    BY <2>3, <2>4
<1>6. CASE EditMark \/ DescriptorWrite
  <2>1. /\ UNCHANGED <<node, queued, mine>> /\ edit.pc = "idle"
        /\ overlap' = (overlap \/ \E c \in Syncs : phase[c] \in Patching)
    BY <1>6 DEF EditMark, DescriptorWrite, Starts
  <2>2. \/ edit'.pc = "queuing" /\ loose' = loose
        \/ edit'.pc = "writing" /\ loose' = TRUE
    BY <1>6 DEF EditMark, DescriptorWrite
  <2>3. KeptFile /\ \A c \in Syncs : KeptBy(c)
    BY <2>1 DEF KeptInv
  <2>4. KeptFile'
    BY <1>2, <2>1, <2>2, <2>3 DEF KeptFile, Mine
  <2>5. ASSUME NEW c \in Syncs PROVE KeptBy(c)'
    <3>1. phase[c] \notin Patching
      BY <2>1
    <3>. QED
      BY <1>1, <3>1 DEF KeptBy, Patching
  <2>. QED
    BY <2>4, <2>5
<1>7. CASE EditQueue \/ EditWrite \/ EditFlag
  <2>1. edit.pc # "idle" /\ overlap' = overlap
    BY <1>7 DEF EditQueue, EditWrite, EditFlag, history, causes
  <2>2. KeptFile /\ \A c \in Syncs : KeptBy(c)
    BY <2>1 DEF KeptInv
  <2>3. ASSUME NEW c \in Syncs PROVE KeptBy(c)'
    <3>1. phase[c] \notin Patching
      BY <2>1, <2>2 DEF KeptBy
    <3>. QED
      BY <1>1, <3>1 DEF KeptBy, Patching
  <2>4. CASE EditQueue
    <3>1. /\ UNCHANGED <<node, mine>> /\ queued' = TRUE /\ edit.pc = "queuing" /\ edit'.pc = "writing"
      BY <2>4 DEF EditQueue, Fields
    <3>2. KeptFile'
      BY <1>2, <2>2, <3>1 DEF KeptFile, Mine
    <3>. QED
      BY <2>3, <3>2
  <2>5. CASE EditWrite
    <3>1. UNCHANGED <<queued, loose, mine>> /\ edit.pc = "writing"
      BY <2>5 DEF EditWrite, history, causes
    <3>2. \/ edit'.pc = "idle" /\ UNCHANGED node
          \/ /\ edit'.pc = "flagging" /\ edit'.data = edit.data
             /\ node'.data = edit.data /\ node'.kind = "FILE"
      <4>1. CASE node.kind = "DIRECTORY"
        BY <2>5, <4>1 DEF EditWrite, NoEdit
      <4>2. CASE node.kind # "DIRECTORY"
        <5>1. edit' = [edit EXCEPT !.pc = "flagging"]
          BY <2>5, <4>2 DEF EditWrite
        <5>2. edit'.pc = "flagging" /\ edit'.data = edit.data
          BY <5>1 DEF Fields
        <5>3. node'.data = edit.data /\ node'.kind = "FILE"
          BY <2>5, <4>2 DEF EditWrite, Fields
        <5>. QED
          BY <5>2, <5>3
      <4>. QED
        BY <4>1, <4>2
    <3>3. KeptFile'
      BY <1>2, <2>2, <3>1, <3>2 DEF KeptFile, Mine
    <3>. QED
      BY <2>3, <3>3
  <2>6. CASE EditFlag
    <3>1. UNCHANGED <<queued, loose>> /\ edit.pc = "flagging" /\ mine' = edit.data /\ edit'.pc = "idle"
      BY <2>6 DEF EditFlag, NoEdit, causes
    <3>2. node'.unsynced = TRUE /\ node'.data = node.data /\ node'.kind = node.kind
      BY <2>6 DEF EditFlag, Fields
    <3>3. KeptFile'
      BY <1>2, <2>2, <3>1, <3>2 DEF KeptFile, Mine
    <3>. QED
      BY <2>3, <3>3
  <2>. QED
    BY <1>7, <2>4, <2>5, <2>6
<1>. QED
  BY <1>4, <1>5, <1>6, <1>7 DEF Aloof, EditStep

LEMMA KeptNext == KeptInv /\ Fields /\ [Next]_vars => KeptInv'
<1>. SUFFICES ASSUME KeptInv, Fields, [Next]_vars
              PROVE  KeptInv'
  OBVIOUS
<1>1. ASSUME NEW c \in Syncs, SyncDownstream(c) \/ CheckLockFails(c) \/ BrowserFails(c)
                              \/ Before(c) \/ Beyond(c)
      PROVE  KeptInv'
  <2>1. Elsewhere(c)
    BY <1>1, ChainsBefore, ChainsOther
  <2>2. UNCHANGED <<node, copies, queued, edit, mine>>
    BY <1>1, NodeAside
  <2>3. phase \in [Syncs -> Phases]
    BY DEF Fields, Chains
  <2>4. CASE HandleDiffResponse(c)
    <3>1. UNCHANGED <<loose, clashed, raced>>
      BY <2>4 DEF HandleDiffResponse
    <3>2. \/ phase'[c] = "reading" /\ overlap' = (overlap \/ edit.pc # "idle")
          \/ phase'[c] \notin Patching /\ overlap' = overlap
      BY <2>3, <2>4 DEF HandleDiffResponse, Moves, Patching
    <3>3. CASE phase'[c] \notin Patching
      BY <2>1, <2>2, <3>1, <3>2, <3>3, KeptAside DEF KeptVars, Patching
    <3>4. CASE phase'[c] = "reading"
      <4>. SUFFICES ASSUME ~overlap' PROVE KeptFile' /\ \A d \in Syncs : KeptBy(d)'
        BY DEF KeptInv
      <4>1. ~overlap /\ edit.pc = "idle"
        BY <3>2, <3>4 DEF Patching
      <4>2. KeptFile'
        BY <2>2, <3>1, <4>1 DEF KeptInv, KeptFile, Mine
      <4>3. KeptBy(c)'
        BY <2>2, <3>4, <4>1 DEF KeptBy
      <4>4. \A d \in Syncs \ {c} : KeptBy(d)'
        BY <2>1, <2>2, <3>1, <4>1, KeptElsewhere
      <4>. QED
        BY <4>2, <4>3, <4>4
    <3>. QED
      BY <3>2, <3>3, <3>4
  <2>5. CASE ~HandleDiffResponse(c)
    <3>1. UNCHANGED <<overlap, loose, clashed, raced>>
      <4>1. CASE SyncDownstream(c) \/ CheckLockFails(c) \/ BrowserFails(c)
        BY <4>1 DEF SyncDownstream, CheckLockFails, BrowserFails, causes
      <4>2. CASE Before(c)
        BY <2>5, <4>2 DEF Before, SendSourceList, Checksums, SendChecksums, CheckLock, ReadForDiff,
           AppendChecksum, history, causes
      <4>3. CASE Beyond(c)
        BY <4>3 DEF Beyond, ComparePatch, HandleVerification, HandleDownstreamError, history, causes
      <4>. QED
        BY <1>1, <4>1, <4>2, <4>3
    <3>2. phase'[c] \notin Patching
      <4>. USE <2>3 DEF Moves, Trans, Patching
      <4>1. CASE SyncDownstream(c) \/ CheckLockFails(c) \/ BrowserFails(c)
        BY <4>1 DEF SyncDownstream, CheckLockFails, BrowserFails
      <4>2. CASE Before(c)
        BY <2>5, <4>2 DEF Before, SendSourceList, Checksums, SendChecksums, CheckLock, ReadForDiff,
           AppendChecksum
      <4>3. CASE Beyond(c)
        BY <4>3 DEF Beyond, ComparePatch, HandleVerification, HandleDownstreamError
      <4>. QED
        BY <1>1, <4>1, <4>2, <4>3
    <3>. QED
      BY <2>1, <2>2, <3>1, <3>2, KeptAside DEF KeptVars
  <2>. QED
    BY <2>4, <2>5
<1>2. ASSUME NEW c \in Syncs, Within(c) PROVE KeptInv'
  <2>1. Elsewhere(c)
    BY <1>2, ChainsWithin
  <2>. QED
    BY <1>2, <2>1, KeptWithin DEF KeptInv
<1>3. CASE Aloof
  BY <1>3, KeptAloof DEF KeptInv
<1>4. CASE UNCHANGED vars
  BY <1>4 DEF vars, browser, chain, history, causes, KeptInv, KeptFile, KeptBy, Mine
<1>. QED
  BY <1>1, <1>2, <1>3, <1>4, SyncSteps DEF Next, Aloof

\* What the user wrote outlives every downstream sync that it did not overlap
\* with, however many there are: it is the file still, flagged and queued, or
\* a conflicted copy.  (wrapMethod, maybeGenerateConflicted, handleDiffResponse)
THEOREM EditKeptHolds == Spec => []EditKept
<1>1. KeptInv => EditKept
  BY DEF KeptInv, KeptFile, Mine, EditKept
<1>. QED
  BY <1>1, KeptInit, KeptNext, FieldsHold, PTL DEF Spec
-----------------------------------------------------------------------------
(* CompletedInSync: from the patch on the file is one without a write of the *)
(* user's, so it is reported as it is, and the server compares it.  What     *)
(* another sync does to the file then is a directory made where there was    *)
(* nothing, a stamp of its content, or a write that crosses the report.      *)

After == {"patched", "verified", "completed"}

\* What a sync that has patched the file knows of it.
Written == node.kind # "NONE" /\ (node.kind = "FILE" => ~node.unsynced)

\* The file as it was reported, and as it was compared.
Reported(c) ==
  /\ node.kind # "NONE"
  /\ report[c] = <<[kind |-> node.kind, data |-> node.data]>>
  /\ node.kind = "FILE" => node.stamp = node.data
InSync ==
  /\ node.kind # "NONE" /\ node.kind = srv.kind /\ node.data = srv.data
  /\ node.kind = "FILE" => node.stamp = srv.data

SyncAt(c) ==
  ~stale[c] =>
    /\ phase[c] \in Patching \cup After => edit.pc = "idle"
    /\ phase[c] \in {"writing", "timing"} => ~node.unsynced
    /\ phase[c] = "timing" => node.kind = "FILE"
    /\ (~needs[c] /\ ~clashed) =>
         /\ phase[c] \in {"unqueuing", "storing", "stamping"} => Written
         /\ (phase[c] = "patched" /\ ~crossed[c]) => Reported(c)
         /\ (phase[c] \in {"verified", "completed"} /\ ~crossed[c]) => InSync

SyncInv == \A c \in Syncs : SyncAt(c)

LEMMA SyncInit == Init => SyncInv
<1>. SUFFICES ASSUME Init, NEW c \in Syncs
              PROVE  SyncAt(c)
  BY DEF SyncInv
<1>1. phase[c] = "idle"
  BY DEF Init, InitWith
<1>. QED
  BY <1>1 DEF SyncAt, Patching, After

\* A step of a sync's that is neither of its patch nor of what follows it.
LEMMA SyncOutside ==
  ASSUME NEW c \in Syncs, phase'[c] \notin Patching \cup After
  PROVE  SyncAt(c)'
BY DEF SyncAt, Patching, After

\* A step that leaves the file and this sync alone.
LEMMA SyncSame ==
  ASSUME NEW c \in Syncs, SyncAt(c), UNCHANGED <<node, srv, edit>>, clashed => clashed',
         phase'[c] = phase[c], needs'[c] = needs[c], report'[c] = report[c],
         stale'[c] = stale[c], crossed[c] => crossed'[c]
  PROVE  SyncAt(c)'
BY DEF SyncAt, Written, Reported, InSync

\* What another sync may do to the file.
Made    == node.kind = "NONE" /\ node'.kind = "DIRECTORY"
Stamps  == /\ node'.kind = node.kind /\ node'.data = node.data
           /\ node'.stamp \in {node.stamp, node.data}
Crosses(d) == /\ node.kind \in {"NONE", "FILE"} /\ node'.kind = "FILE"
              /\ phase[d] \in After => crossed'[d]

LEMMA SyncElsewhere ==
  ASSUME NEW d \in Syncs, SyncAt(d),
         phase'[d] = phase[d], needs'[d] = needs[d], report'[d] = report[d],
         UNCHANGED <<srv, edit>>, clashed => clashed', stale'[d] = stale[d],
         crossed[d] => crossed'[d], node'.unsynced => node.unsynced,
         Made \/ Stamps \/ Crosses(d)
  PROVE  SyncAt(d)'
<1>. SUFFICES ASSUME ~stale[d]
              PROVE  SyncAt(d)'
  BY DEF SyncAt
<1>1. /\ phase'[d] \in Patching \cup After => edit'.pc = "idle"
      /\ phase'[d] \in {"writing", "timing"} => ~node'.unsynced
      /\ phase'[d] = "timing" => node'.kind = "FILE"
  BY DEF SyncAt, Made, Stamps, Crosses
<1>. SUFFICES ASSUME ~needs[d], ~clashed
              PROVE  /\ phase[d] \in {"unqueuing", "storing", "stamping"} => Written'
                     /\ (phase[d] = "patched" /\ ~crossed'[d]) => Reported(d)'
                     /\ (phase[d] \in {"verified", "completed"} /\ ~crossed'[d]) => InSync'
  BY <1>1 DEF SyncAt
<1>2. CASE phase[d] \in {"unqueuing", "storing", "stamping"}
  <2>1. Written
    BY <1>2 DEF SyncAt
  <2>. QED
    BY <1>2, <2>1 DEF Written, Made, Stamps, Crosses
<1>3. CASE phase[d] = "patched" /\ ~crossed'[d]
  <2>1. Reported(d)
    BY <1>3 DEF SyncAt
  <2>2. Stamps
    BY <1>3, <2>1 DEF Reported, Made, Crosses, After
  <2>. QED
    BY <1>3, <2>1, <2>2 DEF Reported, Stamps
<1>4. CASE phase[d] \in {"verified", "completed"} /\ ~crossed'[d]
  <2>1. InSync
    BY <1>4 DEF SyncAt
  <2>2. Stamps
    BY <1>4, <2>1 DEF InSync, Made, Crosses, After
  <2>. QED
    BY <1>4, <2>1, <2>2 DEF InSync, Stamps
<1>. QED
  BY <1>2, <1>3, <1>4

\* A step of a patch, as the other syncs see it.
LEMMA SyncOthers ==
  ASSUME Fields, SyncInv, MarkShapes, NEW c \in Syncs, Within(c), SyncAt(c), Elsewhere(c),
         NEW d \in Syncs, d # c
  PROVE  SyncAt(d)'
<1>. USE DEF Moves, Trans
<1>1. SyncAt(d)
  BY DEF SyncInv
<1>2. phase'[d] = phase[d] /\ needs'[d] = needs[d] /\ report'[d] = report[d]
  BY DEF Elsewhere
<1>3. UNCHANGED <<srv, edit, stale>> /\ (clashed => clashed')
  <2>1. CASE PatchDir(c)
    BY <2>1 DEF PatchDir, server, marks
  <2>2. CASE PatchFile(c) \/ CompareVersions(c) \/ CheckUnsynced(c) \/ MakeConflictedCopy(c)
    BY <2>2 DEF PatchFile, CompareVersions, CheckUnsynced, MakeConflictedCopy, server, browser,
       history, causes, marks
  <2>3. CASE RemoveUnsynced(c) \/ UpdateModifiedTime(c)
    BY <2>3 DEF RemoveUnsynced, UpdateModifiedTime, server, history, causes, marks
  <2>4. CASE ReadQueue(c) \/ StoreQueue(c) \/ GenerateChecksums(c)
    BY <2>4 DEF ReadQueue, StoreQueue, GenerateChecksums, server, browser, history, causes, marks
  <2>5. CASE ApplyPatch(c)
    BY <2>5 DEF ApplyPatch, server
  <2>. QED
    BY <2>1, <2>2, <2>3, <2>4, <2>5 DEF Within
<1>4. crossed[d] => crossed'[d]
  <2>1. CASE CompareVersions(c)
    BY <2>1 DEF CompareVersions, MarkShapes, Flags
  <2>2. CASE ApplyPatch(c)
    BY <2>2 DEF ApplyPatch
  <2>3. CASE ~CompareVersions(c) /\ ~ApplyPatch(c)
    <3>1. crossed' = crossed
      BY <2>3 DEF Within, PatchDir, PatchFile, CheckUnsynced, MakeConflictedCopy, RemoveUnsynced,
         UpdateModifiedTime, ReadQueue, StoreQueue, GenerateChecksums, history, marks
    <3>. QED
      BY <3>1
  <2>. QED
    BY <2>1, <2>2, <2>3
<1>5. (node'.unsynced => node.unsynced) /\ (Made \/ Stamps \/ Crosses(d))
  <2>1. CASE PatchDir(c)
    <3>1. \/ node' = node
          \/ node.kind = "NONE" /\ node'.kind = "DIRECTORY" /\ node'.unsynced = FALSE
      BY <2>1 DEF PatchDir, BrowserAbsent
    <3>. QED
      BY <3>1 DEF Made, Stamps
  <2>2. CASE PatchFile(c) \/ CompareVersions(c) \/ CheckUnsynced(c) \/ MakeConflictedCopy(c)
             \/ ReadQueue(c) \/ StoreQueue(c)
    <3>1. node' = node
      BY <2>2 DEF PatchFile, CompareVersions, CheckUnsynced, MakeConflictedCopy, ReadQueue,
         StoreQueue, browser
    <3>. QED
      BY <3>1 DEF Stamps
  <2>3. CASE RemoveUnsynced(c) \/ UpdateModifiedTime(c)
    <3>1. /\ node'.kind = node.kind /\ node'.data = node.data /\ node'.stamp = node.stamp
          /\ node'.unsynced => node.unsynced
      BY <2>3 DEF RemoveUnsynced, UpdateModifiedTime, Fields
    <3>. QED
      BY <3>1 DEF Stamps
  <2>4. CASE ApplyPatch(c)
    <3>1. CASE node.kind = "DIRECTORY"
      BY <2>4, <3>1 DEF ApplyPatch, Stamps
    <3>2. CASE node.kind # "DIRECTORY"
      <4>1. /\ node.kind \in {"NONE", "FILE"} /\ node'.kind = "FILE"
            /\ node'.unsynced = node.unsynced
        BY <2>4, <3>2 DEF ApplyPatch, Fields, Kinds
      <4>2. crossed'[d] = (crossed[d] \/ (d # c /\ Relies(d)))
        BY <2>4, <3>2 DEF ApplyPatch
      <4>3. phase[d] \in After => Relies(d)
        BY DEF Relies, After
      <4>. QED
        BY <4>1, <4>2, <4>3 DEF Crosses
    <3>. QED
      BY <3>1, <3>2
  <2>5. CASE GenerateChecksums(c)
    <3>1. /\ node'.kind = node.kind /\ node'.data = node.data /\ node'.unsynced = node.unsynced
          /\ node'.stamp \in {node.stamp, getChecksum(node)}
          /\ node.kind # "FILE" => node'.stamp = node.stamp
      BY <2>5 DEF GenerateChecksums, Fields
    <3>. QED
      BY <3>1 DEF Stamps, getChecksum
  <2>. QED
    BY <2>1, <2>2, <2>3, <2>4, <2>5 DEF Within
<1>. QED
  BY <1>1, <1>2, <1>3, <1>4, <1>5, SyncElsewhere

LEMMA SyncWithin ==
  ASSUME Fields, SyncInv, NEW c \in Syncs, Within(c)
  PROVE  SyncAt(c)'
<1>. USE DEF Moves, Trans
<1>1. SyncAt(c)
  BY DEF SyncInv
<1>2. phase \in [Syncs -> Phases] /\ needs \in [Syncs -> BOOLEAN] /\ DOMAIN report = Syncs
  BY DEF Fields, Chains, Flags
<1>3. CASE PatchDir(c)
  <2>1. /\ UNCHANGED <<edit, stale>> /\ phase[c] = "reading" /\ phase'[c] = "unqueuing"
        /\ clashed' = (clashed \/ node.kind = "FILE")
    BY <1>2, <1>3 DEF PatchDir, marks
  <2>2. node'.kind # "NONE" /\ (node'.kind = "FILE" => node.kind = "FILE")
    BY <1>3 DEF PatchDir, BrowserAbsent
  <2>. QED
    BY <1>1, <2>1, <2>2 DEF SyncAt, Patching, After, Written
<1>4. CASE PatchFile(c)
  <2>1. /\ UNCHANGED <<node, edit, stale>> /\ phase[c] = "reading"
        /\ phase'[c] \in {"comparing", "checking", "delayed"}
    BY <1>2, <1>4 DEF PatchFile, Fields, Kinds, browser, history, marks
  <2>. QED
    BY <1>1, <2>1 DEF SyncAt, Patching, After
<1>5. CASE CompareVersions(c)
  <2>1. /\ UNCHANGED <<node, edit, stale>> /\ phase[c] = "comparing"
        /\ \/ phase'[c] = "unqueuing" /\ needs'[c]
           \/ phase'[c] = "checking"
    BY <1>2, <1>5 DEF CompareVersions, browser
  <2>. QED
    BY <1>1, <2>1 DEF SyncAt, Patching, After
<1>6. CASE CheckUnsynced(c)
  <2>1. /\ UNCHANGED <<node, edit, stale>> /\ phase[c] = "checking"
        /\ phase'[c] = IF node.unsynced THEN "copying" ELSE "writing"
    BY <1>2, <1>6 DEF CheckUnsynced, browser, history, marks
  <2>. QED
    BY <1>1, <2>1 DEF SyncAt, Patching, After
<1>7. CASE MakeConflictedCopy(c)
  <2>1. UNCHANGED <<edit, stale>> /\ phase[c] = "copying" /\ phase'[c] = "clearing"
    BY <1>2, <1>7 DEF MakeConflictedCopy, history, marks
  <2>. QED
    BY <1>1, <2>1 DEF SyncAt, Patching, After
<1>8. CASE RemoveUnsynced(c)
  <2>1. /\ UNCHANGED <<edit, stale>> /\ phase[c] = "clearing" /\ phase'[c] = "writing"
        /\ node'.unsynced = FALSE
    BY <1>2, <1>8 DEF RemoveUnsynced, history, marks, Fields
  <2>. QED
    BY <1>1, <2>1 DEF SyncAt, Patching, After
<1>9. CASE ApplyPatch(c)
  <2>1. /\ UNCHANGED <<edit, stale>> /\ phase[c] = "writing"
        /\ \/ phase'[c] = "delayed"
           \/ phase'[c] = "timing" /\ node'.unsynced = node.unsynced /\ node'.kind = "FILE"
    <3>1. UNCHANGED <<edit, stale>> /\ phase[c] = "writing"
      BY <1>9 DEF ApplyPatch
    <3>2. \/ phase'[c] = "delayed"
          \/ phase'[c] = "timing" /\ node'.unsynced = node.unsynced /\ node'.kind = "FILE"
      BY <1>2, <1>9 DEF ApplyPatch, Fields
    <3>. QED
      BY <3>1, <3>2
  <2>. QED
    BY <1>1, <2>1 DEF SyncAt, Patching, After
<1>10. CASE UpdateModifiedTime(c)
  <2>1. /\ UNCHANGED <<edit, stale>> /\ phase[c] = "timing" /\ phase'[c] = "unqueuing"
        /\ node'.unsynced = node.unsynced /\ node'.kind = node.kind
    BY <1>2, <1>10 DEF UpdateModifiedTime, history, marks, Fields
  <2>. QED
    BY <1>1, <2>1 DEF SyncAt, Patching, After, Written
<1>11. CASE ReadQueue(c) \/ StoreQueue(c)
  <2>1. /\ UNCHANGED <<node, edit, stale, needs, clashed>>
        /\ \/ phase[c] = "unqueuing" /\ phase'[c] = "storing"
           \/ phase[c] = "storing" /\ phase'[c] = "stamping"
    BY <1>2, <1>11 DEF ReadQueue, StoreQueue, browser, chain, history, causes, marks
  <2>. QED
    BY <1>1, <2>1 DEF SyncAt, Patching, After, Written
<1>12. CASE GenerateChecksums(c)
  <2>1. /\ UNCHANGED <<edit, stale, needs, clashed>>
        /\ phase[c] = "stamping" /\ phase'[c] = "patched"
    BY <1>2, <1>12 DEF GenerateChecksums, history, causes, marks
  <2>2. ASSUME ~stale[c], ~needs[c], ~clashed
        PROVE  Reported(c)'
    <3>1. Written
      BY <1>1, <2>1, <2>2 DEF SyncAt
    <3>2. /\ report'[c] = <<[kind |-> node.kind, data |-> node.data]>>
          /\ node' = [node EXCEPT !.stamp = IF node.kind = "FILE" THEN node.data ELSE @]
      BY <1>2, <1>12, <2>2, <3>1 DEF GenerateChecksums, getChecksum, Written
    <3>3. /\ node'.kind = node.kind /\ node'.data = node.data
          /\ node.kind = "FILE" => node'.stamp = node.data
      BY <3>2 DEF Fields
    <3>. QED
      BY <3>1, <3>2, <3>3 DEF Written, Reported
  <2>. QED
    BY <1>1, <2>1, <2>2 DEF SyncAt, Patching, After
<1>. QED
  BY <1>3, <1>4, <1>5, <1>6, <1>7, <1>8, <1>9, <1>10, <1>11, <1>12 DEF Within

\* The comparison of what was reported, and what follows it.
LEMMA SyncBeyond ==
  ASSUME Fields, SyncInv, NEW c \in Syncs, Beyond(c)
  PROVE  SyncAt(c)'
<1>. USE DEF Moves, Trans
<1>1. SyncAt(c)
  BY DEF SyncInv
<1>2. phase \in [Syncs -> Phases]
  BY DEF Fields, Chains
<1>3. CASE HandleDownstreamError(c)
  <2>1. phase'[c] = "interrupted"
    BY <1>2, <1>3 DEF HandleDownstreamError
  <2>. QED
    BY <2>1, SyncOutside DEF Patching, After
<1>4. UNCHANGED <<node, srv, edit, needs, clashed, stale, crossed>>
  BY DEF Beyond, ComparePatch, HandleVerification, HandleDownstreamError, server, browser, chain,
     history, causes, marks
<1>5. CASE ComparePatch(c)
  <2>1. phase[c] = "patched"
    BY <1>5 DEF ComparePatch
  <2>2. (phase'[c] = "verified" /\ SameContents(c)) \/ phase'[c] = "mismatched"
    BY <1>2, <1>5 DEF ComparePatch
  <2>3. ASSUME phase'[c] = "verified", SameContents(c), ~stale[c], ~needs[c], ~clashed, ~crossed[c]
        PROVE  InSync
    <3>1. Reported(c)
      BY <1>1, <2>1, <2>3 DEF SyncAt
    <3>2. node.kind = srv.kind /\ node.data = getChecksum(srv)
      BY <2>3, <3>1 DEF SameContents, Reported
    <3>. QED
      BY <3>1, <3>2 DEF getChecksum, InSync, Reported
  <2>4. CASE phase'[c] = "mismatched"
    BY <2>4, SyncOutside DEF Patching, After
  <2>5. CASE phase'[c] = "verified" /\ SameContents(c)
    <3>1. (~stale[c] /\ ~needs[c] /\ ~clashed /\ ~crossed[c]) => InSync'
      BY <1>4, <2>3, <2>5 DEF InSync
    <3>2. ~stale[c] => edit.pc = "idle"
      BY <1>1, <2>1 DEF SyncAt, After
    <3>. QED
      BY <1>4, <2>5, <3>1, <3>2 DEF SyncAt
  <2>. QED
    BY <2>2, <2>4, <2>5
<1>6. CASE HandleVerification(c)
  <2>1. phase[c] = "verified" /\ phase'[c] = "completed"
    BY <1>2, <1>6 DEF HandleVerification
  <2>. QED
    BY <1>1, <1>4, <2>1 DEF SyncAt, InSync, After
<1>. QED
  BY <1>3, <1>5, <1>6 DEF Beyond

LEMMA SyncNext == SyncInv /\ Fields /\ MarkShapes /\ [Next]_vars => SyncInv'
<1>. SUFFICES ASSUME SyncInv, Fields, MarkShapes, [Next]_vars
              PROVE  SyncInv'
  OBVIOUS
<1>1. ASSUME NEW c \in Syncs, SyncDownstream(c) \/ CheckLockFails(c) \/ BrowserFails(c)
                              \/ Before(c) \/ Beyond(c)
      PROVE  SyncInv'
  <2>. USE DEF Moves, Trans
  <2>1. Elsewhere(c) /\ phase \in [Syncs -> Phases]
    BY <1>1, ChainsBefore, ChainsOther DEF Fields, Chains
  <2>2. UNCHANGED <<node, edit>>
    BY <1>1, NodeAside
  <2>3. /\ UNCHANGED <<srv, clashed>>
        /\ \A d \in Syncs : d # c => stale'[d] = stale[d] /\ crossed'[d] = crossed[d]
    <3>1. CASE SyncDownstream(c)
      BY <3>1 DEF SyncDownstream, server, causes, MarkShapes, Flags
    <3>2. CASE CheckLockFails(c) \/ BrowserFails(c)
      BY <3>2 DEF CheckLockFails, BrowserFails, server, causes
    <3>3. CASE Before(c)
      <4>1. CASE HandleDiffResponse(c)
        BY <4>1 DEF HandleDiffResponse, server, MarkShapes, Flags
      <4>2. CASE ~HandleDiffResponse(c)
        BY <3>3, <4>2 DEF Before, SendSourceList, Checksums, SendChecksums, CheckLock, ReadForDiff,
           AppendChecksum, server, history, causes, marks
      <4>. QED
        BY <4>1, <4>2
    <3>4. CASE Beyond(c)
      BY <3>4 DEF Beyond, ComparePatch, HandleVerification, HandleDownstreamError, server, history,
         causes, marks
    <3>. QED
      BY <1>1, <3>1, <3>2, <3>3, <3>4
  <2>4. ASSUME NEW d \in Syncs, d # c PROVE SyncAt(d)'
    <3>1. SyncAt(d)
      BY DEF SyncInv
    <3>2. phase'[d] = phase[d] /\ needs'[d] = needs[d] /\ report'[d] = report[d]
      BY <2>1, <2>4 DEF Elsewhere
    <3>. QED
      BY <2>2, <2>3, <2>4, <3>1, <3>2, SyncSame
  <2>5. SyncAt(c)'
    <3>1. CASE Beyond(c)
      BY <3>1, SyncBeyond
    <3>2. CASE HandleDiffResponse(c)
      <4>1. \/ phase'[c] = "reading" /\ UNCHANGED edit /\ stale'[c] = (edit.pc # "idle")
            \/ phase'[c] \notin Patching \cup After
        BY <2>1, <3>2 DEF HandleDiffResponse, Patching, After, MarkShapes, Flags
      <4>2. phase'[c] = "reading" /\ UNCHANGED edit /\ stale'[c] = (edit.pc # "idle") => SyncAt(c)'
        BY DEF SyncAt, After
      <4>. QED
        BY <4>1, <4>2, SyncOutside
    <3>3. CASE ~Beyond(c) /\ ~HandleDiffResponse(c)
      <4>1. phase'[c] \notin Patching \cup After
        <5>1. CASE SyncDownstream(c) \/ CheckLockFails(c) \/ BrowserFails(c)
          BY <2>1, <5>1 DEF SyncDownstream, CheckLockFails, BrowserFails, Patching, After
        <5>2. CASE Before(c)
          BY <2>1, <3>3, <5>2 DEF Before, SendSourceList, Checksums, SendChecksums, CheckLock,
             ReadForDiff, AppendChecksum, Patching, After
        <5>. QED
          BY <1>1, <3>3, <5>1, <5>2
      <4>. QED
        BY <4>1, SyncOutside
    <3>. QED
      BY <3>1, <3>2, <3>3
  <2>. QED
    BY <2>4, <2>5 DEF SyncInv
<1>2. ASSUME NEW c \in Syncs, Within(c) PROVE SyncInv'
  <2>1. Elsewhere(c)
    BY <1>2, ChainsWithin
  <2>2. SyncAt(c)
    BY DEF SyncInv
  <2>3. SyncAt(c)'
    BY <1>2, SyncWithin
  <2>4. \A d \in Syncs : d # c => SyncAt(d)'
    BY <1>2, <2>1, <2>2, SyncOthers
  <2>. QED
    BY <2>3, <2>4 DEF SyncInv
<1>3. CASE Aloof
  <2>. SUFFICES ASSUME NEW c \in Syncs PROVE SyncAt(c)'
    BY DEF SyncInv
  <2>1. SyncAt(c) /\ UNCHANGED <<phase, needs, report>>
    BY <1>3, ChainsAloof DEF SyncInv, chain
  <2>2. CASE EditMark \/ DescriptorWrite
    <3>1. stale' = Everyone
      BY <2>2 DEF EditMark, DescriptorWrite, Starts
    <3>. QED
      BY <3>1 DEF Everyone, SyncAt
  <2>3. CASE EditQueue \/ EditWrite \/ EditFlag
    <3>1. edit.pc # "idle" /\ stale' = stale
      BY <2>3 DEF EditQueue, EditWrite, EditFlag, history, marks
    <3>2. phase'[c] \in Patching \cup After => stale'[c]
      BY <2>1, <3>1 DEF SyncAt
    <3>3. stale'[c] => SyncAt(c)'
      BY DEF SyncAt
    <3>. QED
      BY <3>2, <3>3, SyncOutside
  <2>4. CASE ForcedDequeue \/ OtherLocks \/ OtherReleases
    <3>1. UNCHANGED <<node, srv, edit, clashed, stale, crossed>>
      BY <2>4 DEF ForcedDequeue, OtherLocks, OtherReleases, server, browser, history, causes, marks
    <3>. QED
      BY <2>1, <3>1, SyncSame
  <2>5. CASE OtherPatches
    <3>1. /\ UNCHANGED <<node, edit, clashed, crossed>>
          /\ stale'[c] = (stale[c] \/ phase[c] \in {"verified", "completed"})
      BY <2>5 DEF OtherPatches, browser, causes
    <3>. QED
      BY <2>1, <3>1 DEF SyncAt, Written, Reported
  <2>. QED
    BY <1>3, <2>2, <2>3, <2>4, <2>5 DEF Aloof, EditStep, OtherStep
<1>4. CASE UNCHANGED vars
  <2>1. UNCHANGED <<node, srv, edit, phase, needs, report, stale, clashed, crossed>>
    BY <1>4 DEF vars, server, browser, chain, history, causes, marks
  <2>. QED
    BY <2>1, SyncSame DEF SyncInv
<1>. QED
  BY <1>1, <1>2, <1>3, <1>4, SyncSteps DEF Next, Aloof

\* A sync reported as completed has left the server's node in the browser,
\* stamped, whatever the blocks that were matched and however many syncs patch
\* the file: nothing that raced with another client's patch passes the
\* verification.  (handleDiffRequest, handlePatchResponse, compareContents)
THEOREM CompletedInSyncHolds == Spec => []CompletedInSync
<1>1. SyncInv => CompletedInSync
  BY DEF SyncInv, SyncAt, InSync, CompletedInSync
<1>2. Init => SyncInv /\ MarkShapes
  BY SyncInit, FieldsInit
<1>. QED
  BY <1>1, <1>2, SyncNext, MarksNext, FieldsHold, PTL DEF Spec
-----------------------------------------------------------------------------
(* NewerFileIsQueued: a file that is not queued has no stamp but its own,    *)
(* unless a sync that has written it is about to stamp it.  So one that      *)
(* looks newer and has the server's stamp is the server's, or is queued.     *)

NoneRestamping == \A d \in Syncs : ~Restamping(d)
Own == node.stamp \in {None, node.data}

\* The sync left the file for an upstream sync, and nobody wrote it since.
Left(c) ==
  needs[c] /\ phase[c] \in {"unqueuing", "storing", "stamping"} \cup After /\ ~crossed[c]

\* What it knows of the file then.
Knows(c) ==
  /\ NoneRestamping
  /\ node.kind = "FILE" /\ node.stamp = diff[c].checksum /\ node.stamp # None
  /\ queued \/ loose \/ node.data = diff[c].checksum
  /\ phase[c] = "storing" => (seen[c] \/ loose \/ node.data = diff[c].checksum)

NewerFile == (NoneRestamping /\ node.kind = "FILE" /\ ~queued /\ ~loose) => Own

NewerBy(c) ==
  /\ phase[c] = "comparing" => node.kind = "FILE"
  /\ phase[c] \in {"checking", "copying", "clearing", "writing", "timing"} => ~needs[c]
  /\ phase[c] \in {"writing", "timing"} => ~node.unsynced
  /\ (phase[c] \in {"unqueuing", "storing", "stamping"} /\ ~needs[c] /\ node.kind = "FILE")
       => ~node.unsynced
  /\ (phase[c] = "storing" /\ needs[c] /\ ~seen[c] /\ NoneRestamping /\ node.kind = "FILE" /\ ~loose)
       => Own
  /\ Left(c) => Knows(c)

Sound == ~overlap /\ ~halfway /\ ~clashed
NewerInv == Sound => NewerFile /\ \A c \in Syncs : NewerBy(c)

LEMMA NewerInit == Init => NewerInv
<1>. SUFFICES ASSUME Init
              PROVE  NewerInv
  OBVIOUS
<1>1. /\ node \in BrowserNodes(Edits)
      /\ queued \in {node.unsynced, FALSE} /\ loose = (node.unsynced /\ ~queued)
      /\ phase = [c \in Syncs |-> "idle"]
  BY DEF Init, InitWith
<1>2. (node.kind = "FILE" /\ ~node.unsynced) => Own
  <2>1. CASE node = BrowserAbsent
    BY <2>1 DEF BrowserAbsent
  <2>2. CASE node.kind = "DIRECTORY"
    BY <2>2
  <2>3. CASE node # BrowserAbsent /\ node.kind # "DIRECTORY"
    BY <1>1, <2>3 DEF BrowserNodes, Own
  <2>. QED
    BY <2>1, <2>2, <2>3
<1>3. NewerFile
  BY <1>1, <1>2 DEF NewerFile
<1>4. ASSUME NEW c \in Syncs PROVE NewerBy(c)
  <2>1. phase[c] = "idle"
    BY <1>1
  <2>. QED
    BY <2>1 DEF NewerBy, Left, After
<1>. QED
  BY <1>3, <1>4 DEF NewerInv

\* A step of one sync: who is restamping depends on that one alone.
LEMMA RestampingElsewhere ==
  ASSUME NEW c \in Syncs, Elsewhere(c)
  PROVE  /\ Restamping(c)' = Restamping(c) => NoneRestamping' = NoneRestamping
         /\ (~Restamping(c) /\ NoneRestamping') => NoneRestamping
         /\ \A d \in Syncs \ {c} : Restamping(d)' = Restamping(d)
<1>1. \A d \in Syncs \ {c} : Restamping(d)' = Restamping(d)
  BY DEF Elsewhere, Restamping
<1>. QED
  BY <1>1 DEF NoneRestamping

\* A step that leaves the file as it is, but for its time and its flag, and the queue.
Calm == /\ UNCHANGED <<queued, loose>> /\ NoneRestamping' = NoneRestamping
        /\ node'.kind = node.kind /\ node'.data = node.data /\ node'.stamp = node.stamp
        /\ node'.unsynced => node.unsynced

LEMMA NewerCalmFile == NewerFile /\ Calm => NewerFile'
BY DEF NewerFile, Calm, Own

LEMMA NewerCalm ==
  ASSUME NEW d \in Syncs, NewerBy(d), Calm, phase'[d] = phase[d], needs'[d] = needs[d],
         seen'[d] = seen[d], diff'[d] = diff[d], crossed[d] => crossed'[d]
  PROVE  NewerBy(d)'
<1>1. Left(d)' => Left(d)
  BY DEF Left
<1>2. Knows(d) => Knows(d)'
  BY DEF Knows, Calm
<1>. QED
  BY <1>1, <1>2 DEF NewerBy, Calm, Own

\* A sync that is not patching, nor reporting, knows nothing.
LEMMA NewerOutside ==
  ASSUME NEW c \in Syncs, phase'[c] \notin (Patching \ {"reading"}) \cup After
  PROVE  NewerBy(c)'
BY DEF NewerBy, Left, Patching, After

\* What the steps of a patch leave alone.
LEMMA WithinAside ==
  ASSUME NEW c \in Syncs, Within(c), MarkShapes
  PROVE  /\ UNCHANGED <<edit, overlap, halfway, loose, diff>> /\ (clashed => clashed')
         /\ \A d \in Syncs \ {c} : crossed[d] => crossed'[d]
<1>1. CASE PatchDir(c)
  BY <1>1 DEF PatchDir, marks
<1>2. CASE PatchFile(c) \/ CheckUnsynced(c) \/ MakeConflictedCopy(c) \/ RemoveUnsynced(c)
  BY <1>2 DEF PatchFile, CheckUnsynced, MakeConflictedCopy, RemoveUnsynced, chain, history, causes, marks
<1>3. CASE CompareVersions(c)
  BY <1>3 DEF CompareVersions, causes, MarkShapes, Flags
<1>4. CASE ApplyPatch(c)
  BY <1>4 DEF ApplyPatch, chain
<1>5. CASE UpdateModifiedTime(c) \/ ReadQueue(c) \/ StoreQueue(c) \/ GenerateChecksums(c)
  BY <1>5 DEF UpdateModifiedTime, ReadQueue, StoreQueue, GenerateChecksums, chain, history, causes, marks
<1>. QED
  BY <1>1, <1>2, <1>3, <1>4, <1>5 DEF Within

\* The steps of a patch that do not write what matters here.
Reads(c) == PatchFile(c) \/ CompareVersions(c) \/ CheckUnsynced(c) \/ MakeConflictedCopy(c)
            \/ RemoveUnsynced(c) \/ UpdateModifiedTime(c) \/ ReadQueue(c)

LEMMA NewerReads ==
  ASSUME Fields, MarkShapes, NewerFile, \A d \in Syncs : NewerBy(d), NEW c \in Syncs, Reads(c),
         Elsewhere(c)
  PROVE  NewerFile' /\ \A d \in Syncs : NewerBy(d)'
<1>. USE DEF Moves, Trans
<1>1. /\ phase \in [Syncs -> Phases] /\ needs \in [Syncs -> BOOLEAN]
      /\ seen \in [Syncs -> BOOLEAN]
  BY DEF Fields, Chains, Flags
<1>2. /\ UNCHANGED <<loose, diff>>
      /\ \A d \in Syncs \ {c} : crossed[d] => crossed'[d]
  BY WithinAside DEF Reads, Within
<1>3. Restamping(c)' = Restamping(c)
  <2>1. CASE PatchFile(c) \/ CompareVersions(c)
    <3>1. /\ phase[c] \in {"reading", "comparing"}
          /\ \/ phase'[c] \in {"checking", "comparing", "delayed"}
             \/ phase'[c] = "unqueuing" /\ needs'[c]
      BY <1>1, <2>1 DEF PatchFile, CompareVersions, Fields, Kinds
    <3>. QED
      BY <3>1 DEF Restamping
  <2>2. CASE CheckUnsynced(c) \/ MakeConflictedCopy(c) \/ RemoveUnsynced(c)
    <3>1. /\ phase[c] \in {"checking", "copying", "clearing"}
          /\ phase'[c] \in {"copying", "clearing", "writing"}
      BY <1>1, <2>2 DEF CheckUnsynced, MakeConflictedCopy, RemoveUnsynced
    <3>. QED
      BY <3>1 DEF Restamping
  <2>3. CASE UpdateModifiedTime(c) \/ ReadQueue(c)
    <3>1. /\ needs' = needs
          /\ phase[c] \in {"timing", "unqueuing"} /\ phase'[c] \in {"unqueuing", "storing"}
      BY <1>1, <2>3 DEF UpdateModifiedTime, ReadQueue, chain
    <3>. QED
      BY <3>1 DEF Restamping
  <2>. QED
    BY <2>1, <2>2, <2>3 DEF Reads
<1>4. NoneRestamping' = NoneRestamping
  BY <1>3, RestampingElsewhere
<1>5. /\ queued' = queued /\ node'.kind = node.kind /\ node'.data = node.data
      /\ node'.stamp = node.stamp /\ (node'.unsynced => node.unsynced)
  <2>1. CASE PatchFile(c) \/ CompareVersions(c) \/ CheckUnsynced(c) \/ MakeConflictedCopy(c) \/ ReadQueue(c)
    BY <2>1 DEF PatchFile, CompareVersions, CheckUnsynced, MakeConflictedCopy, ReadQueue, browser
  <2>2. CASE RemoveUnsynced(c) \/ UpdateModifiedTime(c)
    BY <2>2 DEF RemoveUnsynced, UpdateModifiedTime, Fields
  <2>. QED
    BY <2>1, <2>2 DEF Reads
<1>6. Calm
  BY <1>2, <1>4, <1>5 DEF Calm
<1>7. NewerFile'
  BY <1>6, NewerCalmFile
<1>8. ASSUME NEW d \in Syncs, d # c PROVE NewerBy(d)'
  <2>1. phase'[d] = phase[d] /\ needs'[d] = needs[d] /\ seen'[d] = seen[d]
    BY <1>8 DEF Elsewhere
  <2>2. diff'[d] = diff[d] /\ (crossed[d] => crossed'[d])
    BY <1>2, <1>8
  <2>. QED
    BY <1>6, <2>1, <2>2, NewerCalm
<1>9. NewerBy(c)'
  <2>0. NewerBy(c)
    OBVIOUS
  <2>1. CASE PatchFile(c)
    <3>1. \/ phase'[c] = "comparing" /\ node'.kind = "FILE"
          \/ phase'[c] = "checking" /\ ~needs'[c]
          \/ phase'[c] = "delayed"
      BY <1>1, <1>5, <2>1 DEF PatchFile, Fields, Kinds
    <3>. QED
      BY <3>1 DEF NewerBy, Left, After
  <2>2. CASE CompareVersions(c)
    <3>1. /\ phase[c] = "comparing"
          /\ phase'[c] = IF IsNewerVersion(c) THEN "unqueuing" ELSE "checking"
          /\ needs'[c] = IsNewerVersion(c)
          /\ crossed'[c] = (IsNewerVersion(c) /\ \E d \in Syncs \ {c} : Restamping(d))
      BY <1>1, <2>2 DEF CompareVersions, MarkShapes, Flags
    <3>2. CASE ~IsNewerVersion(c)
      BY <3>1, <3>2 DEF NewerBy, Left, After
    <3>3. CASE IsNewerVersion(c)
      <4>1. node.kind = "FILE" /\ node.stamp # None /\ node.stamp = diff[c].checksum
        BY <2>0, <3>1, <3>3 DEF NewerBy, IsNewerVersion
      <4>2. ~crossed'[c] => NoneRestamping
        <5>1. ~Restamping(c)
          BY <3>1 DEF Restamping
        <5>2. ~crossed'[c] => \A d \in Syncs \ {c} : ~Restamping(d)
          BY <3>1, <3>3
        <5>. QED
          BY <5>1, <5>2 DEF NoneRestamping
      <4>3. NoneRestamping => (queued \/ loose \/ node.data = diff[c].checksum)
        BY <4>1 DEF NewerFile, Own
      <4>4. ~crossed'[c] => Knows(c)'
        BY <1>2, <1>4, <1>5, <3>1, <3>3, <4>1, <4>2, <4>3 DEF Knows
      <4>5. phase'[c] = "unqueuing" /\ needs'[c]
        BY <3>1, <3>3
      <4>. QED
        BY <4>4, <4>5 DEF NewerBy, Left
    <3>. QED
      BY <3>2, <3>3
  <2>3. CASE CheckUnsynced(c) \/ MakeConflictedCopy(c) \/ RemoveUnsynced(c)
    <3>1. /\ needs' = needs /\ phase[c] \in {"checking", "copying", "clearing"}
          /\ \/ phase'[c] \in {"copying", "clearing"}
             \/ phase'[c] = "writing" /\ ~node'.unsynced
      <4>1. CASE CheckUnsynced(c)
        BY <1>1, <4>1 DEF CheckUnsynced, chain, browser
      <4>2. CASE MakeConflictedCopy(c) \/ RemoveUnsynced(c)
        BY <1>1, <4>2 DEF MakeConflictedCopy, RemoveUnsynced, chain, Fields
      <4>. QED
        BY <2>3, <4>1, <4>2
    <3>2. ~needs[c]
      BY <2>0, <3>1 DEF NewerBy
    <3>. QED
      BY <3>1, <3>2 DEF NewerBy, Left, After
  <2>4. CASE UpdateModifiedTime(c)
    <3>1. /\ needs' = needs /\ phase[c] = "timing" /\ phase'[c] = "unqueuing"
          /\ node'.unsynced = node.unsynced
      BY <1>1, <2>4 DEF UpdateModifiedTime, chain, Fields
    <3>2. ~needs[c] /\ ~node.unsynced
      BY <2>0, <3>1 DEF NewerBy
    <3>. QED
      BY <3>1, <3>2 DEF NewerBy, Left
  <2>5. CASE ReadQueue(c)
    <3>1. /\ needs' = needs /\ phase[c] = "unqueuing" /\ phase'[c] = "storing"
          /\ seen'[c] = queued /\ node' = node /\ crossed' = crossed
      BY <1>1, <2>5 DEF ReadQueue, browser, history, marks
    <3>2. (~queued /\ NoneRestamping' /\ node'.kind = "FILE" /\ ~loose') => Own'
      BY <1>2, <1>4, <3>1 DEF NewerFile, Own
    <3>3. Left(c)' => Left(c)
      BY <3>1 DEF Left
    <3>4. Knows(c) => Knows(c)'
      BY <1>2, <1>4, <1>5, <3>1 DEF Knows
    <3>. QED
      BY <2>0, <3>1, <3>2, <3>3, <3>4 DEF NewerBy
  <2>. QED
    BY <2>1, <2>2, <2>3, <2>4, <2>5 DEF Reads
<1>. QED
  BY <1>7, <1>8, <1>9

LEMMA NewerPatchDir ==
  ASSUME Fields, MarkShapes, \A d \in Syncs : NewerBy(d), NEW c \in Syncs, PatchDir(c),
         Elsewhere(c), ~clashed'
  PROVE  NewerFile' /\ \A d \in Syncs : NewerBy(d)'
<1>. USE DEF Moves, Trans
<1>1. /\ phase \in [Syncs -> Phases] /\ needs \in [Syncs -> BOOLEAN]
  BY DEF Fields, Chains, Flags
<1>2. phase'[c] = "unqueuing" /\ ~needs'[c] /\ crossed' = crossed
  BY <1>1 DEF PatchDir, marks
<1>3. node.kind # "FILE" /\ node'.kind # "FILE" /\ (node'.unsynced => node.unsynced)
  BY DEF PatchDir, BrowserAbsent
<1>4. NewerFile' /\ NewerBy(c)'
  BY <1>2, <1>3 DEF NewerFile, NewerBy, Left
<1>5. ASSUME NEW d \in Syncs, d # c PROVE NewerBy(d)'
  <2>1. phase'[d] = phase[d] /\ needs'[d] = needs[d]
    BY <1>5 DEF Elsewhere
  <2>2. ~Left(d)
    BY <1>3 DEF NewerBy, Knows
  <2>3. ~Left(d)'
    BY <1>2, <2>1, <2>2 DEF Left
  <2>4. phase[d] # "comparing"
    BY <1>3 DEF NewerBy
  <2>. QED
    BY <1>3, <2>1, <2>3, <2>4 DEF NewerBy
<1>. QED
  BY <1>4, <1>5

LEMMA NewerApplyPatch ==
  ASSUME Fields, MarkShapes, NewerFile, \A d \in Syncs : NewerBy(d), NEW c \in Syncs,
         ApplyPatch(c), Elsewhere(c)
  PROVE  NewerFile' /\ \A d \in Syncs : NewerBy(d)'
<1>. USE DEF Moves
<1>1. /\ phase \in [Syncs -> Phases] /\ phase[c] = "writing"
      /\ UNCHANGED <<queued, loose, needs, seen, diff>>
  BY DEF Fields, Chains, ApplyPatch, chain
<1>2. ~needs[c] /\ ~node.unsynced
  BY <1>1 DEF NewerBy
<1>3. CASE node.kind = "DIRECTORY"
  <2>1. phase'[c] = "delayed" /\ UNCHANGED <<node, crossed>>
    BY <1>1, <1>3 DEF ApplyPatch
  <2>2. Restamping(c)' = Restamping(c)
    BY <1>1, <2>1 DEF Restamping
  <2>3. Calm
    BY <1>1, <2>1, <2>2, RestampingElsewhere DEF Calm
  <2>4. NewerFile'
    BY <2>3, NewerCalmFile
  <2>5. NewerBy(c)'
    BY <2>1, NewerOutside DEF Patching, After
  <2>6. ASSUME NEW d \in Syncs, d # c PROVE NewerBy(d)'
    <3>1. phase'[d] = phase[d]
      BY <2>6 DEF Elsewhere
    <3>2. needs'[d] = needs[d] /\ seen'[d] = seen[d] /\ diff'[d] = diff[d] /\ crossed'[d] = crossed[d]
      BY <1>1, <2>1
    <3>. QED
      BY <2>3, <3>1, <3>2, NewerCalm
  <2>. QED
    BY <2>4, <2>5, <2>6
<1>4. CASE node.kind # "DIRECTORY"
  <2>1. phase'[c] = "timing" /\ node'.kind = "FILE" /\ node'.unsynced = node.unsynced
    BY <1>1, <1>4 DEF ApplyPatch, Fields
  <2>2. \A d \in Syncs : crossed'[d] = (crossed[d] \/ (d # c /\ Relies(d)))
    BY <1>4 DEF ApplyPatch
  <2>3. Restamping(c)'
    BY <1>1, <1>2, <2>1 DEF Restamping
  <2>4. ~NoneRestamping'
    BY <2>3 DEF NoneRestamping
  <2>5. NewerFile' /\ NewerBy(c)'
    BY <1>1, <1>2, <2>1, <2>4 DEF NewerFile, NewerBy, Left, After
  <2>6. ASSUME NEW d \in Syncs, d # c PROVE NewerBy(d)'
    <3>1. phase'[d] = phase[d] /\ needs'[d] = needs[d] /\ seen'[d] = seen[d]
      BY <2>6 DEF Elsewhere
    <3>2. ~Left(d)'
      <4>1. (needs[d] /\ phase[d] \in {"unqueuing", "storing", "stamping"} \cup After) => Relies(d)
        BY DEF Relies, After
      <4>. QED
        BY <2>2, <2>6, <3>1, <4>1 DEF Left
    <3>. QED
      BY <1>2, <2>1, <2>4, <3>1, <3>2 DEF NewerBy
  <2>. QED
    BY <2>5, <2>6
<1>. QED
  BY <1>3, <1>4

LEMMA NewerStoreQueue ==
  ASSUME Fields, NewerFile, \A d \in Syncs : NewerBy(d), NEW c \in Syncs,
         StoreQueue(c), Elsewhere(c)
  PROVE  NewerFile' /\ \A d \in Syncs : NewerBy(d)'
<1>. USE DEF Moves, Trans
<1>1. /\ phase \in [Syncs -> Phases] /\ phase[c] = "storing" /\ phase'[c] = "stamping"
      /\ UNCHANGED <<node, loose, needs, seen, diff, crossed>>
      /\ queued' = (needs[c] /\ seen[c]) /\ needs[c] \in BOOLEAN /\ seen[c] \in BOOLEAN
  BY DEF Fields, Chains, Flags, StoreQueue, chain, history, causes, marks
<1>2. Restamping(c)' = Restamping(c)
  BY <1>1 DEF Restamping
<1>3. NoneRestamping' = NoneRestamping
  BY <1>2, RestampingElsewhere
\* What leaves the queue without a stamp of its own is being restamped.
<1>4. (NoneRestamping /\ node.kind = "FILE" /\ ~queued' /\ ~loose) => Own
  <2>. SUFFICES ASSUME NoneRestamping, node.kind = "FILE", ~queued', ~loose
                PROVE  Own
    OBVIOUS
  <2>1. needs[c]
    BY <1>1 DEF NoneRestamping, Restamping
  <2>2. ~seen[c]
    BY <1>1, <2>1
  <2>. QED
    BY <1>1, <2>1, <2>2 DEF NewerBy
<1>5. NewerFile'
  BY <1>1, <1>3, <1>4 DEF NewerFile, Own
<1>6. ASSUME NEW d \in Syncs, Knows(d)
      PROVE  queued' \/ loose \/ node.data = diff[d].checksum
  BY <1>4, <1>6 DEF Knows, Own
<1>7. NewerBy(c)'
  <2>1. Left(c)' => Left(c)
    BY <1>1 DEF Left
  <2>2. Knows(c) => Knows(c)'
    BY <1>1, <1>3, <1>6 DEF Knows
  <2>. QED
    BY <1>1, <2>1, <2>2 DEF NewerBy
<1>8. ASSUME NEW d \in Syncs, d # c PROVE NewerBy(d)'
  <2>1. phase'[d] = phase[d]
    BY <1>8 DEF Elsewhere
  <2>2. Left(d)' => Left(d)
    BY <1>1, <2>1 DEF Left
  <2>3. Knows(d) => Knows(d)'
    BY <1>1, <1>3, <1>6, <2>1 DEF Knows
  <2>. QED
    BY <1>1, <1>3, <2>1, <2>2, <2>3 DEF NewerBy, Own
<1>. QED
  BY <1>5, <1>7, <1>8

LEMMA NewerGenerate ==
  ASSUME Fields, NewerFile, \A d \in Syncs : NewerBy(d), NEW c \in Syncs,
         GenerateChecksums(c), Elsewhere(c)
  PROVE  NewerFile' /\ \A d \in Syncs : NewerBy(d)'
<1>. USE DEF Moves, Trans
<1>1. /\ phase \in [Syncs -> Phases] /\ phase[c] = "stamping" /\ phase'[c] = "patched"
      /\ UNCHANGED <<queued, loose, needs, seen, diff, crossed>>
  BY DEF Fields, Chains, GenerateChecksums, history, causes, marks
<1>2. CASE needs[c]
  <2>1. node' = node
    BY <1>2 DEF GenerateChecksums
  <2>2. Restamping(c)' = Restamping(c)
    BY <1>1, <1>2 DEF Restamping
  <2>3. Calm
    BY <1>1, <2>1, <2>2, RestampingElsewhere DEF Calm
  <2>4. NewerFile'
    BY <2>3, NewerCalmFile
  <2>5. NewerBy(c)'
    <3>1. Left(c)' => Left(c)
      BY <1>1 DEF Left
    <3>2. Knows(c) => Knows(c)'
      BY <1>1, <2>1, <2>3 DEF Knows, Calm
    <3>. QED
      BY <1>1, <3>1, <3>2 DEF NewerBy
  <2>6. ASSUME NEW d \in Syncs, d # c PROVE NewerBy(d)'
    <3>1. phase'[d] = phase[d]
      BY <2>6 DEF Elsewhere
    <3>. QED
      BY <1>1, <2>3, <3>1, NewerCalm
  <2>. QED
    BY <2>4, <2>5, <2>6
<1>3. CASE ~needs[c]
  <2>1. Restamping(c) /\ (node.kind = "FILE" => ~node.unsynced)
    BY <1>1, <1>3 DEF Restamping, NewerBy
  <2>2. /\ node'.kind = node.kind /\ node'.data = node.data /\ node'.unsynced = node.unsynced
        /\ node.kind = "FILE" => node'.stamp = node.data
    BY <1>3, <2>1 DEF GenerateChecksums, getChecksum, Fields
  <2>3. node'.kind = "FILE" => Own'
    BY <2>2 DEF Own
  <2>4. NewerFile'
    BY <2>3 DEF NewerFile
  <2>5. NewerBy(c)'
    BY <1>1, <1>3 DEF NewerBy, Left
  <2>6. ASSUME NEW d \in Syncs, d # c PROVE NewerBy(d)'
    <3>1. phase'[d] = phase[d]
      BY <2>6 DEF Elsewhere
    <3>2. ~Left(d)
      BY <2>1 DEF NewerBy, Knows, NoneRestamping
    <3>3. ~Left(d)'
      BY <1>1, <3>1, <3>2 DEF Left
    <3>. QED
      BY <1>1, <2>2, <2>3, <3>1, <3>3 DEF NewerBy
  <2>. QED
    BY <2>4, <2>5, <2>6
<1>. QED
  BY <1>2, <1>3

\* A step of a sync's outside its patch.
LEMMA NewerAside ==
  ASSUME Fields, MarkShapes, NewerInv, NEW c \in Syncs, Sound',
         SyncDownstream(c) \/ CheckLockFails(c) \/ BrowserFails(c) \/ Before(c) \/ Beyond(c)
  PROVE  NewerFile' /\ \A d \in Syncs : NewerBy(d)'
<1>. USE DEF Moves, Trans
<1>1. Elsewhere(c) /\ phase \in [Syncs -> Phases]
  BY ChainsBefore, ChainsOther DEF Fields, Chains
<1>2. UNCHANGED <<node, queued>>
  BY NodeAside
<1>3. /\ UNCHANGED <<loose, clashed>> /\ (overlap => overlap') /\ (halfway => halfway')
      /\ \A d \in Syncs : d # c => crossed'[d] = crossed[d]
  <2>1. CASE SyncDownstream(c)
    BY <2>1 DEF SyncDownstream, causes, MarkShapes, Flags
  <2>2. CASE CheckLockFails(c)
    BY <2>2 DEF CheckLockFails, causes
  <2>6. CASE BrowserFails(c)
    <3>1. UNCHANGED <<loose, clashed, overlap, crossed>>
      BY <2>6 DEF BrowserFails
    <3>2. halfway => halfway'
      BY <2>6 DEF BrowserFails
    <3>. QED
      BY <3>1, <3>2
  <2>3. CASE HandleDiffResponse(c)
    <3>1. UNCHANGED <<loose, clashed, halfway, crossed>>
      BY <2>3 DEF HandleDiffResponse
    <3>2. overlap => overlap'
      BY <2>3 DEF HandleDiffResponse
    <3>. QED
      BY <3>1, <3>2
  <2>4. CASE Before(c) /\ ~HandleDiffResponse(c)
    BY <2>4 DEF Before, SendSourceList, Checksums, SendChecksums, CheckLock, ReadForDiff,
       AppendChecksum, history, causes, marks
  <2>5. CASE Beyond(c)
    BY <2>5 DEF Beyond, ComparePatch, HandleVerification, HandleDownstreamError, history,
       causes, marks
  <2>. QED
    BY <2>1, <2>2, <2>3, <2>4, <2>5, <2>6
<1>4. Sound /\ NewerFile /\ \A d \in Syncs : NewerBy(d)
  BY <1>3 DEF Sound, NewerInv
<1>5. ~Restamping(c) /\ ~Restamping(c)'
  <2>1. CASE SyncDownstream(c) \/ CheckLockFails(c)
    BY <1>1, <2>1 DEF SyncDownstream, CheckLockFails, Restamping, Ended
  <2>2. CASE BrowserFails(c)
    <3>1. halfway' = (halfway \/ phase[c] \in {"timing", "unqueuing", "storing", "stamping"})
      BY <2>2 DEF BrowserFails
    <3>2. phase[c] \notin {"timing", "unqueuing", "storing", "stamping"}
      BY <3>1 DEF Sound
    <3>3. phase'[c] = "delayed"
      BY <1>1, <2>2 DEF BrowserFails
    <3>. QED
      BY <3>2, <3>3 DEF Restamping
  <2>3. CASE Before(c)
    BY <1>1, <2>3 DEF Before, SendSourceList, Checksums, SendChecksums, CheckLock, ReadForDiff,
       AppendChecksum, HandleDiffResponse, Restamping
  <2>4. CASE Beyond(c)
    BY <1>1, <2>4 DEF Beyond, ComparePatch, HandleVerification, HandleDownstreamError, Restamping
  <2>. QED
    BY <2>1, <2>2, <2>3, <2>4
<1>6. Calm
  <2>1. NoneRestamping' = NoneRestamping
    <3>1. Restamping(c)' = Restamping(c)
      BY <1>5 DEF Restamping
    <3>. QED
      BY <1>1, <3>1, RestampingElsewhere
  <2>. QED
    BY <1>2, <1>3, <2>1 DEF Calm
<1>7. NewerFile'
  BY <1>4, <1>6, NewerCalmFile
<1>8. ASSUME NEW d \in Syncs, d # c PROVE NewerBy(d)'
  <2>1. phase'[d] = phase[d] /\ needs'[d] = needs[d] /\ seen'[d] = seen[d] /\ diff'[d] = diff[d]
    BY <1>1, <1>8 DEF Elsewhere
  <2>2. crossed'[d] = crossed[d]
    BY <1>3, <1>8
  <2>. QED
    BY <1>4, <1>6, <2>1, <2>2, NewerCalm
<1>9. NewerBy(c)'
  <2>1. CASE ComparePatch(c) \/ HandleVerification(c)
    <3>1. /\ phase[c] \in {"patched", "verified"}
          /\ phase'[c] \in {"verified", "mismatched", "completed"}
          /\ UNCHANGED <<needs, diff, crossed>>
      BY <1>1, <2>1 DEF ComparePatch, HandleVerification, chain, history, marks
    <3>2. Left(c)' => Left(c)
      BY <3>1 DEF Left, After
    <3>3. Knows(c) => Knows(c)'
      BY <1>6, <3>1 DEF Knows, Calm
    <3>. QED
      BY <1>4, <3>1, <3>2, <3>3 DEF NewerBy
  <2>2. CASE ~ComparePatch(c) /\ ~HandleVerification(c)
    <3>1. phase'[c] \notin (Patching \ {"reading"}) \cup After
      <4>1. CASE SyncDownstream(c) \/ CheckLockFails(c) \/ BrowserFails(c)
        BY <1>1, <4>1 DEF SyncDownstream, CheckLockFails, BrowserFails, Patching, After
      <4>2. CASE Before(c)
        BY <1>1, <4>2 DEF Before, SendSourceList, Checksums, SendChecksums, CheckLock,
           ReadForDiff, AppendChecksum, HandleDiffResponse, Patching, After
      <4>3. CASE HandleDownstreamError(c)
        BY <1>1, <4>3 DEF HandleDownstreamError, Patching, After
      <4>. QED
        BY <2>2, <4>1, <4>2, <4>3 DEF Beyond
    <3>. QED
      BY <3>1, NewerOutside
  <2>. QED
    BY <2>1, <2>2
<1>. QED
  BY <1>7, <1>8, <1>9

\* A step of the user's, or of another client's.
LEMMA NewerAloof ==
  ASSUME Fields, KeptInv, NewerInv, Aloof, Sound'
  PROVE  NewerFile' /\ \A c \in Syncs : NewerBy(c)'
<1>1. UNCHANGED <<phase, needs, seen, diff>>
  BY ChainsAloof DEF chain
<1>2. NoneRestamping' = NoneRestamping
  BY <1>1 DEF NoneRestamping, Restamping
<1>3. UNCHANGED <<halfway, clashed, crossed>> /\ (overlap => overlap')
  <2>1. CASE EditMark \/ DescriptorWrite
    BY <2>1 DEF EditMark, DescriptorWrite, Starts
  <2>2. CASE EditQueue \/ EditWrite \/ EditFlag
    <3>1. UNCHANGED <<overlap, halfway, clashed, marks>>
      <4>1. CASE EditQueue
        BY <4>1 DEF EditQueue
      <4>2. CASE EditWrite
        BY <4>2 DEF EditWrite, history, causes
      <4>3. CASE EditFlag
        BY <4>3 DEF EditFlag, causes
      <4>. QED
        BY <2>2, <4>1, <4>2, <4>3
    <3>. QED
      BY <3>1 DEF marks
  <2>3. CASE ForcedDequeue
    BY <2>3 DEF ForcedDequeue, marks
  <2>4. CASE OtherStep
    BY <2>4 DEF OtherStep, OtherLocks, OtherPatches, OtherReleases, history, causes, marks
  <2>. QED
    BY <2>1, <2>2, <2>3, <2>4 DEF Aloof, EditStep
<1>4. /\ NewerFile /\ \A c \in Syncs : NewerBy(c)
      /\ KeptFile /\ \A c \in Syncs : KeptBy(c)
  BY <1>3 DEF Sound, NewerInv, KeptInv
<1>5. CASE UNCHANGED <<node, queued, loose>>
  <2>1. Calm
    BY <1>2, <1>5 DEF Calm
  <2>2. \A c \in Syncs : phase'[c] = phase[c] /\ needs'[c] = needs[c] /\ seen'[c] = seen[c]
                         /\ diff'[c] = diff[c] /\ crossed'[c] = crossed[c]
    BY <1>1, <1>3
  <2>. QED
    BY <1>4, <2>1, <2>2, NewerCalm, NewerCalmFile
<1>6. CASE ForcedDequeue
  <2>1. node' = node /\ loose' = TRUE
    BY <1>6 DEF ForcedDequeue
  <2>2. NewerFile'
    BY <2>1 DEF NewerFile
  <2>3. ASSUME NEW c \in Syncs PROVE NewerBy(c)'
    <3>1. Left(c)' => Left(c)
      BY <1>1, <1>3 DEF Left
    <3>2. Knows(c) => Knows(c)'
      BY <1>1, <1>2, <2>1 DEF Knows
    <3>. QED
      BY <1>1, <1>4, <2>1, <3>1, <3>2 DEF NewerBy
  <2>. QED
    BY <2>2, <2>3
<1>7. CASE EditMark \/ DescriptorWrite
  <2>1. /\ UNCHANGED <<node, queued>> /\ (loose' = loose \/ loose' = TRUE)
        /\ overlap' = (overlap \/ \E c \in Syncs : phase[c] \in Patching)
    BY <1>7 DEF EditMark, DescriptorWrite, Starts
  <2>2. NewerFile'
    BY <1>2, <1>4, <2>1 DEF NewerFile, Own
  <2>3. ASSUME NEW c \in Syncs PROVE NewerBy(c)'
    <3>1. phase[c] \notin Patching
      BY <2>1 DEF Sound
    <3>2. Left(c)' => Left(c)
      BY <1>1, <1>3 DEF Left
    <3>3. Knows(c) => Knows(c)'
      BY <1>1, <1>2, <2>1 DEF Knows
    <3>. QED
      BY <1>1, <1>4, <3>1, <3>2, <3>3 DEF NewerBy, Patching
  <2>. QED
    BY <2>2, <2>3
<1>8. CASE EditQueue \/ EditWrite \/ EditFlag
  <2>1. edit.pc # "idle"
    BY <1>8 DEF EditQueue, EditWrite, EditFlag
  <2>2. \A c \in Syncs : phase[c] \notin Patching
    BY <1>4, <2>1 DEF KeptBy
  <2>3. /\ node.kind = "FILE" => node'.kind = "FILE"
        /\ node'.stamp = node.stamp
        /\ queued' \/ loose' \/ (UNCHANGED <<queued, loose>> /\ node'.data = node.data
                                 /\ node'.kind = node.kind)
    <3>1. CASE EditQueue
      BY <3>1 DEF EditQueue
    <3>2. CASE EditWrite
      <4>1. UNCHANGED <<queued, loose>> /\ edit.pc = "writing"
        BY <3>2 DEF EditWrite, history, causes
      <4>2. queued \/ loose
        BY <1>4, <4>1 DEF KeptFile
      <4>3. (node.kind = "FILE" => node'.kind = "FILE") /\ node'.stamp = node.stamp
        BY <3>2 DEF EditWrite, Fields
      <4>. QED
        BY <4>1, <4>2, <4>3
    <3>3. CASE EditFlag
      BY <3>3 DEF EditFlag, causes, Fields
    <3>. QED
      BY <1>8, <3>1, <3>2, <3>3
  <2>4. NewerFile'
    BY <1>2, <1>4, <2>3 DEF NewerFile, Own
  <2>5. ASSUME NEW c \in Syncs PROVE NewerBy(c)'
    <3>1. phase[c] \notin Patching
      BY <2>2
    <3>2. Left(c)' => Left(c)
      BY <1>1, <1>3 DEF Left
    <3>3. Knows(c) => Knows(c)'
      BY <1>1, <1>2, <2>3, <3>1 DEF Knows, Patching
    <3>. QED
      BY <1>1, <1>4, <3>1, <3>2, <3>3 DEF NewerBy, Patching
  <2>. QED
    BY <2>4, <2>5
<1>9. CASE OtherStep
  BY <1>5, <1>9 DEF OtherStep, OtherLocks, OtherPatches, OtherReleases, browser, history, causes
<1>. QED
  BY <1>6, <1>7, <1>8, <1>9 DEF Aloof, EditStep

LEMMA NewerNext == NewerInv /\ KeptInv /\ Fields /\ MarkShapes /\ [Next]_vars => NewerInv'
<1>. SUFFICES ASSUME NewerInv, KeptInv, Fields, MarkShapes, [Next]_vars, Sound'
              PROVE  NewerFile' /\ \A d \in Syncs : NewerBy(d)'
  BY DEF NewerInv
<1>1. ASSUME NEW c \in Syncs, SyncDownstream(c) \/ CheckLockFails(c) \/ BrowserFails(c)
                              \/ Before(c) \/ Beyond(c)
      PROVE  NewerFile' /\ \A d \in Syncs : NewerBy(d)'
  BY <1>1, NewerAside
<1>2. ASSUME NEW c \in Syncs, Within(c)
      PROVE  NewerFile' /\ \A d \in Syncs : NewerBy(d)'
  <2>1. Elsewhere(c)
    BY <1>2, ChainsWithin
  <2>2. UNCHANGED <<overlap, halfway>> /\ (clashed => clashed')
    BY <1>2, WithinAside
  <2>3. NewerFile /\ (\A d \in Syncs : NewerBy(d)) /\ ~clashed'
    BY <2>2 DEF Sound, NewerInv
  <2>4. CASE Reads(c)
    BY <2>1, <2>3, <2>4, NewerReads
  <2>5. CASE PatchDir(c)
    BY <2>1, <2>3, <2>5, NewerPatchDir
  <2>6. CASE ApplyPatch(c)
    BY <2>1, <2>3, <2>6, NewerApplyPatch
  <2>7. CASE StoreQueue(c)
    BY <2>1, <2>3, <2>7, NewerStoreQueue
  <2>8. CASE GenerateChecksums(c)
    BY <2>1, <2>3, <2>8, NewerGenerate
  <2>. QED
    BY <1>2, <2>4, <2>5, <2>6, <2>7, <2>8 DEF Within, Reads
<1>3. CASE Aloof
  BY <1>3, NewerAloof
<1>4. CASE UNCHANGED vars
  <2>1. UNCHANGED <<node, queued, loose, phase, needs, seen, diff, crossed, overlap, halfway, clashed>>
    BY <1>4 DEF vars, browser, chain, history, causes, marks
  <2>2. Calm
    BY <2>1 DEF Calm, NoneRestamping, Restamping
  <2>3. NewerFile /\ \A d \in Syncs : NewerBy(d)
    BY <2>1 DEF Sound, NewerInv
  <2>. QED
    BY <2>1, <2>2, <2>3, NewerCalm, NewerCalmFile
<1>. QED
  BY <1>1, <1>2, <1>3, <1>4, SyncSteps DEF Next, Aloof

\* A file that a sync leaves alone because it is newer is in the queue, or is
\* what the server has, unless it was written past the queue or its upload was
\* refused.  (compareVersions, handleDiffResponse, handleForcedDownstream)
THEOREM NewerFileIsQueuedHolds == Spec => []NewerFileIsQueued
<1>1. NewerInv => NewerFileIsQueued
  BY DEF NewerInv, NewerBy, Sound, Left, Knows, After, NewerFileIsQueued, Newer
<1>2. Init => NewerInv /\ KeptInv /\ MarkShapes
  BY NewerInit, KeptInit, FieldsInit
<1>. QED
  BY <1>1, <1>2, NewerNext, KeptNext, MarksNext, FieldsHold, PTL DEF Spec

-----------------------------------------------------------------------------
(* The weak checksums of rsync, in terms of the sums of the first bytes    *)

\* A[i] is the sum of the first i bytes, B[i] the sum of A[1] .. A[i].
Sums(data, A, B) ==
  /\ A \in [0..Len(data) -> Nat] /\ B \in [0..Len(data) -> Nat]
  /\ A[0] = 0 /\ B[0] = 0
  /\ \A i \in 1..Len(data) : A[i] = A[i - 1] + data[i] /\ B[i] = B[i - 1] + A[i]

LEMMA ByteFacts ==
  ASSUME NEW data \in Seq(Byte)
  PROVE  /\ Len(data) \in Nat /\ DOMAIN data = 1..Len(data)
         /\ \A i \in 1..Len(data) : data[i] \in Nat /\ data[i] <= 255
<1>1. Len(data) \in Nat /\ DOMAIN data = 1..Len(data) /\ \A i \in 1..Len(data) : data[i] \in Byte
  OBVIOUS
<1>2. \A x \in Byte : x \in Nat /\ x <= 255
  BY DEF Byte
<1>. QED BY <1>1, <1>2

LEMMA SumsExist ==
  ASSUME NEW data \in Seq(Byte)
  PROVE  \E A, B : Sums(data, A, B)
<1>. DEFINE n == Len(data)
<1>1. n \in Nat /\ \A i \in 1..n : data[i] \in Nat
  BY ByteFacts
<1>. HIDE DEF n
<1>2. PICK A \in [0..n -> Nat] : A[0] = 0 /\ \A i \in 1..n : A[i] = A[i - 1] + data[i]
  <2>. DEFINE step == [i \in 1..n |-> [x \in Nat |-> x + data[i]]]
  <2>1. step \in [1..n -> [Nat -> Nat]]
    BY <1>1
  <2>2. \A i \in 1..n : \A x \in Nat : step[i][x] = x + data[i]
    OBVIOUS
  <2>. HIDE DEF step
  <2>3. PICK f : IsLoop(f, n, Nat, 0, step)
    BY <1>1, <2>1, LoopExists
  <2>4. f \in [0..n -> Nat] /\ \A i \in 1..n : f[i - 1] \in Nat
    <3>1. f \in [0..n -> Nat]
      BY <2>3 DEF IsLoop
    <3>2. \A i \in 1..n : i - 1 \in 0..n
      BY <1>1
    <3>. QED BY <3>1, <3>2
  <2>5. \A i \in 1..n : f[i] = f[i - 1] + data[i]
    BY <2>2, <2>3, <2>4 DEF IsLoop
  <2>. QED BY <2>3, <2>4, <2>5 DEF IsLoop
<1>3. PICK B \in [0..n -> Nat] : B[0] = 0 /\ \A i \in 1..n : B[i] = B[i - 1] + A[i]
  <2>. DEFINE step == [i \in 1..n |-> [x \in Nat |-> x + A[i]]]
  <2>1. step \in [1..n -> [Nat -> Nat]]
    OBVIOUS
  <2>2. \A i \in 1..n : \A x \in Nat : step[i][x] = x + A[i]
    OBVIOUS
  <2>. HIDE DEF step
  <2>3. PICK f : IsLoop(f, n, Nat, 0, step)
    BY <1>1, <2>1, LoopExists
  <2>4. f \in [0..n -> Nat] /\ \A i \in 1..n : f[i - 1] \in Nat
    <3>1. f \in [0..n -> Nat]
      BY <2>3 DEF IsLoop
    <3>2. \A i \in 1..n : i - 1 \in 0..n
      BY <1>1
    <3>. QED BY <3>1, <3>2
  <2>5. \A i \in 1..n : f[i] = f[i - 1] + A[i]
    BY <2>2, <2>3, <2>4 DEF IsLoop
  <2>. QED BY <2>3, <2>4, <2>5 DEF IsLoop
<1>. QED BY <1>2, <1>3 DEF Sums, n

\* calcWeak32() of `len` bytes that data has from offset s on.
LEMMA WeakLoopSums ==
  ASSUME NEW data \in Seq(Byte), NEW A, NEW B, Sums(data, A, B),
         NEW chunk \in Seq(Byte), NEW len \in Nat, NEW s \in Nat,
         len <= Len(chunk), s + len <= Len(data), \A i \in 1..len : chunk[i] = data[s + i]
  PROVE  WeakLoop(chunk, len) = << A[s + len] - A[s], B[s + len] - B[s] - len * A[s] >>
<1>. DEFINE V == Int \X Int
            Eq(f) == f = [i \in 0..len |-> IF i = 0 THEN <<0, 0>> ELSE WeakTurn(chunk, len, f[i - 1], i)]
            w == CHOOSE f : Eq(f)
<1>0. \A i \in 0..len : s + i \in 0..Len(data) /\ A[s + i] \in Int /\ B[s + i] \in Int
                         /\ A[s] \in Int /\ B[s] \in Int
  <2>1. \A i \in 0..len : s + i \in 0..Len(data)
    BY ByteFacts
  <2>2. s \in 0..Len(data)
    BY ByteFacts
  <2>3. A \in [0..Len(data) -> Nat] /\ B \in [0..Len(data) -> Nat]
    BY DEF Sums
  <2>4. \A j \in 0..Len(data) : A[j] \in Int /\ B[j] \in Int
    <3>1. ASSUME NEW j \in 0..Len(data) PROVE A[j] \in Nat /\ B[j] \in Nat
      BY <2>3
    <3>. QED BY <3>1
  <2>. QED BY <2>1, <2>2, <2>4
<1>1. \A i \in 1..len : chunk[i] \in Int
  BY ByteFacts
<1>2. \A x \in V : \A i \in 1..len : WeakTurn(chunk, len, x, i) \in V
  <2>1. ASSUME NEW x \in V, NEW i \in 1..len PROVE WeakTurn(chunk, len, x, i) \in V
    <3>. DEFINE e == chunk[i]
                m == (len - i + 1) * e
    <3>1. x[1] \in Int /\ x[2] \in Int /\ e \in Int /\ len - i + 1 \in Int
      BY <1>1
    <3>2. m \in Int
      BY <3>1
    <3>3. WeakTurn(chunk, len, x, i) = <<x[1] + e, x[2] + m>>
      BY DEF WeakTurn
    <3>. HIDE DEF e, m
    <3>. QED BY <3>1, <3>2, <3>3
  <2>. QED BY <2>1
<1>3. \E f : Eq(f)
  <2>. DEFINE step == [i \in 1..len |-> [x \in V |-> WeakTurn(chunk, len, x, i)]]
  <2>1. step \in [1..len -> [V -> V]]
    BY <1>2
  <2>2. \A i \in 1..len : \A x \in V : step[i][x] = WeakTurn(chunk, len, x, i)
    OBVIOUS
  <2>3. <<0, 0>> \in V
    OBVIOUS
  <2>. HIDE DEF step, V
  <2>4. PICK f : IsLoop(f, len, V, <<0, 0>>, step)
    BY <2>1, <2>3, LoopExists
  <2>5. \A i \in 0..len : f[i] = IF i = 0 THEN <<0, 0>> ELSE WeakTurn(chunk, len, f[i - 1], i)
    <3>1. \A i \in 0..len : i # 0 => i \in 1..len /\ i - 1 \in 0..len /\ f[i - 1] \in V
      BY <2>4 DEF IsLoop
    <3>. QED BY <2>2, <2>4, <3>1 DEF IsLoop
  <2>6. Eq(f)
    <3>1. f = [i \in 0..len |-> f[i]]
      BY <2>4 DEF IsLoop
    <3>. QED BY <2>5, <3>1
  <2>. QED BY <2>6
<1>4. Eq(w)
  BY <1>3, Zenon
<1>5. WeakLoop(chunk, len) = w[len]
  BY DEF WeakLoop
<1>. HIDE DEF w
<1>6. w[0] = <<0, 0>> /\ \A i \in 1..len : w[i] = WeakTurn(chunk, len, w[i - 1], i)
  <2>1. \A i \in 0..len : w[i] = IF i = 0 THEN <<0, 0>> ELSE WeakTurn(chunk, len, w[i - 1], i)
    BY <1>4
  <2>. QED BY <2>1
<1>. DEFINE held == {i \in 0..len : w[i] = << A[s + i] - A[s],
                      B[s + i] - B[s] - i * A[s] + (len - i) * (A[s + i] - A[s]) >>}
<1>7. 0 \in held
  <2>1. s + 0 = s /\ A[s] \in Int /\ B[s] \in Int
    BY <1>0
  <2>2. 0 * A[s] = 0 /\ (len - 0) * (A[s] - A[s]) = 0
    BY <2>1
  <2>. QED BY <1>6, <2>1, <2>2
<1>8. ASSUME NEW i \in 1..len, i - 1 \in held PROVE i \in held
  <2>. DEFINE a0 == A[s]
              b0 == B[s]
              a1 == A[s + (i - 1)]
              b1 == B[s + (i - 1)]
              e == chunk[i]
  <2>1. s + i \in 1..Len(data) /\ (s + i) - 1 = s + (i - 1) /\ s \in 0..Len(data)
        /\ s + (i - 1) \in 0..Len(data) /\ len - i + 1 = len - (i - 1)
    BY ByteFacts
  <2>2. /\ a0 \in Int /\ b0 \in Int /\ a1 \in Int /\ b1 \in Int /\ e \in Int
        /\ A[s + i] = a1 + e /\ B[s + i] = b1 + (a1 + e)
    <3>1. A[s + i] = A[(s + i) - 1] + data[s + i] /\ B[s + i] = B[(s + i) - 1] + A[s + i]
      BY <2>1 DEF Sums
    <3>2. A[(s + i) - 1] = a1 /\ B[(s + i) - 1] = b1 /\ data[s + i] = e
      BY <2>1
    <3>3. i - 1 \in 0..len
      OBVIOUS
    <3>. QED BY <1>0, <1>1, <3>1, <3>2, <3>3
  <2>3. w[i] = WeakTurn(chunk, len, w[i - 1], i)
    BY <1>6
  <2>4. w[i - 1] = << a1 - a0, b1 - b0 - (i - 1) * a0 + (len - (i - 1)) * (a1 - a0) >>
    BY <1>8
  <2>. HIDE DEF a0, b0, a1, b1, e
  <2>5. w[i] = << (a1 - a0) + e, b1 - b0 - (i - 1) * a0 + (len - (i - 1)) * (a1 - a0) + (len - (i - 1)) * e >>
    BY <2>1, <2>3, <2>4 DEF WeakTurn, e
  <2>6. (a1 - a0) + e = (a1 + e) - a0
    BY <2>2
  <2>7. b1 - b0 - (i - 1) * a0 + (len - (i - 1)) * (a1 - a0) + (len - (i - 1)) * e
          = (b1 + (a1 + e)) - b0 - i * a0 + (len - i) * ((a1 + e) - a0)
    <3>. DEFINE m == len - i
                c == a1 - a0
    <3>1. m \in Int /\ c \in Int /\ len - (i - 1) = m + 1 /\ (a1 + e) - a0 = c + e /\ i \in Int
      BY <2>2
    <3>2. (m + 1) * c = m * c + c /\ (m + 1) * e = m * e + e /\ m * (c + e) = m * c + m * e
          /\ (i - 1) * a0 = i * a0 - a0
      BY <2>2, <3>1
    <3>3. m * c \in Int /\ m * e \in Int /\ i * a0 \in Int /\ c = a1 - a0
      BY <2>2, <3>1
    <3>. HIDE DEF m, c
    <3>4. b1 - b0 - (i * a0 - a0) + (m * c + c) + (m * e + e) = (b1 + (a1 + e)) - b0 - i * a0 + (m * c + m * e)
      BY <2>2, <3>3
    <3>5. /\ (len - (i - 1)) * (a1 - a0) = m * c + c /\ (len - (i - 1)) * e = m * e + e
          /\ (len - i) * ((a1 + e) - a0) = m * c + m * e
      BY <3>1, <3>2 DEF m, c
    <3>. QED BY <3>2, <3>4, <3>5
  <2>8. w[i] = << A[s + i] - a0, B[s + i] - b0 - i * a0 + (len - i) * (A[s + i] - a0) >>
    BY <2>2, <2>5, <2>6, <2>7
  <2>. QED BY <2>8 DEF a0, b0
<1>. HIDE DEF held
<1>9. \A i \in 0..len : i \in held
  BY <1>7, <1>8, UpTo
<1>10. w[len] = << A[s + len] - A[s], B[s + len] - B[s] - len * A[s] + (len - len) * (A[s + len] - A[s]) >>
  BY <1>9 DEF held
<1>11. (len - len) * (A[s + len] - A[s]) = 0 /\ B[s + len] - B[s] - len * A[s] \in Int
  <2>1. A[s + len] \in Int /\ A[s] \in Int /\ B[s + len] \in Int /\ B[s] \in Int
    BY <1>0
  <2>. QED BY <2>1
<1>. QED BY <1>5, <1>10, <1>11

-----------------------------------------------------------------------------
(* The rolling sums of roll().  The first window is weighed one byte too    *)
(* long, and that byte, d, stays in every sum after it.                     *)

LEMMA Distribute ==
  ASSUME NEW k \in Int, NEW x \in Int, NEW y \in Int
  PROVE  k * (x + y) = k * x + k * y /\ (k + 1) * x = k * x + x /\ k * x \in Int
OBVIOUS

LEMMA PairIsNotEmpty ==
  ASSUME NEW x \in Int \X Int
  PROVE  x # NaN
<1>1. Len(x) = 2 /\ Len(NaN) = 0
  BY DEF NaN
<1>. QED BY <1>1

LEMMA JsModFacts ==
  ASSUME NEW n \in Int
  PROVE  /\ JsMod(n) \in Int /\ 0 - N < JsMod(n) /\ JsMod(n) < N
         /\ \E p \in Int : JsMod(n) = n + p * N
<1>1. ASSUME NEW m \in Nat PROVE m % N \in Int /\ 0 <= m % N /\ m % N < N /\ \E p \in Int : m % N = m + p * N
  <2>. DEFINE p == 0 - (m \div N)
  <2>1. p \in Int /\ m % N = m + p * N
    BY DEF N
  <2>2. m % N \in Int /\ 0 <= m % N /\ m % N < N
    BY DEF N
  <2>. HIDE DEF p
  <2>. QED BY <2>1, <2>2
<1>2. CASE n >= 0
  <2>1. n \in Nat /\ JsMod(n) = n % N /\ 0 - N < 0 /\ N \in Int
    BY <1>2 DEF JsMod, N
  <2>. QED BY <1>1, <2>1
<1>3. CASE ~(n >= 0)
  <2>1. 0 - n \in Nat /\ JsMod(n) = 0 - ((0 - n) % N)
    BY <1>3 DEF JsMod
  <2>2. PICK p \in Int : (0 - n) % N = (0 - n) + p * N
    BY <1>1, <2>1
  <2>3. JsMod(n) = n + (0 - p) * N /\ 0 - p \in Int
    BY <2>1, <2>2 DEF N
  <2>4. JsMod(n) \in Int /\ 0 - N < JsMod(n) /\ JsMod(n) < N
    BY <1>1, <2>1 DEF N
  <2>. QED BY <2>3, <2>4
<1>. QED BY <1>2, <1>3

LEMMA WindowFacts ==
  ASSUME NEW data \in Seq(Byte)
  PROVE  /\ WindowLength(data) \in Nat
         /\ WindowLength(data) <= Size /\ WindowLength(data) <= Len(data)
         /\ WindowLength(data) < Len(data) => WindowLength(data) = Size
<1>1. Size \in Nat /\ Len(data) \in Nat
  BY SizeAssumption, ByteFacts
<1>2. {Size, Len(data)} \subseteq Nat /\ {Size, Len(data)} # {}
  BY <1>1
<1>3. Min({Size, Len(data)}) \in {Size, Len(data)} /\ \A m \in {Size, Len(data)} : Min({Size, Len(data)}) <= m
  BY <1>2, LeastIsMin
<1>. QED BY <1>1, <1>3 DEF WindowLength

\* A weak value is a pair of numbers, or nothing.
Weaks == {NaN} \cup (Int \X Int)

LEMMA RollWeakType ==
  ASSUME NEW data, NEW x \in Weaks, NEW start \in Int, NEW end \in Int,
         data[start] \in Int, data[end] \in Int
  PROVE  rollWeak32(data, x, start, end) \in Weaks
<1>1. CASE x = NaN
  BY <1>1 DEF rollWeak32, Weaks
<1>2. CASE x # NaN
  <2>. DEFINE z == x[1] - data[start] + data[end]
              a == JsMod(z)
              y == x[2] - (end - start) * data[start] + a
  <2>1. x[1] \in Int /\ x[2] \in Int
    BY <1>2 DEF Weaks
  <2>2. z \in Int
    BY <2>1
  <2>3. a \in Int
    <3>. HIDE DEF z
    <3>. QED BY <2>2, JsModFacts
  <2>4. y \in Int
    <3>1. (end - start) * data[start] \in Int
      OBVIOUS
    <3>. HIDE DEF a
    <3>. QED BY <2>1, <2>3, <3>1
  <2>5. JsMod(y) \in Int
    <3>. HIDE DEF y
    <3>. QED BY <2>4, JsModFacts
  <2>6. rollWeak32(data, x, start, end) = <<a, JsMod(y)>>
    BY <1>2 DEF rollWeak32
  <2>. HIDE DEF a, y
  <2>. QED BY <2>3, <2>5, <2>6 DEF Weaks
<1>. QED BY <1>1, <1>2

LEMMA WeakOfWindowIsLoop ==
  ASSUME NEW data \in Seq(Byte)
  PROVE  LET blk == WindowLength(data)
             W == WeakOfWindow(data)
         IN /\ W[0] = calcWeak32(data, blk + 1)
            /\ \A s \in 1..(Len(data) - blk) :
                 W[s] = rollWeak32(data, W[s - 1], s, s + blk)
<1>. DEFINE blk == WindowLength(data)
            n == Len(data) - blk
            Eq(f) == f = [start \in 0 .. Len(data) - blk |->
                            IF start = 0 THEN calcWeak32(data, blk + 1)
                            ELSE rollWeak32(data, f[start - 1], start, start + blk)]
            W == CHOOSE f : Eq(f)
<1>1. n \in Nat
  BY ByteFacts, WindowFacts
<1>2. calcWeak32(data, blk + 1) \in Weaks
  <2>1. CASE blk + 1 > Len(data)
    BY <2>1 DEF calcWeak32, Weaks
  <2>2. CASE ~(blk + 1 > Len(data))
    <3>1. PICK A, B : Sums(data, A, B)
      BY SumsExist
    <3>2. blk + 1 \in Nat /\ blk + 1 <= Len(data) /\ 0 + (blk + 1) = blk + 1
      BY <2>2, WindowFacts, ByteFacts
    <3>3. WeakLoop(data, blk + 1) = << A[0 + (blk + 1)] - A[0], B[0 + (blk + 1)] - B[0] - (blk + 1) * A[0] >>
      <4>1. \A i \in 1..(blk + 1) : data[i] = data[0 + i]
        BY <3>2
      <4>. QED BY <3>1, <3>2, <4>1, WeakLoopSums
    <3>4. A[blk + 1] \in Nat /\ A[0] = 0 /\ B[blk + 1] \in Nat /\ B[0] = 0
      BY <3>1, <3>2 DEF Sums
    <3>5. WeakLoop(data, blk + 1) = << A[blk + 1], B[blk + 1] >>
      BY <3>2, <3>3, <3>4
    <3>6. calcWeak32(data, blk + 1) = << A[blk + 1] % N, B[blk + 1] % N >>
      BY <2>2, <3>5 DEF calcWeak32
    <3>7. A[blk + 1] % N \in Int /\ B[blk + 1] % N \in Int
      BY <3>4 DEF N
    <3>. QED BY <3>6, <3>7 DEF Weaks
  <2>. QED BY <2>1, <2>2
<1>3. ASSUME NEW x \in Weaks, NEW s \in 1..n PROVE rollWeak32(data, x, s, s + blk) \in Weaks
  <2>1. s \in 1..Len(data) /\ s + blk \in 1..Len(data)
    BY WindowFacts, ByteFacts
  <2>2. data[s] \in Int /\ data[s + blk] \in Int /\ s \in Int /\ s + blk \in Int
    BY <2>1, ByteFacts
  <2>. QED BY <2>2, RollWeakType
<1>4. \E f : Eq(f)
  <2>. DEFINE step == [s \in 1..n |-> [x \in Weaks |-> rollWeak32(data, x, s, s + blk)]]
              v == calcWeak32(data, blk + 1)
  <2>1. step \in [1..n -> [Weaks -> Weaks]]
    BY <1>3
  <2>2. \A s \in 1..n : \A x \in Weaks : step[s][x] = rollWeak32(data, x, s, s + blk)
    OBVIOUS
  <2>. HIDE DEF step, n
  <2>3. PICK f : IsLoop(f, n, Weaks, v, step)
    BY <1>1, <1>2, <2>1, LoopExists
  <2>4. ASSUME NEW s \in 0..n
        PROVE  f[s] = IF s = 0 THEN v ELSE rollWeak32(data, f[s - 1], s, s + blk)
    <3>1. s # 0 => s \in 1..n /\ s - 1 \in 0..n /\ f[s - 1] \in Weaks
      BY <1>1, <2>3 DEF IsLoop
    <3>. QED BY <2>2, <2>3, <3>1 DEF IsLoop
  <2>5. f = [s \in 0..n |-> f[s]]
    BY <2>3 DEF IsLoop
  <2>6. f = [s \in 0..n |-> IF s = 0 THEN v ELSE rollWeak32(data, f[s - 1], s, s + blk)]
    BY <2>4, <2>5
  <2>7. Eq(f)
    BY <2>6 DEF n
  <2>. QED BY <2>7
<1>5. Eq(W)
  BY <1>4, Zenon
<1>6. WeakOfWindow(data) = W
  BY DEF WeakOfWindow
<1>. HIDE DEF W
<1>7. \A s \in 0..n : W[s] = IF s = 0 THEN calcWeak32(data, blk + 1)
                              ELSE rollWeak32(data, W[s - 1], s, s + blk)
  BY <1>5
<1>8. 0 \in 0..n /\ \A s \in 1..n : s \in 0..n /\ s # 0
  BY <1>1
<1>. HIDE DEF n
<1>9. W[0] = calcWeak32(data, blk + 1) /\ \A s \in 1..n : W[s] = rollWeak32(data, W[s - 1], s, s + blk)
  BY <1>7, <1>8
<1>. QED BY <1>6, <1>9 DEF n

\* The weak value x of the window at s, up to a multiple of N.
Rolled(data, A, B, x, s) ==
  LET blk == WindowLength(data)
      d   == data[blk + 1]
  IN /\ x \in Int \X Int
     /\ 0 - N < x[1] /\ x[1] < N
     /\ \E p \in Int : x[1] = A[s + blk] - A[s] + d + p * N
     /\ \E q \in Int : x[2] = B[s + blk] - B[s] - blk * A[s] + A[blk] + (s + 1) * d + q * N

LEMMA RolledSums ==
  ASSUME NEW data \in Seq(Byte), NEW A, NEW B, Sums(data, A, B), WindowLength(data) < Len(data),
         NEW s \in 0..(Len(data) - WindowLength(data))
  PROVE  Rolled(data, A, B, WeakOfWindow(data)[s], s)
<1>. DEFINE blk == WindowLength(data)
            n == Len(data) - blk
            W == WeakOfWindow(data)
            d == data[blk + 1]
            held == {t \in 0..n : Rolled(data, A, B, W[t], t)}
<1>1. /\ n \in Nat /\ blk \in Nat /\ blk + 1 \in 1..Len(data) /\ d \in Int
      /\ W[0] = calcWeak32(data, blk + 1)
      /\ \A t \in 1..n : W[t] = rollWeak32(data, W[t - 1], t, t + blk)
  BY ByteFacts, WindowFacts, WeakOfWindowIsLoop
<1>2. \A i \in 0..Len(data) : A[i] \in Nat /\ B[i] \in Nat
  BY DEF Sums
<1>3. A[0] = 0 /\ B[0] = 0 /\ \A i \in 1..Len(data) : A[i] = A[i - 1] + data[i] /\ B[i] = B[i - 1] + A[i]
  BY DEF Sums
<1>4. blk \in 0..Len(data) /\ (blk + 1) - 1 = blk /\ 0 \in 0..Len(data) /\ blk + 1 \in 0..Len(data)
  BY <1>1, ByteFacts
<1>5. 0 \in held
  <2>1. WeakLoop(data, blk + 1) = << A[0 + (blk + 1)] - A[0], B[0 + (blk + 1)] - B[0] - (blk + 1) * A[0] >>
    <3>1. \A i \in 1..(blk + 1) : data[i] = data[0 + i]
      BY <1>1
    <3>2. blk + 1 \in Nat /\ blk + 1 <= Len(data) /\ 0 + (blk + 1) <= Len(data) /\ 0 \in Nat
      BY <1>1
    <3>. QED BY <3>1, <3>2, WeakLoopSums
  <2>2. A[blk + 1] = A[blk] + d /\ B[blk + 1] = B[blk] + (A[blk] + d)
    BY <1>1, <1>3, <1>4
  <2>3. A[blk] \in Int /\ B[blk] \in Int /\ A[blk + 1] \in Nat /\ B[blk + 1] \in Nat /\ 0 + (blk + 1) = blk + 1 /\ 0 + blk = blk
    BY <1>1, <1>2, <1>4
  <2>4. WeakLoop(data, blk + 1) = << A[blk + 1], B[blk + 1] >>
    BY <1>1, <1>3, <2>1, <2>3
  <2>5. W[0] = << A[blk + 1] % N, B[blk + 1] % N >>
    <3>1. ~(blk + 1 > Len(data))
      BY <1>1, ByteFacts
    <3>. QED BY <1>1, <2>4, <3>1 DEF calcWeak32
  <2>6. ASSUME NEW m \in Nat PROVE m % N \in Int /\ 0 - N < m % N /\ m % N < N /\ \E p \in Int : m % N = m + p * N
    <3>1. m \in Int /\ JsMod(m) = m % N
      BY DEF JsMod
    <3>. QED BY <3>1, JsModFacts
  <2>7. blk * A[0] = 0 /\ (0 + 1) * d = d
    BY <1>1, <1>3
  <2>8. PICK p \in Int : A[blk + 1] % N = A[0 + blk] - A[0] + d + p * N
    <3>1. PICK p \in Int : A[blk + 1] % N = A[blk + 1] + p * N
      BY <2>3, <2>6
    <3>. QED BY <1>1, <1>3, <2>2, <2>3, <3>1
  <2>9. PICK q \in Int : B[blk + 1] % N = B[0 + blk] - B[0] - blk * A[0] + A[blk] + (0 + 1) * d + q * N
    <3>1. PICK q \in Int : B[blk + 1] % N = B[blk + 1] + q * N
      BY <2>3, <2>6
    <3>. QED BY <1>1, <1>3, <2>2, <2>3, <2>7, <3>1
  <2>. DEFINE x == A[blk + 1] % N
              y == B[blk + 1] % N
  <2>10. x \in Int /\ y \in Int /\ 0 - N < x /\ x < N
    BY <2>3, <2>6
  <2>11. x = A[0 + blk] - A[0] + d + p * N /\ y = B[0 + blk] - B[0] - blk * A[0] + A[blk] + (0 + 1) * d + q * N
    BY <2>8, <2>9
  <2>12. W[0] = <<x, y>>
    BY <2>5
  <2>. HIDE DEF x, y, W
  <2>13. Rolled(data, A, B, W[0], 0)
    BY <2>10, <2>11, <2>12 DEF Rolled
  <2>. QED BY <1>1, <2>13
<1>6. ASSUME NEW t \in 1..n, t - 1 \in held PROVE t \in held
  <2>. DEFINE u == t - 1
              x == W[u]
              e == data[t]
              l == data[t + blk]
              za == x[1] - e + l
              a == JsMod(za)
              zb == x[2] - blk * e + a
              b == JsMod(zb)
  <2>1. /\ t \in Int /\ u \in 0..n /\ u + 1 = t /\ t \in 1..Len(data) /\ t + blk \in 1..Len(data)
        /\ (t + blk) - 1 = u + blk /\ u \in 0..Len(data) /\ u + blk \in 0..Len(data)
        /\ t \in 0..n /\ (t + blk) - t = blk
    BY <1>1, ByteFacts
  <2>2. Rolled(data, A, B, x, u)
    BY <1>6
  <2>3. PICK p \in Int : x[1] = A[u + blk] - A[u] + d + p * N
    BY <2>2 DEF Rolled
  <2>4. PICK q \in Int : x[2] = B[u + blk] - B[u] - blk * A[u] + A[blk] + (u + 1) * d + q * N
    BY <2>2 DEF Rolled
  <2>5. x[1] \in Int /\ x[2] \in Int /\ x # NaN /\ e \in Int /\ l \in Int
    <3>1. x \in Int \X Int
      BY <2>2 DEF Rolled
    <3>2. x[1] \in Int /\ x[2] \in Int /\ x = <<x[1], x[2]>>
      BY <3>1
    <3>3. x # NaN
      BY <3>1, PairIsNotEmpty
    <3>4. e \in Int /\ l \in Int
      BY <2>1, ByteFacts
    <3>. QED BY <3>2, <3>3, <3>4
  <2>6. W[t] = <<a, b>>
    BY <1>1, <2>1, <2>5 DEF rollWeak32
  <2>7. blk * e \in Int
    BY <1>1, <2>5
  <2>8. a \in Int /\ 0 - N < a /\ a < N /\ \E p1 \in Int : a = za + p1 * N
    <3>1. za \in Int
      BY <2>5
    <3>. HIDE DEF za
    <3>. QED BY <3>1, JsModFacts
  <2>9. PICK p1 \in Int : a = za + p1 * N
    BY <2>8
  <2>10. b \in Int /\ \E q1 \in Int : b = zb + q1 * N
    <3>1. zb \in Int
      <4>. HIDE DEF a
      <4>. QED BY <2>5, <2>7, <2>8, SMTT(30)
    <3>. HIDE DEF zb
    <3>. QED BY <3>1, JsModFacts
  <2>11. PICK q1 \in Int : b = zb + q1 * N
    BY <2>10
  <2>12. /\ A[t] = A[u] + e /\ B[t] = B[u] + (A[u] + e)
         /\ A[t + blk] = A[u + blk] + l /\ B[t + blk] = B[u + blk] + (A[u + blk] + l)
         /\ A[u] \in Int /\ B[u] \in Int /\ A[u + blk] \in Int /\ B[u + blk] \in Int /\ A[blk] \in Int
    <3>1. A[t] = A[t - 1] + data[t] /\ B[t] = B[t - 1] + A[t]
      BY <1>3, <2>1
    <3>2. A[t + blk] = A[(t + blk) - 1] + data[t + blk] /\ B[t + blk] = B[(t + blk) - 1] + A[t + blk]
      BY <1>3, <2>1
    <3>3. A[t - 1] = A[u] /\ B[t - 1] = B[u] /\ A[(t + blk) - 1] = A[u + blk] /\ B[(t + blk) - 1] = B[u + blk]
      BY <2>1
    <3>4. /\ A[u] \in Int /\ B[u] \in Int /\ A[u + blk] \in Int /\ B[u + blk] \in Int /\ A[blk] \in Int
      <4>. HIDE DEF u, blk
      <4>1. A[u] \in Nat /\ B[u] \in Nat /\ A[u + blk] \in Nat /\ B[u + blk] \in Nat /\ A[blk] \in Nat
        BY <1>2, <1>4, <2>1, Zenon
      <4>. QED BY <4>1
    <3>. HIDE DEF u, a, b, za, zb, x
    <3>. QED BY <3>1, <3>2, <3>3, <3>4
  <2>13. a = A[t + blk] - A[t] + d + (p + p1) * N
    <3>1. a = (x[1] - e + l) + p1 * N
      BY <2>9
    <3>. DEFINE au == A[u]
                al == A[u + blk]
                x1 == x[1]
    <3>2. /\ au \in Int /\ al \in Int /\ x1 \in Int /\ e \in Int /\ l \in Int /\ d \in Int
          /\ A[t + blk] = al + l /\ A[t] = au + e
      BY <1>1, <2>5, <2>12
    <3>3. x1 = al - au + d + p * N /\ a = (x1 - e + l) + p1 * N
      BY <2>3, <3>1
    <3>. HIDE DEF a, x1, au, al, e, l, d
    <3>4. a = (al + l) - (au + e) + d + (p + p1) * N
      BY <3>2, <3>3 DEF N
    <3>. QED BY <3>2, <3>4
  <2>14. b = B[t + blk] - B[t] - blk * A[t] + A[blk] + (t + 1) * d + (q + q1 + p + p1) * N
    <3>1. /\ blk * A[t] = blk * A[u] + blk * e /\ (t + 1) * d = (u + 1) * d + d
          /\ blk * A[u] \in Int /\ blk * e \in Int /\ (u + 1) * d \in Int
      <4>1. blk * (A[u] + e) = blk * A[u] + blk * e /\ blk * A[u] \in Int /\ blk * e \in Int
        <5>. DEFINE au == A[u]
        <5>1. blk \in Int /\ au \in Int /\ e \in Int
          BY <1>1, <2>5, <2>12
        <5>. HIDE DEF au, e, blk
        <5>2. blk * (au + e) = blk * au + blk * e /\ blk * au \in Int /\ blk * e \in Int
          BY <5>1, Distribute
        <5>. QED BY <5>2 DEF au
      <4>2. ((u + 1) + 1) * d = (u + 1) * d + d /\ (u + 1) * d \in Int
        <5>1. u + 1 \in Int
          BY <2>1
        <5>. QED BY <1>1, <5>1, Distribute
      <4>. QED BY <2>1, <2>12, <4>1, <4>2
    <3>. DEFINE au == A[u]
                bu == B[u]
                al == A[u + blk]
                bl == B[u + blk]
                g == blk * A[u]
                h == blk * e
                r == (u + 1) * d
                y == x[2]
                ab == A[blk]
    <3>2. /\ au \in Int /\ bu \in Int /\ al \in Int /\ bl \in Int /\ g \in Int /\ h \in Int /\ r \in Int
          /\ ab \in Int /\ d \in Int /\ e \in Int /\ l \in Int
      BY <1>1, <2>5, <2>12, <3>1
    <3>3. y = bl - bu - g + ab + r + q * N
      BY <2>4
    <3>4. b = (y - h + a) + q1 * N
      BY <2>11
    <3>5. a = (al + l) - (au + e) + d + (p + p1) * N
      BY <2>12, <2>13
    <3>6. (q + q1 + p + p1) \in Int
      OBVIOUS
    <3>. HIDE DEF au, bu, al, bl, g, h, r, y, ab, a, b, d, e, l
    <3>7. b = (bl + (al + l)) - (bu + (au + e)) - (g + h) + ab + (r + d) + (q + q1 + p + p1) * N
      BY <3>2, <3>3, <3>4, <3>5 DEF N
    <3>8. /\ B[t + blk] = bl + (al + l) /\ B[t] = bu + (au + e) /\ blk * A[t] = g + h
          /\ (t + 1) * d = r + d /\ A[blk] = ab
      BY <2>12, <3>1 DEF au, bu, al, bl, g, h, r, ab
    <3>. QED BY <3>7, <3>8
  <2>. HIDE DEF a, b, W
  <2>15. Rolled(data, A, B, W[t], t)
    <3>1. p + p1 \in Int /\ q + q1 + p + p1 \in Int
      OBVIOUS
    <3>2. /\ W[t] \in Int \X Int /\ W[t][1] = a /\ W[t][2] = b
      BY <2>6, <2>8, <2>10
    <3>. QED BY <2>8, <2>13, <2>14, <3>1, <3>2 DEF Rolled
  <2>. QED BY <2>1, <2>15
<1>. HIDE DEF held
<1>7. \A t \in 0..n : t \in held
  <2>. HIDE DEF n
  <2>. QED BY <1>1, <1>5, <1>6, UpTo
<1>. QED BY <1>7 DEF held

-----------------------------------------------------------------------------
(* No window matches, unless the file begins with Size + 1 zeros.           *)

\* What blockChecksums() sends: the strong checksum of a block is the block.
OfBlocks(blocks) ==
  /\ DOMAIN blocks \subseteq Nat
  /\ \A i \in DOMAIN blocks :
       /\ blocks[i].strong \in Seq(Byte) /\ blocks[i].index \in Nat
       /\ blocks[i].weak = WeakSum(calcWeak32(blocks[i].strong, Len(blocks[i].strong)))

LEMMA SliceFacts ==
  ASSUME NEW S, NEW data \in Seq(S), NEW from \in Nat, NEW to \in Nat
  PROVE  /\ Slice(data, from, to) \in Seq(S)
         /\ from <= to /\ to <= Len(data) =>
              /\ Len(Slice(data, from, to)) = to - from
              /\ \A j \in 1..(to - from) : Slice(data, from, to)[j] = data[from + j]
<1>. DEFINE m == Min({to, Len(data)})
<1>1. Len(data) \in Nat /\ \A i \in 1..Len(data) : data[i] \in S
  OBVIOUS
<1>2. {to, Len(data)} \subseteq Nat /\ {to, Len(data)} # {}
  BY <1>1
<1>3. m \in {to, Len(data)} /\ m <= to /\ m <= Len(data)
  BY <1>2, LeastIsMin
<1>4. Slice(data, from, to) = SubSeq(data, from + 1, m)
  BY DEF Slice
<1>. HIDE DEF m
<1>5. m \in Int /\ from + 1 \in Int /\ \A i \in (from + 1)..m : data[i] \in S
  <2>1. m \in Nat /\ m <= Len(data) /\ from + 1 >= 1
    BY <1>1, <1>3
  <2>. QED BY <1>1, <2>1
<1>6. /\ SubSeq(data, from + 1, m) \in Seq(S)
      /\ Len(SubSeq(data, from + 1, m)) = IF from + 1 <= m THEN m - (from + 1) + 1 ELSE 0
      /\ \A j \in 1..(m - (from + 1) + 1) : SubSeq(data, from + 1, m)[j] = data[from + 1 + j - 1]
  BY <1>5, SubSeqProperties
<1>. DEFINE c == SubSeq(data, from + 1, m)
<1>7. ASSUME from <= to, to <= Len(data)
      PROVE  Len(c) = to - from /\ \A j \in 1..(to - from) : c[j] = data[from + j]
  <2>1. m = to
    BY <1>1, <1>3, <1>7
  <2>2. m - (from + 1) + 1 = to - from /\ \A j \in 1..(to - from) : from + 1 + j - 1 = from + j
    BY <2>1
  <2>3. Len(c) = to - from
    BY <1>6, <1>7, <2>1, <2>2
  <2>. QED BY <1>6, <2>2, <2>3
<1>. QED BY <1>4, <1>6, <1>7

LEMMA BlocksOf ==
  ASSUME NEW data \in Seq(Byte)
  PROVE  OfBlocks(blockChecksums(data))
<1>. DEFINE blocks == blockChecksums(data)
            last == (Len(data) + Size - 1) \div Size
<1>1. DOMAIN blocks = 1..last
  BY DEF blockChecksums
<1>2. ASSUME NEW i \in 1..last
      PROVE  /\ blocks[i].strong \in Seq(Byte) /\ blocks[i].index \in Nat
             /\ blocks[i].weak = WeakSum(calcWeak32(blocks[i].strong, Len(blocks[i].strong)))
  <2>. DEFINE chunk == Slice(data, (i - 1) * Size, i * Size)
  <2>1. blocks[i] = [index |-> i - 1, weak |-> WeakSum(calcWeak32(chunk, Len(chunk))), strong |-> chunk]
    BY DEF blockChecksums
  <2>2. (i - 1) * Size \in Nat /\ i * Size \in Nat /\ i - 1 \in Nat
    <3>1. i \in Nat /\ i - 1 \in Nat /\ Size \in Nat
      BY SizeAssumption
    <3>2. \A k \in Nat : k * Size \in Nat
      BY <3>1
    <3>. QED BY <3>1, <3>2
  <2>3. chunk \in Seq(Byte)
    BY <2>2, SliceFacts
  <2>. HIDE DEF chunk, blocks
  <2>. QED BY <2>1, <2>2, <2>3
<1>. QED BY <1>1, <1>2 DEF OfBlocks

LEMMA SumsGrow ==
  ASSUME NEW data \in Seq(Byte), NEW A, NEW B, Sums(data, A, B), NEW n \in 0..Len(data)
  PROVE  /\ A[n] \in Nat /\ A[n] <= 255 * n
         /\ A[n] = 0 => \A i \in 1..n : data[i] = 0
<1>1. /\ A[0] = 0 /\ \A i \in 0..Len(data) : A[i] \in Nat
      /\ \A i \in 1..Len(data) : A[i] = A[i - 1] + data[i] /\ data[i] \in Nat /\ data[i] <= 255
  BY ByteFacts DEF Sums
<1>2. n \in Nat /\ 0..n \subseteq 0..Len(data) /\ 1..n \subseteq 1..Len(data)
  BY ByteFacts
<1>3. A[n] <= 255 * n
  <2>. DEFINE held == {i \in 0..n : A[i] <= 255 * i}
  <2>1. 0 \in held
    BY <1>1, <1>2
  <2>2. ASSUME NEW i \in 1..n, i - 1 \in held PROVE i \in held
    <3>1. i \in 0..n /\ i - 1 \in 0..Len(data) /\ i \in 1..Len(data) /\ i \in 0..Len(data)
      BY <1>2
    <3>2. A[i] = A[i - 1] + data[i] /\ data[i] <= 255 /\ A[i - 1] <= 255 * (i - 1)
          /\ A[i - 1] \in Nat /\ data[i] \in Nat
      BY <1>1, <2>2, <3>1
    <3>3. A[i] <= 255 * i
      BY <3>2
    <3>. QED BY <3>1, <3>3
  <2>. HIDE DEF held
  <2>3. \A i \in 0..n : i \in held
    BY <1>2, <2>1, <2>2, UpTo
  <2>. QED BY <1>2, <2>3 DEF held
<1>4. ASSUME A[n] = 0, NEW i \in 1..n PROVE data[i] = 0
  <2>. DEFINE held == {k \in 0..n : A[n - k] = 0}
  <2>1. 0 \in held
    BY <1>2, <1>4
  <2>2. ASSUME NEW k \in 1..n, k - 1 \in held PROVE k \in held
    <3>1. k \in 0..n /\ n - (k - 1) \in 1..Len(data) /\ (n - (k - 1)) - 1 = n - k /\ n - k \in 0..Len(data)
      BY <1>2
    <3>2. A[n - (k - 1)] = 0 /\ A[n - (k - 1)] = A[n - k] + data[n - (k - 1)]
          /\ A[n - k] \in Nat /\ data[n - (k - 1)] \in Nat
      BY <1>1, <2>2, <3>1
    <3>3. A[n - k] = 0
      BY <3>2
    <3>. QED BY <3>1, <3>3
  <2>. HIDE DEF held
  <2>3. \A k \in 0..n : k \in held
    BY <1>2, <2>1, <2>2, UpTo
  <2>4. n - i \in held /\ n - (n - i) = i /\ i \in 1..Len(data) /\ n - (i - 1) \in 0..n
        /\ n - (n - (i - 1)) = i - 1
    BY <1>2, <2>3
  <2>5. A[i] = 0 /\ A[i - 1] = 0
    <3>1. A[i] = 0
      BY <2>4 DEF held
    <3>2. n - (i - 1) \in held
      BY <2>3, <2>4
    <3>3. A[i - 1] = 0
      BY <2>4, <3>2 DEF held
    <3>. QED BY <3>1, <3>3
  <2>. QED BY <1>1, <2>4, <2>5
<1>. QED BY <1>1, <1>2, <1>3, <1>4

LEMMA NoMatch ==
  ASSUME NEW data \in Seq(Byte), Size <= 256, ~ZeroLed(data), NEW blocks, OfBlocks(blocks),
         NEW s \in 0..(Len(data) - WindowLength(data))
  PROVE  Candidates(blocks, WeakOfWindow(data)[s], Slice(data, s, s + WindowLength(data))) = {}
<1>. DEFINE blk == WindowLength(data)
            x == WeakOfWindow(data)[s]
            chunk == Slice(data, s, s + blk)
            d == data[blk + 1]
<1>1. blk \in Nat /\ Len(data) \in Nat /\ blk <= Len(data) /\ s \in Nat /\ s + blk \in Nat /\ s + blk <= Len(data)
  BY ByteFacts, WindowFacts
<1>2. CASE blk = Len(data)
  <2>1. s = 0 /\ blk + 1 > Len(data)
    BY <1>1, <1>2
  <2>2. x = NaN
    BY <2>1, WeakOfWindowIsLoop DEF calcWeak32
  <2>. QED BY <2>2 DEF Candidates
<1>3. ASSUME blk < Len(data), NEW i \in DOMAIN blocks, blocks[i].weak = WeakSum(x), blocks[i].strong = chunk
      PROVE  FALSE
  <2>1. PICK A, B : Sums(data, A, B)
    BY SumsExist
  <2>2. Rolled(data, A, B, x, s)
    <3>. HIDE DEF x
    <3>1. WindowLength(data) < Len(data)
      BY <1>3
    <3>. QED BY <2>1, <3>1, RolledSums DEF x
  <2>3. chunk \in Seq(Byte) /\ Len(chunk) = blk /\ \A j \in 1..blk : chunk[j] = data[s + j]
    <3>1. s <= s + blk /\ (s + blk) - s = blk
      BY <1>1
    <3>. DEFINE t == s + blk
    <3>2. t \in Nat /\ s \in Nat /\ s <= t /\ t <= Len(data) /\ chunk = Slice(data, s, t) /\ t - s = blk
      BY <1>1, <3>1
    <3>. HIDE DEF t, blk, chunk
    <3>3. /\ Slice(data, s, t) \in Seq(Byte) /\ Len(Slice(data, s, t)) = t - s
          /\ \A j \in 1..(t - s) : Slice(data, s, t)[j] = data[s + j]
      BY <3>2, SliceFacts
    <3>. QED BY <3>2, <3>3
  <2>. DEFINE X == A[s + blk] - A[s]
              Y == B[s + blk] - B[s] - blk * A[s]
  <2>4. WeakLoop(chunk, blk) = <<X, Y>>
    <3>. HIDE DEF chunk, blk
    <3>1. blk <= Len(chunk) /\ blk \in Nat /\ s \in Nat /\ s + blk <= Len(data)
      BY <1>1, <2>3
    <3>2. WeakLoop(chunk, blk) = << A[s + blk] - A[s], B[s + blk] - B[s] - blk * A[s] >>
      <4>1. ASSUME NEW c \in Seq(Byte), Len(c) = blk, \A j \in 1..blk : c[j] = data[s + j]
            PROVE  WeakLoop(c, blk) = << A[s + blk] - A[s], B[s + blk] - B[s] - blk * A[s] >>
        <5>1. blk <= Len(c)
          BY <3>1, <4>1
        <5>. QED BY <2>1, <3>1, <4>1, <5>1, WeakLoopSums, SMTT(30)
      <4>. QED BY <2>3, <4>1
    <3>. QED BY <3>2
  <2>5. blocks[i].weak = WeakSum(<<X % N, Y % N>>)
    <3>1. blocks[i].weak = WeakSum(calcWeak32(chunk, blk))
      BY <1>3, <2>3 DEF OfBlocks
    <3>. HIDE DEF chunk, X, Y
    <3>2. calcWeak32(chunk, blk) = <<X % N, Y % N>>
      BY <1>1, <2>3, <2>4 DEF calcWeak32
    <3>. QED BY <3>1, <3>2
  <2>6. \A j \in 0..Len(data) : A[j] \in Nat /\ B[j] \in Nat
    BY <2>1 DEF Sums
  <2>7. X \in Int /\ Y \in Int /\ A[blk] \in Nat /\ A[blk] <= 255 * blk
    <3>1. s \in 0..Len(data) /\ s + blk \in 0..Len(data) /\ blk \in 0..Len(data)
      BY <1>1
    <3>. HIDE DEF blk
    <3>2. A[s] \in Nat /\ B[s] \in Nat /\ A[s + blk] \in Nat /\ B[s + blk] \in Nat
      BY <2>6, <3>1, Zenon
    <3>. QED BY <1>1, <2>1, <3>1, <3>2, SumsGrow, SMTT(30)
  <2>8. d \in Nat /\ d <= 255 /\ blk = Size
    <3>1. blk + 1 \in 1..Len(data)
      BY <1>1, <1>3
    <3>. QED BY <1>3, <3>1, ByteFacts, WindowFacts
  <2>9. /\ x \in Int \X Int /\ 0 - N < x[1] /\ x[1] < N
        /\ \E p \in Int : x[1] = A[s + blk] - A[s] + d + p * N
        /\ \E q \in Int : x[2] = B[s + blk] - B[s] - blk * A[s] + A[blk] + (s + 1) * d + q * N
    <3>. HIDE DEF x
    <3>. QED BY <2>2 DEF Rolled
  <2>10. PICK p \in Int : x[1] = X + d + p * N
    BY <2>9
  <2>11. PICK q \in Int : x[2] = Y + A[blk] + (s + 1) * d + q * N
    BY <2>9
  <2>. DEFINE u == X % N
              v == Y % N
              x1 == x[1]
              x2 == x[2]
  <2>12. u + v * 65536 = x1 + x2 * 65536
    <3>1. WeakSum(x) = WeakSum(<<u, v>>)
      BY <1>3, <2>5
    <3>. HIDE DEF x, u, v
    <3>. QED BY <3>1 DEF WeakSum
  <2>13. u \in Int /\ v \in Int /\ 0 <= u /\ u < N /\ \E k \in Int : u = X + k * N /\ \E l \in Int : v = Y + l * N
    <3>. HIDE DEF X, Y
    <3>1. ASSUME NEW y \in Int PROVE y % N \in Int /\ 0 <= y % N /\ y % N < N /\ \E k \in Int : y % N = y + k * N
      <4>. DEFINE k == 0 - (y \div N)
      <4>1. k \in Int /\ y % N = y + k * N /\ y % N \in Int /\ 0 <= y % N /\ y % N < N
        BY DEF N
      <4>. HIDE DEF k
      <4>. QED BY <4>1
    <3>. QED BY <2>7, <3>1
  <2>14. PICK k \in Int : u = X + k * N
    BY <2>13
  <2>15. PICK l \in Int : v = Y + l * N
    BY <2>13
  <2>16. x1 \in Int /\ x2 \in Int /\ 0 - N < x1 /\ x1 < N
    <3>. HIDE DEF x
    <3>. QED BY <2>9
  <2>. HIDE DEF u, v, x1, x2, X, Y, d
  <2>17. d = 0 /\ x1 = u /\ x2 = v
    <3>1. x1 = X + d + p * N /\ u = X + k * N
      BY <2>10, <2>14 DEF x1
    <3>2. x2 - v = 0 \/ x2 - v = 1
      BY <2>12, <2>13, <2>16, SMTT(30) DEF N
    <3>3. CASE x2 - v = 1
      BY <2>7, <2>8, <2>12, <2>13, <2>16, <3>1, <3>3 DEF N
    <3>4. CASE x2 - v = 0
      BY <2>7, <2>8, <2>12, <2>13, <2>16, <3>1, <3>4 DEF N
    <3>. QED BY <3>2, <3>3, <3>4
  <2>18. A[blk] = 0
    <3>1. (s + 1) * d = 0
      BY <1>1, <2>17
    <3>2. x2 = Y + A[blk] + q * N
      <4>1. x2 = Y + A[blk] + (s + 1) * d + q * N
        BY <2>11 DEF x2
      <4>. QED BY <2>7, <3>1, <4>1 DEF N
    <3>3. A[blk] <= 65280
      BY <1>1, <2>7, <2>8
    <3>. DEFINE ab == A[blk]
    <3>4. ab \in Nat /\ ab <= 65280 /\ x2 = Y + ab + q * N
      BY <2>7, <3>2, <3>3
    <3>. HIDE DEF ab
    <3>5. ab = 0
      BY <2>7, <2>15, <2>17, <3>4 DEF N
    <3>. QED BY <3>5 DEF ab
  <2>19. \A j \in 1..blk : data[j] = 0
    BY <1>1, <2>1, <2>18, SumsGrow
  <2>20. ZeroLed(data)
    <3>1. Size \in Nat /\ data[Size + 1] = 0 /\ Len(data) > Size /\ \A j \in 1..Size : data[j] = 0
      BY <1>3, <2>8, <2>17, <2>19, SizeAssumption DEF d
    <3>2. \A j \in 1..(Size + 1) : j \in 1..Size \/ j = Size + 1
      BY <3>1
    <3>. QED BY <3>1, <3>2 DEF ZeroLed
  <2>. QED BY <2>20
<1>4. ASSUME blk < Len(data) PROVE Candidates(blocks, x, chunk) = {}
  <2>. HIDE DEF x, chunk
  <2>. QED BY <1>3, <1>4 DEF Candidates
<1>. QED BY <1>1, <1>2, <1>4

-----------------------------------------------------------------------------
(* What roll() answers                                                      *)

Entries == [data : Seq(Byte) \cup {Undefined}, index : Nat \cup {Undefined}]
Rolls   == [diffs : Seq(Entries), last : Nat]

LEMMA RollTurnType ==
  ASSUME NEW data \in Seq(Byte), NEW blocks, OfBlocks(blocks), NEW weak, NEW acc \in Rolls, NEW start \in Nat
  PROVE  RollTurn(data, blocks, weak, acc, start) \in Rolls
<1>. DEFINE end   == start + WindowLength(data)
            found == Candidates(blocks, weak, Slice(data, start, end))
<1>1. end \in Nat /\ acc.diffs \in Seq(Entries) /\ acc.last \in Nat
  BY WindowFacts DEF Rolls
<1>2. CASE found # {}
  <2>. DEFINE entry == MatchEntry(data, start, end, acc.last, blocks[Min(found)].index)
  <2>1. found \subseteq Nat /\ found \subseteq DOMAIN blocks
    BY DEF Candidates, OfBlocks
  <2>2. Min(found) \in found
    <3>. HIDE DEF found
    <3>. QED BY <1>2, <2>1, LeastIsMin
  <2>3. blocks[Min(found)].index \in Nat
    BY <2>1, <2>2 DEF OfBlocks
  <2>4. entry \in Entries
    <3>1. /\ start < acc.last => acc.last - 1 \in Nat /\ Slice(data, acc.last - 1, end) \in Seq(Byte)
          /\ Slice(data, acc.last, start) \in Seq(Byte)
      <4>1. start < acc.last => acc.last - 1 \in Nat
        BY <1>1
      <4>. HIDE DEF end
      <4>. QED BY <1>1, <4>1, SliceFacts
    <3>. HIDE DEF end, found
    <3>. QED BY <2>3, <3>1 DEF MatchEntry, Entries
  <2>5. RollTurn(data, blocks, weak, acc, start) = [diffs |-> Append(acc.diffs, entry), last |-> end]
    BY <1>2 DEF RollTurn
  <2>. HIDE DEF entry, end
  <2>. QED BY <1>1, <2>4, <2>5 DEF Rolls
<1>3. CASE found = {} /\ end = Len(data)
  <2>. DEFINE entry == [data |-> Slice(data, acc.last, end), index |-> Undefined]
  <2>1. entry \in Entries
    <3>1. Slice(data, acc.last, end) \in Seq(Byte)
      <4>. HIDE DEF end
      <4>. QED BY <1>1, SliceFacts
    <3>. QED BY <3>1 DEF Entries
  <2>2. RollTurn(data, blocks, weak, acc, start) = [acc EXCEPT !.diffs = Append(@, entry)]
    BY <1>3 DEF RollTurn
  <2>. HIDE DEF entry, end
  <2>3. Append(acc.diffs, entry) \in Seq(Entries)
    BY <1>1, <2>1
  <2>. QED BY <2>2, <2>3 DEF Rolls
<1>4. CASE found = {} /\ end # Len(data)
  BY <1>4 DEF RollTurn
<1>. QED BY <1>2, <1>3, <1>4

\* acc[k] is what the first k windows gave.
IsRoll(data, blocks, acc) ==
  LET last == Len(data) - WindowLength(data)
  IN /\ acc \in [0..last + 1 -> Rolls]
     /\ acc[0] = [diffs |-> <<>>, last |-> 0]
     /\ \A k \in 1..last + 1 :
          acc[k] = RollTurn(data, blocks, WeakOfWindow(data)[k - 1], acc[k - 1], k - 1)
     /\ roll(data, blocks) = acc[last + 1].diffs

LEMMA RollIsLoop ==
  ASSUME NEW data \in Seq(Byte), NEW blocks, OfBlocks(blocks)
  PROVE  \E acc : IsRoll(data, blocks, acc)
<1>. DEFINE last == Len(data) - WindowLength(data)
            n == last + 1
            W == WeakOfWindow(data)
            v == [diffs |-> <<>>, last |-> 0]
            Eq(f) == f = [k \in 0 .. last + 1 |->
                            IF k = 0 THEN v ELSE RollTurn(data, blocks, W[k - 1], f[k - 1], k - 1)]
            F == CHOOSE f : Eq(f)
<1>1. last \in Nat /\ n \in Nat
  BY ByteFacts, WindowFacts
<1>2. roll(data, blocks) = F[last + 1].diffs
  BY DEF roll
<1>3. ASSUME NEW k \in 1..n, NEW x \in Rolls PROVE RollTurn(data, blocks, W[k - 1], x, k - 1) \in Rolls
  <2>1. k - 1 \in Nat
    OBVIOUS
  <2>. QED BY <2>1, RollTurnType
<1>4. v \in Rolls
  BY DEF Rolls
<1>. HIDE DEF W, v
<1>5. \E f : Eq(f)
  <2>. DEFINE step == [k \in 1..n |-> [x \in Rolls |-> RollTurn(data, blocks, W[k - 1], x, k - 1)]]
  <2>1. step \in [1..n -> [Rolls -> Rolls]]
    BY <1>3
  <2>2. \A k \in 1..n : \A x \in Rolls : step[k][x] = RollTurn(data, blocks, W[k - 1], x, k - 1)
    OBVIOUS
  <2>. HIDE DEF step, n
  <2>3. PICK f : IsLoop(f, n, Rolls, v, step)
    BY <1>1, <1>4, <2>1, LoopExists
  <2>4. ASSUME NEW k \in 0..n
        PROVE  f[k] = IF k = 0 THEN v ELSE RollTurn(data, blocks, W[k - 1], f[k - 1], k - 1)
    <3>1. k # 0 => k \in 1..n /\ k - 1 \in 0..n /\ f[k - 1] \in Rolls
      BY <1>1, <2>3 DEF IsLoop
    <3>. QED BY <2>2, <2>3, <3>1 DEF IsLoop
  <2>5. f = [k \in 0..n |-> f[k]]
    BY <2>3 DEF IsLoop
  <2>6. f = [k \in 0..n |-> IF k = 0 THEN v ELSE RollTurn(data, blocks, W[k - 1], f[k - 1], k - 1)]
    BY <2>4, <2>5
  <2>7. Eq(f)
    BY <2>6 DEF n
  <2>. QED BY <2>7
<1>6. Eq(F)
  BY <1>5, Zenon
<1>. HIDE DEF F
<1>7. /\ F = [k \in 0..n |-> F[k]]
      /\ \A k \in 0..n : F[k] = IF k = 0 THEN v ELSE RollTurn(data, blocks, W[k - 1], F[k - 1], k - 1)
  BY <1>6
<1>. HIDE DEF n
<1>8. 0 \in 0..n /\ \A k \in 1..n : k \in 0..n /\ k # 0
  BY <1>1
<1>9. F[0] = v /\ \A k \in 1..n : F[k] = RollTurn(data, blocks, W[k - 1], F[k - 1], k - 1)
  BY <1>7, <1>8
<1>10. \A k \in 0..n : F[k] \in Rolls
  <2>. DEFINE held == {k \in 0..n : F[k] \in Rolls}
  <2>1. 0 \in held
    BY <1>4, <1>8, <1>9
  <2>2. ASSUME NEW k \in 1..n, k - 1 \in held PROVE k \in held
    BY <1>3, <1>8, <1>9, <2>2
  <2>. HIDE DEF held
  <2>3. \A k \in 0..n : k \in held
    BY <1>1, <2>1, <2>2, UpTo
  <2>. QED BY <2>3 DEF held
<1>11. F \in [0..n -> Rolls]
  BY <1>7, <1>10
<1>. QED BY <1>2, <1>9, <1>11 DEF IsRoll, n, v, W

LEMMA RollType ==
  ASSUME NEW data \in Seq(Byte), NEW blocks, OfBlocks(blocks)
  PROVE  roll(data, blocks) \in Seq(Entries)
<1>1. PICK acc : IsRoll(data, blocks, acc)
  BY RollIsLoop
<1>2. Len(data) - WindowLength(data) + 1 \in 0..Len(data) - WindowLength(data) + 1
  BY ByteFacts, WindowFacts
<1>. QED BY <1>1, <1>2 DEF IsRoll, Rolls

\* Without a match at any window the file is one piece.
LEMMA UnmatchedIsWhole ==
  ASSUME NEW data \in Seq(Byte), NEW blocks, OfBlocks(blocks),
         \A k \in 0..Len(data) - WindowLength(data) :
           Candidates(blocks, WeakOfWindow(data)[k], Slice(data, k, k + WindowLength(data))) = {}
  PROVE  roll(data, blocks) = << [data |-> data, index |-> Undefined] >>
<1>. DEFINE blk == WindowLength(data)
            last == Len(data) - blk
            v == [diffs |-> <<>>, last |-> 0]
            whole == [data |-> data, index |-> Undefined]
<1>1. PICK acc : IsRoll(data, blocks, acc)
  BY RollIsLoop
<1>2. blk \in Nat /\ Len(data) \in Nat /\ last \in Nat /\ last + blk = Len(data)
  BY ByteFacts, WindowFacts
<1>3. /\ acc[0] = v /\ roll(data, blocks) = acc[last + 1].diffs
      /\ \A k \in 1..last + 1 : acc[k] = RollTurn(data, blocks, WeakOfWindow(data)[k - 1], acc[k - 1], k - 1)
  BY <1>1 DEF IsRoll
<1>4. ASSUME NEW k \in 0..last
      PROVE  RollTurn(data, blocks, WeakOfWindow(data)[k], v, k)
               = IF k = last THEN [v EXCEPT !.diffs = Append(@, [data |-> Slice(data, 0, Len(data)), index |-> Undefined])]
                 ELSE v
  <2>1. Candidates(blocks, WeakOfWindow(data)[k], Slice(data, k, k + blk)) = {}
    OBVIOUS
  <2>2. k + blk = Len(data) <=> k = last
    BY <1>2
  <2>3. CASE k = last
    <3>1. k + blk = Len(data)
      BY <2>2, <2>3
    <3>. QED BY <2>1, <2>3, <3>1 DEF RollTurn
  <2>4. CASE k # last
    <3>1. k + blk # Len(data)
      BY <2>2, <2>4
    <3>. QED BY <2>1, <2>4, <3>1 DEF RollTurn
  <2>. QED BY <2>3, <2>4
<1>5. \A k \in 0..last : acc[k] = v
  <2>. DEFINE held == {k \in 0..last : acc[k] = v}
  <2>1. 0 \in held
    BY <1>2, <1>3
  <2>2. ASSUME NEW k \in 1..last, k - 1 \in held PROVE k \in held
    <3>1. k \in 1..last + 1 /\ k - 1 \in 0..last /\ k - 1 # last /\ k \in 0..last /\ acc[k - 1] = v
      BY <1>2, <2>2
    <3>. HIDE DEF last, v
    <3>. QED BY <1>3, <1>4, <3>1
  <2>. HIDE DEF held
  <2>3. \A k \in 0..last : k \in held
    <3>. HIDE DEF last
    <3>. QED BY <1>2, <2>1, <2>2, UpTo
  <2>. QED BY <2>3 DEF held
<1>6. Slice(data, 0, Len(data)) = data
  <2>1. /\ Slice(data, 0, Len(data)) \in Seq(Byte) /\ Len(Slice(data, 0, Len(data))) = Len(data)
        /\ \A j \in 1..Len(data) : Slice(data, 0, Len(data))[j] = data[j]
    <3>1. 0 <= Len(data) /\ Len(data) <= Len(data) /\ Len(data) - 0 = Len(data)
          /\ \A j \in 1..Len(data) : 0 + j = j
      BY <1>2
    <3>2. /\ Slice(data, 0, Len(data)) \in Seq(Byte) /\ Len(Slice(data, 0, Len(data))) = Len(data) - 0
          /\ \A j \in 1..(Len(data) - 0) : Slice(data, 0, Len(data))[j] = data[0 + j]
      <4>. DEFINE n == Len(data)
      <4>1. 0 \in Nat /\ n \in Nat /\ 0 <= n /\ n <= Len(data)
        BY <1>2
      <4>. HIDE DEF n
      <4>2. /\ Slice(data, 0, n) \in Seq(Byte) /\ Len(Slice(data, 0, n)) = n - 0
            /\ \A j \in 1..(n - 0) : Slice(data, 0, n)[j] = data[0 + j]
        BY <4>1, SliceFacts
      <4>. QED BY <4>2 DEF n
    <3>. QED BY <3>1, <3>2
  <2>. QED BY <2>1, SeqEqual
<1>7. acc[last + 1] = [v EXCEPT !.diffs = Append(@, whole)]
  <2>1. last + 1 \in 1..last + 1 /\ (last + 1) - 1 = last /\ last \in 0..last
    BY <1>2
  <2>. HIDE DEF last, v
  <2>2. acc[last + 1] = RollTurn(data, blocks, WeakOfWindow(data)[last], v, last)
    BY <1>3, <1>5, <2>1
  <2>. QED BY <1>4, <1>6, <2>1, <2>2
<1>8. acc[last + 1].diffs = <<whole>>
  <2>. HIDE DEF whole
  <2>. QED BY <1>7
<1>. QED BY <1>3, <1>8

\* The difference of every file that does not begin with Size + 1 zeros is the
\* whole file, in one piece, whatever blocks the destination has of it.
\* (calcWeak32 and roll)
THEOREM RollSendsWholeFile ==
  ASSUME NEW data \in Seq(Byte), Size <= 256, ~ZeroLed(data), NEW blocks, OfBlocks(blocks)
  PROVE  roll(data, blocks) = << [data |-> data, index |-> Undefined] >>
BY NoMatch, UnmatchedIsWhole

\* So is that of a file of which the destination has none.
LEMMA NothingToMatch ==
  ASSUME NEW data \in Seq(Byte)
  PROVE  OfBlocks(<<>>) /\ roll(data, <<>>) = << [data |-> data, index |-> Undefined] >>
<1>1. OfBlocks(<<>>)
  BY DEF OfBlocks
<1>2. \A weak, chunk : Candidates(<<>>, weak, chunk) = {}
  BY DEF Candidates
<1>. QED BY <1>1, <1>2, UnmatchedIsWhole

-----------------------------------------------------------------------------
(* What becomes of the answer                                               *)

LEMMA BytesAreDefined ==
  ASSUME NEW data \in Seq(Byte)
  PROVE  data \in Seq(Int) /\ data # Undefined
<1>1. Byte \subseteq Int
  BY DEF Byte
<1>2. data \in Seq(Int)
  BY <1>1, SeqMonotonic
<1>. QED BY <1>2, UndefinedAssumption

LEMMA PatchedType ==
  ASSUME NEW old \in Seq(Byte), NEW diffs \in Seq(Entries), Deserializable(diffs)
  PROVE  getPatchedData(old, diffs) \in Seq(Byte)
<1>. DEFINE pieces == [i \in DOMAIN diffs |-> Patched(old, diffs[i])]
<1>1. ASSUME NEW i \in DOMAIN diffs PROVE Patched(old, diffs[i]) \in Seq(Byte)
  <2>. DEFINE block == diffs[i]
  <2>1. block.data \in Seq(Byte) /\ block.data # Undefined /\ block.index \in Nat \cup {Undefined}
    <3>1. block \in Entries
      OBVIOUS
    <3>. QED BY <3>1 DEF Deserializable, Entries
  <2>2. CASE block.index \in {Undefined, 0}
    BY <2>1, <2>2 DEF Patched
  <2>3. CASE block.index \notin {Undefined, 0}
    <3>. DEFINE k == block.index
    <3>1. k \in Nat
      BY <2>1, <2>3
    <3>2. k * Size \in Nat /\ (k + 1) * Size \in Nat
      <4>. HIDE DEF k
      <4>. QED BY <3>1, SizeAssumption
    <3>3. RawBlock(old, k) \in Seq(Byte)
      <4>. HIDE DEF k
      <4>. QED BY <3>2, SliceFacts DEF RawBlock
    <3>4. Patched(old, block) = block.data \o RawBlock(old, k)
      BY <2>1, <2>3 DEF Patched
    <3>. HIDE DEF k, block
    <3>. QED BY <2>1, <3>3, <3>4 DEF block
  <2>. QED BY <2>2, <2>3
<1>2. pieces \in Seq(Seq(Byte))
  <2>1. DOMAIN diffs = 1..Len(diffs) /\ Len(diffs) \in Nat
    OBVIOUS
  <2>2. pieces \in [1..Len(diffs) -> Seq(Byte)]
    BY <1>1, <2>1
  <2>. HIDE DEF pieces
  <2>. QED BY <2>1, <2>2
<1>. QED BY <1>2, FlattenType DEF getPatchedData

\* A file that is sent whole is patched whole.
LEMMA WholeFile ==
  ASSUME NEW old, NEW data \in Seq(Byte)
  PROVE  LET diffs == << [data |-> data, index |-> Undefined] >>
         IN Deserializable(diffs) /\ getPatchedData(old, diffs) = data
<1>. DEFINE diffs == << [data |-> data, index |-> Undefined] >>
<1>1. data # Undefined
  BY BytesAreDefined
<1>2. DOMAIN diffs = {1} /\ diffs[1].data = data /\ diffs[1].index = Undefined
  OBVIOUS
<1>3. Patched(old, diffs[1]) = data
  BY <1>1, <1>2 DEF Patched
<1>4. [i \in DOMAIN diffs |-> Patched(old, diffs[i])] = <<data>>
  <2>. HIDE DEF diffs
  <2>1. [i \in DOMAIN diffs |-> Patched(old, diffs[i])] = [i \in {1} |-> data]
    BY <1>2, <1>3
  <2>2. [i \in {1} |-> data] = <<data>>
    OBVIOUS
  <2>. QED BY <2>1, <2>2
<1>5. Deserializable(diffs)
  BY <1>1, <1>2 DEF Deserializable
<1>6. getPatchedData(old, diffs) = data
  BY <1>4, FlattenOne DEF getPatchedData
<1>. QED BY <1>5, <1>6

-----------------------------------------------------------------------------
-----------------------------------------------------------------------------
(* The shapes of the nodes and messages, of the tracked lists, and of the   *)
(* syncs counted in syncManager.downstreams                                 *)

Pausing == Ended \cup {"start"}
Lists   == [kind : Kinds, mtime : Nat]

NodeShapes ==
  /\ srv.kind \in Kinds /\ srv.data \in Seq(Byte) /\ srv.mtime \in Nat
  /\ node.data \in Seq(Byte) /\ node.mtime \in Nat
  /\ srv.kind # "FILE" => srv.data = <<>>
  /\ node.kind # "FILE" => node.data = <<>>

FlagShapes == {locked, changed, overlap, loose, halfway, clashed, raced} \subseteq BOOLEAN

\* What a sync has on its way is well formed, and what is being patched could
\* be deserialized.
ShapeAt(c) ==
  /\ list[c] \in Lists
  /\ OfBlocks(sums[c])
  /\ DOMAIN diff[c] = {"diffs", "modified", "checksum"}
  /\ diff[c].diffs \in Seq(Entries) /\ diff[c].modified \in Nat
  /\ phase[c] \in Patching => Deserializable(diff[c].diffs)
  /\ raw[c] \in Seq(Byte)
  /\ Len(report[c]) <= 1

SyncShapes == \A c \in Syncs : ShapeAt(c)

\* A change is noted while something is tracked, and every sync that has sent
\* its checksums and was not given up is counted.
Counted == {c \in Syncs : phase[c] \notin Pausing \cup {"listed"}}
TrackShapes ==
  /\ cache \in Seq(Lists) /\ (changed => cache # <<>>)
  /\ downs \in Nat /\ Cardinality(Counted) <= downs

LEMMA EditsAreFiles == Edits \cup {<<>>} \subseteq Seq(Byte)
<1>1. <<>> \in Seq(Byte)
  OBVIOUS
<1>. QED BY <1>1, EditsAssumption

LEMMA NodeShapesInit == Init => NodeShapes
<1>. SUFFICES ASSUME Init PROVE NodeShapes
  OBVIOUS
<1>1. srv \in ServerNodes(Edits) /\ node \in BrowserNodes(Edits)
  BY DEF Init, InitWith
<1>2. /\ srv.kind \in Kinds /\ srv.data \in Seq(Byte) /\ srv.mtime \in Nat
      /\ srv.kind # "FILE" => srv.data = <<>>
  <2>1. CASE srv = Absent
    BY <2>1, EditsAreFiles DEF Absent, Kinds
  <2>2. CASE srv \in [kind : {"FILE"}, data : Edits, mtime : Times]
    BY <2>2, EditsAreFiles, TimesAssumption DEF Kinds
  <2>3. CASE srv \in [kind : {"DIRECTORY"}, data : {<<>>}, mtime : Times]
    BY <2>3, EditsAreFiles, TimesAssumption DEF Kinds
  <2>. QED BY <1>1, <2>1, <2>2, <2>3 DEF ServerNodes
<1>3. /\ node.data \in Seq(Byte) /\ node.mtime \in Nat
      /\ node.kind # "FILE" => node.data = <<>>
  <2>1. CASE node = BrowserAbsent
    BY <2>1, EditsAreFiles DEF BrowserAbsent
  <2>2. CASE node # BrowserAbsent
    <3>1. \/ node \in [kind : {"FILE"}, data : Edits, mtime : Times, unsynced : BOOLEAN,
                       stamp : Edits \cup {None}]
          \/ node \in [kind : {"DIRECTORY"}, data : {<<>>}, mtime : Times, unsynced : {FALSE},
                       stamp : {None}]
      BY <1>1, <2>2 DEF BrowserNodes
    <3>. QED BY <3>1, EditsAreFiles, TimesAssumption
  <2>. QED BY <2>1, <2>2
<1>. QED BY <1>2, <1>3 DEF NodeShapes

\* The steps of a sync that write a node.
Writes(c) == PatchDir(c) \/ RemoveUnsynced(c) \/ ApplyPatch(c) \/ UpdateModifiedTime(c)
             \/ GenerateChecksums(c)

LEMMA NodeShapesPatch ==
  ASSUME NodeShapes, SyncShapes, Fields, NEW c \in Syncs, Writes(c)
  PROVE  NodeShapes'
<1>. USE DEF Moves, Trans
<1>0. ShapeAt(c)
  BY DEF SyncShapes
<1>1. CASE PatchDir(c)
  <2>1. srv' = srv /\ (node' = node \/ node' = [BrowserAbsent EXCEPT !.kind = "DIRECTORY"])
    BY <1>1 DEF PatchDir, server
  <2>. QED BY <2>1, EditsAreFiles DEF NodeShapes, BrowserAbsent
<1>2. CASE RemoveUnsynced(c)
  BY <1>2 DEF RemoveUnsynced, server, NodeShapes, Fields
<1>3. CASE ApplyPatch(c) /\ node.kind = "DIRECTORY"
  BY <1>3 DEF ApplyPatch, server, NodeShapes
<1>4. CASE ApplyPatch(c) /\ node.kind # "DIRECTORY"
  <2>1. PICK now \in Times : node' = [node EXCEPT !.kind = "FILE", !.mtime = now,
                                      !.data = getPatchedData(raw[c], diff[c].diffs)]
    BY <1>4 DEF ApplyPatch
  <2>2. getPatchedData(raw[c], diff[c].diffs) \in Seq(Byte)
    <3>1. raw[c] \in Seq(Byte) /\ diff[c].diffs \in Seq(Entries) /\ Deserializable(diff[c].diffs)
      BY <1>0, <1>4 DEF ApplyPatch, ShapeAt, Patching
    <3>. QED BY <3>1, PatchedType
  <2>3. /\ srv' = srv /\ node'.kind = "FILE" /\ node'.mtime = now
        /\ node'.data = getPatchedData(raw[c], diff[c].diffs)
    BY <1>4, <2>1 DEF ApplyPatch, server, Fields
  <2>. QED BY <2>2, <2>3, TimesAssumption DEF NodeShapes
<1>5. CASE UpdateModifiedTime(c)
  <2>1. /\ srv' = srv /\ node'.kind = node.kind /\ node'.data = node.data
        /\ node'.mtime = diff[c].modified
    BY <1>5 DEF UpdateModifiedTime, server, Fields
  <2>. QED BY <1>0, <2>1 DEF NodeShapes, ShapeAt
<1>6. CASE GenerateChecksums(c)
  <2>1. srv' = srv /\ node'.kind = node.kind /\ node'.data = node.data /\ node'.mtime = node.mtime
    BY <1>6 DEF GenerateChecksums, server, Fields
  <2>. QED BY <2>1 DEF NodeShapes
<1>. QED
  BY <1>1, <1>2, <1>3, <1>4, <1>5, <1>6 DEF Writes

LEMMA NodeShapesNext == NodeShapes /\ SyncShapes /\ Fields /\ [Next]_vars => NodeShapes'
<1>. SUFFICES ASSUME NodeShapes, SyncShapes, Fields, [Next]_vars PROVE NodeShapes'
  OBVIOUS
<1>1. CASE UNCHANGED <<srv, node>>
  BY <1>1 DEF NodeShapes
<1>2. ASSUME NEW c \in Syncs, SyncDownstream(c) \/ CheckLockFails(c) \/ BrowserFails(c) \/ SyncStep(c)
      PROVE  NodeShapes'
  <2>1. CASE Writes(c)
    BY <2>1, NodeShapesPatch
  <2>2. CASE \/ SyncDownstream(c) \/ CheckLockFails(c) \/ BrowserFails(c) \/ SendSourceList(c)
             \/ Checksums(c) \/ SendChecksums(c) \/ CheckLock(c) \/ ReadForDiff(c)
             \/ AppendChecksum(c) \/ HandleDiffResponse(c)
    BY <1>1, <2>2 DEF SyncDownstream, CheckLockFails, BrowserFails, SendSourceList, Checksums,
       SendChecksums, CheckLock, ReadForDiff, AppendChecksum, HandleDiffResponse, server, browser
  <2>3. CASE \/ PatchFile(c) \/ CompareVersions(c) \/ CheckUnsynced(c) \/ MakeConflictedCopy(c)
             \/ ReadQueue(c) \/ StoreQueue(c) \/ ComparePatch(c) \/ HandleVerification(c)
             \/ HandleDownstreamError(c)
    BY <1>1, <2>3 DEF PatchFile, CompareVersions, CheckUnsynced, MakeConflictedCopy, ReadQueue,
       StoreQueue, ComparePatch, HandleVerification, HandleDownstreamError, server, browser
  <2>. QED BY <1>2, <2>1, <2>2, <2>3 DEF SyncStep, Writes
<1>7. CASE EditWrite
  <2>1. CASE node.kind = "DIRECTORY"
    BY <1>1, <1>7, <2>1 DEF EditWrite, server
  <2>2. CASE node.kind # "DIRECTORY"
    <3>1. PICK now \in Times : node' = [node EXCEPT !.kind = "FILE", !.data = edit.data, !.mtime = now]
      BY <1>7, <2>2 DEF EditWrite
    <3>2. srv' = srv /\ node'.kind = "FILE" /\ node'.data = edit.data /\ node'.mtime = now
      BY <1>7, <3>1 DEF EditWrite, server, Fields
    <3>3. edit.data \in Seq(Byte)
      BY EditsAreFiles DEF Fields
    <3>. QED BY <3>2, <3>3, TimesAssumption DEF NodeShapes
  <2>. QED BY <2>1, <2>2
<1>8. CASE EditFlag
  BY <1>8 DEF EditFlag, server, NodeShapes, Fields
<1>9. CASE OtherPatches
  <2>1. node' = node
    BY <1>9 DEF OtherPatches, browser
  <2>2. CASE srv' = Absent
    BY <2>1, <2>2, EditsAreFiles DEF NodeShapes, Absent, Kinds
  <2>3. CASE srv' \in [kind : {"FILE"}, data : Edits, mtime : Times]
    <3>1. srv'.kind = "FILE" /\ srv'.data \in Edits /\ srv'.mtime \in Times
      BY <2>3
    <3>. QED BY <2>1, <3>1, EditsAreFiles, TimesAssumption DEF NodeShapes, Kinds
  <2>. QED BY <1>9, <2>2, <2>3 DEF OtherPatches
<1>10. CASE \/ EditMark \/ DescriptorWrite \/ EditQueue \/ ForcedDequeue \/ OtherLocks
            \/ OtherReleases \/ UNCHANGED vars
  BY <1>1, <1>10 DEF EditMark, DescriptorWrite, Starts, EditQueue, ForcedDequeue, OtherLocks,
     OtherReleases, vars, server, browser
<1>. QED
  BY <1>2, <1>7, <1>8, <1>9, <1>10 DEF Next, EditStep, OtherStep

LEMMA FlagShapesInit == Init => FlagShapes
<1>. SUFFICES ASSUME Init PROVE FlagShapes
  OBVIOUS
<1>1. node.unsynced \in BOOLEAN /\ queued \in BOOLEAN
  BY FieldsInit DEF Fields
<1>2. loose = (node.unsynced /\ ~queued) /\ locked = FALSE /\ changed = FALSE
      /\ overlap = FALSE /\ halfway = FALSE /\ clashed = FALSE /\ raced = FALSE
  BY DEF Init, InitWith
<1>. QED BY <1>1, <1>2 DEF FlagShapes

LEMMA FlagShapesNext == FlagShapes /\ Fields /\ [Next]_vars => FlagShapes'
<1>. SUFFICES ASSUME FlagShapes, Fields, [Next]_vars PROVE FlagShapes'
  OBVIOUS
<1>. USE DEF FlagShapes
<1>1. ASSUME NEW c \in Syncs, SyncDownstream(c) \/ CheckLockFails(c)
      PROVE  FlagShapes'
  BY <1>1 DEF SyncDownstream, CheckLockFails, server, browser, causes
<1>2. ASSUME NEW c \in Syncs, BrowserFails(c)
      PROVE  FlagShapes'
  BY <1>2 DEF BrowserFails, server, browser
<1>3. ASSUME NEW c \in Syncs, HandleDiffResponse(c)
      PROVE  FlagShapes'
  BY <1>3 DEF HandleDiffResponse, untrackChanges, server
<1>4. ASSUME NEW c \in Syncs, HandleDownstreamError(c)
      PROVE  FlagShapes'
  BY <1>4 DEF HandleDownstreamError, untrackChanges, server, history, causes
<1>5. ASSUME NEW c \in Syncs, PatchDir(c)
      PROVE  FlagShapes'
  BY <1>5 DEF PatchDir, server
<1>6. ASSUME NEW c \in Syncs, ApplyPatch(c)
      PROVE  FlagShapes'
  <2>1. UNCHANGED <<locked, changed, overlap, loose, halfway, clashed>>
    BY <1>6 DEF ApplyPatch, server
  <2>2. raced' = raced \/ raced' = (raced \/ OtherIn(c, {"copying"}))
    BY <1>6 DEF ApplyPatch
  <2>. QED BY <2>1, <2>2
<1>7. ASSUME NEW c \in Syncs,
             \/ SendSourceList(c) \/ Checksums(c) \/ SendChecksums(c) \/ CheckLock(c)
             \/ ReadForDiff(c) \/ AppendChecksum(c) \/ PatchFile(c) \/ CompareVersions(c)
             \/ CheckUnsynced(c)
      PROVE  FlagShapes'
  <2>1. UNCHANGED <<locked, changed, causes>>
    BY <1>7 DEF SendSourceList, Checksums, SendChecksums, CheckLock, ReadForDiff, AppendChecksum,
       PatchFile, CompareVersions, CheckUnsynced, server, browser, history
  <2>. QED BY <2>1 DEF causes
<1>8. ASSUME NEW c \in Syncs,
             \/ MakeConflictedCopy(c) \/ RemoveUnsynced(c) \/ UpdateModifiedTime(c) \/ ReadQueue(c)
             \/ StoreQueue(c) \/ GenerateChecksums(c) \/ ComparePatch(c) \/ HandleVerification(c)
      PROVE  FlagShapes'
  <2>1. UNCHANGED <<locked, changed, causes>>
    BY <1>8 DEF MakeConflictedCopy, RemoveUnsynced, UpdateModifiedTime, ReadQueue, StoreQueue,
       GenerateChecksums, ComparePatch, HandleVerification, server, browser, history
  <2>. QED BY <2>1 DEF causes
<1>9. CASE EditMark
  BY <1>9 DEF EditMark, Starts, server
<1>10. CASE DescriptorWrite
  BY <1>10 DEF DescriptorWrite, Starts, server
<1>11. CASE EditQueue \/ EditWrite \/ EditFlag
  BY <1>11 DEF EditQueue, EditWrite, EditFlag, server, history, causes
<1>12. CASE OtherStep \/ ForcedDequeue
  BY <1>12 DEF OtherStep, OtherLocks, OtherPatches, OtherReleases, ForcedDequeue, server, browser,
     history, causes
<1>13. CASE UNCHANGED vars
  BY <1>13 DEF vars, server, browser, history, causes
<1>. QED
  BY <1>1, <1>2, <1>3, <1>4, <1>5, <1>6, <1>7, <1>8, <1>9, <1>10, <1>11, <1>12, <1>13
     DEF Next, SyncStep, EditStep

LEMMA NoEntries == /\ NoDiff.diffs = <<>> /\ NoDiff.diffs \in Seq(Entries)
                   /\ Deserializable(NoDiff.diffs) /\ NoDiff.modified \in Nat
                   /\ DOMAIN NoDiff = {"diffs", "modified", "checksum"}
BY DEF NoDiff, Deserializable

LEMMA NoBlocks == OfBlocks(<<>>) /\ <<>> \in Seq(Byte) /\ NoList \in Lists /\ Len(<<>>) <= 1
BY DEF OfBlocks, NoList, Lists, Kinds

LEMMA SyncShapesInit == Init => SyncShapes
<1>. SUFFICES ASSUME Init, NEW c \in Syncs PROVE ShapeAt(c)
  BY DEF SyncShapes
<1>1. /\ phase[c] = "idle" /\ list[c] = NoList /\ sums[c] = <<>> /\ diff[c] = NoDiff
      /\ raw[c] = <<>> /\ report[c] = <<>>
  BY DEF Init, InitWith
<1>. QED BY <1>1, NoEntries, NoBlocks DEF ShapeAt, Patching

\* A step that leaves what the sync has on its way alone.
LEMMA ShapeAside ==
  ASSUME NEW c \in Syncs, ShapeAt(c), list'[c] = list[c], sums'[c] = sums[c], diff'[c] = diff[c],
         raw'[c] = raw[c], Len(report'[c]) <= 1, phase'[c] \in Patching => phase[c] \in Patching
  PROVE  ShapeAt(c)'
BY DEF ShapeAt

LEMMA ShapeBefore ==
  ASSUME SyncShapes, NodeShapes, TrackShapes, Fields, NEW c \in Syncs, Before(c)
  PROVE  ShapeAt(c)'
<1>. USE DEF Moves, Trans
<1>0. ShapeAt(c)
  BY DEF SyncShapes
<1>1. /\ phase \in [Syncs -> Phases] /\ DOMAIN list = Syncs /\ DOMAIN sums = Syncs
      /\ DOMAIN diff = Syncs
  BY DEF Fields, Chains
<1>2. CASE SendSourceList(c)
  <2>1. /\ phase'[c] \in {"unlisted", "listed"} /\ UNCHANGED <<sums, diff, raw, report>>
        /\ list'[c] = list[c] \/ list'[c] = [kind |-> srv.kind, mtime |-> srv.mtime]
    BY <1>1, <1>2 DEF SendSourceList
  <2>2. list'[c] \in Lists
    BY <1>0, <2>1 DEF Lists, ShapeAt, NodeShapes
  <2>. QED BY <1>0, <2>1, <2>2 DEF ShapeAt, Patching
<1>3. CASE Checksums(c)
  <2>1. /\ phase'[c] \in {"delayed", "summed"} /\ UNCHANGED <<list, diff, raw, report>>
        /\ sums'[c] \in {sums[c], blockChecksums(node.data), <<>>}
    BY <1>1, <1>3 DEF Checksums
  <2>2. OfBlocks(sums'[c])
    BY <1>0, <2>1, BlocksOf, NoBlocks DEF ShapeAt, NodeShapes
  <2>. QED BY <1>0, <2>1, <2>2 DEF ShapeAt, Patching
<1>4. CASE SendChecksums(c) \/ CheckLock(c)
  <2>1. UNCHANGED chain /\ phase'[c] \in {"asking", "refused", "diffing"}
    BY <1>1, <1>4 DEF SendChecksums, CheckLock
  <2>. QED BY <1>0, <2>1 DEF chain, ShapeAt, Patching
<1>5. CASE ReadForDiff(c)
  <2>1. /\ phase'[c] \in {"refused", "answered", "diffed"} /\ UNCHANGED <<list, sums, raw, report>>
        /\ \/ diff'[c] = diff[c]
           \/ diff'[c] = NoDiff
           \/ diff'[c] = [diffs |-> roll(srv.data, sums[c]), modified |-> list[c].mtime,
                          checksum |-> <<>>]
    BY <1>1, <1>5 DEF ReadForDiff
  <2>2. roll(srv.data, sums[c]) \in Seq(Entries) /\ list[c].mtime \in Nat
    BY <1>0, RollType DEF ShapeAt, NodeShapes, Lists
  <2>3. /\ DOMAIN diff'[c] = {"diffs", "modified", "checksum"}
        /\ diff'[c].diffs \in Seq(Entries) /\ diff'[c].modified \in Nat
    <3>1. CASE diff'[c] = diff[c]
      BY <1>0, <3>1 DEF ShapeAt
    <3>2. CASE diff'[c] = NoDiff
      BY <3>2, NoEntries
    <3>3. CASE diff'[c] = [diffs |-> roll(srv.data, sums[c]), modified |-> list[c].mtime,
                           checksum |-> <<>>]
      BY <2>2, <3>3
    <3>. QED BY <2>1, <3>1, <3>2, <3>3
  <2>. QED BY <1>0, <2>1, <2>3 DEF ShapeAt, Patching
<1>6. CASE AppendChecksum(c)
  <2>1. /\ phase'[c] = "answered" /\ UNCHANGED <<list, sums, raw, report>>
        /\ diff'[c] = [diff[c] EXCEPT !.checksum = getChecksum(srv)]
    BY <1>1, <1>6 DEF AppendChecksum
  <2>2. DOMAIN diff'[c] = DOMAIN diff[c] /\ diff'[c].diffs = diff[c].diffs
        /\ diff'[c].modified = diff[c].modified
    BY <1>0, <2>1 DEF ShapeAt
  <2>. QED BY <1>0, <2>1, <2>2 DEF ShapeAt, Patching
<1>7. CASE HandleDiffResponse(c)
  <2>1. UNCHANGED <<sums, diff, raw, report>>
    BY <1>7 DEF HandleDiffResponse
  <2>2. changed => Head(cache) \in Lists
    <3>1. cache \in Seq(Lists) /\ (changed => cache # <<>>)
      BY DEF TrackShapes
    <3>. QED BY <3>1
  <2>3. CASE ~Deserializable(diff[c].diffs)
    <3>1. phase'[c] = "threw" /\ list' = list
      BY <1>1, <1>7, <2>3 DEF HandleDiffResponse
    <3>. QED BY <1>0, <2>1, <3>1 DEF ShapeAt, Patching
  <2>4. CASE Deserializable(diff[c].diffs)
    <3>1. list'[c] = list[c] \/ (changed /\ list'[c] = Head(cache))
      BY <1>1, <1>7, <2>4 DEF HandleDiffResponse
    <3>2. list'[c] \in Lists
      BY <1>0, <2>2, <3>1 DEF ShapeAt
    <3>. QED BY <1>0, <2>1, <2>4, <3>2 DEF ShapeAt
  <2>. QED BY <2>3, <2>4
<1>. QED
  BY <1>2, <1>3, <1>4, <1>5, <1>6, <1>7 DEF Before

LEMMA ShapeWithin ==
  ASSUME SyncShapes, NodeShapes, Fields, NEW c \in Syncs, Within(c)
  PROVE  ShapeAt(c)'
<1>. USE DEF Moves, Trans
<1>0. ShapeAt(c)
  BY DEF SyncShapes
<1>1. phase \in [Syncs -> Phases] /\ DOMAIN raw = Syncs /\ DOMAIN report = Syncs
  BY DEF Fields, Chains
<1>2. phase[c] \in Patching
  BY DEF Within, PatchDir, PatchFile, CompareVersions, CheckUnsynced, MakeConflictedCopy,
     RemoveUnsynced, ApplyPatch, UpdateModifiedTime, ReadQueue, StoreQueue, GenerateChecksums,
     Patching
<1>3. UNCHANGED <<list, sums, diff>>
  BY DEF Within, PatchDir, PatchFile, CompareVersions, CheckUnsynced, MakeConflictedCopy,
     RemoveUnsynced, ApplyPatch, UpdateModifiedTime, ReadQueue, StoreQueue, GenerateChecksums,
     chain
<1>4. CASE PatchFile(c)
  <2>1. raw'[c] = node.data /\ report' = report
    BY <1>1, <1>4 DEF PatchFile
  <2>. QED BY <1>0, <1>2, <1>3, <2>1 DEF ShapeAt, NodeShapes
<1>5. CASE GenerateChecksums(c)
  <2>. DEFINE entry == [kind |-> node.kind, data |-> getChecksum(node)]
  <2>1. raw' = raw /\ (report'[c] = <<>> \/ report'[c] = <<entry>>)
    BY <1>1, <1>5 DEF GenerateChecksums
  <2>. HIDE DEF entry
  <2>2. Len(report'[c]) <= 1
    <3>1. Len(<<>>) = 0 /\ Len(<<entry>>) = 1
      OBVIOUS
    <3>2. CASE report'[c] = <<>>
      BY <3>1, <3>2
    <3>3. CASE report'[c] = <<entry>>
      BY <3>1, <3>3
    <3>. QED BY <2>1, <3>2, <3>3
  <2>. QED BY <1>0, <1>2, <1>3, <2>1, <2>2, ShapeAside
<1>6. CASE ~PatchFile(c) /\ ~GenerateChecksums(c)
  <2>1. UNCHANGED <<raw, report>>
    BY <1>6 DEF Within, PatchDir, CompareVersions, CheckUnsynced, MakeConflictedCopy,
       RemoveUnsynced, ApplyPatch, UpdateModifiedTime, ReadQueue, StoreQueue, chain
  <2>2. Len(report'[c]) <= 1
    BY <1>0, <2>1 DEF ShapeAt
  <2>. QED BY <1>0, <1>2, <1>3, <2>1, <2>2, ShapeAside
<1>. QED
  BY <1>4, <1>5, <1>6

LEMMA SyncShapesNext ==
  SyncShapes /\ NodeShapes /\ TrackShapes /\ Fields /\ [Next]_vars => SyncShapes'
<1>. SUFFICES ASSUME SyncShapes, NodeShapes, TrackShapes, Fields, [Next]_vars PROVE SyncShapes'
  OBVIOUS
<1>. USE DEF Moves, Trans
<1>1. ASSUME NEW c \in Syncs, SyncDownstream(c) \/ CheckLockFails(c) \/ BrowserFails(c) \/ SyncStep(c)
      PROVE  SyncShapes'
  <2>1. Elsewhere(c)
    BY <1>1, ChainsStep
  <2>2. ASSUME NEW d \in Syncs, d # c PROVE ShapeAt(d)'
    <3>1. ShapeAt(d) /\ phase'[d] = phase[d] /\ list'[d] = list[d] /\ sums'[d] = sums[d]
          /\ diff'[d] = diff[d] /\ raw'[d] = raw[d] /\ report'[d] = report[d]
      BY <2>1, <2>2 DEF Elsewhere, SyncShapes
    <3>. QED BY <3>1, ShapeAside DEF ShapeAt
  <2>3. ShapeAt(c)'
    <3>0. /\ ShapeAt(c) /\ phase \in [Syncs -> Phases]
          /\ DOMAIN list = Syncs /\ DOMAIN sums = Syncs /\ DOMAIN diff = Syncs
          /\ DOMAIN raw = Syncs /\ DOMAIN report = Syncs
      BY DEF SyncShapes, Fields, Chains
    <3>1. CASE SyncDownstream(c)
      <4>1. /\ phase'[c] = "start" /\ list'[c] = NoList /\ sums'[c] = <<>> /\ diff'[c] = NoDiff
            /\ raw'[c] = <<>> /\ report'[c] = <<>>
        BY <3>0, <3>1 DEF SyncDownstream, NewSync
      <4>. QED BY <4>1, NoEntries, NoBlocks DEF ShapeAt, Patching
    <3>2. CASE CheckLockFails(c) \/ BrowserFails(c) \/ Beyond(c)
      <4>1. UNCHANGED chain
        BY <3>2 DEF CheckLockFails, BrowserFails, Beyond, ComparePatch, HandleVerification,
           HandleDownstreamError
      <4>2. phase'[c] \notin Patching
        BY <3>0, <3>2 DEF CheckLockFails, BrowserFails, Beyond, ComparePatch, HandleVerification,
           HandleDownstreamError, Patching
      <4>. QED BY <3>0, <4>1, <4>2 DEF chain, ShapeAt
    <3>3. CASE Before(c)
      BY <3>3, ShapeBefore
    <3>4. CASE Within(c)
      BY <3>4, ShapeWithin
    <3>. QED BY <1>1, <3>1, <3>2, <3>3, <3>4, SyncSteps
  <2>. QED BY <2>2, <2>3 DEF SyncShapes
<1>2. CASE Aloof \/ UNCHANGED vars
  <2>1. UNCHANGED <<phase, chain>>
    BY <1>2, ChainsAloof DEF vars
  <2>. QED BY <2>1 DEF chain, SyncShapes, ShapeAt
<1>. QED
  BY <1>1, <1>2 DEF Next, Aloof

-----------------------------------------------------------------------------
(* Which syncs are counted                                                  *)

LEMMA CountedFinite == IsFiniteSet(Counted) /\ Cardinality(Counted) \in Nat
BY SyncsAssumption, FS_Subset, FS_CardinalityType DEF Counted

LEMMA CountedFewer ==
  ASSUME NEW c \in Syncs, Elsewhere(c),
         phase'[c] \in Pausing \cup {"listed"} \/ phase[c] \notin Pausing \cup {"listed"}
  PROVE  Cardinality(Counted)' <= Cardinality(Counted)
<1>1. Counted' \subseteq Counted
  BY DEF Counted, Elsewhere
<1>. QED BY <1>1, CountedFinite, FS_Subset

LEMMA CountedOneMore ==
  ASSUME NEW c \in Syncs, Elsewhere(c)
  PROVE  Cardinality(Counted)' <= Cardinality(Counted) + 1
<1>1. Counted' \subseteq Counted \cup {c}
  BY DEF Counted, Elsewhere
<1>2. IsFiniteSet(Counted \cup {c}) /\ Cardinality(Counted \cup {c}) <= Cardinality(Counted) + 1
  <2>1. /\ IsFiniteSet(Counted \cup {c})
        /\ Cardinality(Counted \cup {c}) =
             IF c \in Counted THEN Cardinality(Counted) ELSE Cardinality(Counted) + 1
    BY CountedFinite, FS_AddElement
  <2>. QED BY <2>1, CountedFinite
<1>3. /\ IsFiniteSet(Counted') /\ Cardinality(Counted') \in Nat
      /\ Cardinality(Counted') <= Cardinality(Counted \cup {c})
  BY <1>1, <1>2, FS_Subset, FS_CardinalityType
<1>4. Cardinality(Counted \cup {c}) \in Nat
  BY <1>2, FS_CardinalityType
<1>. QED BY <1>2, <1>3, <1>4, CountedFinite

LEMMA CountedOneLess ==
  ASSUME NEW c \in Syncs, Elsewhere(c),
         phase[c] \notin Pausing \cup {"listed"}, phase'[c] \in Pausing \cup {"listed"}
  PROVE  Cardinality(Counted)' = Cardinality(Counted) - 1 /\ Cardinality(Counted) >= 1
<1>1. Counted' = Counted \ {c} /\ c \in Counted
  BY DEF Counted, Elsewhere
<1>2. Cardinality(Counted \ {c}) = Cardinality(Counted) - 1
  BY <1>1, CountedFinite, FS_RemoveElement
<1>3. Cardinality(Counted \ {c}) \in Nat
  BY CountedFinite, FS_RemoveElement, FS_CardinalityType
<1>. QED BY <1>1, <1>2, <1>3, CountedFinite

LEMMA TrackShapesInit == Init => TrackShapes
<1>. SUFFICES ASSUME Init PROVE TrackShapes
  OBVIOUS
<1>1. phase = [c \in Syncs |-> "idle"] /\ cache = <<>> /\ changed = FALSE /\ downs = 0
  BY DEF Init, InitWith
<1>2. Counted = {}
  BY <1>1 DEF Counted, Pausing, Ended
<1>. QED BY <1>1, <1>2, FS_EmptySet DEF TrackShapes

LEMMA TrackShapesNext ==
  TrackShapes /\ SyncShapes /\ FlagShapes /\ Fields /\ [Next]_vars => TrackShapes'
<1>. SUFFICES ASSUME TrackShapes, SyncShapes, FlagShapes, Fields, [Next]_vars PROVE TrackShapes'
  OBVIOUS
<1>. USE DEF Moves, Trans
<1>0. /\ cache \in Seq(Lists) /\ (changed => cache # <<>>) /\ downs \in Nat
      /\ Cardinality(Counted) <= downs /\ Cardinality(Counted) \in Nat
      /\ phase \in [Syncs -> Phases] /\ changed \in BOOLEAN
  BY CountedFinite DEF TrackShapes, Fields, Chains, FlagShapes
<1>1. ASSUME NEW c \in Syncs, Elsewhere(c), Cardinality(Counted)' \in Nat
      PROVE  /\ Checksums(c) => TrackShapes'
             /\ SendChecksums(c) => TrackShapes'
             /\ HandleDiffResponse(c) => TrackShapes'
             /\ HandleVerification(c) => TrackShapes'
             /\ HandleDownstreamError(c) => TrackShapes'
  <2>1. CASE Checksums(c)
    <3>1. UNCHANGED <<cache, changed>> /\ downs' = downs + 1
      BY <2>1 DEF Checksums
    <3>. QED BY <1>0, <1>1, <3>1, CountedOneMore DEF TrackShapes
  <2>2. CASE SendChecksums(c)
    <3>1. /\ UNCHANGED <<changed, downs>> /\ cache' = Append(cache, list[c])
          /\ phase[c] = "summed"
      BY <2>2 DEF SendChecksums, trackChanges
    <3>2. list[c] \in Lists
      BY DEF SyncShapes, ShapeAt
    <3>3. cache' \in Seq(Lists) /\ cache' # <<>>
      BY <1>0, <3>1, <3>2
    <3>4. Cardinality(Counted)' <= Cardinality(Counted)
      BY <1>1, <3>1, CountedFewer DEF Pausing, Ended
    <3>. QED BY <1>0, <1>1, <3>1, <3>3, <3>4 DEF TrackShapes
  <2>3. CASE HandleDiffResponse(c)
    <3>1. /\ downs' = downs /\ phase[c] = "answered"
          /\ \/ UNCHANGED <<cache, changed>>
             \/ cache # <<>> /\ cache' = Tail(cache) /\ changed' = FALSE
      BY <2>3 DEF HandleDiffResponse, untrackChanges
    <3>2. cache' \in Seq(Lists) /\ (changed' => cache' # <<>>)
      BY <1>0, <3>1
    <3>3. Cardinality(Counted)' <= Cardinality(Counted)
      BY <1>1, <3>1, CountedFewer DEF Pausing, Ended
    <3>. QED BY <1>0, <1>1, <3>1, <3>2, <3>3 DEF TrackShapes
  <2>4. CASE HandleVerification(c)
    <3>1. /\ UNCHANGED <<cache, changed>> /\ downs' = downs - 1
          /\ phase[c] = "verified" /\ phase'[c] = "completed"
      BY <1>0, <2>4 DEF HandleVerification
    <3>2. Cardinality(Counted)' = Cardinality(Counted) - 1 /\ Cardinality(Counted) >= 1
      BY <1>1, <3>1, CountedOneLess DEF Pausing, Ended
    <3>. QED BY <1>0, <1>1, <3>1, <3>2 DEF TrackShapes
  <2>5. CASE HandleDownstreamError(c)
    <3>1. /\ phase[c] \in {"mismatched", "refused"} /\ phase'[c] = "interrupted"
          /\ downs' = IF downs > 0 THEN downs - 1 ELSE 0
          /\ \/ UNCHANGED <<cache, changed>>
             \/ cache # <<>> /\ cache' = Tail(cache) /\ changed' = FALSE
      BY <1>0, <2>5 DEF HandleDownstreamError, untrackChanges
    <3>2. cache' \in Seq(Lists) /\ (changed' => cache' # <<>>)
      BY <1>0, <3>1
    <3>3. Cardinality(Counted)' = Cardinality(Counted) - 1 /\ Cardinality(Counted) >= 1
      BY <1>1, <3>1, CountedOneLess DEF Pausing, Ended
    <3>. QED BY <1>0, <1>1, <3>1, <3>2, <3>3 DEF TrackShapes
  <2>. QED BY <2>1, <2>2, <2>3, <2>4, <2>5
\* The other steps of a sync's leave the lists and the count alone.
<1>2. ASSUME NEW c \in Syncs, Elsewhere(c), Cardinality(Counted)' \in Nat,
             UNCHANGED <<cache, changed, downs>>,
             phase'[c] \in Pausing \cup {"listed"} \/ phase[c] \notin Pausing \cup {"listed"}
      PROVE  TrackShapes'
  <2>1. Cardinality(Counted)' <= Cardinality(Counted)
    BY <1>2, CountedFewer
  <2>. QED BY <1>0, <1>2, <2>1 DEF TrackShapes
<1>3. ASSUME NEW c \in Syncs, SyncDownstream(c) \/ CheckLockFails(c) \/ BrowserFails(c) \/ SyncStep(c)
      PROVE  TrackShapes'
  <2>1. Elsewhere(c)
    BY <1>3, ChainsStep
  <2>2. Cardinality(Counted)' \in Nat
    <3>1. IsFiniteSet(Counted')
      BY SyncsAssumption, FS_Subset DEF Counted
    <3>. QED BY <3>1, FS_CardinalityType
  <2>3. CASE SyncDownstream(c) \/ CheckLockFails(c) \/ BrowserFails(c) \/ SendSourceList(c)
    <3>1. UNCHANGED <<cache, changed, downs>>
      BY <2>3 DEF SyncDownstream, CheckLockFails, BrowserFails, SendSourceList, browser
    <3>2. phase'[c] \in Pausing \cup {"listed"} \/ phase[c] \notin Pausing \cup {"listed"}
      BY <1>0, <2>3 DEF SyncDownstream, CheckLockFails, BrowserFails, SendSourceList, Pausing, Ended
    <3>. QED BY <1>2, <2>1, <2>2, <3>1, <3>2
  <2>4. CASE CheckLock(c) \/ ReadForDiff(c) \/ AppendChecksum(c) \/ ComparePatch(c)
    <3>1. UNCHANGED <<cache, changed, downs>>
      BY <2>4 DEF CheckLock, ReadForDiff, AppendChecksum, ComparePatch, browser
    <3>2. phase[c] \in {"asking", "diffing", "diffed", "patched"}
      BY <2>4 DEF CheckLock, ReadForDiff, AppendChecksum, ComparePatch
    <3>. QED BY <1>2, <2>1, <2>2, <3>1, <3>2 DEF Pausing, Ended
  <2>5. CASE Within(c)
    <3>1. UNCHANGED <<cache, changed, downs>>
      BY <2>5 DEF Within, PatchDir, PatchFile, CompareVersions, CheckUnsynced, MakeConflictedCopy,
         RemoveUnsynced, ApplyPatch, UpdateModifiedTime, ReadQueue, StoreQueue, GenerateChecksums,
         browser
    <3>2. phase[c] \in Patching
      BY <2>5 DEF Within, PatchDir, PatchFile, CompareVersions, CheckUnsynced, MakeConflictedCopy,
         RemoveUnsynced, ApplyPatch, UpdateModifiedTime, ReadQueue, StoreQueue, GenerateChecksums,
         Patching
    <3>. QED BY <1>2, <2>1, <2>2, <3>1, <3>2 DEF Pausing, Ended, Patching
  <2>. QED
    BY <1>1, <1>3, <2>1, <2>2, <2>3, <2>4, <2>5, SyncSteps DEF Before, Beyond
<1>4. CASE Aloof \/ UNCHANGED vars
  <2>1. phase' = phase
    BY <1>4, ChainsAloof DEF vars
  <2>2. /\ UNCHANGED <<cache, downs>>
        /\ changed' = changed \/ changed' = (changed \/ cache # <<>>)
    <3>1. CASE EditMark
      BY <3>1 DEF EditMark, Starts
    <3>2. CASE DescriptorWrite
      BY <3>2 DEF DescriptorWrite, Starts
    <3>3. CASE EditQueue \/ EditWrite \/ EditFlag
      BY <3>3 DEF EditQueue, EditWrite, EditFlag
    <3>4. CASE ForcedDequeue \/ OtherStep \/ UNCHANGED vars
      BY <3>4 DEF ForcedDequeue, OtherStep, OtherLocks, OtherPatches, OtherReleases, vars, browser
    <3>. QED BY <1>4, <3>1, <3>2, <3>3, <3>4 DEF Aloof, EditStep
  <2>3. Cardinality(Counted)' = Cardinality(Counted)
    BY <2>1 DEF Counted
  <2>. QED BY <1>0, <2>2, <2>3 DEF TrackShapes
<1>. QED
  BY <1>3, <1>4 DEF Next, Aloof

Shapes == Fields /\ MarkShapes /\ NodeShapes /\ FlagShapes /\ SyncShapes /\ TrackShapes

LEMMA ShapesHold == Spec => []Shapes
<1>1. Init => Shapes
  BY FieldsInit, NodeShapesInit, FlagShapesInit, SyncShapesInit, TrackShapesInit DEF Shapes
<1>2. Shapes /\ [Next]_vars => Shapes'
  BY FieldsNext, MarksNext, NodeShapesNext, FlagShapesNext, SyncShapesNext, TrackShapesNext DEF Shapes
<1>. QED BY <1>1, <1>2, PTL DEF Spec

\* Whatever the contents, the block size and the number of syncs are, no
\* variable loses its shape: patching writes bytes, and syncManager.downstreams
\* still holds the sync that is verified.
\* (sendChecksums, handleVerificationResponse, handleDownstreamError)
THEOREM TypeCorrect == Spec => []TypeOK
<1>1. Shapes => TypeOK
  <2>. SUFFICES ASSUME Shapes PROVE TypeOK
    OBVIOUS
  <2>1. IsNode(srv) /\ IsNode(node)
    BY BytesAreDefined DEF Shapes, NodeShapes, Fields, IsNode
  <2>2. /\ node.unsynced \in BOOLEAN
        /\ {locked, queued, changed, overlap, loose, halfway, clashed, raced} \subseteq BOOLEAN
        /\ edit.pc \in {"idle", "queuing", "writing", "flagging"}
    BY DEF Shapes, Fields, FlagShapes
  <2>3. /\ {needs, seen, disturbed, stale, crossed} \subseteq [Syncs -> BOOLEAN]
        /\ phase \in [Syncs -> Phases]
    BY DEF Shapes, Fields, Chains, MarkShapes, Flags
  <2>4. downs \in Nat
    BY DEF Shapes, TrackShapes
  <2>5. \A c \in Syncs : list[c].kind \in Kinds /\ Len(report[c]) <= 1
    BY DEF Shapes, SyncShapes, ShapeAt, Lists
  <2>. QED BY <2>1, <2>2, <2>3, <2>4, <2>5 DEF TypeOK
<1>. QED BY <1>1, ShapesHold, PTL

-----------------------------------------------------------------------------
(* QuietSyncCompletes: a sync that is not disturbed is the only one, and    *)
(* everything that is tracked is of the server's kind.                      *)

Tracking == {"asking", "diffing", "diffed", "refused", "answered"}

\* What cannot be transferred.
Excuse   == srv.kind = "NONE" \/ node.kind \notin {srv.kind, "NONE"} \/ ZeroLed(srv.data)
Equal    == node.kind = srv.kind /\ node.data = srv.data
Whole(c) == diff[c].diffs = << [data |-> srv.data, index |-> Undefined] >>

Alone(c) == \A d \in Syncs \ {c} : phase[d] \in Ended
SameKind == \A i \in DOMAIN cache : cache[i].kind = srv.kind

QuietAt(c) ==
  ~disturbed[c] =>
    /\ edit.pc = "idle" /\ ~locked
    /\ Alone(c) /\ SameKind
    /\ phase[c] \in Tracking => cache # <<>>
    /\ phase[c] \notin Pausing => list[c].kind = srv.kind /\ srv.kind # "NONE"
    /\ phase[c] \in {"comparing", "checking", "copying", "clearing", "writing", "timing"} =>
         srv.kind = "FILE"
    /\ (phase[c] \in {"diffed", "answered"} /\ srv.kind = "DIRECTORY") => diff[c].diffs = <<>>
    /\ phase[c] # "refused"
    /\ phase[c] \in {"unlisted", "interrupted", "delayed", "threw", "mismatched"} => Excuse
    /\ (phase[c] \in {"diffed", "answered"} \cup Patching /\ srv.kind = "FILE" /\ ~ZeroLed(srv.data))
         => Whole(c)
    /\ phase[c] = "timing" => Equal \/ Excuse
    /\ phase[c] \in {"unqueuing", "storing", "stamping"} => Equal \/ needs[c] \/ Excuse
    /\ phase[c] = "patched" => SameContents(c) \/ Excuse

QuietInv == \A c \in Syncs : QuietAt(c)

LEMMA QuietInit == Init => QuietInv
<1>. SUFFICES ASSUME Init, NEW c \in Syncs PROVE QuietAt(c)
  BY DEF QuietInv
<1>1. phase = [d \in Syncs |-> "idle"] /\ edit = NoEdit /\ locked = FALSE /\ cache = <<>>
  BY DEF Init, InitWith
<1>2. edit.pc = "idle" /\ Alone(c) /\ SameKind /\ phase[c] = "idle"
  BY <1>1 DEF NoEdit, Alone, SameKind, Ended
<1>. QED BY <1>1, <1>2 DEF QuietAt, Pausing, Ended, Patching, Tracking

LEMMA TrackedKinds ==
  ASSUME TrackShapes, SameKind, cache # <<>>
  PROVE  /\ Head(cache).kind = srv.kind
         /\ \A j \in DOMAIN Tail(cache) : Tail(cache)[j].kind = srv.kind
<1>1. cache \in Seq(Lists)
  BY DEF TrackShapes
<1>2. Head(cache) = cache[1] /\ 1 \in DOMAIN cache
  BY <1>1
<1>3. \A j \in DOMAIN Tail(cache) : j + 1 \in DOMAIN cache /\ Tail(cache)[j] = cache[j + 1]
  BY <1>1
<1>. QED BY <1>2, <1>3 DEF SameKind

\* What holds around every step of an undisturbed sync.
Around(c) == /\ edit.pc = "idle" /\ ~locked /\ Alone(c) /\ SameKind

LEMMA QuietBefore ==
  ASSUME Size <= 256, NEW c \in Syncs, QuietAt(c), ~disturbed[c], Shapes, Before(c), Around(c)',
         srv' = srv
  PROVE  QuietAt(c)'
<1>. USE DEF Pausing, Ended, Tracking, Moves, Trans
<1>0. /\ phase \in [Syncs -> Phases] /\ DOMAIN list = Syncs /\ DOMAIN sums = Syncs
      /\ DOMAIN diff = Syncs /\ cache \in Seq(Lists) /\ list[c] \in Lists
  BY DEF Shapes, Fields, Chains, TrackShapes, SyncShapes, ShapeAt
<1>1. CASE SendSourceList(c)
  <2>1. \/ phase'[c] = "unlisted" /\ srv.kind = "NONE"
        \/ phase'[c] = "listed" /\ list'[c].kind = srv.kind /\ srv.kind # "NONE"
    BY <1>0, <1>1 DEF SendSourceList
  <2>. QED BY <2>1 DEF QuietAt, Around, Excuse, Patching
<1>2. CASE Checksums(c)
  <2>1. /\ phase[c] = "listed" /\ UNCHANGED <<list, node>>
        /\ \/ phase'[c] = "summed"
           \/ phase'[c] = "delayed" /\ list[c].kind = "FILE" /\ node.kind = "DIRECTORY"
    BY <1>0, <1>2 DEF Checksums
  <2>. QED BY <2>1 DEF QuietAt, Around, Excuse, Patching
<1>3. CASE SendChecksums(c)
  <2>1. /\ phase[c] = "summed" /\ phase'[c] = "asking" /\ list' = list
        /\ cache' = Append(cache, list[c])
    BY <1>0, <1>3 DEF SendChecksums, trackChanges, chain
  <2>2. cache' # <<>>
    BY <1>0, <2>1
  <2>. QED BY <2>1, <2>2 DEF QuietAt, Around, Patching
<1>4. CASE CheckLock(c)
  <2>1. phase[c] = "asking" /\ phase'[c] = "diffing" /\ UNCHANGED <<list, cache>>
    BY <1>0, <1>4 DEF CheckLock, chain, browser, QuietAt
  <2>. QED BY <2>1 DEF QuietAt, Around, Patching
<1>5. CASE ReadForDiff(c)
  <2>1. phase[c] = "diffing" /\ UNCHANGED <<list, cache>>
    BY <1>5 DEF ReadForDiff, browser
  <2>2. list[c].kind = srv.kind /\ srv.kind # "NONE" /\ srv.kind \in Kinds /\ cache # <<>>
    BY <2>1 DEF QuietAt, Shapes, NodeShapes
  <2>3. \/ srv.kind = "DIRECTORY" /\ phase'[c] = "answered" /\ diff'[c] = NoDiff
        \/ /\ srv.kind = "FILE" /\ phase'[c] = "diffed"
           /\ diff'[c].diffs = roll(srv.data, sums[c])
    BY <1>0, <1>5, <2>2 DEF ReadForDiff, Kinds
  <2>4. (srv.kind = "FILE" /\ ~ZeroLed(srv.data)) => Whole(c)'
    <3>. SUFFICES ASSUME srv.kind = "FILE", ~ZeroLed(srv.data) PROVE Whole(c)'
      OBVIOUS
    <3>1. roll(srv.data, sums[c]) = << [data |-> srv.data, index |-> Undefined] >>
      BY RollSendsWholeFile DEF Shapes, NodeShapes, SyncShapes, ShapeAt
    <3>. QED BY <2>3, <3>1 DEF Whole
  <2>5. srv.kind = "DIRECTORY" => diff'[c].diffs = <<>>
    BY <2>3, NoEntries
  <2>6. phase'[c] \in {"answered", "diffed"}
    BY <2>3
  <2>. QED BY <2>1, <2>2, <2>4, <2>5, <2>6 DEF QuietAt, Around, Patching
<1>6. CASE AppendChecksum(c)
  <2>1. /\ phase[c] = "diffed" /\ phase'[c] = "answered" /\ UNCHANGED <<list, cache>>
        /\ diff'[c] = [diff[c] EXCEPT !.checksum = getChecksum(srv)]
    BY <1>0, <1>6 DEF AppendChecksum, browser
  <2>2. diff'[c].diffs = diff[c].diffs
    BY <2>1 DEF Shapes, SyncShapes, ShapeAt
  <2>. QED BY <2>1, <2>2 DEF QuietAt, Around, Patching, Whole
<1>7. CASE HandleDiffResponse(c)
  <2>1. phase[c] = "answered" /\ UNCHANGED <<node, diff>>
    BY <1>7 DEF HandleDiffResponse
  <2>2. list[c].kind = srv.kind /\ srv.kind # "NONE" /\ cache # <<>> /\ SameKind
    BY <2>1 DEF QuietAt
  <2>3. CASE ~Deserializable(diff[c].diffs)
    <3>1. phase'[c] = "threw"
      BY <1>0, <1>7, <2>3 DEF HandleDiffResponse
    <3>2. srv.kind = "FILE"
      <4>1. srv.kind \in {"FILE", "DIRECTORY"}
        BY <2>2 DEF Shapes, NodeShapes, Kinds
      <4>2. srv.kind # "DIRECTORY"
        BY <2>1, <2>3, NoEntries DEF QuietAt
      <4>. QED BY <4>1, <4>2
    <3>3. Whole(c) => Deserializable(diff[c].diffs)
      BY WholeFile DEF Whole, Shapes, NodeShapes
    <3>4. ZeroLed(srv.data)
      BY <2>1, <2>3, <3>2, <3>3 DEF QuietAt
    <3>. QED BY <3>1, <3>4 DEF QuietAt, Around, Patching, Excuse
  <2>4. CASE Deserializable(diff[c].diffs) /\ changed
    <3>1. phase'[c] = "listed" /\ list'[c] = Head(cache)
      BY <1>0, <1>7, <2>4 DEF HandleDiffResponse
    <3>2. list'[c].kind = srv.kind
      BY <2>2, <3>1, TrackedKinds DEF Shapes
    <3>. QED BY <2>2, <3>1, <3>2 DEF QuietAt, Around, Patching
  <2>5. CASE Deserializable(diff[c].diffs) /\ ~changed
    <3>1. phase'[c] = "reading" /\ list' = list
      BY <1>0, <1>7, <2>5 DEF HandleDiffResponse
    <3>. QED BY <2>1, <2>2, <3>1 DEF QuietAt, Around, Patching, Whole
  <2>. QED BY <2>3, <2>4, <2>5
<1>. QED
  BY <1>1, <1>2, <1>3, <1>4, <1>5, <1>6, <1>7 DEF Before

LEMMA QuietWithin ==
  ASSUME NEW c \in Syncs, QuietAt(c), ~disturbed[c], Shapes, Within(c), Around(c)', srv' = srv
  PROVE  QuietAt(c)'
<1>. USE DEF Pausing, Ended, Tracking, Moves, Trans
<1>0. phase \in [Syncs -> Phases] /\ needs \in [Syncs -> BOOLEAN] /\ DOMAIN report = Syncs
  BY DEF Shapes, Fields, Chains, Flags
<1>1. UNCHANGED <<list, diff>>
  BY DEF Within, PatchDir, PatchFile, CompareVersions, CheckUnsynced, MakeConflictedCopy,
     RemoveUnsynced, ApplyPatch, UpdateModifiedTime, ReadQueue, StoreQueue, GenerateChecksums,
     chain
<1>2. list[c].kind = srv.kind /\ srv.kind # "NONE"
  BY DEF QuietAt, Within, PatchDir, PatchFile, CompareVersions, CheckUnsynced, MakeConflictedCopy,
     RemoveUnsynced, ApplyPatch, UpdateModifiedTime, ReadQueue, StoreQueue, GenerateChecksums
<1>3. ~ZeroLed(srv.data) /\ srv.kind = "FILE" => Whole(c) /\ Whole(c)'
  <2>1. phase[c] \in Patching
    BY DEF Within, PatchDir, PatchFile, CompareVersions, CheckUnsynced, MakeConflictedCopy,
       RemoveUnsynced, ApplyPatch, UpdateModifiedTime, ReadQueue, StoreQueue, GenerateChecksums,
       Patching
  <2>. QED BY <1>1, <2>1 DEF QuietAt, Whole
<1>4. CASE PatchDir(c)
  <2>1. /\ phase'[c] = "unqueuing" /\ list[c].kind = "DIRECTORY"
        /\ node' = IF node.kind = "NONE"
                   THEN [BrowserAbsent EXCEPT !.kind = "DIRECTORY"] ELSE node
    BY <1>0, <1>4 DEF PatchDir
  <2>2. srv.kind = "DIRECTORY" /\ srv.data = <<>>
    BY <1>2, <2>1 DEF Shapes, NodeShapes
  <2>3. (node'.data = <<>> /\ node'.kind = "DIRECTORY") \/ node'.kind \notin {srv.kind, "NONE"}
    BY <2>1, <2>2 DEF BrowserAbsent, Shapes, NodeShapes
  <2>4. Equal' \/ Excuse'
    BY <2>2, <2>3 DEF Equal, Excuse
  <2>. QED BY <1>1, <1>2, <1>3, <2>1, <2>2, <2>4 DEF QuietAt, Around
<1>5. CASE PatchFile(c)
  <2>1. /\ list[c].kind = "FILE" /\ node' = node
        /\ \/ phase'[c] \in {"checking", "comparing"}
           \/ phase'[c] = "delayed" /\ node.kind = "DIRECTORY"
    BY <1>0, <1>5 DEF PatchFile, browser, Shapes, Fields, Kinds
  <2>. QED BY <1>1, <1>2, <1>3, <2>1 DEF QuietAt, Around, Excuse, Patching
<1>6. CASE CompareVersions(c)
  <2>1. /\ phase[c] = "comparing"
        /\ \/ phase'[c] = "checking"
           \/ phase'[c] = "unqueuing" /\ needs'[c]
    BY <1>0, <1>6 DEF CompareVersions
  <2>2. srv.kind = "FILE"
    BY <2>1 DEF QuietAt
  <2>. QED BY <1>1, <1>2, <1>3, <2>1, <2>2 DEF QuietAt, Around
<1>7. CASE CheckUnsynced(c) \/ MakeConflictedCopy(c) \/ RemoveUnsynced(c)
  <2>1. /\ phase[c] \in {"checking", "copying", "clearing"}
        /\ phase'[c] \in {"copying", "clearing", "writing"}
    BY <1>0, <1>7 DEF CheckUnsynced, MakeConflictedCopy, RemoveUnsynced
  <2>2. srv.kind = "FILE"
    BY <2>1 DEF QuietAt
  <2>. QED BY <1>1, <1>2, <1>3, <2>1, <2>2 DEF QuietAt, Around
<1>8. CASE ApplyPatch(c)
  <2>1. phase[c] = "writing"
    BY <1>8 DEF ApplyPatch
  <2>2. srv.kind = "FILE"
    BY <2>1 DEF QuietAt
  <2>3. CASE node.kind = "DIRECTORY"
    <3>1. phase'[c] = "delayed" /\ node' = node
      BY <1>0, <1>8, <2>3 DEF ApplyPatch
    <3>. QED BY <2>2, <2>3, <3>1 DEF QuietAt, Around, Excuse, Patching
  <2>4. CASE node.kind # "DIRECTORY"
    <3>1. phase'[c] = "timing" /\ node'.kind = "FILE"
          /\ node'.data = getPatchedData(raw[c], diff[c].diffs)
      BY <1>0, <1>8, <2>4 DEF ApplyPatch, Shapes, Fields
    <3>2. Whole(c) => getPatchedData(raw[c], diff[c].diffs) = srv.data
      BY WholeFile DEF Whole, Shapes, NodeShapes
    <3>3. Equal' \/ Excuse'
      BY <1>3, <2>2, <3>1, <3>2 DEF Equal, Excuse
    <3>. QED BY <1>1, <1>2, <1>3, <2>2, <3>1, <3>3 DEF QuietAt, Around
  <2>. QED BY <2>3, <2>4
<1>9. CASE UpdateModifiedTime(c)
  <2>1. /\ phase[c] = "timing" /\ phase'[c] = "unqueuing"
        /\ node'.kind = node.kind /\ node'.data = node.data
    BY <1>0, <1>9 DEF UpdateModifiedTime, Shapes, Fields
  <2>2. (Equal \/ Excuse) /\ srv.kind = "FILE"
    BY <2>1 DEF QuietAt
  <2>3. Equal' \/ Excuse'
    BY <2>1, <2>2 DEF Equal, Excuse
  <2>. QED BY <1>1, <1>2, <1>3, <2>1, <2>2, <2>3 DEF QuietAt, Around
<1>10. CASE ReadQueue(c) \/ StoreQueue(c)
  <2>1. /\ phase[c] \in {"unqueuing", "storing"} /\ phase'[c] \in {"storing", "stamping"}
        /\ UNCHANGED <<node, needs>>
    BY <1>0, <1>10 DEF ReadQueue, StoreQueue, chain, browser
  <2>2. Equal \/ needs[c] \/ Excuse
    BY <2>1 DEF QuietAt
  <2>3. Equal' \/ needs'[c] \/ Excuse'
    BY <2>1, <2>2 DEF Equal, Excuse
  <2>. QED BY <1>1, <1>2, <1>3, <2>1, <2>3 DEF QuietAt, Around
<1>11. CASE GenerateChecksums(c)
  <2>1. /\ phase[c] = "stamping" /\ phase'[c] = "patched"
        /\ node'.kind = node.kind /\ node'.data = node.data
    BY <1>0, <1>11 DEF GenerateChecksums, Shapes, Fields
  <2>2. /\ needs[c] => report'[c] = <<>>
        /\ report'[c] = <<>> \/ report'[c] = <<[kind |-> node.kind, data |-> getChecksum(node)]>>
    BY <1>0, <1>11 DEF GenerateChecksums
  <2>3. Equal \/ needs[c] \/ Excuse
    BY <2>1 DEF QuietAt
  <2>4. Equal => SameContents(c)'
    BY <2>2 DEF Equal, SameContents, getChecksum
  <2>5. needs[c] => SameContents(c)'
    BY <2>2 DEF SameContents
  <2>6. Excuse => Excuse'
    BY <2>1 DEF Excuse
  <2>. QED BY <1>1, <1>2, <2>1, <2>3, <2>4, <2>5, <2>6 DEF QuietAt, Around, Patching
<1>. QED
  BY <1>4, <1>5, <1>6, <1>7, <1>8, <1>9, <1>10, <1>11 DEF Within

LEMMA QuietBeyond ==
  ASSUME NEW c \in Syncs, QuietAt(c), ~disturbed[c], Shapes, Beyond(c), Around(c)', srv' = srv
  PROVE  QuietAt(c)'
<1>. USE DEF Pausing, Ended, Tracking, Moves, Trans
<1>0. phase \in [Syncs -> Phases]
  BY DEF Shapes, Fields, Chains
<1>1. CASE ComparePatch(c)
  <2>1. /\ phase[c] = "patched" /\ phase'[c] = (IF SameContents(c) THEN "verified" ELSE "mismatched")
        /\ UNCHANGED <<list, node>>
    BY <1>0, <1>1 DEF ComparePatch, browser, chain
  <2>2. SameContents(c) \/ Excuse
    BY <2>1 DEF QuietAt
  <2>. QED BY <2>1, <2>2 DEF QuietAt, Around, Patching, Excuse
<1>2. CASE HandleVerification(c)
  <2>1. phase'[c] = "completed"
    BY <1>0, <1>2 DEF HandleVerification
  <2>. QED BY <2>1 DEF QuietAt, Around, Patching
<1>3. CASE HandleDownstreamError(c)
  <2>1. /\ phase[c] \in {"mismatched", "refused"} /\ phase'[c] = "interrupted" /\ node' = node
    BY <1>0, <1>3 DEF HandleDownstreamError
  <2>. QED BY <2>1 DEF QuietAt, Around, Patching, Excuse
<1>. QED
  BY <1>1, <1>2, <1>3 DEF Beyond

\* A step of an undisturbed sync leaves the server's node, the lock and the
\* write alone, and tracks nothing of another kind.
LEMMA QuietAround ==
  ASSUME NEW c \in Syncs, QuietAt(c), ~disturbed[c], Shapes, SyncStep(c)
  PROVE  Around(c)' /\ srv' = srv
<1>. USE DEF Moves, Trans
<1>1. Elsewhere(c)
  BY ChainsStep DEF Shapes
<1>2. UNCHANGED <<server, edit>>
  <2>1. CASE Before(c) \/ Beyond(c)
    <3>1. edit' = edit
      BY <2>1, NodeAside
    <3>2. server' = server
      BY <2>1 DEF Before, SendSourceList, Checksums, SendChecksums, CheckLock, ReadForDiff,
         AppendChecksum, HandleDiffResponse, Beyond, ComparePatch, HandleVerification,
         HandleDownstreamError, server
    <3>. QED BY <3>1, <3>2
  <2>2. CASE Within(c)
    BY <2>2 DEF Within, PatchDir, PatchFile, CompareVersions, CheckUnsynced, MakeConflictedCopy,
       RemoveUnsynced, ApplyPatch, UpdateModifiedTime, ReadQueue, StoreQueue, GenerateChecksums,
       server
  <2>. QED BY <2>1, <2>2, SyncSteps
<1>3. srv' = srv /\ locked' = locked
  BY <1>2 DEF server
<1>4. Alone(c)'
  BY <1>1 DEF QuietAt, Alone, Elsewhere
<1>5. SameKind'
  <2>0. SameKind
    BY DEF QuietAt
  <2>1. CASE SendChecksums(c)
    <3>1. cache' = Append(cache, list[c]) /\ phase[c] = "summed"
      BY <2>1 DEF SendChecksums, trackChanges
    <3>2. list[c].kind = srv.kind
      BY <3>1 DEF QuietAt, Pausing, Ended
    <3>3. cache \in Seq(Lists) /\ list[c] \in Lists
      BY DEF Shapes, TrackShapes, SyncShapes, ShapeAt
    <3>4. \A j \in DOMAIN cache' : cache'[j] = list[c] \/ (j \in DOMAIN cache /\ cache'[j] = cache[j])
      BY <3>1, <3>3
    <3>. QED BY <1>3, <2>0, <3>2, <3>4 DEF SameKind
  <2>2. CASE HandleDiffResponse(c) \/ HandleDownstreamError(c)
    <3>1. cache' = cache \/ (cache # <<>> /\ cache' = Tail(cache))
      BY <2>2 DEF HandleDiffResponse, HandleDownstreamError, untrackChanges
    <3>. QED BY <1>3, <2>0, <3>1, TrackedKinds DEF SameKind, Shapes
  <2>3. CASE ~SendChecksums(c) /\ ~HandleDiffResponse(c) /\ ~HandleDownstreamError(c)
    <3>1. cache' = cache
      <4>1. CASE Before(c) \/ Beyond(c)
        BY <2>3, <4>1 DEF Before, SendSourceList, Checksums, CheckLock, ReadForDiff, AppendChecksum,
           Beyond, ComparePatch, HandleVerification, browser
      <4>2. CASE Within(c)
        BY <4>2 DEF Within, PatchDir, PatchFile, CompareVersions, CheckUnsynced,
           MakeConflictedCopy, RemoveUnsynced, ApplyPatch, UpdateModifiedTime, ReadQueue, StoreQueue,
           GenerateChecksums, browser
      <4>. QED BY <4>1, <4>2, SyncSteps
    <3>. QED BY <1>3, <2>0, <3>1 DEF SameKind
  <2>. QED BY <2>1, <2>2, <2>3
<1>. QED BY <1>2, <1>3, <1>4, <1>5 DEF Around, QuietAt

LEMMA QuietSame ==
  ASSUME NEW c \in Syncs, QuietAt(c),
         UNCHANGED <<srv, locked, node, edit, phase, chain, cache, disturbed>>
  PROVE  QuietAt(c)'
<1>1. (Alone(c) => Alone(c)') /\ (SameKind => SameKind')
  BY DEF Alone, SameKind
<1>2. /\ (Excuse => Excuse') /\ (Equal => Equal')
      /\ (Whole(c) => Whole(c)') /\ (SameContents(c) => SameContents(c)')
  BY DEF Excuse, Equal, Whole, SameContents, chain
<1>3. UNCHANGED <<phase, edit, locked, cache, list, srv, diff, needs, disturbed>>
  BY DEF chain
<1>4. CASE disturbed[c]
  BY <1>3, <1>4 DEF QuietAt
<1>5. CASE ~disturbed[c]
  <2>1. Alone(c)' /\ SameKind'
    BY <1>1, <1>5 DEF QuietAt
  <2>. QED BY <1>2, <1>3, <1>5, <2>1 DEF QuietAt
<1>. QED BY <1>4, <1>5

LEMMA QuietNext ==
  ASSUME Size <= 256, QuietInv, Shapes, [Next]_vars
  PROVE  QuietInv'
<1>. SUFFICES ASSUME NEW c \in Syncs, ~disturbed'[c] PROVE QuietAt(c)'
  BY DEF QuietInv, QuietAt
<1>. USE DEF Moves, Trans
<1>0. QuietAt(c) /\ disturbed \in Flags /\ phase \in [Syncs -> Phases]
  BY DEF QuietInv, Shapes, MarkShapes, Fields, Chains
<1>1. ASSUME NEW d \in Syncs, SyncDownstream(d)
      PROVE  QuietAt(c)'
  <2>1. disturbed' = [Everyone EXCEPT ![d] = Unquiet(d)]
    BY <1>1 DEF SyncDownstream
  <2>2. c = d /\ ~Unquiet(c)
    BY <2>1 DEF Everyone
  <2>3. phase'[c] = "start" /\ UNCHANGED <<edit, locked, srv, cache>>
    BY <1>0, <1>1, <2>2 DEF SyncDownstream, server, browser
  <2>4. edit.pc = "idle" /\ ~locked /\ SameKind /\ \A e \in Syncs \ {c} : phase[e] \in Ended
    BY <1>0, <2>2 DEF Unquiet, OtherIn, SameKind
  <2>5. Elsewhere(c)
    BY <1>1, <2>2, ChainsOther DEF Shapes
  <2>6. Alone(c)' /\ SameKind'
    BY <2>3, <2>4, <2>5 DEF Alone, SameKind, Elsewhere
  <2>. QED BY <2>3, <2>4, <2>6 DEF QuietAt, Pausing, Ended, Patching, Tracking
<1>2. ASSUME NEW d \in Syncs, CheckLockFails(d) \/ BrowserFails(d)
      PROVE  FALSE
  BY <1>2 DEF CheckLockFails, BrowserFails, Everyone
<1>3. ASSUME NEW d \in Syncs, SyncStep(d)
      PROVE  QuietAt(c)'
  <2>1. disturbed' = disturbed
    <3>1. CASE Before(d) \/ Beyond(d)
      BY <3>1 DEF Before, SendSourceList, Checksums, SendChecksums, CheckLock, ReadForDiff,
         AppendChecksum, HandleDiffResponse, Beyond, ComparePatch, HandleVerification,
         HandleDownstreamError, history, marks
    <3>2. CASE PatchDir(d) \/ PatchFile(d) \/ CompareVersions(d) \/ CheckUnsynced(d)
      BY <3>2 DEF PatchDir, PatchFile, CompareVersions, CheckUnsynced, history, marks
    <3>3. CASE ApplyPatch(d)
      BY <3>3 DEF ApplyPatch
    <3>4. CASE MakeConflictedCopy(d) \/ RemoveUnsynced(d) \/ UpdateModifiedTime(d) \/ ReadQueue(d)
               \/ StoreQueue(d) \/ GenerateChecksums(d)
      BY <3>4 DEF MakeConflictedCopy, RemoveUnsynced, UpdateModifiedTime, ReadQueue, StoreQueue,
         GenerateChecksums, history, marks
    <3>. QED BY <1>3, <3>1, <3>2, <3>3, <3>4, SyncSteps DEF Within
  <2>2. ~disturbed[c]
    BY <2>1
  \* The others have ended, so the step is this sync's.
  <2>3. d = c
    <3>1. phase[d] \notin Ended
      BY <1>3 DEF SyncStep, SendSourceList, Checksums, SendChecksums, CheckLock, ReadForDiff,
         AppendChecksum, HandleDiffResponse, PatchDir, PatchFile, CompareVersions, CheckUnsynced,
         MakeConflictedCopy, RemoveUnsynced, ApplyPatch, UpdateModifiedTime, ReadQueue, StoreQueue,
         GenerateChecksums, ComparePatch, HandleVerification, HandleDownstreamError, Ended
    <3>. QED BY <1>0, <2>2, <3>1 DEF QuietAt, Alone
  <2>4. SyncStep(c)
    BY <1>3, <2>3
  <2>5. Around(c)' /\ srv' = srv
    BY <1>0, <2>2, <2>4, QuietAround
  <2>6. CASE Before(c)
    BY <1>0, <2>2, <2>5, <2>6, QuietBefore
  <2>7. CASE Within(c)
    BY <1>0, <2>2, <2>5, <2>7, QuietWithin
  <2>8. CASE Beyond(c)
    BY <1>0, <2>2, <2>5, <2>8, QuietBeyond
  <2>. QED BY <2>4, <2>6, <2>7, <2>8, SyncSteps
<1>4. CASE EditMark \/ DescriptorWrite \/ OtherLocks
  BY <1>4 DEF EditMark, DescriptorWrite, Starts, OtherLocks, Everyone
<1>5. CASE EditQueue \/ EditWrite \/ EditFlag \/ OtherPatches \/ OtherReleases
  <2>1. disturbed' = disturbed /\ (edit.pc # "idle" \/ locked)
    BY <1>5 DEF EditQueue, EditWrite, EditFlag, OtherPatches, OtherReleases, history, marks
  <2>. QED BY <1>0, <2>1 DEF QuietAt
<1>6. CASE ForcedDequeue \/ UNCHANGED vars
  <2>1. UNCHANGED <<srv, locked, node, edit, phase, chain, cache, disturbed>>
    BY <1>6 DEF ForcedDequeue, vars, server, browser, history, marks
  <2>. QED BY <1>0, <2>1, QuietSame
<1>. QED
  BY <1>1, <1>2, <1>3, <1>4, <1>5, <1>6 DEF Next, EditStep, OtherStep

\* A sync that nobody disturbs completes, whatever the two versions and their
\* blocks are, unless the server has no such node, one is a file and the other
\* a directory, or the server's file starts with zeros.  The bound keeps the
\* sum of a block's bytes below the modulus of the weak checksum; the code's
\* blocks have five bytes.  (roll, jsonToBuffer, getPatchedData)
THEOREM QuietSyncCompletesHolds == Size <= 256 => (Spec => []QuietSyncCompletes)
<1>. SUFFICES ASSUME Size <= 256 PROVE Spec => []QuietSyncCompletes
  OBVIOUS
<1>1. Init => QuietInv
  BY QuietInit
<1>2. QuietInv /\ Shapes /\ [Next]_vars => QuietInv'
  BY QuietNext
<1>3. QuietInv => QuietSyncCompletes
  BY DEF QuietInv, QuietAt, QuietSyncCompletes, Excuse, Ended
<1>. QED BY <1>1, <1>2, <1>3, ShapesHold, PTL DEF Spec

=============================================================================
