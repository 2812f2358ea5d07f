------------------------------ MODULE Downstream ------------------------------
(***************************************************************************)
(* The server's session of one browser as it learns of the syncs of the    *)
(* user's other browsers and passes them on: the lists outOfDate and       *)
(* currentDownstream, the broadcasts that fill them, the messages that     *)
(* empty them, and the browser's own upstream syncs, which the server      *)
(* refuses while the path is out of date.                                  *)
(*                                                                         *)
(* A file is the number of the write that made it; 0 is a file that is not *)
(* there.  PathSync has the steps of one path in detail; here a patch      *)
(* leaves the version that the diffs were made of.  Both sides handle      *)
(* their messages by asynchronous calls, and so answer them in any order:  *)
(* the messages under way in a direction are a bag.                        *)
(***************************************************************************)
EXTENDS Naturals, Sequences, FiniteSets, Bags, SequencesExt

CONSTANTS Paths, None

ASSUME PathsAssumption == None \notin Paths /\ IsFiniteSet(Paths)

VARIABLES
  \* the server's file system and locks
  srv, lock, writes,
  other,     \* the upstream sync of another browser: pc, entry
  \* this browser
  have,      \* its files
  edited,       \* the files the user has changed since
  changed,      \* ... and that may be in changesDuringDownstream
  outside,      \* the paths outside of its sync root
  \* the session
  session,   \* off, reading, read, on
  found,     \* what getListOfSyncs() has read
  outOfDate,
  currentDownstream,  \* how many entries of each path: nothing else is looked up in it
  lists,     \* the source lists being generated
  toBrowser, toServer,
  own,       \* the upstream sync of this browser: pc, path, knew
  left,      \* bounds
  \* history
  told,      \* the paths whose last update the session was told of
  known,     \* the versions of each path that the browser has had, or compared with its own
  late,      \* a downstream step left another version than the server's by then
  unheard,   \* an update was never broadcast
  away,      \* an update was broadcast, or waited, while the browser was away
  replaced,  \* the full listing replaced an update broadcast meanwhile
  struck,    \* an entry was removed in the place of another, or of an older one
  held       \* the paths of a downstream sync that stopped with no retry

files   == <<srv, lock, writes>>
browser == <<have, edited, changed, outside>>
lists_  == <<outOfDate, currentDownstream>>
sess    == <<session, found, lists_, lists, told>>
wire    == <<toBrowser, toServer>>
lost    == <<late, unheard, replaced, struck>>
history == <<known, lost, away, held>>
vars    == <<files, other, browser, sess, wire, own, left, history>>

Types == {"create", "rename", "delete"}
\* `no` tells the updates of a path apart, which the code does not do: it is the
\* number of the update, and 0 in what comes from a listing.
Entry(p, type, old) == [path |-> p, type |-> type, old |-> old, no |-> 0]
Touched(e) == {e.path, e.old} \ {None}
Idle == [pc |-> "idle", entry |-> None]
Calm == [pc |-> "idle", path |-> None, knew |-> FALSE]

NoneCurrent == [p \in Paths |-> 0]

\* The paths in `there` are on the server.
InitWith(bounds, there, out) ==
  /\ srv = [p \in Paths |-> IF p \in there THEN 1 ELSE 0]
  /\ lock = [p \in Paths |-> None] /\ writes = 1
  /\ other = Idle
  /\ have = [p \in Paths |-> 0] /\ edited = {} /\ changed = {} /\ outside = out
  /\ session = "off" /\ found = {}
  /\ outOfDate = <<>> /\ currentDownstream = NoneCurrent
  /\ lists = EmptyBag /\ toBrowser = EmptyBag /\ toServer = EmptyBag
  /\ own = Calm
  /\ left = bounds
  /\ told = {} /\ known = [p \in Paths |-> {}]
  /\ late = {} /\ unheard = {} /\ replaced = {} /\ struck = {}
  /\ away = {} /\ held = {}

-----------------------------------------------------------------------------
(* Helpers *)

Spend(what) == left[what] > 0 /\ left' = [left EXCEPT ![what] = @ - 1]

One(m) == SetToBag({m})
Message(kind, e, version) == [kind |-> kind, entry |-> e, version |-> version]

\* findPathIndexInArray(): 0 when there is none.
IndexOf(list, p) == SelectInSeq(list, LAMBDA e : e.path = p)
Without(list, i) == IF i = 0 THEN list ELSE RemoveAt(list, i)
Listed == UNION {Touched(outOfDate[i]) : i \in DOMAIN outOfDate}
PathsIn(list) == {list[i].path : i \in DOMAIN list}

\* delaySync(): the sync is not current any more, and stays out of date.
delaySync(p) ==
  currentDownstream' = [currentDownstream EXCEPT ![p] = IF @ = 0 THEN 0 ELSE @ - 1]

\* The paths of the entry that is removed, if it is not the one meant.
Mistaken(i, e) == IF i = 0 \/ outOfDate[i] = e THEN {} ELSE Touched(outOfDate[i])

\* endDownstream(): the first entry of the path goes, in each list.
endDownstream(p) ==
  /\ delaySync(p)
  /\ outOfDate' = Without(outOfDate, IndexOf(outOfDate, p))

\* What the browser has changed is as on the server, or too late.
Settle(touched) ==
  LET done == {p \in touched : have'[p] = srv[p]} IN
  /\ late' = (late \cup touched) \ done /\ unheard' = unheard \ done
  /\ replaced' = replaced \ done /\ struck' = struck \ done

\* sendSourceList() of several entries: renames and deletes go out at once,
\* source lists take their time.
AtOnce(e) == e.type \in {"rename", "delete"}
Times(list, e) == Cardinality({i \in DOMAIN list : list[i] = e})
SendSourceLists(entries, current) ==
  LET now == {e \in Range(entries) : AtOnce(e)} IN
  /\ currentDownstream' =
       [p \in Paths |-> current[p] + Cardinality({i \in DOMAIN entries :
                                        AtOnce(entries[i]) /\ entries[i].path = p})]
  /\ toBrowser' = toBrowser (+) [m \in {Message(e.type, e, 0) : e \in now} |->
                                   Times(entries, m.entry)]
  /\ lists' = lists (+) [e \in Range(entries) \ now |-> Times(entries, e)]

-----------------------------------------------------------------------------
(* The other browsers *)

\* What they may ask for.  A rename stays in its directory, and so inside of
\* the root or outside.
Possible ==
  {Entry(p, "create", None) : p \in Paths}
  \cup {Entry(p, "delete", None) : p \in {q \in Paths : srv[q] # 0}}
  \cup {Entry(q, "rename", p) : p \in {r \in Paths : srv[r] # 0}, q \in Paths}

\* One of them gets the lock of a path ...
OtherLocks ==
  /\ other = Idle /\ Spend("others")
  /\ \E e \in Possible : LET p == IF e.type = "rename" THEN e.old ELSE e.path IN
       /\ e.type = "rename" => e.old # e.path /\ (e.old \in outside <=> e.path \in outside)
       /\ lock[p] = None
       /\ lock' = [lock EXCEPT ![p] = "other"]
       /\ other' = [pc |-> "locked", entry |-> e]
  /\ UNCHANGED <<srv, writes, browser, sess, wire, own, history>>

Unlock == lock' = [p \in Paths |-> IF lock[p] = "other" THEN None ELSE lock[p]]

\* ... patches, renames or deletes it ...
OtherPatches ==
  /\ other.pc = "locked"
  /\ LET e == other.entry IN
     /\ e.type = "rename" => srv[e.old] # 0 /\ srv[e.path] = 0
     /\ writes' = writes + 1
     /\ told' = told \ Touched(e)
     /\ own' = IF own.path \in Touched(e) THEN [own EXCEPT !.knew = FALSE] ELSE own
     /\ srv' = CASE e.type = "create" -> [srv EXCEPT ![e.path] = writes']
                 [] e.type = "delete" -> [srv EXCEPT ![e.path] = 0]
                 [] e.type = "rename" -> [srv EXCEPT ![e.path] = srv[e.old], ![e.old] = 0]
  /\ other' = [pc |-> "patched", entry |-> [other.entry EXCEPT !.no = writes']]
  /\ UNCHANGED <<lock, browser, session, found, lists_, lists, wire, left, history>>

\* ... or fails to, which nobody is told of.
OtherFails ==
  /\ other.pc = "locked" /\ Spend("faults")
  /\ Unlock /\ other' = Idle
  /\ UNCHANGED <<srv, writes, browser, sess, wire, own, history>>

\* end(): the lock is released before the update is broadcast.
OtherReleases ==
  /\ other.pc = "patched" /\ Unlock
  /\ other' = [other EXCEPT !.pc = "released"]
  /\ UNCHANGED <<srv, writes, browser, sess, wire, own, left, history>>

\* Mutant: only the new update is sent.
OtherPublishes_Once ==
  /\ other.pc = "released" /\ other' = Idle
  /\ IF session = "off"
     THEN /\ away' = away \cup Touched(other.entry)
          /\ UNCHANGED <<sess, toBrowser, held>>
     ELSE /\ outOfDate' = Append(outOfDate, other.entry)
          /\ told' = told \cup {other.entry.path}
          /\ SendSourceLists(<<other.entry>>, currentDownstream)
          /\ held' = {}
          /\ UNCHANGED <<session, found, away>>
  /\ UNCHANGED <<files, browser, toServer, own, left, known, lost>>

\* broadcastUpdate() and handleBroadcastMessage(): the update is listed, and
\* everything that is out of date is sent again.
OtherPublishes ==
  /\ other.pc = "released" /\ other' = Idle
  /\ IF session = "off"
     THEN /\ away' = away \cup Touched(other.entry)
          /\ UNCHANGED <<sess, toBrowser, held>>
     ELSE /\ outOfDate' = Append(outOfDate, other.entry)
          /\ told' = told \cup {other.entry.path}
          /\ SendSourceLists(outOfDate', currentDownstream)
          /\ held' = {}
          /\ UNCHANGED <<session, found, away>>
  /\ UNCHANGED <<files, browser, toServer, own, left, known, lost>>

\* The process ends between the two.
OtherDies ==
  /\ other.pc = "released" /\ Spend("faults") /\ other' = Idle
  /\ unheard' = unheard \cup Touched(other.entry)
  /\ UNCHANGED <<files, browser, sess, wire, own, known, late, replaced, struck, away, held>>

-----------------------------------------------------------------------------
(* The session begins: handleFullDownstream() *)

Connect ==
  /\ session = "off" /\ session' = "reading"
  /\ UNCHANGED <<files, other, browser, found, lists_, lists, told, wire, own, left, history>>

\* The tree is read ...
GetListOfSyncs ==
  /\ session = "reading" /\ session' = "read"
  /\ found' = {p \in Paths : srv[p] # 0}
  /\ UNCHANGED <<files, other, browser, lists_, lists, told, wire, own, left, history>>

\* Mutant: the listing does not say what is to be done with a path.
HandleFullDownstream_Untyped ==
  /\ session = "read" /\ session' = "on"
  /\ IF found = {} THEN UNCHANGED <<lists_, lists, toBrowser, replaced>>
     ELSE /\ \E order \in [1..Cardinality(found) -> found] :
               /\ Range(order) = found
               /\ outOfDate' = [i \in DOMAIN order |-> Entry(order[i], "forced", None)]
          /\ SendSourceLists(outOfDate', NoneCurrent)
          /\ replaced' = replaced \cup Listed
  /\ told' = told \cup found /\ found' = {}
  /\ UNCHANGED <<files, other, browser, toServer, own, left, known, late, unheard, struck, away,
                 held>>

\* ... and replaces the lists, whatever has been added to them meanwhile.
HandleFullDownstream ==
  /\ session = "read" /\ session' = "on"
  /\ IF found = {} THEN UNCHANGED <<lists_, lists, toBrowser, replaced>>
     ELSE /\ \E order \in [1..Cardinality(found) -> found] :
               /\ Range(order) = found
               /\ outOfDate' = [i \in DOMAIN order |-> Entry(order[i], "create", None)]
          /\ SendSourceLists(outOfDate', NoneCurrent)
          /\ replaced' = replaced \cup Listed
  /\ told' = told \cup found /\ found' = {}
  /\ UNCHANGED <<files, other, browser, toServer, own, left, known, late, unheard, struck, away,
                 held>>

\* The connection is lost, and the session with it.
Disconnect ==
  /\ session # "off" /\ Spend("cuts")
  /\ session' = "off" /\ found' = {} /\ outOfDate' = <<>> /\ currentDownstream' = NoneCurrent
  /\ lists' = EmptyBag /\ toBrowser' = EmptyBag /\ toServer' = EmptyBag
  /\ lock' = [p \in Paths |-> IF lock[p] = "own" THEN None ELSE lock[p]]
  /\ own' = Calm
  /\ away' = away \cup Listed
  /\ told' = {} /\ held' = {}
  /\ UNCHANGED <<srv, writes, other, browser, known, lost>>

-----------------------------------------------------------------------------
(* Downstream: the server *)

\* A source list is ready, and its sync current; or the path has gone.
SendSourceList(e) ==
  /\ BagIn(e, lists) /\ lists' = lists (-) One(e)
  /\ IF srv[e.path] = 0
     THEN UNCHANGED <<currentDownstream, toBrowser>> /\ held' = held \cup {e.path}
     ELSE /\ currentDownstream' = [currentDownstream EXCEPT ![e.path] = @ + 1]
          /\ toBrowser' = toBrowser (+) One(Message("checksums", e, 0))
          /\ UNCHANGED held
  /\ UNCHANGED <<files, other, browser, session, found, outOfDate, told, toServer, own, left,
                 known, lost, away>>

Got(kind, m) ==
  /\ BagIn(m, toServer) /\ m.kind = kind /\ toServer' = toServer (-) One(m)

ServerOnly == UNCHANGED <<files, other, browser, session, found, lists, told, own, left,
                          known, late, unheard, replaced, away>>

\* handleDiffRequest(): not while an upstream sync of the path is under way.
HandleDiffRequest(m) ==
  /\ Got("diffs", m)
  /\ LET e == m.entry IN
     IF lock[e.path] # None \/ srv[e.path] = 0
     THEN delaySync(e.path) /\ held' = held \cup {e.path} /\ UNCHANGED toBrowser
     ELSE /\ toBrowser' = toBrowser (+) One(Message("diffs", e, srv[e.path]))
          /\ UNCHANGED <<currentDownstream, held>>
  /\ UNCHANGED <<outOfDate, struck>> /\ ServerOnly

\* handlePatchResponse(): verified against what the server has by now; a file
\* that needs an upstream sync has no checksum, and is not verified.
HandlePatchResponse(m) ==
  /\ Got("patch", m)
  /\ LET p == m.entry.path IN
     IF m.version \in {None, srv[p]}
     THEN /\ endDownstream(p) /\ UNCHANGED held
          /\ struck' = struck \cup Mistaken(IndexOf(outOfDate, p), m.entry)
     ELSE held' = held \cup {p} /\ UNCHANGED <<lists_, struck>>
  /\ UNCHANGED toBrowser /\ ServerOnly

\* Mutant: a sync that is delayed is not out of date any more.
HandleDelayRequest_Ends(m) ==
  /\ Got("delay", m)
  /\ endDownstream(m.entry.path) /\ held' = held \cup {m.entry.path}
  /\ UNCHANGED <<toBrowser, struck>> /\ ServerOnly

HandleDelayRequest(m) ==
  /\ Got("delay", m)
  /\ delaySync(m.entry.path) /\ held' = held \cup {m.entry.path}
  /\ UNCHANGED <<outOfDate, toBrowser, struck>> /\ ServerOnly

\* handleRootResponse(): splice(-1, 1) removes the last entry.
HandleRootResponse(m) ==
  /\ Got("root", m)
  /\ LET p == m.entry.path
         i == IndexOf(outOfDate, p)
         j == IF i = 0 THEN Len(outOfDate) ELSE i
     IN IF currentDownstream[p] = 0 THEN UNCHANGED <<lists_, struck>>
        ELSE /\ delaySync(p)
             /\ outOfDate' = Without(outOfDate, j)
             /\ struck' = struck \cup Mistaken(j, m.entry)
  /\ UNCHANGED <<toBrowser, held>> /\ ServerOnly

-----------------------------------------------------------------------------
(* Downstream: the browser *)

Received(m) == BagIn(m, toBrowser) /\ toBrowser' = toBrowser (-) One(m)
Reply(kind, e, version) == toServer' = toServer (+) One(Message(kind, e, version))
BrowserOnly == UNCHANGED <<files, other, edited, outside, sess, own, known, lost, away>>

\* A path outside of the root is refused.
IgnoreOutside(m) ==
  /\ Received(m) /\ m.entry.path \in outside /\ m.kind # "diffs" /\ m.entry.type # "forced"
  /\ Reply("root", m.entry, 0)
  /\ UNCHANGED <<have, changed, held, left>> /\ BrowserOnly

\* A request without a type, which the server sends to force a downstream sync,
\* is not understood.
IgnoreForced(m) ==
  /\ Received(m) /\ m.kind = "checksums" /\ m.entry.type = "forced"
  /\ UNCHANGED <<have, changed, held, left, toServer>> /\ BrowserOnly

\* handleChecksumRequest()
HandleChecksumRequest(m) ==
  /\ Received(m) /\ m.kind = "checksums"
  /\ m.entry.type # "forced" /\ m.entry.path \notin outside
  /\ Reply("diffs", m.entry, 0)
  /\ UNCHANGED <<have, changed, held, left>> /\ BrowserOnly

\* handleDiffResponse(): a path that was changed since it is tracked is asked
\* for once more, and the change forgotten if the path is still tracked.
ResendChecksums(m) ==
  /\ Received(m) /\ m.kind = "diffs" /\ m.entry.path \in changed
  /\ changed' \in {changed, changed \ {m.entry.path}}
  /\ Reply("diffs", m.entry, 0)
  /\ UNCHANGED <<have, held, left>> /\ BrowserOnly

\* Diffs that cannot be deserialized throw, and nobody is told.
BrowserThrows(m) ==
  /\ Received(m) /\ m.kind = "diffs" /\ Spend("faults")
  /\ held' = held \cup {m.entry.path}
  /\ UNCHANGED <<have, changed, toServer>> /\ BrowserOnly

\* A file that the user has edited is copied before the patch, or kept, when it
\* is the newer one.
HandleDiffResponse(m) ==
  /\ Received(m) /\ m.kind = "diffs"
  /\ LET p == m.entry.path IN
     /\ known' = [known EXCEPT ![p] = @ \cup {m.version}]
     /\ changed' = changed \ {p}
     /\ \/ /\ have' = [have EXCEPT ![p] = m.version] /\ edited' = edited \ {p}
           /\ Settle({p})
           /\ Reply("patch", m.entry, m.version)
        \/ /\ p \in edited
           /\ Reply("patch", m.entry, None)
           /\ UNCHANGED <<have, edited, lost>>
  /\ UNCHANGED <<files, other, outside, sess, own, left, away, held>>

\* handleDeleteRequest() and handleRenameRequest(): a path that is not there
\* makes the browser ask for a delay.
HandleDeleteRequest(m) ==
  /\ Received(m) /\ m.kind = "delete" /\ m.entry.path \notin outside
  /\ LET p == m.entry.path IN
     IF have[p] = 0 THEN Reply("delay", m.entry, 0) /\ UNCHANGED <<have, edited, lost>>
     ELSE /\ have' = [have EXCEPT ![p] = 0] /\ edited' = edited \ {p}
          /\ Settle({p})
          /\ Reply("patch", m.entry, 0)
  /\ UNCHANGED <<files, other, changed, outside, sess, own, left, known, away, held>>

HandleRenameRequest(m) ==
  /\ Received(m) /\ m.kind = "rename" /\ m.entry.path \notin outside
  /\ LET p == m.entry.old  q == m.entry.path IN
     IF have[p] = 0 \/ have[q] # 0
     THEN Reply("delay", m.entry, 0) /\ UNCHANGED <<have, edited, known, lost>>
     ELSE /\ have' = [have EXCEPT ![q] = have[p], ![p] = 0]
          /\ edited' = IF p \in edited THEN (edited \ {p}) \cup {q} ELSE edited
          /\ known' = [known EXCEPT ![q] = @ \cup known[p]]
          /\ Settle({p, q})
          /\ Reply("patch", m.entry, IF p \in edited THEN None ELSE have[p])
  /\ UNCHANGED <<files, other, changed, outside, sess, own, left, away, held>>

\* Any step of the browser's may fail.
BrowserFails(m) ==
  /\ Received(m) /\ m.entry.path \notin outside /\ m.entry.type # "forced"
  /\ Spend("faults")
  /\ Reply("delay", m.entry, 0)
  /\ UNCHANGED <<have, changed, held>> /\ BrowserOnly

-----------------------------------------------------------------------------
(* Upstream syncs of this browser *)

Edit(p) ==
  /\ p \notin outside /\ p \notin edited /\ own = Calm
  /\ Spend("edits")
  /\ writes' = writes + 1
  /\ have' = [have EXCEPT ![p] = writes'] /\ edited' = edited \cup {p}
  /\ changed' = changed \cup {p}
  /\ UNCHANGED <<srv, lock, other, outside, sess, wire, own, history>>

Ask(p) ==
  /\ session # "off" /\ own = Calm /\ p \in edited /\ Spend("asks")
  /\ own' = [own EXCEPT !.pc = "asked", !.path = p]
  /\ toServer' = toServer (+) One(Message("sync", Entry(p, "create", None), 0))
  /\ UNCHANGED <<files, other, browser, sess, toBrowser, history>>

\* Mutant: an upload is accepted whether the path is out of date or not.
HandleSyncInitRequest_Unchecked(m) ==
  /\ Got("sync", m)
  /\ own' = [pc |-> "locking", path |-> m.entry.path, knew |-> m.entry.path \in told]
  /\ UNCHANGED <<files, other, browser, session, found, lists_, lists, told, toBrowser, left, history>>

\* handleSyncInitRequest(): a path that is out of date is sent down instead.
HandleSyncInitRequest(m) ==
  /\ Got("sync", m)
  /\ LET p == m.entry.path IN
     IF p \in PathsIn(outOfDate)
     THEN /\ own' = Calm
          /\ lists' = lists (+) One(Entry(p, "forced", None))
     ELSE /\ own' = [pc |-> "locking", path |-> p, knew |-> p \in told]
          /\ UNCHANGED lists
  /\ UNCHANGED <<files, other, browser, session, found, lists_, told, toBrowser, left, history>>

\* The lock is granted when nobody else has it; nothing is checked again.
OwnLocks ==
  /\ own.pc = "locking" /\ lock[own.path] = None
  /\ lock' = [lock EXCEPT ![own.path] = "own"]
  /\ own' = [own EXCEPT !.pc = "locked"]
  /\ UNCHANGED <<srv, writes, other, browser, sess, wire, left, history>>

\* Whoever has it denies it, and the browser may ask again.
OwnDenied ==
  /\ own.pc = "locking" /\ lock[own.path] # None
  /\ own' = Calm
  /\ UNCHANGED <<files, other, browser, sess, wire, left, history>>

\* Asking for the lock fails, or the sync does and gives it back.
OwnFails ==
  /\ own.pc \in {"locking", "locked"} /\ Spend("faults")
  /\ lock' = [p \in Paths |-> IF lock[p] = "own" THEN None ELSE lock[p]]
  /\ own' = Calm
  /\ UNCHANGED <<srv, writes, other, browser, sess, wire, history>>

\* The browser's version becomes the server's, unless it is gone by now.
OwnPatches ==
  /\ own.pc = "locked"
  /\ LET p == own.path IN
     /\ IF have[p] = 0 THEN UNCHANGED <<srv, known>>
        ELSE /\ srv' = [srv EXCEPT ![p] = have[p]]
             /\ known' = [known EXCEPT ![p] = @ \cup {have[p]}]
     /\ told' = told \ {p}
     /\ edited' = edited \ {p}
     /\ lock' = [lock EXCEPT ![p] = None]
  /\ own' = Calm
  /\ UNCHANGED <<writes, other, have, changed, outside, session, found, lists_, lists, wire, left, lost,
                 away, held>>

-----------------------------------------------------------------------------
OtherStep == OtherPatches \/ OtherReleases \/ OtherPublishes
SessionStep == \/ GetListOfSyncs \/ HandleFullDownstream
               \/ \E e \in BagToSet(lists) : SendSourceList(e)
ServerStep == \E m \in BagToSet(toServer) :
  \/ HandleDiffRequest(m) \/ HandlePatchResponse(m) \/ HandleDelayRequest(m)
  \/ HandleRootResponse(m) \/ HandleSyncInitRequest(m)
BrowserStep == \E m \in BagToSet(toBrowser) :
  \/ IgnoreOutside(m) \/ IgnoreForced(m) \/ HandleChecksumRequest(m) \/ ResendChecksums(m)
  \/ HandleDiffResponse(m) \/ HandleDeleteRequest(m) \/ HandleRenameRequest(m)
OwnStep == OwnLocks \/ OwnDenied \/ OwnPatches \/ \E p \in Paths : Ask(p)
Unforced == \/ OtherLocks \/ OtherFails \/ OtherDies \/ Connect \/ Disconnect
            \/ OwnFails \/ \E p \in Paths : Edit(p)
            \/ \E m \in BagToSet(toBrowser) : BrowserFails(m) \/ BrowserThrows(m)

Next == OtherStep \/ SessionStep \/ ServerStep \/ BrowserStep \/ OwnStep \/ Unforced

Budgets == {"others", "faults", "edits", "asks", "cuts"}
Init == \E bounds \in [Budgets -> Nat], there \in SUBSET Paths, out \in SUBSET Paths :
          InitWith(bounds, there, out)
Spec == Init /\ [][Next]_vars

-----------------------------------------------------------------------------
(* Properties *)

Entries == [path : Paths, type : Types, old : Paths \cup {None}, no : Nat]

TypeOK ==
  /\ {srv, have} \subseteq [Paths -> 0..writes]
  /\ known \in [Paths -> SUBSET (0..writes)]
  /\ lock \in [Paths -> {None, "own", "other"}]
  /\ {edited, changed, outside, told} \subseteq SUBSET Paths
  /\ session \in {"off", "reading", "read", "on"}
  /\ outOfDate \in Seq(Entries)
  /\ currentDownstream \in [Paths -> Nat]
  /\ own \in [pc : {"idle", "asked", "locking", "locked"}, path : Paths \cup {None}, knew : BOOLEAN]

\* Nothing is under way.
Quiet == /\ session = "on" /\ other = Idle /\ own = Calm
         /\ lists = EmptyBag /\ toBrowser = EmptyBag /\ toServer = EmptyBag

\* When nothing is under way, a file that differs from the server's is still
\* listed as out of date, unless the session was never told of the update, or
\* forgot it (in the listing at its start, or when its entry was removed in the
\* place of another), or a late step undid it: diffs, a delete or a rename
\* that were sent before the server's file changed again.
Delivered ==
  Quiet => \A p \in Paths \ outside :
    \/ have[p] = srv[p] \/ p \in edited \/ p \in Listed
    \/ p \in late \cup unheard \cup replaced \cup struck
    \/ p \in away /\ srv[p] = 0

\* When nothing is under way, a path that is still listed as out of date was
\* locked, failed, threw, or was not what the server verified, after the last update
\* was broadcast: nothing else is left lying, and every broadcast tries again.
LeftOnlyIfHeld ==
  Quiet => PathsIn(outOfDate) \subseteq held

\* An upload never replaces a version that the session had been told of when it
\* accepted the upload, and that the browser neither had nor compared with its
\* own, unless that update was forgotten (see Delivered).  It may replace
\* one that is broadcast later: the lock is asked for, and the update of the client
\* before is broadcast, after the check.
NoKnownOverwrite ==
  own.pc \in {"locking", "locked"} /\ own.knew =>
    \/ srv[own.path] \in {0, have[own.path]} \cup known[own.path]
    \/ own.path \in late \cup replaced \cup struck

=============================================================================
