-------------------------- MODULE DownstreamProofs --------------------------
(***************************************************************************)
(* Theorems about Downstream, for every finite set of paths, every sync    *)
(* root and every budget of uploads, faults, edits and disconnections.     *)
(***************************************************************************)
EXTENDS Downstream, ListProofs, FiniteSetTheorems, TLAPS

-----------------------------------------------------------------------------
(* What the entries and the messages can be *)

\* A rename, and nothing else, has an old path, on the same side of the root.
Legal == {e \in Entries : /\ e.type = "rename" <=> e.old # None
                          /\ e.type = "rename" => (e.old \in outside <=> e.path \in outside)}
Forced == {Entry(p, "forced", None) : p \in Paths}
Asks == {Entry(p, "create", None) : p \in Paths \ outside}

Requests ==
  {m \in [kind : {"checksums", "diffs", "rename", "delete"}, entry : Legal, version : 0..writes] :
     /\ m.kind \in {"checksums", "diffs"} => m.entry.type = "create"
     /\ m.kind \in {"rename", "delete"} => m.entry.type = m.kind
     /\ m.kind = "diffs" => m.entry.path \notin outside}
Orders == [kind : {"checksums"}, entry : Forced, version : {0}]
Answers ==
  {m \in [kind : {"diffs", "patch", "delay", "root"}, entry : Legal,
          version : (0..writes) \cup {None}] :
     /\ m.kind = "root" <=> m.entry.path \in outside
     /\ m.kind = "diffs" => m.entry.type = "create"}
Wishes == [kind : {"sync"}, entry : Asks, version : {0}]

FileTypes ==
  /\ writes \in Nat
  /\ srv \in [Paths -> 0..writes] /\ have \in [Paths -> 0..writes]
  /\ known \in [Paths -> SUBSET (0..writes)]
  /\ lock \in [Paths -> {None, "own", "other"}]
  /\ edited \subseteq Paths \ outside /\ outside \subseteq Paths
SessionTypes ==
  /\ session \in {"off", "reading", "read", "on"}
  /\ found \subseteq Paths /\ told \subseteq Paths
  /\ outOfDate \in Seq(Legal)
  /\ currentDownstream \in [Paths -> Nat]
WireTypes ==
  /\ DOMAIN lists \subseteq {e \in Legal : e.type = "create"} \cup Forced
  /\ DOMAIN toBrowser \subseteq Requests \cup Orders
  /\ DOMAIN toServer \subseteq Answers \cup Wishes
OtherTypes ==
  \/ other = Idle
  \/ other \in [pc : {"locked", "patched", "released"}, entry : Legal]
OwnTypes ==
  /\ own \in [pc : {"idle", "asked", "locking", "locked"}, path : Paths \cup {None}, knew : BOOLEAN]
  /\ own.pc # "idle" => own.path \in Paths \ outside
TypeInv == FileTypes /\ SessionTypes /\ WireTypes /\ OtherTypes /\ OwnTypes

LEMMA LegalFacts ==
  ASSUME NEW e \in Legal
  PROVE  /\ e.path \in Paths /\ e.type \in Types /\ e.type # "forced" /\ e.no \in Nat
         /\ e.old \in Paths \cup {None} /\ e.path # None
         /\ e.type = "rename" <=> e.old # None
         /\ e.type # "rename" => Touched(e) = {e.path}
         /\ e.type = "rename" => Touched(e) = {e.path, e.old} /\ e.old \in Paths
         /\ e.path \in Touched(e) /\ Touched(e) \subseteq Paths
         /\ \A p \in Touched(e) : p \in outside <=> e.path \in outside
BY PathsAssumption DEF Legal, Entries, Types, Touched

LEMMA ForcedFacts ==
  /\ \A e \in Forced : e.type = "forced" /\ e.path \in Paths
  /\ \A e \in Legal : e \notin Forced
  /\ \A p \in Paths : Entry(p, "forced", None) \in Forced
BY LegalFacts DEF Forced, Entry

LEMMA RequestFacts ==
  ASSUME NEW m \in Requests \cup Orders
  PROVE  /\ m.entry.path \in Paths /\ m.entry \in Legal \cup Forced
         /\ m.kind \in {"checksums", "diffs", "rename", "delete"}
         /\ m.entry.type = "forced" <=> m \in Orders
         /\ m \in Orders <=> m.entry \in Forced
         /\ m \in Requests <=> m.entry \in Legal
         /\ m.kind # "checksums" => m \in Requests
         /\ m.kind = "checksums" /\ m \in Requests => m.entry.type = "create"
         /\ m.kind = "diffs" => m.entry.type = "create" /\ m.entry.path \notin outside
         /\ m.kind \in {"rename", "delete"} => m.entry.type = m.kind
         /\ m.version \in 0..writes \/ m.version = 0
BY LegalFacts, ForcedFacts DEF Requests, Orders

LEMMA AnswerFacts ==
  ASSUME NEW m \in Answers \cup Wishes
  PROVE  /\ m.kind \in {"diffs", "patch", "delay", "root", "sync"}
         /\ m.kind = "sync" <=> m \in Wishes
         /\ m.kind = "sync" => m.entry \in Asks
         /\ m.kind # "sync" => m \in Answers /\ m.entry \in Legal
         /\ m.entry.path \in Paths
         /\ m.kind = "root" <=> m.entry.path \in outside
         /\ m.kind = "diffs" => m.entry.type = "create"
BY LegalFacts DEF Answers, Wishes, Asks, Entry

LEMMA NewRequest ==
  ASSUME NEW e \in Legal, NEW v \in 0..writes, writes \in Nat
  PROVE  /\ e.type = "create" => Message("checksums", e, 0) \in Requests
         /\ e.type = "create" /\ e.path \notin outside => Message("diffs", e, v) \in Requests
         /\ AtOnce(e) => Message(e.type, e, 0) \in Requests
<1>1. 0 \in 0..writes
  OBVIOUS
<1>. QED BY <1>1 DEF Message, Requests, AtOnce

LEMMA NewAnswer ==
  ASSUME NEW e \in Legal, NEW v \in (0..writes) \cup {None}, writes \in Nat
  PROVE  /\ e.path \in outside => Message("root", e, 0) \in Answers
         /\ e.path \notin outside => /\ Message("delay", e, 0) \in Answers
                                     /\ Message("patch", e, v) \in Answers
         /\ e.path \notin outside /\ e.type = "create" => Message("diffs", e, 0) \in Answers
<1>1. 0 \in 0..writes
  OBVIOUS
<1>. QED BY <1>1 DEF Message, Answers

\* The bags, as far as their elements go.
LEMMA BagAdd ==
  ASSUME NEW B, NEW C
  PROVE  DOMAIN (B (+) C) = DOMAIN B \cup DOMAIN C
BY DEF (+)

LEMMA BagAddOne ==
  ASSUME NEW B, NEW m
  PROVE  DOMAIN (B (+) One(m)) = DOMAIN B \cup {m}
BY BagAdd DEF One, SetToBag

LEMMA BagTake ==
  ASSUME NEW B, NEW C
  PROVE  DOMAIN (B (-) C) \subseteq DOMAIN B
BY DEF (-)

LEMMA BagNone == DOMAIN EmptyBag = {}
BY DEF EmptyBag, SetToBag

\* The lists, as the code searches and splices them.
LEMMA IndexFinds ==
  ASSUME NEW q \in Seq(Legal), NEW p
  PROVE  /\ IndexOf(q, p) = 0 => \A i \in DOMAIN q : q[i].path # p
         /\ IndexOf(q, p) # 0 => q[IndexOf(q, p)].path = p
         /\ IndexOf(q, p) \in 0..Len(q)
<1>. DEFINE I == {i \in 1..Len(q) : q[i].path = p}
<1>1. IndexOf(q, p) = IF I # {} THEN Min(I) ELSE 0
  BY DEF IndexOf, SelectInSeq
<1>2. I \subseteq Nat /\ \A i \in I : i # 0 /\ i \in 1..Len(q) /\ q[i].path = p
  OBVIOUS
<1>3. DOMAIN q = 1..Len(q) /\ \A i \in 1..Len(q) : q[i].path = p => i \in I
  OBVIOUS
<1>. HIDE DEF I
<1>4. I # {} => Min(I) \in I
  BY <1>2, LeastIsMin
<1>5. Len(q) \in Nat /\ \A i \in 1..Len(q) : i \in 0..Len(q) /\ 0 \in 0..Len(q)
  OBVIOUS
<1>6. 0 \in 0..Len(q)
  BY <1>5
<1>. QED BY <1>1, <1>2, <1>3, <1>4, <1>5, <1>6

\* Where an entry is once the one at i has gone.
Moved(i, j) == IF i # 0 /\ j >= i THEN j + 1 ELSE j

LEMMA WithoutFacts ==
  ASSUME NEW q \in Seq(Legal), NEW i \in 0..Len(q)
  PROVE  /\ Without(q, i) \in Seq(Legal)
         /\ \A j \in DOMAIN Without(q, i) :
              /\ Moved(i, j) \in DOMAIN q /\ Moved(i, j) # i
              /\ Without(q, i)[j] = q[Moved(i, j)]
         /\ \A j, k \in DOMAIN Without(q, i) : Moved(i, j) = Moved(i, k) => j = k
         /\ \A k \in DOMAIN q : k # i =>
              \E j \in DOMAIN Without(q, i) : Without(q, i)[j] = q[k]
<1>1. Len(q) \in Nat /\ DOMAIN q = 1..Len(q) /\ i \in Int /\ i >= 0 /\ i <= Len(q)
  OBVIOUS
<1>2. CASE i = 0
  <2>1. Without(q, i) = q /\ \A j : Moved(i, j) = j
    BY <1>2 DEF Without, Moved
  <2>2. \A j \in DOMAIN q : j # i
    BY <1>1, <1>2
  <2>. QED BY <2>1, <2>2
<1>3. CASE i # 0
  <2>. DEFINE r == Without(q, i)
  <2>1. i \in 1..Len(q)
    BY <1>1, <1>3
  <2>2. r = RemoveAt(q, i)
    BY <1>3 DEF Without
  <2>3. /\ r \in Seq(Legal) /\ DOMAIN r = 1..(Len(q) - 1)
        /\ \A j \in 1..(Len(q) - 1) : r[j] = IF j < i THEN q[j] ELSE q[j + 1]
    BY <2>1, <2>2, RemoveAtFacts
  <2>. HIDE DEF r
  <2>4. \A j \in 1..(Len(q) - 1) :
          /\ j \in Int
          /\ j < i => Moved(i, j) = j /\ j \in 1..Len(q) /\ j # i
          /\ ~(j < i) => Moved(i, j) = j + 1 /\ j + 1 \in 1..Len(q) /\ j + 1 # i
    BY <1>1, <1>3 DEF Moved
  <2>5. \A j \in DOMAIN r : Moved(i, j) \in DOMAIN q /\ Moved(i, j) # i /\ r[j] = q[Moved(i, j)]
    BY <1>1, <2>3, <2>4
  <2>6. \A j, k \in DOMAIN r : Moved(i, j) = Moved(i, k) => j = k
    <3>1. \A j, k \in 1..(Len(q) - 1) : Moved(i, j) = Moved(i, k) => j = k
      BY <1>1, <1>3 DEF Moved
    <3>. QED BY <2>3, <3>1
  <2>7. ASSUME NEW k \in DOMAIN q, k # i PROVE \E j \in DOMAIN r : r[j] = q[k]
    <3>1. CASE k < i
      <4>1. k \in 1..(Len(q) - 1)
        BY <1>1, <2>7, <3>1
      <4>. QED BY <2>3, <3>1, <4>1
    <3>2. CASE ~(k < i)
      <4>1. k - 1 \in 1..(Len(q) - 1) /\ ~(k - 1 < i) /\ (k - 1) + 1 = k
        BY <1>1, <2>1, <2>7, <3>2
      <4>. QED BY <2>3, <4>1
    <3>. QED BY <3>1, <3>2
  <2>. QED BY <2>3, <2>5, <2>6, <2>7 DEF r
<1>. QED BY <1>2, <1>3

LEMMA CountIsNat ==
  ASSUME NEW q \in Seq(Legal), NEW I, I \subseteq DOMAIN q
  PROVE  IsFiniteSet(I) /\ Cardinality(I) \in Nat
<1>1. IsFiniteSet(1..Len(q))
  BY FS_Interval
<1>2. I \in SUBSET (1..Len(q))
  OBVIOUS
<1>3. IsFiniteSet(I)
  BY <1>1, <1>2, FS_Subset
<1>. QED BY <1>3, FS_CardinalityType

\* What goes out when several entries do.
LEMMA SendFacts ==
  ASSUME NEW q \in Seq(Legal), NEW current \in [Paths -> Nat], SendSourceLists(q, current)
  PROVE  /\ currentDownstream' \in [Paths -> Nat]
         /\ \A m \in DOMAIN toBrowser' : m \in DOMAIN toBrowser \/
              \E i \in DOMAIN q : AtOnce(q[i]) /\ m = Message(q[i].type, q[i], 0)
         /\ \A e \in DOMAIN lists' : e \in DOMAIN lists \/
              \E i \in DOMAIN q : ~AtOnce(q[i]) /\ e = q[i]
<1>. DEFINE I(p) == {i \in DOMAIN q : AtOnce(q[i]) /\ q[i].path = p}
            now == {e \in Range(q) : AtOnce(e)}
            sent == {Message(e.type, e, 0) : e \in now}
<1>1. /\ currentDownstream' = [p \in Paths |-> current[p] + Cardinality(I(p))]
      /\ toBrowser' = toBrowser (+) [m \in sent |-> Times(q, m.entry)]
      /\ lists' = lists (+) [e \in Range(q) \ now |-> Times(q, e)]
  BY DEF SendSourceLists
<1>2. currentDownstream' \in [Paths -> Nat]
  <2>1. ASSUME NEW p \in Paths PROVE current[p] + Cardinality(I(p)) \in Nat
    <3>1. I(p) \subseteq DOMAIN q
      OBVIOUS
    <3>2. Cardinality(I(p)) \in Nat
      BY <3>1, CountIsNat
    <3>. HIDE DEF I
    <3>. QED BY <3>2
  <2>. HIDE DEF I
  <2>. QED BY <1>1, <2>1
<1>3. DOMAIN toBrowser' = DOMAIN toBrowser \cup sent
  <2>. HIDE DEF sent
  <2>. QED BY <1>1, BagAdd
<1>4. DOMAIN lists' = DOMAIN lists \cup (Range(q) \ now)
  <2>. HIDE DEF now
  <2>. QED BY <1>1, BagAdd
<1>5. \A e \in Range(q) : \E i \in DOMAIN q : q[i] = e
  BY DEF Range
<1>6. ASSUME NEW m \in sent
      PROVE  \E i \in DOMAIN q : AtOnce(q[i]) /\ m = Message(q[i].type, q[i], 0)
  BY <1>5
<1>7. ASSUME NEW e \in Range(q) \ now PROVE \E i \in DOMAIN q : ~AtOnce(q[i]) /\ e = q[i]
  BY <1>5
<1>. HIDE DEF now, sent
<1>. QED BY <1>2, <1>3, <1>4, <1>6, <1>7

-----------------------------------------------------------------------------
(* The steps that only pass a message on *)

\* The updates that the session works on.
Around == {outOfDate[i] : i \in DOMAIN outOfDate}
          \cup {e \in DOMAIN lists : e.type # "forced"}
          \cup {m.entry : m \in {x \in DOMAIN toBrowser : x.entry.type # "forced"}}
          \cup {m.entry : m \in {x \in DOMAIN toServer : x.kind # "sync"}}

Relay ==
  /\ UNCHANGED <<srv, writes, have, edited, outside, other, session, found, outOfDate, told, own,
                 known, lost, away, lock>>
  /\ currentDownstream' \in [Paths -> Nat]
  /\ DOMAIN lists' \subseteq DOMAIN lists
  /\ \A m \in DOMAIN toBrowser' \ DOMAIN toBrowser :
       /\ m \in Requests \cup Orders
       /\ m.entry \in Around \/ m.entry.type = "forced"
       /\ m.kind = "diffs" => m.version = srv[m.entry.path]
  /\ \A m \in DOMAIN toServer' \ DOMAIN toServer :
       m \in Answers /\ m.kind # "patch" /\ m.entry \in Around

LEMMA DelayType ==
  ASSUME NEW p \in Paths, currentDownstream \in [Paths -> Nat], delaySync(p)
  PROVE  currentDownstream' \in [Paths -> Nat]
BY DEF delaySync

LEMMA SendSourceListRelays ==
  ASSUME TypeInv, NEW e, SendSourceList(e)
  PROVE  Relay
<1>1. e \in DOMAIN lists /\ DOMAIN lists' \subseteq DOMAIN lists /\ e \in Legal \cup Forced
      /\ e.path \in Paths
  BY BagTake, LegalFacts, ForcedFacts DEF SendSourceList, BagIn, BagToSet, TypeInv, WireTypes
<1>2. Message("checksums", e, 0) \in Requests \cup Orders
  <2>1. e \in Legal => e.type = "create"
    BY <1>1, ForcedFacts DEF TypeInv, WireTypes
  <2>2. writes \in Nat /\ 0 \in 0..writes
    BY DEF TypeInv, FileTypes
  <2>3. CASE e \in Legal
    BY <2>1, <2>2, <2>3, NewRequest
  <2>4. CASE e \in Forced
    BY <2>4 DEF Message, Orders
  <2>. QED BY <1>1, <2>3, <2>4
<1>3. e.type = "forced" \/ e \in Around
  BY <1>1 DEF Around
<1>4. /\ Message("checksums", e, 0).entry = e /\ Message("checksums", e, 0).kind = "checksums"
  BY DEF Message
<1>5. CASE srv[e.path] = 0
  BY <1>1, <1>5 DEF SendSourceList, Relay, files, browser, lost, TypeInv, SessionTypes
<1>6. CASE srv[e.path] # 0
  <2>1. /\ currentDownstream' = [currentDownstream EXCEPT ![e.path] = @ + 1]
        /\ toBrowser' = toBrowser (+) One(Message("checksums", e, 0))
    BY <1>6 DEF SendSourceList
  <2>2. currentDownstream' \in [Paths -> Nat]
    BY <1>1, <2>1 DEF TypeInv, SessionTypes
  <2>3. DOMAIN toBrowser' = DOMAIN toBrowser \cup {Message("checksums", e, 0)}
    BY <2>1, BagAddOne
  <2>. QED BY <1>1, <1>2, <1>3, <1>4, <2>2, <2>3 DEF SendSourceList, Relay, files, browser, lost
<1>. QED BY <1>5, <1>6

LEMMA DiffRequestRelays ==
  ASSUME TypeInv, NEW m, HandleDiffRequest(m)
  PROVE  Relay
<1>1. /\ m \in DOMAIN toServer /\ m.kind = "diffs" /\ DOMAIN toServer' \subseteq DOMAIN toServer
      /\ m \in Answers \cup Wishes
  BY BagTake DEF HandleDiffRequest, Got, BagIn, BagToSet, TypeInv, WireTypes
<1>2. /\ m.entry \in Legal /\ m.entry.type = "create" /\ m.entry.path \in Paths
      /\ m.entry.path \notin outside
  BY <1>1, AnswerFacts
<1>3. m.entry \in Around
  BY <1>1 DEF Around
<1>4. CASE lock[m.entry.path] # None \/ srv[m.entry.path] = 0
  <2>1. currentDownstream' \in [Paths -> Nat] /\ toBrowser' = toBrowser
    BY <1>2, <1>4, DelayType DEF HandleDiffRequest, TypeInv, SessionTypes
  <2>. QED BY <1>1, <2>1 DEF HandleDiffRequest, ServerOnly, Relay, files, browser, lost
<1>5. CASE ~(lock[m.entry.path] # None \/ srv[m.entry.path] = 0)
  <2>. DEFINE d == Message("diffs", m.entry, srv[m.entry.path])
  <2>1. toBrowser' = toBrowser (+) One(d) /\ currentDownstream' = currentDownstream
    BY <1>5 DEF HandleDiffRequest
  <2>2. d \in Requests
    BY <1>2, NewRequest DEF TypeInv, FileTypes
  <2>3. d.entry = m.entry /\ d.kind = "diffs" /\ d.version = srv[d.entry.path]
    BY DEF Message
  <2>. HIDE DEF d
  <2>4. DOMAIN toBrowser' = DOMAIN toBrowser \cup {d}
    BY <2>1, BagAddOne
  <2>. QED BY <1>1, <1>3, <2>1, <2>2, <2>3, <2>4
           DEF HandleDiffRequest, ServerOnly, Relay, files, browser, lost, TypeInv, SessionTypes
<1>. QED BY <1>4, <1>5

LEMMA DelayRelays ==
  ASSUME TypeInv, NEW m, HandleDelayRequest(m)
  PROVE  Relay
<1>1. /\ DOMAIN toServer' \subseteq DOMAIN toServer /\ m.entry.path \in Paths
  BY BagTake, AnswerFacts DEF HandleDelayRequest, Got, BagIn, BagToSet, TypeInv, WireTypes
<1>2. currentDownstream' \in [Paths -> Nat]
  BY <1>1, DelayType DEF HandleDelayRequest, TypeInv, SessionTypes
<1>. QED BY <1>1, <1>2 DEF HandleDelayRequest, ServerOnly, Relay, files, browser, lost

\* The browser answers m with something else than that it has done it.
LEMMA ReplyRelays ==
  ASSUME TypeInv, NEW m, Received(m), NEW a \in Answers, a.kind # "patch", a.entry = m.entry,
         m.entry.type # "forced", toServer' = toServer (+) One(a), have' = have, BrowserOnly
  PROVE  Relay
<1>1. /\ m \in DOMAIN toBrowser /\ DOMAIN toBrowser' \subseteq DOMAIN toBrowser
      /\ DOMAIN toServer' = DOMAIN toServer \cup {a}
  BY BagTake, BagAddOne DEF Received, BagIn, BagToSet
<1>2. a.entry \in Around
  BY <1>1 DEF Around
<1>. QED BY <1>1, <1>2 DEF BrowserOnly, Relay, files, browser, lost, lists_, sess, history, TypeInv, SessionTypes

LEMMA ReceivedFacts ==
  ASSUME TypeInv, NEW m, Received(m)
  PROVE  /\ m \in DOMAIN toBrowser /\ DOMAIN toBrowser' \subseteq DOMAIN toBrowser
         /\ m \in Requests \cup Orders
BY BagTake DEF Received, BagIn, BagToSet, TypeInv, WireTypes

LEMMA BrowserRelays ==
  ASSUME TypeInv, NEW m,
         \/ IgnoreOutside(m) \/ IgnoreForced(m) \/ HandleChecksumRequest(m) \/ ResendChecksums(m)
         \/ BrowserFails(m) \/ BrowserThrows(m)
  PROVE  Relay
<1>1. Received(m) /\ have' = have /\ BrowserOnly
  BY DEF IgnoreOutside, IgnoreForced, HandleChecksumRequest, ResendChecksums, BrowserFails,
     BrowserThrows
<1>2. /\ m \in DOMAIN toBrowser /\ DOMAIN toBrowser' \subseteq DOMAIN toBrowser
      /\ m \in Requests \cup Orders
      /\ m.entry.type # "forced" => m.entry \in Legal
      /\ m.entry.type # "forced" /\ m.kind = "checksums" => m.entry.type = "create"
      /\ m.kind = "diffs" => m.entry.type = "create" /\ m.entry.path \notin outside
  BY <1>1, ReceivedFacts, RequestFacts, ForcedFacts
<1>3. writes \in Nat /\ 0 \in (0..writes) \cup {None}
  BY DEF TypeInv, FileTypes
<1>4. CASE IgnoreForced(m) \/ BrowserThrows(m)
  <2>1. toServer' = toServer
    BY <1>4 DEF IgnoreForced, BrowserThrows
  <2>. QED BY <1>1, <1>2, <2>1 DEF BrowserOnly, Relay, files, lost, lists_, sess, TypeInv, SessionTypes
<1>5. ASSUME NEW kind \in {"root", "diffs", "delay"}, Message(kind, m.entry, 0) \in Answers,
             m.entry.type # "forced", Reply(kind, m.entry, 0)
      PROVE  Relay
  <2>. DEFINE a == Message(kind, m.entry, 0)
  <2>1. a \in Answers /\ a.kind # "patch" /\ a.entry = m.entry /\ toServer' = toServer (+) One(a)
    BY <1>5 DEF Message, Reply
  <2>. HIDE DEF a
  <2>. QED BY <1>1, <1>5, <2>1, ReplyRelays
<1>6. CASE IgnoreOutside(m)
  BY <1>2, <1>3, <1>5, <1>6, NewAnswer DEF IgnoreOutside
<1>7. CASE HandleChecksumRequest(m)
  BY <1>2, <1>3, <1>5, <1>7, NewAnswer DEF HandleChecksumRequest
<1>8. CASE BrowserFails(m)
  BY <1>2, <1>3, <1>5, <1>8, NewAnswer DEF BrowserFails
<1>9. CASE ResendChecksums(m)
  BY <1>2, <1>3, <1>5, <1>9, NewAnswer DEF ResendChecksums
<1>. QED BY <1>4, <1>6, <1>7, <1>8, <1>9

-----------------------------------------------------------------------------
(* Types *)

LEMMA InitTypes == Init => TypeInv
<1>. SUFFICES ASSUME NEW bounds, NEW there \in SUBSET Paths, NEW out \in SUBSET Paths,
                     InitWith(bounds, there, out)
              PROVE  TypeInv
  BY DEF Init
<1>1. FileTypes
  BY DEF InitWith, FileTypes
<1>2. SessionTypes
  BY EmptySeq DEF InitWith, SessionTypes, NoneCurrent
<1>3. WireTypes
  BY BagNone DEF InitWith, WireTypes
<1>4. OtherTypes /\ OwnTypes
  BY DEF InitWith, OtherTypes, OwnTypes, Calm
<1>. QED BY <1>1, <1>2, <1>3, <1>4 DEF TypeInv

\* The messages stay what they are while versions are added.
LEMMA MessagesStay ==
  ASSUME TypeInv, outside' = outside, writes' \in Nat, writes <= writes'
  PROVE  /\ Legal' = Legal /\ Forced' = Forced
         /\ Requests \subseteq Requests' /\ Orders' = Orders
         /\ Answers \subseteq Answers' /\ Wishes' = Wishes /\ Asks' = Asks
<1>1. Legal' = Legal /\ Forced' = Forced /\ Asks' = Asks
  BY DEF Legal, Forced, Asks
<1>2. 0..writes \subseteq 0..writes'
  BY DEF TypeInv, FileTypes
<1>. QED BY <1>1, <1>2 DEF Requests, Orders, Answers, Wishes

LEMMA WireStays ==
  ASSUME TypeInv, outside' = outside, writes' \in Nat, writes <= writes',
         DOMAIN lists' \subseteq DOMAIN lists, DOMAIN toBrowser' \subseteq DOMAIN toBrowser,
         DOMAIN toServer' \subseteq DOMAIN toServer
  PROVE  WireTypes'
<1>1. /\ Legal' = Legal /\ Forced' = Forced
      /\ Requests \subseteq Requests' /\ Orders' = Orders
      /\ Answers \subseteq Answers' /\ Wishes' = Wishes
  BY MessagesStay
<1>. QED BY <1>1 DEF TypeInv, WireTypes

LEMMA SessionStays ==
  ASSUME TypeInv, outside' = outside, writes' \in Nat, writes <= writes',
         UNCHANGED <<found, outOfDate, currentDownstream>>,
         session' \in {"off", "reading", "read", "on"}, told' \subseteq Paths
  PROVE  SessionTypes'
BY MessagesStay DEF TypeInv, SessionTypes

LEMMA OthersStay ==
  ASSUME TypeInv, outside' = outside, writes' \in Nat, writes <= writes', other' = other
  PROVE  OtherTypes'
BY MessagesStay DEF TypeInv, OtherTypes

LEMMA RelayTypes ==
  ASSUME TypeInv, Relay
  PROVE  TypeInv'
<1>1. writes \in Nat /\ writes <= writes /\ outside' = outside /\ writes' = writes
  BY DEF TypeInv, FileTypes, Relay
<1>2. FileTypes' /\ OwnTypes'
  BY DEF TypeInv, FileTypes, OwnTypes, Relay
<1>3. OtherTypes'
  BY <1>1, OthersStay DEF Relay
<1>4. /\ Legal' = Legal /\ Forced' = Forced
      /\ Requests \subseteq Requests' /\ Orders' = Orders
      /\ Answers \subseteq Answers' /\ Wishes' = Wishes
  BY <1>1, MessagesStay
<1>5. SessionTypes'
  BY <1>4 DEF TypeInv, SessionTypes, Relay
<1>6. WireTypes'
  <2>1. \A m \in DOMAIN toBrowser' : m \in DOMAIN toBrowser \/ m \in Requests \cup Orders
    BY DEF Relay
  <2>2. \A m \in DOMAIN toServer' : m \in DOMAIN toServer \/ m \in Answers
    BY DEF Relay
  <2>. QED BY <1>4, <2>1, <2>2 DEF TypeInv, WireTypes, Relay
<1>. QED BY <1>2, <1>3, <1>5, <1>6 DEF TypeInv

\* A step that takes an answer off the wire, and an entry off the list.
Removes(m, i) ==
  /\ m \in DOMAIN toServer /\ m \in Answers /\ m.kind \in {"patch", "root"}
  /\ i \in 0..Len(outOfDate) /\ outOfDate' = Without(outOfDate, i)
  /\ struck' = struck \cup Mistaken(i, m.entry)
  /\ toServer' = toServer (-) One(m)
  /\ currentDownstream' \in [Paths -> Nat]
  /\ UNCHANGED <<srv, writes, lock, have, edited, outside, other, session, found, told, own, lists,
                 toBrowser, known, late, unheard, replaced, away>>

LEMMA PatchResponseRemoves ==
  ASSUME TypeInv, NEW m, HandlePatchResponse(m)
  PROVE  \E i : Removes(m, i)
<1>1. /\ m \in DOMAIN toServer /\ m.kind = "patch" /\ m \in Answers /\ m.entry.path \in Paths
      /\ toServer' = toServer (-) One(m)
  BY AnswerFacts DEF HandlePatchResponse, Got, BagIn, BagToSet, TypeInv, WireTypes
<1>2. outOfDate \in Seq(Legal) /\ currentDownstream \in [Paths -> Nat]
  BY DEF TypeInv, SessionTypes
<1>3. 0 \in 0..Len(outOfDate) /\ Without(outOfDate, 0) = outOfDate /\ Mistaken(0, m.entry) = {}
  BY <1>2 DEF Without, Mistaken
<1>4. CASE m.version \in {None, srv[m.entry.path]}
  <2>. DEFINE i == IndexOf(outOfDate, m.entry.path)
  <2>1. i \in 0..Len(outOfDate)
    BY <1>2, IndexFinds
  <2>2. /\ outOfDate' = Without(outOfDate, i) /\ delaySync(m.entry.path)
        /\ struck' = struck \cup Mistaken(i, m.entry)
    BY <1>4 DEF HandlePatchResponse, endDownstream
  <2>3. currentDownstream' \in [Paths -> Nat]
    BY <1>1, <1>2, <2>2, DelayType
  <2>. HIDE DEF i
  <2>. QED BY <1>1, <2>1, <2>2, <2>3 DEF HandlePatchResponse, ServerOnly, Removes, files, browser
<1>5. CASE m.version \notin {None, srv[m.entry.path]}
  <2>1. UNCHANGED <<lists_, struck>>
    BY <1>5 DEF HandlePatchResponse
  <2>. QED BY <1>1, <1>2, <1>3, <2>1
           DEF HandlePatchResponse, ServerOnly, Removes, files, browser, lists_
<1>. QED BY <1>4, <1>5

LEMMA RootResponseRemoves ==
  ASSUME TypeInv, NEW m, HandleRootResponse(m)
  PROVE  \E i : Removes(m, i)
<1>1. /\ m \in DOMAIN toServer /\ m.kind = "root" /\ m \in Answers /\ m.entry.path \in Paths
      /\ toServer' = toServer (-) One(m)
  BY AnswerFacts DEF HandleRootResponse, Got, BagIn, BagToSet, TypeInv, WireTypes
<1>2. outOfDate \in Seq(Legal) /\ currentDownstream \in [Paths -> Nat]
  BY DEF TypeInv, SessionTypes
<1>3. 0 \in 0..Len(outOfDate) /\ Without(outOfDate, 0) = outOfDate /\ Mistaken(0, m.entry) = {}
  BY <1>2 DEF Without, Mistaken
<1>4. CASE currentDownstream[m.entry.path] = 0
  <2>1. UNCHANGED <<lists_, struck>>
    BY <1>4 DEF HandleRootResponse
  <2>. QED BY <1>1, <1>2, <1>3, <2>1 DEF HandleRootResponse, ServerOnly, Removes, files, browser, lists_
<1>5. CASE currentDownstream[m.entry.path] # 0
  <2>. DEFINE i == IndexOf(outOfDate, m.entry.path)
              j == IF i = 0 THEN Len(outOfDate) ELSE i
  <2>1. i \in 0..Len(outOfDate) /\ Len(outOfDate) \in 0..Len(outOfDate)
    BY <1>2, IndexFinds
  <2>2. /\ outOfDate' = Without(outOfDate, j) /\ delaySync(m.entry.path)
        /\ struck' = struck \cup Mistaken(j, m.entry)
    BY <1>5 DEF HandleRootResponse
  <2>3. currentDownstream' \in [Paths -> Nat]
    BY <1>1, <1>2, <2>2, DelayType
  <2>. HIDE DEF i
  <2>4. j \in 0..Len(outOfDate)
    BY <2>1
  <2>. HIDE DEF j
  <2>. QED BY <1>1, <2>2, <2>3, <2>4 DEF HandleRootResponse, ServerOnly, Removes, files, browser
<1>. QED BY <1>4, <1>5

LEMMA RemoveTypes ==
  ASSUME TypeInv, NEW m, NEW i, Removes(m, i)
  PROVE  TypeInv'
<1>1. writes \in Nat /\ writes <= writes /\ outside' = outside /\ writes' = writes
  BY DEF TypeInv, FileTypes, Removes
<1>2. FileTypes' /\ OwnTypes'
  BY DEF TypeInv, FileTypes, OwnTypes, Removes
<1>3. OtherTypes'
  BY <1>1, OthersStay DEF Removes
<1>4. DOMAIN toServer' \subseteq DOMAIN toServer
  BY BagTake DEF Removes
<1>5. WireTypes'
  BY <1>1, <1>4, WireStays DEF Removes
<1>6. SessionTypes'
  <2>1. outOfDate' \in Seq(Legal)
    BY WithoutFacts DEF TypeInv, SessionTypes, Removes
  <2>. QED BY <1>1, <2>1, MessagesStay DEF TypeInv, SessionTypes, Removes
<1>. QED BY <1>2, <1>3, <1>5, <1>6 DEF TypeInv

-----------------------------------------------------------------------------
(* The steps by which the browser changes its files *)

\* The session's version of a path is one that the browser has had.
Known(p) == \/ srv[p] \in {0} \cup known[p]
            \/ have[p] = srv[p] /\ p \in edited
            \/ p \in late \cup replaced \cup struck

\* What the browser has is its own, or a version that it knows.
BrowserInv ==
  /\ \A p \in Paths : have[p] = 0 \/ p \in edited \/ have[p] \in known[p]
  /\ \A p \in edited : have[p] # 0

\* The browser does what m says, and answers that it has.
Applies(m) ==
  /\ m \in DOMAIN toBrowser /\ m \in Requests /\ m.kind # "checksums"
  /\ m.entry.path \notin outside
  /\ toBrowser' = toBrowser (-) One(m)
  /\ \E v \in (0..writes) \cup {None} : toServer' = toServer (+) One(Message("patch", m.entry, v))
  /\ UNCHANGED <<srv, writes, lock, other, outside, session, found, outOfDate, currentDownstream,
                 lists, told, own, away, held>>
  /\ have' \in [Paths -> 0..writes] /\ known' \in [Paths -> SUBSET (0..writes)]
  /\ edited' \subseteq Paths \ outside
  /\ \A p \in Touched(m.entry) : have'[p] = srv[p] \/ p \in late' \/ p \in edited'
  /\ \A p \in Paths \ Touched(m.entry) :
       /\ have'[p] = have[p] /\ (p \in edited' <=> p \in edited) /\ (p \in late' <=> p \in late)
       /\ (p \in unheard' <=> p \in unheard) /\ (p \in replaced' <=> p \in replaced)
       /\ (p \in struck' <=> p \in struck)
  /\ \A p \in Paths : Known(p) => Known(p)'
  /\ m.kind # "diffs" \/ m.version = srv[m.entry.path] => Known(m.entry.path)'
  /\ BrowserInv'

LEMMA SettleFacts ==
  ASSUME NEW touched, Settle(touched)
  PROVE  /\ \A p \in touched : have'[p] = srv[p] \/ p \in late'
         /\ \A p : p \notin touched =>
              /\ (p \in late' <=> p \in late) /\ (p \in unheard' <=> p \in unheard)
              /\ (p \in replaced' <=> p \in replaced) /\ (p \in struck' <=> p \in struck)
BY DEF Settle

LEMMA DiffApplies ==
  ASSUME TypeInv, BrowserInv, NEW m, HandleDiffResponse(m)
  PROVE  Applies(m)
<1>. DEFINE p == m.entry.path
<1>1. /\ m \in DOMAIN toBrowser /\ m \in Requests /\ m.kind = "diffs" /\ m.entry \in Legal
      /\ p \in Paths /\ p \notin outside /\ Touched(m.entry) = {p} /\ m.version \in 0..writes
      /\ toBrowser' = toBrowser (-) One(m)
  <2>1. Received(m) /\ m.kind = "diffs"
    BY DEF HandleDiffResponse
  <2>2. m \in DOMAIN toBrowser /\ m \in Requests \cup Orders /\ toBrowser' = toBrowser (-) One(m)
    BY <2>1, ReceivedFacts DEF Received
  <2>3. m \in Requests /\ m.entry.type = "create" /\ p \notin outside
    BY <2>1, <2>2, RequestFacts
  <2>4. m.entry \in Legal /\ m.version \in 0..writes
    BY <2>3 DEF Requests
  <2>. QED BY <2>1, <2>2, <2>3, <2>4, LegalFacts
<1>2. /\ srv \in [Paths -> 0..writes] /\ have \in [Paths -> 0..writes]
      /\ known \in [Paths -> SUBSET (0..writes)] /\ edited \subseteq Paths \ outside
  BY DEF TypeInv, FileTypes
<1>3. /\ known' = [known EXCEPT ![p] = @ \cup {m.version}]
      /\ UNCHANGED <<srv, writes, lock, other, outside, session, found, outOfDate, currentDownstream,
                     lists, told, own, away, held>>
  BY DEF HandleDiffResponse, files, sess, lists_
<1>4. /\ known' \in [Paths -> SUBSET (0..writes)] /\ m.version \in known'[p]
      /\ \A q \in Paths : known[q] \subseteq known'[q] /\ (q # p => known'[q] = known[q])
  BY <1>1, <1>2, <1>3
<1>. HIDE DEF p
<1>5. CASE /\ have' = [have EXCEPT ![p] = m.version] /\ edited' = edited \ {p}
           /\ Settle({p}) /\ Reply("patch", m.entry, m.version)
  <2>1. /\ have' \in [Paths -> 0..writes] /\ have'[p] = m.version
        /\ \A q \in Paths : q # p => have'[q] = have[q]
    BY <1>1, <1>2, <1>5
  <2>2. /\ have'[p] = srv[p] \/ p \in late'
        /\ \A q : q # p =>
             /\ (q \in late' <=> q \in late) /\ (q \in unheard' <=> q \in unheard)
             /\ (q \in replaced' <=> q \in replaced) /\ (q \in struck' <=> q \in struck)
    BY <1>5, SettleFacts
  <2>3. Known(p)'
    BY <1>3, <1>4, <2>1, <2>2 DEF Known
  <2>4. \A q \in Paths : Known(q) => Known(q)'
    <3>1. ASSUME NEW q \in Paths, q # p, Known(q) PROVE Known(q)'
      BY <1>3, <1>4, <1>5, <2>1, <2>2, <3>1 DEF Known
    <3>. QED BY <2>3, <3>1
  <2>5. BrowserInv'
    BY <1>3, <1>4, <1>5, <2>1 DEF BrowserInv
  <2>6. \E v \in (0..writes) \cup {None} : toServer' = toServer (+) One(Message("patch", m.entry, v))
    BY <1>1, <1>5 DEF Reply
  <2>. QED BY <1>1, <1>2, <1>3, <1>4, <1>5, <2>1, <2>2, <2>3, <2>4, <2>5, <2>6 DEF Applies, p
<1>6. CASE p \in edited /\ Reply("patch", m.entry, None) /\ UNCHANGED <<have, edited, lost>>
  <2>1. UNCHANGED <<have, edited, late, unheard, replaced, struck>> /\ p \in edited'
    BY <1>6 DEF lost
  <2>2. \A q \in Paths : Known(q) => Known(q)'
    <3>1. ASSUME NEW q \in Paths, Known(q) PROVE Known(q)'
      BY <1>3, <1>4, <2>1, <3>1 DEF Known
    <3>. QED BY <3>1
  <2>3. m.version = srv[p] => Known(p)'
    BY <1>3, <1>4 DEF Known
  <2>4. BrowserInv'
    BY <1>4, <2>1 DEF BrowserInv
  <2>5. \E v \in (0..writes) \cup {None} : toServer' = toServer (+) One(Message("patch", m.entry, v))
    BY <1>6 DEF Reply
  <2>. QED BY <1>1, <1>2, <1>3, <1>4, <2>1, <2>2, <2>3, <2>4, <2>5 DEF Applies, p
<1>. QED BY <1>5, <1>6 DEF HandleDiffResponse, p

LEMMA DeleteApplies ==
  ASSUME TypeInv, BrowserInv, NEW m, HandleDeleteRequest(m)
  PROVE  Relay \/ Applies(m)
<1>. DEFINE p == m.entry.path
<1>1. /\ m \in DOMAIN toBrowser /\ m \in Requests /\ m.kind = "delete" /\ m.entry \in Legal
      /\ p \in Paths /\ p \notin outside /\ Touched(m.entry) = {p} /\ m.entry.type # "forced"
      /\ Received(m) /\ toBrowser' = toBrowser (-) One(m)
  <2>1. Received(m) /\ m.kind = "delete" /\ p \notin outside
    BY DEF HandleDeleteRequest
  <2>2. m \in DOMAIN toBrowser /\ m \in Requests \cup Orders /\ toBrowser' = toBrowser (-) One(m)
    BY <2>1, ReceivedFacts DEF Received
  <2>3. m \in Requests /\ m.entry.type = "delete" /\ m.entry \in Legal
    BY <2>1, <2>2, RequestFacts
  <2>. QED BY <2>1, <2>2, <2>3, LegalFacts
<1>2. /\ srv \in [Paths -> 0..writes] /\ have \in [Paths -> 0..writes] /\ writes \in Nat
      /\ known \in [Paths -> SUBSET (0..writes)] /\ edited \subseteq Paths \ outside
  BY DEF TypeInv, FileTypes
<1>3. UNCHANGED <<srv, writes, lock, other, outside, session, found, outOfDate, currentDownstream,
                  lists, told, own, away, held, known>>
  BY DEF HandleDeleteRequest, files, sess, lists_
<1>4. CASE have[p] = 0
  <2>1. /\ Reply("delay", m.entry, 0) /\ UNCHANGED <<have, edited, lost>>
    BY <1>4 DEF HandleDeleteRequest
  <2>2. BrowserOnly
    BY <2>1 DEF BrowserOnly, HandleDeleteRequest, history
  <2>. DEFINE a == Message("delay", m.entry, 0)
  <2>3. a \in Answers /\ a.kind # "patch" /\ a.entry = m.entry /\ toServer' = toServer (+) One(a)
    <3>1. 0 \in (0..writes) \cup {None}
      BY <1>2
    <3>. QED BY <1>1, <1>2, <2>1, <3>1, NewAnswer DEF Message, Reply
  <2>. HIDE DEF a, p
  <2>. QED BY <1>1, <2>1, <2>2, <2>3, ReplyRelays
<1>5. CASE have[p] # 0
  <2>1. /\ have' = [have EXCEPT ![p] = 0] /\ edited' = edited \ {p} /\ Settle({p})
        /\ Reply("patch", m.entry, 0)
    BY <1>5 DEF HandleDeleteRequest
  <2>. HIDE DEF p
  <2>2. /\ have' \in [Paths -> 0..writes] /\ have'[p] = 0
        /\ \A q \in Paths : q # p => have'[q] = have[q]
    BY <1>1, <1>2, <2>1
  <2>3. /\ have'[p] = srv[p] \/ p \in late'
        /\ \A q : q # p =>
             /\ (q \in late' <=> q \in late) /\ (q \in unheard' <=> q \in unheard)
             /\ (q \in replaced' <=> q \in replaced) /\ (q \in struck' <=> q \in struck)
    BY <2>1, SettleFacts
  <2>4. Known(p)'
    BY <1>3, <2>2, <2>3 DEF Known
  <2>5. \A q \in Paths : Known(q) => Known(q)'
    <3>1. ASSUME NEW q \in Paths, q # p, Known(q) PROVE Known(q)'
      BY <1>3, <2>1, <2>2, <2>3, <3>1 DEF Known
    <3>. QED BY <2>4, <3>1
  <2>6. BrowserInv'
    BY <1>3, <1>2, <2>1, <2>2 DEF BrowserInv
  <2>7. \E v \in (0..writes) \cup {None} : toServer' = toServer (+) One(Message("patch", m.entry, v))
    BY <1>2, <2>1 DEF Reply
  <2>8. edited' \subseteq Paths \ outside /\ \A q \in Paths : q # p => (q \in edited' <=> q \in edited)
    BY <1>2, <2>1
  <2>. QED BY <1>1, <1>2, <1>3, <2>2, <2>3, <2>4, <2>5, <2>6, <2>7, <2>8 DEF Applies, p
<1>. QED BY <1>4, <1>5

LEMMA RenameApplies ==
  ASSUME TypeInv, BrowserInv, NEW m, HandleRenameRequest(m)
  PROVE  Relay \/ Applies(m)
<1>. DEFINE p == m.entry.old
            q == m.entry.path
<1>1. /\ m \in DOMAIN toBrowser /\ m \in Requests /\ m.kind = "rename" /\ m.entry \in Legal
      /\ p \in Paths /\ q \in Paths /\ q \notin outside /\ p \notin outside
      /\ Touched(m.entry) = {p, q} /\ m.entry.type # "forced"
      /\ Received(m) /\ toBrowser' = toBrowser (-) One(m)
  <2>1. Received(m) /\ m.kind = "rename" /\ q \notin outside
    BY DEF HandleRenameRequest
  <2>2. m \in DOMAIN toBrowser /\ m \in Requests \cup Orders /\ toBrowser' = toBrowser (-) One(m)
    BY <2>1, ReceivedFacts DEF Received
  <2>3. m \in Requests /\ m.entry.type = "rename" /\ m.entry \in Legal
    BY <2>1, <2>2, RequestFacts
  <2>4. Touched(m.entry) = {p, q} /\ p \in Paths /\ q \in Paths
    BY <2>3, LegalFacts
  <2>5. p \notin outside
    BY <2>1, <2>3, <2>4, LegalFacts
  <2>. QED BY <2>1, <2>2, <2>3, <2>4, <2>5
<1>2. /\ srv \in [Paths -> 0..writes] /\ have \in [Paths -> 0..writes] /\ writes \in Nat
      /\ known \in [Paths -> SUBSET (0..writes)] /\ edited \subseteq Paths \ outside
  BY DEF TypeInv, FileTypes
<1>3. UNCHANGED <<srv, writes, lock, other, outside, session, found, outOfDate, currentDownstream,
                  lists, told, own, away, held>>
  BY DEF HandleRenameRequest, files, sess, lists_
<1>4. CASE have[p] = 0 \/ have[q] # 0
  <2>1. /\ Reply("delay", m.entry, 0) /\ UNCHANGED <<have, edited, known, lost>>
    BY <1>4 DEF HandleRenameRequest
  <2>2. BrowserOnly
    BY <2>1 DEF BrowserOnly, HandleRenameRequest, history
  <2>. DEFINE a == Message("delay", m.entry, 0)
  <2>3. a \in Answers /\ a.kind # "patch" /\ a.entry = m.entry /\ toServer' = toServer (+) One(a)
    <3>1. 0 \in (0..writes) \cup {None}
      BY <1>2
    <3>. QED BY <1>1, <1>2, <2>1, <3>1, NewAnswer DEF Message, Reply
  <2>. HIDE DEF a, p, q
  <2>. QED BY <1>1, <2>1, <2>2, <2>3, ReplyRelays
<1>5. CASE ~(have[p] = 0 \/ have[q] # 0)
  <2>. DEFINE v == IF p \in edited THEN None ELSE have[p]
  <2>1. /\ have' = [have EXCEPT ![q] = have[p], ![p] = 0]
        /\ edited' = IF p \in edited THEN (edited \ {p}) \cup {q} ELSE edited
        /\ known' = [known EXCEPT ![q] = @ \cup known[p]]
        /\ Settle({p, q})
        /\ Reply("patch", m.entry, v)
    BY <1>5 DEF HandleRenameRequest
  <2>. HIDE DEF p, q
  <2>2. p # q /\ have[p] # 0 /\ have[q] = 0 /\ v \in (0..writes) \cup {None}
    BY <1>1, <1>2, <1>5
  <2>. HIDE DEF v
  <2>3. /\ have' \in [Paths -> 0..writes] /\ have'[p] = 0 /\ have'[q] = have[p]
        /\ \A r \in Paths : r \notin {p, q} => have'[r] = have[r]
    BY <1>1, <1>2, <2>1, <2>2
  <2>4. /\ known' \in [Paths -> SUBSET (0..writes)] /\ known[p] \subseteq known'[q]
        /\ \A r \in Paths : known[r] \subseteq known'[r]
    BY <1>1, <1>2, <2>1
  <2>5. /\ have'[p] = srv[p] \/ p \in late'
        /\ have'[q] = srv[q] \/ q \in late'
        /\ \A r : r \notin {p, q} =>
             /\ (r \in late' <=> r \in late) /\ (r \in unheard' <=> r \in unheard)
             /\ (r \in replaced' <=> r \in replaced) /\ (r \in struck' <=> r \in struck)
    <3>1. Settle({p, q})
      BY <2>1
    <3>2. /\ \A r \in {p, q} : have'[r] = srv[r] \/ r \in late'
          /\ \A r : r \notin {p, q} =>
               /\ (r \in late' <=> r \in late) /\ (r \in unheard' <=> r \in unheard)
               /\ (r \in replaced' <=> r \in replaced) /\ (r \in struck' <=> r \in struck)
      BY <3>1, SettleFacts
    <3>. QED BY <3>2
  <2>6. q \notin edited /\ (p \in edited => q \in edited') /\ p \notin edited'
        /\ edited' \subseteq Paths \ outside
        /\ \A r \in Paths : r \notin {p, q} => (r \in edited' <=> r \in edited)
    BY <1>1, <1>2, <2>1, <2>2 DEF BrowserInv
  <2>7. have[p] \in known'[q] \/ q \in edited'
    BY <1>1, <2>2, <2>4, <2>6 DEF BrowserInv
  <2>8. Known(p)'
    BY <1>3, <2>3, <2>5 DEF Known
  <2>9. Known(q)'
    BY <1>3, <2>3, <2>5, <2>7 DEF Known
  <2>10. \A r \in Paths : Known(r) => Known(r)'
    <3>1. ASSUME NEW r \in Paths, r \notin {p, q}, Known(r) PROVE Known(r)'
      <4>1. /\ have'[r] = have[r] /\ known[r] \subseteq known'[r] /\ srv' = srv
            /\ (r \in edited' <=> r \in edited)
            /\ (r \in late' <=> r \in late) /\ (r \in replaced' <=> r \in replaced)
            /\ (r \in struck' <=> r \in struck)
        BY <1>3, <2>3, <2>4, <2>5, <2>6, <3>1
      <4>. QED BY <3>1, <4>1 DEF Known
    <3>. QED BY <2>8, <2>9, <3>1
  <2>11. BrowserInv'
    <3>1. ASSUME NEW r \in Paths PROVE have'[r] = 0 \/ r \in edited' \/ have'[r] \in known'[r]
      <4>1. CASE r \in {p, q}
        BY <2>3, <2>7, <4>1
      <4>2. CASE r \notin {p, q}
        <5>1. have'[r] = have[r] /\ known[r] \subseteq known'[r] /\ (r \in edited => r \in edited')
          BY <2>3, <2>4, <2>6, <4>2
        <5>. QED BY <5>1 DEF BrowserInv
      <4>. QED BY <4>1, <4>2
    <3>2. ASSUME NEW r \in edited' PROVE have'[r] # 0
      <4>1. r # p /\ r \in Paths
        BY <2>6
      <4>2. CASE r = q
        BY <2>2, <2>3, <4>2
      <4>3. CASE r # q
        BY <2>3, <2>6, <4>1, <4>3 DEF BrowserInv
      <4>. QED BY <4>2, <4>3
    <3>. QED BY <3>1, <3>2 DEF BrowserInv
  <2>12. \E w \in (0..writes) \cup {None} : toServer' = toServer (+) One(Message("patch", m.entry, w))
    BY <2>1, <2>2 DEF Reply
  <2>13. \A r \in Touched(m.entry) : have'[r] = srv[r] \/ r \in late' \/ r \in edited'
    BY <1>1, <2>5
  <2>14. \A r \in Paths \ Touched(m.entry) : r \notin {p, q}
    BY <1>1
  <2>15. /\ m \in DOMAIN toBrowser /\ m \in Requests /\ m.kind = "rename"
         /\ m.entry.path \notin outside /\ toBrowser' = toBrowser (-) One(m) /\ Known(m.entry.path)'
    BY <1>1, <2>9 DEF q
  <2>. QED BY <1>3, <2>3, <2>4, <2>5, <2>6, <2>10, <2>11, <2>12, <2>13, <2>14, <2>15 DEF Applies
<1>. QED BY <1>4, <1>5

LEMMA ApplyTypes ==
  ASSUME TypeInv, NEW m, Applies(m)
  PROVE  TypeInv'
<1>1. writes \in Nat /\ writes <= writes /\ outside' = outside /\ writes' = writes
  BY DEF TypeInv, FileTypes, Applies
<1>2. FileTypes' /\ OwnTypes'
  BY DEF TypeInv, FileTypes, OwnTypes, Applies
<1>3. OtherTypes'
  BY <1>1, OthersStay DEF Applies
<1>4. SessionTypes'
  BY <1>1, SessionStays DEF Applies, TypeInv, SessionTypes
<1>5. WireTypes'
  <2>1. DOMAIN toBrowser' \subseteq DOMAIN toBrowser
    BY BagTake DEF Applies
  <2>2. PICK v \in (0..writes) \cup {None} : toServer' = toServer (+) One(Message("patch", m.entry, v))
    BY DEF Applies
  <2>3. DOMAIN toServer' = DOMAIN toServer \cup {Message("patch", m.entry, v)}
    BY <2>2, BagAddOne
  <2>4. m.entry \in Legal /\ m.entry.path \notin outside
    BY DEF Applies, Requests
  <2>5. Message("patch", m.entry, v) \in Answers
    BY <1>1, <2>4, NewAnswer
  <2>6. /\ Legal' = Legal /\ Forced' = Forced
        /\ Requests \subseteq Requests' /\ Orders' = Orders
        /\ Answers \subseteq Answers' /\ Wishes' = Wishes
    BY <1>1, MessagesStay
  <2>7. lists' = lists
    BY DEF Applies
  <2>. QED BY <2>1, <2>3, <2>5, <2>6, <2>7 DEF TypeInv, WireTypes
<1>. QED BY <1>2, <1>3, <1>4, <1>5 DEF TypeInv

LEMMA SameWrites ==
  ASSUME TypeInv, writes' = writes
  PROVE  writes' \in Nat /\ writes <= writes'
BY DEF TypeInv, FileTypes

LEMMA PossibleFacts ==
  ASSUME NEW e \in Possible,
         e.type = "rename" => e.old # e.path /\ (e.old \in outside <=> e.path \in outside)
  PROVE  e \in Legal /\ (IF e.type = "rename" THEN e.old ELSE e.path) \in Paths
<1>1. CASE \E p \in Paths : e = Entry(p, "create", None) \/ e = Entry(p, "delete", None)
  BY <1>1, PathsAssumption DEF Entry, Legal, Entries, Types
<1>2. CASE \E p \in Paths, q \in Paths : e = Entry(q, "rename", p)
  BY <1>2, PathsAssumption DEF Entry, Legal, Entries, Types
<1>3. \/ \E p \in Paths : e = Entry(p, "create", None) \/ e = Entry(p, "delete", None)
      \/ \E p \in Paths, q \in Paths : e = Entry(q, "rename", p)
  BY DEF Possible
<1>. QED BY <1>1, <1>2, <1>3

LEMMA OtherLocksTypes ==
  ASSUME TypeInv, OtherLocks
  PROVE  TypeInv'
<1>1. writes' \in Nat /\ writes <= writes' /\ outside' = outside /\ writes' = writes
  BY SameWrites DEF OtherLocks, browser
<1>2. PICK e \in Possible : LET p == IF e.type = "rename" THEN e.old ELSE e.path IN
        /\ e.type = "rename" => e.old # e.path /\ (e.old \in outside <=> e.path \in outside)
        /\ lock' = [lock EXCEPT ![p] = "other"]
        /\ other' = [pc |-> "locked", entry |-> e]
  BY DEF OtherLocks
<1>3. e \in Legal /\ (IF e.type = "rename" THEN e.old ELSE e.path) \in Paths
  BY <1>2, PossibleFacts
<1>4. FileTypes'
  BY <1>1, <1>2, <1>3 DEF OtherLocks, TypeInv, FileTypes, browser, history
<1>5. SessionTypes' /\ WireTypes'
  BY <1>1, SessionStays, WireStays DEF OtherLocks, sess, wire, lists_, TypeInv, SessionTypes
<1>6. OtherTypes'
  BY <1>1, <1>2, <1>3, MessagesStay DEF OtherTypes
<1>7. OwnTypes'
  BY <1>1 DEF OtherLocks, TypeInv, OwnTypes
<1>. QED BY <1>4, <1>5, <1>6, <1>7 DEF TypeInv

\* What an upstream sync of another browser may write.
LEMMA OtherFacts ==
  ASSUME TypeInv, other.pc \in {"locked", "patched", "released"}
  PROVE  other.entry \in Legal /\ other \in [pc : {"locked", "patched", "released"}, entry : Legal]
BY DEF TypeInv, OtherTypes, Idle

LEMMA OtherPatchesFacts ==
  ASSUME TypeInv, OtherPatches
  PROVE  /\ other.entry \in Legal /\ other.pc = "locked"
         /\ other'.pc = "patched" /\ other'.entry = [other.entry EXCEPT !.no = writes + 1]
         /\ other'.entry \in Legal /\ Touched(other'.entry) = Touched(other.entry)
         /\ other'.entry.path = other.entry.path /\ other'.entry.no = writes + 1
         /\ writes' = writes + 1 /\ writes \in Nat
         /\ srv' \in [Paths -> 0..writes']
         /\ \A p \in Paths \ Touched(other.entry) : srv'[p] = srv[p]
         /\ told' = told \ Touched(other.entry)
         /\ own.path \in Touched(other.entry) => ~own'.knew
         /\ own' \in [pc : {"idle", "asked", "locking", "locked"}, path : Paths \cup {None},
                      knew : BOOLEAN]
         /\ own'.pc = own.pc /\ own'.path = own.path
         /\ own.path \notin Touched(other.entry) => own' = own
<1>. DEFINE e == other.entry
<1>1. e \in Legal /\ other.pc = "locked"
  BY OtherFacts DEF OtherPatches
<1>2. /\ other' = [pc |-> "patched", entry |-> [other.entry EXCEPT !.no = writes']]
      /\ writes' = writes + 1 /\ told' = told \ Touched(e)
      /\ own' = IF own.path \in Touched(e) THEN [own EXCEPT !.knew = FALSE] ELSE own
      /\ srv' = CASE e.type = "create" -> [srv EXCEPT ![e.path] = writes']
                  [] e.type = "delete" -> [srv EXCEPT ![e.path] = 0]
                  [] e.type = "rename" -> [srv EXCEPT ![e.path] = srv[e.old], ![e.old] = 0]
  BY DEF OtherPatches
<1>3. writes \in Nat /\ srv \in [Paths -> 0..writes] /\ own \in [pc : {"idle", "asked", "locking", "locked"},
        path : Paths \cup {None}, knew : BOOLEAN]
  BY DEF TypeInv, FileTypes, OwnTypes
<1>4. writes' \in Nat /\ writes' # 0 /\ writes' \in 0..writes' /\ 0 \in 0..writes' /\ 0..writes \subseteq 0..writes'
  BY <1>2, <1>3
<1>5. /\ e.path \in Paths /\ e.type \in {"create", "delete", "rename"}
      /\ e.path \in Touched(e) /\ Touched(e) \subseteq Paths
      /\ e.type = "rename" => e.old \in Paths /\ e.old \in Touched(e)
  BY <1>1, LegalFacts DEF Types
<1>6. /\ other'.pc = "patched" /\ other'.entry = [e EXCEPT !.no = writes + 1]
  BY <1>2
<1>. DEFINE d == [e EXCEPT !.no = writes + 1]
<1>. HIDE DEF e
<1>7. /\ d \in Entries /\ d.path = e.path /\ d.old = e.old /\ d.type = e.type /\ d.no = writes + 1
  <2>1. e \in Entries
    BY <1>1 DEF Legal
  <2>2. writes + 1 \in Nat
    BY <1>3
  <2>. QED BY <2>1, <2>2 DEF Entries
<1>. HIDE DEF d
<1>8. d \in Legal /\ Touched(d) = Touched(e)
  BY <1>1, <1>7 DEF Legal, Touched
<1>9. srv \in [Paths -> 0..writes'] /\ \A p \in Paths : srv[p] \in 0..writes'
  BY <1>3, <1>4
<1>10. srv' \in [Paths -> 0..writes'] /\ \A p \in Paths \ Touched(e) : srv'[p] = srv[p]
  <2>1. CASE e.type = "create"
    BY <1>2, <1>4, <1>5, <1>9, <2>1
  <2>2. CASE e.type = "delete"
    BY <1>2, <1>4, <1>5, <1>9, <2>2
  <2>3. CASE e.type = "rename"
    BY <1>2, <1>4, <1>5, <1>9, <2>3
  <2>. QED BY <1>5, <2>1, <2>2, <2>3
<1>11. CASE own.path \in Touched(e)
  <2>1. own' = [own EXCEPT !.knew = FALSE]
    BY <1>2, <1>11
  <2>. QED BY <1>1, <1>2, <1>3, <1>6, <1>7, <1>8, <1>10, <1>11, <2>1 DEF d, e
<1>12. CASE own.path \notin Touched(e)
  <2>1. own' = own
    BY <1>2, <1>12
  <2>. QED BY <1>1, <1>2, <1>3, <1>6, <1>7, <1>8, <1>10, <1>12, <2>1 DEF d, e
<1>. QED BY <1>11, <1>12

LEMMA OtherPatchesTypes ==
  ASSUME TypeInv, OtherPatches
  PROVE  TypeInv'
<1>1. writes' \in Nat /\ writes <= writes' /\ outside' = outside /\ writes' = writes + 1 /\ writes \in Nat
  BY OtherPatchesFacts DEF OtherPatches, browser
<1>2. 0..writes \subseteq 0..writes'
  BY <1>1
<1>3. FileTypes'
  <2>1. srv' \in [Paths -> 0..writes']
    BY OtherPatchesFacts
  <2>2. UNCHANGED <<have, known, lock, edited, outside>>
    BY DEF OtherPatches, browser, history
  <2>. QED BY <1>1, <1>2, <2>1, <2>2 DEF TypeInv, FileTypes
<1>4. SessionTypes' /\ WireTypes'
  <2>1. told' \subseteq Paths
    BY OtherPatchesFacts DEF TypeInv, SessionTypes
  <2>. QED BY <1>1, <2>1, SessionStays, WireStays DEF OtherPatches, wire, lists_, TypeInv, SessionTypes
<1>5. OtherTypes'
  <2>1. other'.entry \in Legal /\ other' = [pc |-> "patched", entry |-> other'.entry]
    BY OtherPatchesFacts DEF OtherPatches
  <2>2. Legal' = Legal
    BY <1>1, MessagesStay
  <2>. QED BY <2>1, <2>2 DEF OtherTypes
<1>6. OwnTypes'
  BY <1>1, OtherPatchesFacts DEF TypeInv, OwnTypes
<1>. QED BY <1>3, <1>4, <1>5, <1>6 DEF TypeInv

LEMMA UnlockType ==
  ASSUME lock \in [Paths -> {None, "own", "other"}], Unlock
  PROVE  lock' \in [Paths -> {None, "own", "other"}]
BY DEF Unlock

LEMMA OtherEndsTypes ==
  ASSUME TypeInv, OtherFails \/ OtherReleases \/ OtherDies
  PROVE  TypeInv'
<1>1. writes' \in Nat /\ writes <= writes' /\ outside' = outside /\ writes' = writes
  BY SameWrites DEF OtherFails, OtherReleases, OtherDies, browser, files
<1>2. UNCHANGED <<srv, have, known, edited, outside, own, sess, wire>>
  BY DEF OtherFails, OtherReleases, OtherDies, browser, files, history
<1>3. lock' \in [Paths -> {None, "own", "other"}]
  BY UnlockType DEF OtherFails, OtherReleases, OtherDies, files, TypeInv, FileTypes
<1>4. FileTypes' /\ OwnTypes'
  BY <1>1, <1>2, <1>3 DEF TypeInv, FileTypes, OwnTypes
<1>5. SessionTypes' /\ WireTypes'
  BY <1>1, <1>2, SessionStays, WireStays DEF sess, wire, lists_, TypeInv, SessionTypes
<1>6. OtherTypes'
  <2>1. CASE OtherReleases
    <3>1. other' = [other EXCEPT !.pc = "released"] /\ other.pc = "patched"
      BY <2>1 DEF OtherReleases
    <3>2. other \in [pc : {"locked", "patched", "released"}, entry : Legal]
      BY <3>1, OtherFacts
    <3>3. other' \in [pc : {"locked", "patched", "released"}, entry : Legal]
      BY <3>1, <3>2
    <3>. QED BY <1>1, <3>3, MessagesStay DEF OtherTypes
  <2>2. CASE OtherFails \/ OtherDies
    BY <2>2 DEF OtherFails, OtherDies, OtherTypes, Idle
  <2>. QED BY <2>1, <2>2
<1>. QED BY <1>4, <1>5, <1>6 DEF TypeInv

\* What the lists and the messages are after several entries are sent.
LEMMA SendTypes ==
  ASSUME TypeInv, outside' = outside, writes' = writes,
         NEW q \in Seq(Legal), NEW current \in [Paths -> Nat], SendSourceLists(q, current),
         toServer' = toServer
  PROVE  currentDownstream' \in [Paths -> Nat] /\ WireTypes'
<1>1. /\ currentDownstream' \in [Paths -> Nat]
      /\ \A m \in DOMAIN toBrowser' : m \in DOMAIN toBrowser \/
              \E i \in DOMAIN q : AtOnce(q[i]) /\ m = Message(q[i].type, q[i], 0)
      /\ \A e \in DOMAIN lists' : e \in DOMAIN lists \/
              \E i \in DOMAIN q : ~AtOnce(q[i]) /\ e = q[i]
  BY SendFacts
<1>2. \A i \in DOMAIN q : q[i] \in Legal
  OBVIOUS
<1>3. writes \in Nat /\ 0 \in 0..writes
  BY DEF TypeInv, FileTypes
<1>4. ASSUME NEW i \in DOMAIN q, AtOnce(q[i]) PROVE Message(q[i].type, q[i], 0) \in Requests
  BY <1>2, <1>3, <1>4, NewRequest
<1>5. ASSUME NEW i \in DOMAIN q, ~AtOnce(q[i]) PROVE q[i].type = "create"
  BY <1>2, <1>5, LegalFacts DEF AtOnce, Types
<1>6. /\ Legal' = Legal /\ Forced' = Forced
      /\ Requests \subseteq Requests' /\ Orders' = Orders
      /\ Answers \subseteq Answers' /\ Wishes' = Wishes
  BY <1>3, MessagesStay, SameWrites
<1>7. DOMAIN lists' \subseteq {e \in Legal : e.type = "create"} \cup Forced
  BY <1>1, <1>2, <1>5 DEF TypeInv, WireTypes
<1>8. DOMAIN toBrowser' \subseteq Requests \cup Orders
  BY <1>1, <1>4 DEF TypeInv, WireTypes
<1>. QED BY <1>1, <1>6, <1>7, <1>8 DEF TypeInv, WireTypes

LEMMA OtherPublishesTypes ==
  ASSUME TypeInv, OtherPublishes
  PROVE  TypeInv'
<1>1. writes' \in Nat /\ writes <= writes' /\ outside' = outside /\ writes' = writes
  BY SameWrites DEF OtherPublishes, browser, files
<1>2. UNCHANGED <<srv, have, known, edited, outside, own, lock, toServer>> /\ other.entry \in Legal
      /\ other' = Idle
  BY OtherFacts DEF OtherPublishes, browser, files
<1>3. FileTypes' /\ OwnTypes'
  BY <1>1, <1>2 DEF TypeInv, FileTypes, OwnTypes
<1>4. OtherTypes'
  BY <1>2 DEF OtherTypes, Idle
<1>5. CASE session = "off"
  <2>1. UNCHANGED <<sess, toBrowser>>
    BY <1>5 DEF OtherPublishes
  <2>2. SessionTypes' /\ WireTypes'
    BY <1>1, <1>2, <2>1, SessionStays, WireStays DEF sess, lists_, TypeInv, SessionTypes
  <2>. QED BY <1>3, <1>4, <2>2 DEF TypeInv
<1>6. CASE session # "off"
  <2>1. /\ outOfDate' = Append(outOfDate, other.entry) /\ told' = told \cup {other.entry.path}
        /\ SendSourceLists(outOfDate', currentDownstream) /\ UNCHANGED <<session, found>>
    BY <1>6 DEF OtherPublishes
  <2>2. outOfDate' \in Seq(Legal) /\ told' \subseteq Paths
    BY <1>2, <2>1, LegalFacts, AppendFacts DEF TypeInv, SessionTypes
  <2>3. currentDownstream' \in [Paths -> Nat] /\ WireTypes'
    <3>1. currentDownstream \in [Paths -> Nat]
      BY DEF TypeInv, SessionTypes
    <3>. QED BY <1>1, <1>2, <2>1, <2>2, <3>1, SendTypes
  <2>4. SessionTypes'
    BY <1>1, <2>1, <2>2, <2>3, MessagesStay DEF TypeInv, SessionTypes
  <2>. QED BY <1>3, <1>4, <2>3, <2>4 DEF TypeInv
<1>. QED BY <1>5, <1>6

\* The listing has one entry of each path that was found.
LEMMA ListingFacts ==
  ASSUME TypeInv, HandleFullDownstream, found # {}
  PROVE  /\ outOfDate' \in Seq(Legal) /\ SendSourceLists(outOfDate', NoneCurrent)
         /\ replaced' = replaced \cup Listed
         /\ \A i \in DOMAIN outOfDate' : /\ outOfDate'[i].path \in found
                                         /\ outOfDate'[i] = Entry(outOfDate'[i].path, "create", None)
         /\ \A p \in found : \E i \in DOMAIN outOfDate' : outOfDate'[i].path = p
         /\ \A i, j \in DOMAIN outOfDate' : outOfDate'[i] = outOfDate'[j] => i = j
<1>1. PICK order \in [1..Cardinality(found) -> found] :
        /\ Range(order) = found
        /\ outOfDate' = [i \in DOMAIN order |-> Entry(order[i], "create", None)]
  BY DEF HandleFullDownstream
<1>2. SendSourceLists(outOfDate', NoneCurrent) /\ replaced' = replaced \cup Listed
  BY DEF HandleFullDownstream
<1>3. found \in SUBSET Paths
  BY DEF TypeInv, SessionTypes
<1>4. IsFiniteSet(found) /\ Cardinality(found) \in Nat
  BY <1>3, PathsAssumption, FS_Subset, FS_CardinalityType
<1>. DEFINE n == Cardinality(found)
<1>5. IsFiniteSet(1..n) /\ Cardinality(1..n) = n
  <2>1. n \in Nat /\ 1 \in Int /\ n \in Int
    BY <1>4
  <2>. HIDE DEF n
  <2>2. /\ IsFiniteSet(1..n) /\ Cardinality(1..n) = IF 1 > n THEN 0 ELSE n - 1 + 1
    BY <2>1, FS_Interval
  <2>3. (1 > n => n = 0) /\ (~(1 > n) => n - 1 + 1 = n)
    BY <2>1
  <2>. QED BY <2>2, <2>3
<1>6. n \in Nat /\ order \in [1..n -> found] /\ DOMAIN order = 1..n
  BY <1>1, <1>4
<1>7. \A p \in found : \E i \in 1..n : order[i] = p
  BY <1>1, <1>6 DEF Range
<1>8. \A i, j \in 1..n : order[i] = order[j] => i = j
  <2>1. order \in Surjection(1..n, found)
    BY <1>6, <1>7 DEF Surjection
  <2>2. Cardinality(1..n) = Cardinality(found)
    BY <1>5 DEF n
  <2>. HIDE DEF n
  <2>3. order \in Injection(1..n, found)
    BY <1>5, <2>1, <2>2, FS_SurjSameCardinalityImpliesInj
  <2>. QED BY <2>3 DEF Injection, IsInjective
<1>9. \A p \in found : /\ Entry(p, "create", None) \in Legal /\ Entry(p, "create", None).path = p
  BY <1>3, PathsAssumption DEF Legal, Entries, Types, Entry
<1>. HIDE DEF n
<1>10. outOfDate' = [i \in 1..n |-> Entry(order[i], "create", None)]
  BY <1>1, <1>6
<1>11. outOfDate' \in Seq(Legal) /\ DOMAIN outOfDate' = 1..n
  <2>1. \A i \in 1..n : Entry(order[i], "create", None) \in Legal
    BY <1>6, <1>9
  <2>. DEFINE d(i) == Entry(order[i], "create", None)
  <2>2. outOfDate' = [i \in 1..n |-> d(i)] /\ \A i \in 1..n : d(i) \in Legal
    BY <1>10, <2>1
  <2>. HIDE DEF d
  <2>3. outOfDate' \in [1..n -> Legal]
    BY <2>2
  <2>4. \A f \in [1..n -> Legal] : f \in Seq(Legal) /\ DOMAIN f = 1..n
    BY <1>6
  <2>. QED BY <2>3, <2>4
<1>12. \A i \in 1..n : /\ order[i] \in found /\ outOfDate'[i] = Entry(order[i], "create", None)
                       /\ outOfDate'[i].path = order[i]
  BY <1>6, <1>9, <1>10
<1>13. \A p \in found : \E i \in 1..n : outOfDate'[i].path = p
  BY <1>7, <1>12
<1>14. \A i, j \in 1..n : outOfDate'[i] = outOfDate'[j] => i = j
  BY <1>8, <1>12
<1>15. \A i \in 1..n : /\ outOfDate'[i].path \in found
                       /\ outOfDate'[i] = Entry(outOfDate'[i].path, "create", None)
  BY <1>12
<1>. QED BY <1>2, <1>11, <1>13, <1>14, <1>15

LEMMA HandleFullDownstreamTypes ==
  ASSUME TypeInv, HandleFullDownstream
  PROVE  TypeInv'
<1>1. writes' \in Nat /\ writes <= writes' /\ outside' = outside /\ writes' = writes
  BY SameWrites DEF HandleFullDownstream, browser, files
<1>2. UNCHANGED <<srv, have, known, edited, outside, own, lock, toServer, other>>
      /\ session' = "on" /\ found' = {} /\ told' = told \cup found
  BY DEF HandleFullDownstream, browser, files
<1>3. FileTypes' /\ OwnTypes'
  BY <1>1, <1>2 DEF TypeInv, FileTypes, OwnTypes
<1>4. OtherTypes'
  BY <1>1, <1>2, OthersStay
<1>5. told' \subseteq Paths
  BY <1>2 DEF TypeInv, SessionTypes
<1>6. CASE found = {}
  <2>1. UNCHANGED <<lists_, lists, toBrowser>>
    BY <1>6 DEF HandleFullDownstream
  <2>2. SessionTypes' /\ WireTypes'
    BY <1>1, <1>2, <1>5, <1>6, <2>1, SessionStays, WireStays DEF lists_
  <2>. QED BY <1>3, <1>4, <2>2 DEF TypeInv
<1>7. CASE found # {}
  <2>1. outOfDate' \in Seq(Legal) /\ SendSourceLists(outOfDate', NoneCurrent)
    BY <1>7, ListingFacts
  <2>2. NoneCurrent \in [Paths -> Nat]
    BY DEF NoneCurrent
  <2>3. currentDownstream' \in [Paths -> Nat] /\ WireTypes'
    BY <1>1, <1>2, <2>1, <2>2, SendTypes
  <2>4. SessionTypes'
    BY <1>1, <1>2, <1>5, <2>1, <2>3, MessagesStay DEF SessionTypes
  <2>. QED BY <1>3, <1>4, <2>3, <2>4 DEF TypeInv
<1>. QED BY <1>6, <1>7

LEMMA BeginTypes ==
  ASSUME TypeInv, Connect \/ GetListOfSyncs
  PROVE  TypeInv'
<1>1. writes' \in Nat /\ writes <= writes' /\ outside' = outside /\ writes' = writes
  BY SameWrites DEF Connect, GetListOfSyncs, browser, files
<1>2. FileTypes' /\ OwnTypes'
  BY <1>1 DEF Connect, GetListOfSyncs, browser, files, history, TypeInv, FileTypes, OwnTypes
<1>3. OtherTypes'
  BY <1>1, OthersStay DEF Connect, GetListOfSyncs
<1>4. WireTypes'
  BY <1>1, WireStays DEF Connect, GetListOfSyncs, wire
<1>5. SessionTypes'
  <2>1. /\ session' \in {"off", "reading", "read", "on"} /\ found' \subseteq Paths
        /\ UNCHANGED <<outOfDate, currentDownstream, told>>
    BY DEF Connect, GetListOfSyncs, TypeInv, SessionTypes, lists_
  <2>. QED BY <1>1, <2>1, MessagesStay DEF TypeInv, SessionTypes
<1>. QED BY <1>2, <1>3, <1>4, <1>5 DEF TypeInv

LEMMA DisconnectTypes ==
  ASSUME TypeInv, Disconnect
  PROVE  TypeInv'
<1>1. writes' \in Nat /\ writes <= writes' /\ outside' = outside /\ writes' = writes
  BY SameWrites DEF Disconnect, browser
<1>2. lock' \in [Paths -> {None, "own", "other"}]
  BY DEF Disconnect, TypeInv, FileTypes
<1>3. UNCHANGED <<srv, have, edited, known, other>> /\ own' = Calm
  BY DEF Disconnect, browser
<1>4. FileTypes'
  BY <1>1, <1>2, <1>3 DEF TypeInv, FileTypes
<1>5. OwnTypes'
  BY <1>3 DEF OwnTypes, Calm
<1>6. OtherTypes'
  BY <1>1, <1>3, OthersStay
<1>7. WireTypes'
  BY BagNone DEF Disconnect, WireTypes
<1>8. SessionTypes'
  BY EmptySeq DEF Disconnect, SessionTypes, NoneCurrent
<1>. QED BY <1>4, <1>5, <1>6, <1>7, <1>8 DEF TypeInv

LEMMA EditTypes ==
  ASSUME TypeInv, BrowserInv, NEW p \in Paths, Edit(p)
  PROVE  TypeInv' /\ BrowserInv'
<1>1. writes \in Nat /\ writes' = writes + 1 /\ have \in [Paths -> 0..writes]
  BY DEF Edit, TypeInv, FileTypes
<1>2. /\ writes' \in Nat /\ writes <= writes' /\ outside' = outside /\ 0..writes \subseteq 0..writes'
      /\ writes' # 0 /\ writes' \in 0..writes'
  BY <1>1 DEF Edit
<1>3. have' = [have EXCEPT ![p] = writes'] /\ edited' = edited \cup {p} /\ p \notin outside
      /\ UNCHANGED <<srv, lock, other, outside, sess, wire, own, known>>
  BY DEF Edit, history
<1>4. have' \in [Paths -> 0..writes'] /\ have'[p] = writes' /\ \A q \in Paths : q # p => have'[q] = have[q]
  BY <1>1, <1>2, <1>3
<1>5. FileTypes'
  BY <1>2, <1>3, <1>4 DEF TypeInv, FileTypes
<1>6. OwnTypes'
  BY <1>3 DEF TypeInv, OwnTypes
<1>7. OtherTypes' /\ WireTypes'
  BY <1>2, <1>3, OthersStay, WireStays DEF wire, sess
<1>8. SessionTypes'
  BY <1>2, <1>3, SessionStays DEF sess, lists_, TypeInv, SessionTypes
<1>9. BrowserInv'
  <2>1. edited \subseteq Paths
    BY DEF TypeInv, FileTypes
  <2>. QED BY <1>2, <1>3, <1>4, <2>1 DEF BrowserInv
<1>. QED BY <1>5, <1>6, <1>7, <1>8, <1>9 DEF TypeInv

LEMMA AskTypes ==
  ASSUME TypeInv, NEW p \in Paths, Ask(p)
  PROVE  TypeInv'
<1>1. writes' \in Nat /\ writes <= writes' /\ outside' = outside /\ writes' = writes
  BY SameWrites DEF Ask, browser, files
<1>2. p \in Paths \ outside /\ own' = [own EXCEPT !.pc = "asked", !.path = p]
  BY DEF Ask, TypeInv, FileTypes
<1>3. FileTypes'
  BY <1>1 DEF Ask, browser, files, history, TypeInv, FileTypes
<1>4. OwnTypes'
  BY <1>1, <1>2 DEF TypeInv, OwnTypes
<1>5. OtherTypes' /\ SessionTypes'
  BY <1>1, OthersStay, SessionStays DEF Ask, sess, lists_, TypeInv, SessionTypes
<1>6. WireTypes'
  <2>. DEFINE w == Message("sync", Entry(p, "create", None), 0)
  <2>1. w \in Wishes
    BY <1>2 DEF Wishes, Asks, Message
  <2>2. toServer' = toServer (+) One(w) /\ lists' = lists /\ toBrowser' = toBrowser
    BY DEF Ask, sess
  <2>. HIDE DEF w
  <2>3. DOMAIN toServer' = DOMAIN toServer \cup {w}
    BY <2>2, BagAddOne
  <2>4. /\ Legal' = Legal /\ Forced' = Forced
        /\ Requests \subseteq Requests' /\ Orders' = Orders
        /\ Answers \subseteq Answers' /\ Wishes' = Wishes
    BY <1>1, MessagesStay
  <2>. QED BY <2>1, <2>2, <2>3, <2>4 DEF TypeInv, WireTypes
<1>. QED BY <1>3, <1>4, <1>5, <1>6 DEF TypeInv

LEMMA SyncInitFacts ==
  ASSUME TypeInv, NEW m, HandleSyncInitRequest(m)
  PROVE  /\ m \in DOMAIN toServer /\ m \in Wishes /\ m.entry.path \in Paths \ outside
         /\ DOMAIN toServer' \subseteq DOMAIN toServer
         /\ \A e \in DOMAIN lists' : e \in DOMAIN lists \/ e \in Forced
         /\ m.entry.path \in PathsIn(outOfDate) => own' = Calm
         /\ m.entry.path \notin PathsIn(outOfDate) =>
              own' = [pc |-> "locking", path |-> m.entry.path, knew |-> m.entry.path \in told]
<1>1. /\ m \in DOMAIN toServer /\ m.kind = "sync" /\ DOMAIN toServer' \subseteq DOMAIN toServer
      /\ m \in Answers \cup Wishes
  BY BagTake DEF HandleSyncInitRequest, Got, BagIn, BagToSet, TypeInv, WireTypes
<1>2. m \in Wishes /\ m.entry \in Asks
  BY <1>1, AnswerFacts
<1>3. m.entry.path \in Paths \ outside
  BY <1>2 DEF Asks, Entry
<1>4. CASE m.entry.path \in PathsIn(outOfDate)
  <2>1. own' = Calm /\ lists' = lists (+) One(Entry(m.entry.path, "forced", None))
    BY <1>4 DEF HandleSyncInitRequest
  <2>2. DOMAIN lists' = DOMAIN lists \cup {Entry(m.entry.path, "forced", None)}
    BY <2>1, BagAddOne
  <2>. QED BY <1>1, <1>2, <1>3, <1>4, <2>1, <2>2, ForcedFacts
<1>5. CASE m.entry.path \notin PathsIn(outOfDate)
  BY <1>1, <1>2, <1>3, <1>5 DEF HandleSyncInitRequest
<1>. QED BY <1>4, <1>5

LEMMA SyncInitTypes ==
  ASSUME TypeInv, NEW m, HandleSyncInitRequest(m)
  PROVE  TypeInv'
<1>1. writes' \in Nat /\ writes <= writes' /\ outside' = outside /\ writes' = writes
  BY SameWrites DEF HandleSyncInitRequest, browser, files
<1>2. FileTypes'
  BY <1>1 DEF HandleSyncInitRequest, browser, files, history, TypeInv, FileTypes
<1>3. OtherTypes' /\ SessionTypes'
  BY <1>1, OthersStay, SessionStays DEF HandleSyncInitRequest, lists_, TypeInv, SessionTypes
<1>4. OwnTypes'
  <2>1. CASE own' = Calm
    BY <2>1 DEF OwnTypes, Calm
  <2>2. CASE own' = [pc |-> "locking", path |-> m.entry.path, knew |-> m.entry.path \in told]
    <3>1. m.entry.path \in Paths \ outside /\ (m.entry.path \in told) \in BOOLEAN
      BY SyncInitFacts
    <3>2. own'.pc = "locking" /\ own'.path = m.entry.path
      BY <2>2
    <3>3. own' \in [pc : {"idle", "asked", "locking", "locked"}, path : Paths \cup {None}, knew : BOOLEAN]
      BY <2>2, <3>1, Zenon
    <3>. QED BY <1>1, <3>1, <3>2, <3>3 DEF OwnTypes
  <2>. QED BY <2>1, <2>2, SyncInitFacts
<1>5. WireTypes'
  <2>1. /\ Legal' = Legal /\ Forced' = Forced
        /\ Requests \subseteq Requests' /\ Orders' = Orders
        /\ Answers \subseteq Answers' /\ Wishes' = Wishes
    BY <1>1, MessagesStay
  <2>2. /\ DOMAIN toServer' \subseteq DOMAIN toServer /\ toBrowser' = toBrowser
        /\ \A e \in DOMAIN lists' : e \in DOMAIN lists \/ e \in Forced
    BY SyncInitFacts DEF HandleSyncInitRequest
  <2>. QED BY <2>1, <2>2 DEF TypeInv, WireTypes
<1>. QED BY <1>2, <1>3, <1>4, <1>5 DEF TypeInv

LEMMA OwnTypesStay ==
  ASSUME TypeInv, BrowserInv, OwnLocks \/ OwnPatches \/ OwnDenied \/ OwnFails
  PROVE  TypeInv' /\ BrowserInv'
<1>1. writes' \in Nat /\ writes <= writes' /\ outside' = outside /\ writes' = writes
      /\ UNCHANGED <<have, other, wire, lists, found, outOfDate, currentDownstream, session>>
  BY SameWrites DEF OwnLocks, OwnPatches, OwnDenied, OwnFails, browser, files, sess, lists_
<1>2. own.path \in Paths \ outside
  BY DEF TypeInv, OwnTypes, OwnLocks, OwnPatches, OwnDenied, OwnFails
<1>3. /\ srv \in [Paths -> 0..writes] /\ have \in [Paths -> 0..writes]
      /\ known \in [Paths -> SUBSET (0..writes)] /\ edited \subseteq Paths \ outside
      /\ lock \in [Paths -> {None, "own", "other"}]
  BY DEF TypeInv, FileTypes
<1>4. lock' \in [Paths -> {None, "own", "other"}]
  BY <1>2, <1>3 DEF OwnLocks, OwnPatches, OwnDenied, OwnFails, files
<1>5. /\ srv' \in [Paths -> 0..writes] /\ known' \in [Paths -> SUBSET (0..writes)]
      /\ \A p \in Paths : known[p] \subseteq known'[p] /\ (p # own.path => known'[p] = known[p])
      /\ \/ edited' = edited
         \/ /\ edited' = edited \ {own.path}
            /\ have[own.path] = 0 \/ have[own.path] \in known'[own.path]
  <2>1. CASE OwnLocks \/ OwnDenied \/ OwnFails
    <3>1. UNCHANGED <<srv, known, edited>>
      BY <2>1 DEF OwnLocks, OwnDenied, OwnFails, files, browser, history
    <3>. QED BY <1>3, <3>1
  <2>2. CASE OwnPatches
    <3>1. edited' = edited \ {own.path}
      BY <2>2 DEF OwnPatches
    <3>2. CASE have[own.path] = 0
      BY <1>3, <2>2, <3>1, <3>2 DEF OwnPatches
    <3>3. CASE have[own.path] # 0
      <4>1. /\ srv' = [srv EXCEPT ![own.path] = have[own.path]]
            /\ known' = [known EXCEPT ![own.path] = @ \cup {have[own.path]}]
        BY <2>2, <3>3 DEF OwnPatches
      <4>. QED BY <1>2, <1>3, <3>1, <4>1
    <3>. QED BY <3>2, <3>3
  <2>. QED BY <2>1, <2>2
<1>6. FileTypes'
  BY <1>1, <1>3, <1>4, <1>5 DEF TypeInv, FileTypes
<1>7. OwnTypes'
  <2>1. CASE OwnLocks
    <3>1. own' = [own EXCEPT !.pc = "locked"]
      BY <2>1 DEF OwnLocks
    <3>. QED BY <1>1, <1>2, <3>1 DEF TypeInv, OwnTypes
  <2>2. CASE OwnPatches \/ OwnDenied \/ OwnFails
    <3>1. own' = Calm
      BY <2>2 DEF OwnPatches, OwnDenied, OwnFails
    <3>. QED BY <3>1 DEF OwnTypes, Calm
  <2>. QED BY <2>1, <2>2
<1>8. told' \subseteq Paths
  BY DEF OwnLocks, OwnPatches, OwnDenied, OwnFails, sess, TypeInv, SessionTypes
<1>9. OtherTypes' /\ SessionTypes' /\ WireTypes'
  BY <1>1, <1>8, OthersStay, SessionStays, WireStays DEF wire, TypeInv, SessionTypes
<1>10. BrowserInv'
  <2>1. \A p \in Paths : have[p] = 0 \/ p \in edited' \/ have[p] \in known'[p]
    BY <1>5 DEF BrowserInv
  <2>2. \A p \in edited' : have[p] # 0
    BY <1>5 DEF BrowserInv
  <2>. QED BY <1>1, <2>1, <2>2 DEF BrowserInv
<1>. QED BY <1>6, <1>7, <1>9, <1>10 DEF TypeInv

\* Every step is of one of these kinds.
Step ==
  \/ Relay \/ (\E m : Applies(m)) \/ (\E m, i : Removes(m, i))
  \/ OtherLocks \/ OtherPatches \/ OtherFails \/ OtherReleases \/ OtherPublishes \/ OtherDies
  \/ Connect \/ GetListOfSyncs \/ HandleFullDownstream \/ Disconnect
  \/ (\E p \in Paths : Edit(p) \/ Ask(p)) \/ (\E m : HandleSyncInitRequest(m))
  \/ OwnLocks \/ OwnPatches \/ OwnDenied \/ OwnFails

LEMMA Steps ==
  ASSUME TypeInv, BrowserInv, [Next]_vars
  PROVE  Step
<1>1. CASE UNCHANGED vars
  BY <1>1 DEF vars, Step, Relay, files, browser, lists_, sess, wire, history, lost,
     TypeInv, SessionTypes
<1>2. CASE OtherStep
  BY <1>2 DEF OtherStep, Step
<1>3. CASE SessionStep
  BY <1>3, SendSourceListRelays DEF SessionStep, Step
<1>4. CASE ServerStep
  BY <1>4, DiffRequestRelays, DelayRelays, PatchResponseRemoves, RootResponseRemoves
     DEF ServerStep, Step
<1>5. CASE BrowserStep
  BY <1>5, BrowserRelays, DiffApplies, DeleteApplies, RenameApplies DEF BrowserStep, Step
<1>6. CASE OwnStep
  BY <1>6 DEF OwnStep, Step
<1>7. CASE Unforced
  BY <1>7, BrowserRelays DEF Unforced, Step
<1>. QED BY <1>1, <1>2, <1>3, <1>4, <1>5, <1>6, <1>7 DEF Next

LEMMA BrowserStays ==
  ASSUME BrowserInv, have' = have, edited' = edited, known' = known
  PROVE  BrowserInv'
BY DEF BrowserInv

LEMMA StepTypes ==
  ASSUME TypeInv, BrowserInv, [Next]_vars
  PROVE  TypeInv' /\ BrowserInv'
<1>1. CASE Relay
  BY <1>1, RelayTypes, BrowserStays DEF Relay
<1>2. ASSUME NEW m, Applies(m) PROVE TypeInv' /\ BrowserInv'
  BY <1>2, ApplyTypes DEF Applies
<1>3. ASSUME NEW m, NEW i, Removes(m, i) PROVE TypeInv' /\ BrowserInv'
  BY <1>3, RemoveTypes, BrowserStays DEF Removes
<1>4. CASE OtherLocks
  BY <1>4, OtherLocksTypes, BrowserStays DEF OtherLocks, browser, history
<1>5. CASE OtherPatches
  BY <1>5, OtherPatchesTypes, BrowserStays DEF OtherPatches, browser, history
<1>6. CASE OtherFails \/ OtherReleases \/ OtherDies
  BY <1>6, OtherEndsTypes, BrowserStays DEF OtherFails, OtherReleases, OtherDies, browser, history
<1>7. CASE OtherPublishes
  BY <1>7, OtherPublishesTypes, BrowserStays DEF OtherPublishes, browser
<1>8. CASE Connect \/ GetListOfSyncs
  BY <1>8, BeginTypes, BrowserStays DEF Connect, GetListOfSyncs, browser, history
<1>9. CASE HandleFullDownstream
  BY <1>9, HandleFullDownstreamTypes, BrowserStays DEF HandleFullDownstream, browser
<1>10. CASE Disconnect
  BY <1>10, DisconnectTypes, BrowserStays DEF Disconnect, browser
<1>11. ASSUME NEW p \in Paths, Edit(p) PROVE TypeInv' /\ BrowserInv'
  BY <1>11, EditTypes
<1>12. ASSUME NEW p \in Paths, Ask(p) PROVE TypeInv' /\ BrowserInv'
  BY <1>12, AskTypes, BrowserStays DEF Ask, browser, history
<1>13. ASSUME NEW m, HandleSyncInitRequest(m) PROVE TypeInv' /\ BrowserInv'
  BY <1>13, SyncInitTypes, BrowserStays DEF HandleSyncInitRequest, browser, history
<1>14. CASE OwnLocks \/ OwnPatches \/ OwnDenied \/ OwnFails
  BY <1>14, OwnTypesStay
<1>. QED BY <1>1, <1>2, <1>3, <1>4, <1>5, <1>6, <1>7, <1>8, <1>9, <1>10, <1>11, <1>12, <1>13, <1>14,
         Steps DEF Step

LEMMA InitBrowser == Init => BrowserInv
BY DEF Init, InitWith, BrowserInv

LEMMA TypesHold == Spec => [](TypeInv /\ BrowserInv)
<1>1. Init => TypeInv /\ BrowserInv
  BY InitTypes, InitBrowser
<1>2. TypeInv /\ BrowserInv /\ [Next]_vars => (TypeInv /\ BrowserInv)'
  BY StepTypes
<1>. QED BY <1>1, <1>2, PTL DEF Spec

\* Every change is of a path.
LEMMA ChangedStays ==
  ASSUME changed \subseteq Paths, [Next]_vars
  PROVE  changed' \subseteq Paths
<1>1. CASE OtherStep \/ SessionStep \/ ServerStep \/ OwnStep \/ UNCHANGED vars
  BY <1>1 DEF OtherStep, OtherPatches, OtherReleases, OtherPublishes, SessionStep, GetListOfSyncs,
     HandleFullDownstream, SendSourceList, ServerStep, HandleDiffRequest, HandlePatchResponse,
     HandleDelayRequest, HandleRootResponse, HandleSyncInitRequest, ServerOnly, OwnStep, OwnLocks,
     OwnDenied, OwnPatches, Ask, browser, vars
<1>2. CASE BrowserStep
  BY <1>2 DEF BrowserStep, IgnoreOutside, IgnoreForced, HandleChecksumRequest, ResendChecksums,
     HandleDiffResponse, HandleDeleteRequest, HandleRenameRequest
<1>3. CASE Unforced
  BY <1>3 DEF Unforced, OtherLocks, OtherFails, OtherDies, Connect, Disconnect, OwnFails, Edit,
     BrowserFails, BrowserThrows, browser
<1>. QED BY <1>1, <1>2, <1>3 DEF Next

LEMMA ChangedHolds == Spec => [](changed \subseteq Paths)
<1>1. Init => changed \subseteq Paths
  BY DEF Init, InitWith
<1>2. changed \subseteq Paths /\ [Next]_vars => (changed \subseteq Paths)'
  BY ChangedStays
<1>. QED BY <1>1, <1>2, PTL DEF Spec

LEMMA TypesGive == TypeInv /\ changed \subseteq Paths => TypeOK
<1>. SUFFICES ASSUME TypeInv, changed \subseteq Paths PROVE TypeOK
  OBVIOUS
<1>1. outOfDate \in Seq(Entries)
  <2>1. Legal \subseteq Entries
    BY DEF Legal
  <2>2. outOfDate \in Seq(Legal)
    BY DEF TypeInv, SessionTypes
  <2>. QED BY <2>1, <2>2
<1>. QED BY <1>1 DEF TypeInv, FileTypes, SessionTypes, OwnTypes, TypeOK

\* What the session keeps is always of its type: a file is one of the versions
\* that were written, the entries of outOfDate are updates of paths, a count of
\* current syncs is never negative.
THEOREM TypeCorrect == Spec => []TypeOK
BY TypesHold, ChangedHolds, TypesGive, PTL

-----------------------------------------------------------------------------
(* Every update has a number of its own *)

InFlight == other.pc \in {"patched", "released"}

\* The update that is under way is newer than all that the session works on,
\* and nothing of a listing is about before there has been one.
Fresh ==
  /\ InFlight => other.entry.no \in 1..writes
  /\ \A e \in Around : /\ e.no <= writes
                       /\ InFlight => e.no < other.entry.no
                       /\ session # "on" => e.no # 0

Distinct == \A i, j \in DOMAIN outOfDate : outOfDate[i] = outOfDate[j] => i = j

LEMMA AroundLegal ==
  ASSUME TypeInv
  PROVE  Around \subseteq Legal
<1>1. \A i \in DOMAIN outOfDate : outOfDate[i] \in Legal
  BY DEF TypeInv, SessionTypes
<1>2. \A e \in DOMAIN lists : e.type # "forced" => e \in Legal
  BY ForcedFacts DEF TypeInv, WireTypes
<1>3. \A m \in DOMAIN toBrowser : m.entry.type # "forced" => m.entry \in Legal
  BY RequestFacts, ForcedFacts DEF TypeInv, WireTypes
<1>4. \A m \in DOMAIN toServer : m.kind # "sync" => m.entry \in Legal
  BY AnswerFacts DEF TypeInv, WireTypes
<1>. QED BY <1>1, <1>2, <1>3, <1>4 DEF Around

LEMMA AroundWhere ==
  ASSUME NEW e \in Around'
  PROVE  \/ \E i \in DOMAIN outOfDate' : e = outOfDate'[i]
         \/ e \in DOMAIN lists' /\ e.type # "forced"
         \/ \E m \in DOMAIN toBrowser' : e = m.entry /\ m.entry.type # "forced"
         \/ \E m \in DOMAIN toServer' : e = m.entry /\ m.kind # "sync"
BY DEF Around

LEMMA AroundHas ==
  /\ \A i \in DOMAIN outOfDate : outOfDate[i] \in Around
  /\ \A e \in DOMAIN lists : e.type # "forced" => e \in Around
  /\ \A m \in DOMAIN toBrowser : m.entry.type # "forced" => m.entry \in Around
  /\ \A m \in DOMAIN toServer : m.kind # "sync" => m.entry \in Around
BY DEF Around

LEMMA RelayAround ==
  ASSUME TypeInv, Relay
  PROVE  Around' \subseteq Around
<1>. SUFFICES ASSUME NEW e \in Around' PROVE e \in Around
  OBVIOUS
<1>1. CASE \E i \in DOMAIN outOfDate' : e = outOfDate'[i]
  BY <1>1, AroundHas DEF Relay
<1>2. CASE e \in DOMAIN lists' /\ e.type # "forced"
  BY <1>2, AroundHas DEF Relay
<1>3. CASE \E m \in DOMAIN toBrowser' : e = m.entry /\ m.entry.type # "forced"
  BY <1>3, AroundHas DEF Relay
<1>4. CASE \E m \in DOMAIN toServer' : e = m.entry /\ m.kind # "sync"
  BY <1>4, AroundHas DEF Relay
<1>. QED BY <1>1, <1>2, <1>3, <1>4, AroundWhere

LEMMA RemovesAround ==
  ASSUME TypeInv, NEW m, NEW i, Removes(m, i)
  PROVE  Around' \subseteq Around
<1>. SUFFICES ASSUME NEW e \in Around' PROVE e \in Around
  OBVIOUS
<1>1. CASE \E j \in DOMAIN outOfDate' : e = outOfDate'[j]
  <2>1. outOfDate \in Seq(Legal) /\ i \in 0..Len(outOfDate) /\ outOfDate' = Without(outOfDate, i)
    BY DEF TypeInv, SessionTypes, Removes
  <2>. QED BY <1>1, <2>1, WithoutFacts, AroundHas
<1>2. CASE e \in DOMAIN lists' /\ e.type # "forced"
  BY <1>2, AroundHas DEF Removes
<1>3. CASE \E x \in DOMAIN toBrowser' : e = x.entry /\ x.entry.type # "forced"
  BY <1>3, AroundHas DEF Removes
<1>4. CASE \E x \in DOMAIN toServer' : e = x.entry /\ x.kind # "sync"
  BY <1>4, AroundHas, BagTake DEF Removes
<1>. QED BY <1>1, <1>2, <1>3, <1>4, AroundWhere

\* What has been applied: one message less, and the answer.
LEMMA AppliesWire ==
  ASSUME TypeInv, NEW m, Applies(m)
  PROVE  /\ m \in DOMAIN toBrowser /\ m.entry \in Legal /\ m.entry \in Around
         /\ DOMAIN toBrowser' \subseteq DOMAIN toBrowser
         /\ \E v \in (0..writes) \cup {None} :
              DOMAIN toServer' = DOMAIN toServer \cup {Message("patch", m.entry, v)}
<1>1. m \in DOMAIN toBrowser /\ m.entry \in Legal /\ m.entry.type # "forced"
  BY RequestFacts, LegalFacts DEF Applies
<1>2. DOMAIN toBrowser' \subseteq DOMAIN toBrowser
  BY BagTake DEF Applies
<1>3. PICK v \in (0..writes) \cup {None} : toServer' = toServer (+) One(Message("patch", m.entry, v))
  BY DEF Applies
<1>4. DOMAIN toServer' = DOMAIN toServer \cup {Message("patch", m.entry, v)}
  BY <1>3, BagAddOne
<1>. QED BY <1>1, <1>2, <1>4, AroundHas

LEMMA AppliesAround ==
  ASSUME TypeInv, NEW m, Applies(m)
  PROVE  Around' \subseteq Around
<1>. SUFFICES ASSUME NEW e \in Around' PROVE e \in Around
  OBVIOUS
<1>1. CASE \E j \in DOMAIN outOfDate' : e = outOfDate'[j]
  BY <1>1, AroundHas DEF Applies
<1>2. CASE e \in DOMAIN lists' /\ e.type # "forced"
  BY <1>2, AroundHas DEF Applies
<1>3. CASE \E x \in DOMAIN toBrowser' : e = x.entry /\ x.entry.type # "forced"
  BY <1>3, AroundHas, AppliesWire
<1>4. CASE \E x \in DOMAIN toServer' : e = x.entry /\ x.kind # "sync"
  <2>1. PICK v \in (0..writes) \cup {None} :
          DOMAIN toServer' = DOMAIN toServer \cup {Message("patch", m.entry, v)}
    BY AppliesWire
  <2>2. PICK x \in DOMAIN toServer' : e = x.entry /\ x.kind # "sync"
    BY <1>4
  <2>3. Message("patch", m.entry, v).entry = m.entry /\ m.entry \in Around
    BY AppliesWire DEF Message
  <2>. QED BY <2>1, <2>2, <2>3, AroundHas
<1>. QED BY <1>1, <1>2, <1>3, <1>4, AroundWhere

LEMMA SameAround ==
  ASSUME UNCHANGED <<outOfDate, lists, toBrowser, toServer>>
  PROVE  Around' = Around
BY DEF Around

LEMMA UploadAround ==
  ASSUME TypeInv, NEW m, Ask(m) \/ HandleSyncInitRequest(m)
  PROVE  Around' \subseteq Around
<1>1. /\ outOfDate' = outOfDate /\ toBrowser' = toBrowser
      /\ \A e \in DOMAIN lists' : e \in DOMAIN lists \/ e \in Forced
  BY SyncInitFacts DEF Ask, HandleSyncInitRequest, sess, lists_
<1>2. \A x \in DOMAIN toServer' : x \in DOMAIN toServer \/ x.kind = "sync"
  <2>1. CASE HandleSyncInitRequest(m)
    BY <2>1, SyncInitFacts
  <2>2. CASE Ask(m)
    <3>. DEFINE w == Message("sync", Entry(m, "create", None), 0)
    <3>1. toServer' = toServer (+) One(w) /\ w.kind = "sync"
      BY <2>2 DEF Ask, Message
    <3>. HIDE DEF w
    <3>2. DOMAIN toServer' = DOMAIN toServer \cup {w}
      BY <3>1, BagAddOne
    <3>. QED BY <3>1, <3>2
  <2>. QED BY <2>1, <2>2
<1>. SUFFICES ASSUME NEW e \in Around' PROVE e \in Around
  OBVIOUS
<1>3. CASE e \in DOMAIN lists' /\ e.type # "forced"
  BY <1>1, <1>3, AroundHas, ForcedFacts
<1>4. CASE \E x \in DOMAIN toServer' : e = x.entry /\ x.kind # "sync"
  BY <1>2, <1>4, AroundHas
<1>. QED BY <1>1, <1>3, <1>4, AroundHas, AroundWhere

\* What the entries of q add to the wire, when they are sent.
LEMMA SendAround ==
  ASSUME TypeInv, NEW q \in Seq(Legal), NEW current \in [Paths -> Nat], SendSourceLists(q, current),
         toServer' = toServer, outOfDate' = q
  PROVE  \A e \in Around' : e \in Around \/ \E i \in DOMAIN q : e = q[i]
<1>. SUFFICES ASSUME NEW e \in Around', e \notin Around PROVE \E i \in DOMAIN q : e = q[i]
  OBVIOUS
<1>1. /\ \A m \in DOMAIN toBrowser' : m \in DOMAIN toBrowser \/
              \E i \in DOMAIN q : AtOnce(q[i]) /\ m = Message(q[i].type, q[i], 0)
      /\ \A d \in DOMAIN lists' : d \in DOMAIN lists \/
              \E i \in DOMAIN q : ~AtOnce(q[i]) /\ d = q[i]
  BY SendFacts
<1>2. CASE \E m \in DOMAIN toBrowser' : e = m.entry /\ m.entry.type # "forced"
  BY <1>1, <1>2, AroundHas DEF Message
<1>3. CASE e \in DOMAIN lists' /\ e.type # "forced"
  BY <1>1, <1>3, AroundHas
<1>4. CASE \E m \in DOMAIN toServer' : e = m.entry /\ m.kind # "sync"
  BY <1>4, AroundHas
<1>. QED BY <1>2, <1>3, <1>4, AroundWhere

LEMMA PublishAround ==
  ASSUME TypeInv, OtherPublishes
  PROVE  \A e \in Around' : e \in Around \/ e = other.entry
<1>1. other.entry \in Legal
  BY OtherFacts DEF OtherPublishes
<1>2. CASE session = "off"
  BY <1>2, SameAround DEF OtherPublishes, sess, lists_
<1>3. CASE session # "off"
  <2>1. /\ outOfDate' = Append(outOfDate, other.entry) /\ toServer' = toServer
        /\ SendSourceLists(outOfDate', currentDownstream)
    BY <1>3 DEF OtherPublishes
  <2>2. outOfDate \in Seq(Legal) /\ currentDownstream \in [Paths -> Nat]
    BY DEF TypeInv, SessionTypes
  <2>3. /\ outOfDate' \in Seq(Legal)
        /\ \A i \in DOMAIN outOfDate' :
             outOfDate'[i] = other.entry \/ \E j \in DOMAIN outOfDate : outOfDate'[i] = outOfDate[j]
    BY <1>1, <2>1, <2>2, AppendFacts, Grow
  <2>4. \A e \in Around' : e \in Around \/ \E i \in DOMAIN outOfDate' : e = outOfDate'[i]
    BY <2>1, <2>2, <2>3, SendAround
  <2>. QED BY <2>3, <2>4, AroundHas
<1>. QED BY <1>2, <1>3

LEMMA ListingAround ==
  ASSUME TypeInv, HandleFullDownstream
  PROVE  \A e \in Around' : e \in Around \/ e.no = 0
<1>1. CASE found = {}
  BY <1>1, SameAround DEF HandleFullDownstream, lists_
<1>2. CASE found # {}
  <2>1. /\ outOfDate' \in Seq(Legal) /\ SendSourceLists(outOfDate', NoneCurrent)
        /\ \A i \in DOMAIN outOfDate' : outOfDate'[i] = Entry(outOfDate'[i].path, "create", None)
    BY <1>2, ListingFacts
  <2>2. NoneCurrent \in [Paths -> Nat] /\ toServer' = toServer
    BY DEF NoneCurrent, HandleFullDownstream
  <2>3. \A e \in Around' : e \in Around \/ \E i \in DOMAIN outOfDate' : e = outOfDate'[i]
    BY <2>1, <2>2, SendAround
  <2>4. \A i \in DOMAIN outOfDate' : outOfDate'[i].no = 0
    BY <2>1 DEF Entry
  <2>. QED BY <2>3, <2>4
<1>. QED BY <1>1, <1>2

LEMMA DisconnectAround == Disconnect => Around' = {}
<1>. SUFFICES ASSUME Disconnect, NEW e \in Around' PROVE FALSE
  OBVIOUS
<1>1. /\ DOMAIN outOfDate' = {} /\ DOMAIN lists' = {} /\ DOMAIN toBrowser' = {}
      /\ DOMAIN toServer' = {}
  BY BagNone, EmptySeq DEF Disconnect
<1>. QED BY <1>1, AroundWhere

\* Nothing new comes of any other step.
LEMMA StepAround ==
  ASSUME TypeInv, Step, ~OtherPublishes, ~HandleFullDownstream
  PROVE  Around' \subseteq Around
<1>1. CASE Relay
  BY <1>1, RelayAround
<1>2. ASSUME NEW m, Applies(m) PROVE Around' \subseteq Around
  BY <1>2, AppliesAround
<1>3. ASSUME NEW m, NEW i, Removes(m, i) PROVE Around' \subseteq Around
  BY <1>3, RemovesAround
<1>4. CASE OtherLocks \/ OtherPatches \/ OtherFails \/ OtherReleases \/ OtherDies
  BY <1>4, SameAround DEF OtherLocks, OtherPatches, OtherFails, OtherReleases, OtherDies, wire, sess, lists_
<1>5. CASE \/ Connect \/ GetListOfSyncs \/ OwnLocks \/ OwnPatches \/ OwnDenied \/ OwnFails
           \/ \E p \in Paths : Edit(p)
  BY <1>5, SameAround DEF Connect, GetListOfSyncs, OwnLocks, OwnPatches, OwnDenied, OwnFails, Edit,
     wire, sess, lists_
<1>6. CASE Disconnect
  BY <1>6, DisconnectAround
<1>7. ASSUME NEW m, Ask(m) \/ HandleSyncInitRequest(m) PROVE Around' \subseteq Around
  BY <1>7, UploadAround
<1>. QED BY <1>1, <1>2, <1>3, <1>4, <1>5, <1>6, <1>7 DEF Step

LEMMA FreshStays ==
  ASSUME TypeInv, Fresh, Around' \subseteq Around, writes' \in Nat, writes <= writes',
         InFlight' => InFlight /\ other'.entry = other.entry,
         session' # "on" => session # "on"
  PROVE  Fresh'
<1>1. writes \in Nat /\ \A e \in Around : e.no \in Nat
  BY AroundLegal, LegalFacts DEF TypeInv, FileTypes
<1>2. InFlight' => other'.entry.no \in 1..writes'
  BY <1>1 DEF Fresh
<1>3. ASSUME NEW e \in Around'
      PROVE  /\ e.no <= writes'
             /\ InFlight' => e.no < other'.entry.no
             /\ session' # "on" => e.no # 0
  <2>1. e \in Around /\ e.no \in Nat /\ e.no <= writes
    BY <1>1 DEF Fresh
  <2>2. e.no <= writes'
    BY <1>1, <2>1
  <2>. QED BY <2>1, <2>2 DEF Fresh
<1>. QED BY <1>2, <1>3 DEF Fresh

LEMMA FreshStep ==
  ASSUME TypeInv, Fresh, Step
  PROVE  Fresh'
<1>1. writes \in Nat /\ writes <= writes /\ \A e \in Around : e.no \in Nat /\ e.no <= writes
  BY AroundLegal, LegalFacts DEF TypeInv, FileTypes, Fresh
<1>2. CASE Relay
  BY <1>1, <1>2, RelayAround, FreshStays DEF Relay, InFlight
<1>3. ASSUME NEW m, Applies(m) PROVE Fresh'
  BY <1>1, <1>3, AppliesAround, FreshStays DEF Applies, InFlight
<1>4. ASSUME NEW m, NEW i, Removes(m, i) PROVE Fresh'
  BY <1>1, <1>4, RemovesAround, FreshStays DEF Removes, InFlight
<1>5. CASE OtherLocks \/ OtherFails \/ OtherReleases \/ OtherDies
  <2>1. InFlight' => InFlight /\ other'.entry = other.entry
    <3>1. CASE OtherLocks
      BY <3>1 DEF OtherLocks, InFlight
    <3>2. CASE OtherFails \/ OtherDies
      BY <3>2 DEF OtherFails, OtherDies, InFlight, Idle
    <3>3. CASE OtherReleases
      <4>1. other' = [other EXCEPT !.pc = "released"] /\ other.pc = "patched"
        BY <3>3 DEF OtherReleases
      <4>2. other \in [pc : {"locked", "patched", "released"}, entry : Legal]
        BY <4>1, OtherFacts
      <4>. QED BY <4>1, <4>2 DEF InFlight
    <3>. QED BY <1>5, <3>1, <3>2, <3>3
  <2>2. /\ writes' = writes /\ session' = session
        /\ UNCHANGED <<outOfDate, lists, toBrowser, toServer>>
    BY <1>5 DEF OtherLocks, OtherFails, OtherReleases, OtherDies, files, sess, lists_, wire
  <2>3. Around' \subseteq Around
    BY <2>2, SameAround
  <2>. QED BY <1>1, <2>1, <2>2, <2>3, FreshStays
<1>6. CASE OtherPatches
  <2>1. /\ other'.entry.no = writes + 1 /\ writes' = writes + 1
        /\ session' = session /\ UNCHANGED <<outOfDate, lists, toBrowser, toServer>>
    BY <1>6, OtherPatchesFacts DEF OtherPatches, wire, lists_
  <2>2. Around' = Around
    BY <2>1, SameAround
  <2>3. \A e \in Around : e.no <= writes + 1 /\ e.no < writes + 1
    BY <1>1
  <2>4. writes + 1 \in 1..(writes + 1)
    BY <1>1
  <2>. QED BY <2>1, <2>2, <2>3, <2>4 DEF Fresh
<1>7. CASE OtherPublishes
  <2>1. InFlight /\ ~InFlight' /\ writes' = writes
    BY <1>7 DEF OtherPublishes, InFlight, Idle, files
  <2>2. other.entry.no \in Nat /\ other.entry.no <= writes /\ other.entry.no # 0
    BY <1>1, <2>1 DEF Fresh
  <2>3. \A e \in Around' : e \in Around \/ e = other.entry
    BY <1>7, PublishAround
  <2>4. session' = session
    BY <1>7 DEF OtherPublishes, sess
  <2>5. \A e \in Around : session # "on" => e.no # 0
    BY DEF Fresh
  <2>. QED BY <1>1, <2>1, <2>2, <2>3, <2>4, <2>5 DEF Fresh
<1>8. CASE HandleFullDownstream
  <2>1. \A e \in Around' : e \in Around \/ e.no = 0
    BY <1>8, ListingAround
  <2>2. other' = other /\ writes' = writes /\ session' = "on"
    BY <1>8 DEF HandleFullDownstream, files
  <2>3. InFlight' = InFlight
    BY <2>2 DEF InFlight
  <2>4. /\ InFlight => other.entry.no \in Nat /\ other.entry.no >= 1 /\ other.entry.no <= writes
        /\ \A e \in Around : InFlight => e.no < other.entry.no
    BY <1>1 DEF Fresh
  <2>5. InFlight' => other'.entry.no \in 1..writes'
    BY <2>2, <2>3 DEF Fresh
  <2>6. ASSUME NEW e \in Around' PROVE e.no <= writes /\ (InFlight => e.no < other.entry.no)
    <3>1. CASE e \in Around
      BY <1>1, <2>4, <3>1
    <3>2. CASE e.no = 0
      BY <1>1, <2>4, <3>2
    <3>. QED BY <2>1, <3>1, <3>2
  <2>. QED BY <2>2, <2>3, <2>5, <2>6 DEF Fresh
<1>9. CASE Connect \/ GetListOfSyncs \/ OwnLocks \/ OwnPatches \/ OwnDenied \/ OwnFails
  <2>1. /\ other' = other /\ writes' = writes /\ (session' # "on" => session # "on")
        /\ UNCHANGED <<outOfDate, lists, toBrowser, toServer>>
    BY <1>9 DEF Connect, GetListOfSyncs, OwnLocks, OwnPatches, OwnDenied, OwnFails, files, sess, lists_, wire
  <2>2. Around' \subseteq Around
    BY <2>1, SameAround
  <2>. QED BY <1>1, <2>1, <2>2, FreshStays DEF InFlight
<1>10. CASE Disconnect
  <2>1. Around' = {}
    BY <1>10, DisconnectAround
  <2>2. other' = other /\ writes' = writes
    BY <1>10 DEF Disconnect
  <2>. QED BY <2>1, <2>2 DEF Fresh, InFlight
<1>11. ASSUME NEW p \in Paths, Edit(p) PROVE Fresh'
  <2>1. /\ other' = other /\ writes' = writes + 1 /\ session' = session
        /\ UNCHANGED <<outOfDate, lists, toBrowser, toServer>>
    BY <1>11 DEF Edit, sess, lists_, wire
  <2>2. Around' \subseteq Around
    BY <2>1, SameAround
  <2>3. writes' \in Nat /\ writes <= writes'
    BY <1>1, <2>1
  <2>. QED BY <2>1, <2>2, <2>3, FreshStays DEF InFlight
<1>12. ASSUME NEW m, Ask(m) \/ HandleSyncInitRequest(m) PROVE Fresh'
  <2>1. Around' \subseteq Around
    BY <1>12, UploadAround
  <2>2. other' = other /\ writes' = writes /\ session' = session
    BY <1>12 DEF Ask, HandleSyncInitRequest, files, sess
  <2>. QED BY <1>1, <2>1, <2>2, FreshStays DEF InFlight
<1>. QED BY <1>2, <1>3, <1>4, <1>5, <1>6, <1>7, <1>8, <1>9, <1>10, <1>11, <1>12 DEF Step

\* The entry of an update that is published is no other's, and no message is
\* about it yet.
LEMMA PublishedIsNew ==
  ASSUME TypeInv, Fresh, InFlight
  PROVE  /\ \A i \in DOMAIN outOfDate : outOfDate[i] # other.entry
         /\ \A m \in DOMAIN toBrowser : m.entry.type # "forced" => m.entry # other.entry
         /\ \A m \in DOMAIN toServer : m.kind # "sync" => m.entry # other.entry
<1>1. other.entry \notin Around
  <2>1. SUFFICES ASSUME other.entry \in Around PROVE FALSE
    OBVIOUS
  <2>2. other.entry.no \in Nat /\ other.entry.no < other.entry.no
    BY <2>1, AroundLegal, LegalFacts DEF Fresh
  <2>. QED BY <2>2
<1>. QED BY <1>1, AroundHas

LEMMA PublishGrows ==
  ASSUME TypeInv, OtherPublishes, session # "off"
  PROVE  /\ outOfDate' = Append(outOfDate, other.entry) /\ outOfDate' \in Seq(Legal)
         /\ \A i \in DOMAIN outOfDate : i \in DOMAIN outOfDate' /\ outOfDate'[i] = outOfDate[i]
         /\ \E i \in DOMAIN outOfDate' : outOfDate'[i] = other.entry
         /\ \A i \in DOMAIN outOfDate' : i \in DOMAIN outOfDate \/
              (i = Len(outOfDate) + 1 /\ outOfDate'[i] = other.entry)
<1>1. outOfDate \in Seq(Legal) /\ other.entry \in Legal /\ outOfDate' = Append(outOfDate, other.entry)
  BY OtherFacts DEF TypeInv, SessionTypes, OtherPublishes
<1>2. /\ outOfDate' \in Seq(Legal) /\ DOMAIN outOfDate = 1..Len(outOfDate) /\ Len(outOfDate) \in Nat
      /\ DOMAIN outOfDate' = 1..(Len(outOfDate) + 1)
      /\ \A i \in 1..Len(outOfDate) : outOfDate'[i] = outOfDate[i]
      /\ outOfDate'[Len(outOfDate) + 1] = other.entry
  BY <1>1, AppendFacts
<1>3. Len(outOfDate) + 1 \in 1..(Len(outOfDate) + 1) /\
      \A i \in 1..(Len(outOfDate) + 1) : i \in 1..Len(outOfDate) \/ i = Len(outOfDate) + 1
  BY <1>2
<1>4. \A i \in 1..Len(outOfDate) : i \in 1..(Len(outOfDate) + 1)
  BY <1>2
<1>. QED BY <1>1, <1>2, <1>3, <1>4

LEMMA DistinctStep ==
  ASSUME TypeInv, Fresh, Distinct, Step
  PROVE  Distinct'
<1>1. CASE outOfDate' = outOfDate
  BY <1>1 DEF Distinct
<1>2. ASSUME NEW m, NEW i, Removes(m, i) PROVE Distinct'
  <2>1. outOfDate \in Seq(Legal) /\ i \in 0..Len(outOfDate) /\ outOfDate' = Without(outOfDate, i)
    BY <1>2 DEF TypeInv, SessionTypes, Removes
  <2>2. ASSUME NEW j \in DOMAIN outOfDate', NEW k \in DOMAIN outOfDate', outOfDate'[j] = outOfDate'[k]
        PROVE  j = k
    <3>1. outOfDate[Moved(i, j)] = outOfDate[Moved(i, k)]
      BY <2>1, <2>2, WithoutFacts
    <3>2. Moved(i, j) = Moved(i, k)
      BY <2>1, <2>2, <3>1, WithoutFacts DEF Distinct
    <3>. QED BY <2>1, <3>2, WithoutFacts
  <2>. QED BY <2>2 DEF Distinct
<1>3. CASE OtherPublishes
  <2>1. CASE session = "off"
    BY <1>1, <1>3, <2>1 DEF OtherPublishes, sess, lists_
  <2>2. CASE session # "off"
    <3>1. \A i \in DOMAIN outOfDate : outOfDate[i] # other.entry
      BY <1>3, PublishedIsNew DEF InFlight, OtherPublishes
    <3>. QED BY <1>3, <2>2, <3>1, PublishGrows DEF Distinct
  <2>. QED BY <2>1, <2>2
<1>4. CASE HandleFullDownstream
  <2>1. CASE found = {}
    BY <1>1, <1>4, <2>1 DEF HandleFullDownstream, lists_
  <2>2. CASE found # {}
    BY <1>4, <2>2, ListingFacts DEF Distinct
  <2>. QED BY <2>1, <2>2
<1>5. CASE Disconnect
  <2>1. DOMAIN outOfDate' = {}
    BY <1>5, EmptySeq DEF Disconnect
  <2>. QED BY <2>1 DEF Distinct
<1>6. ASSUME Step, ~OtherPublishes, ~HandleFullDownstream, ~Disconnect, \A m, i : ~Removes(m, i)
      PROVE  outOfDate' = outOfDate
  BY <1>6 DEF Step, Relay, Applies, OtherLocks, OtherPatches, OtherFails, OtherReleases, OtherDies,
     Connect, GetListOfSyncs, Edit, Ask, HandleSyncInitRequest, OwnLocks, OwnPatches, OwnDenied, OwnFails, sess, lists_
<1>. QED BY <1>1, <1>2, <1>3, <1>4, <1>5, <1>6

Base == TypeInv /\ BrowserInv /\ Fresh /\ Distinct

LEMMA InitBase == Init => Base
<1>1. Init => DOMAIN outOfDate = {} /\ DOMAIN lists = {} /\ DOMAIN toBrowser = {} /\ DOMAIN toServer = {}
             /\ ~InFlight
  BY BagNone, EmptySeq DEF Init, InitWith, Idle, InFlight
<1>2. Init => Around = {}
  BY <1>1 DEF Around
<1>. QED BY <1>1, <1>2, InitTypes, InitBrowser DEF Fresh, Distinct, Base

LEMMA BaseStep == Base /\ [Next]_vars => Base'
BY Steps, StepTypes, FreshStep, DistinctStep DEF Base

-----------------------------------------------------------------------------
(* Nothing is left behind silently *)

Patched(bag, e) == \E m \in DOMAIN bag : m.kind = "patch" /\ m.entry = e
Pending(p) == \E i \in DOMAIN outOfDate :
                p \in Touched(outOfDate[i]) /\ ~Patched(toServer, outOfDate[i])

\* Why a file may differ from the server's: Delivered, and what is under way.
\* An entry counts as long as the browser has not answered that it has done it.
Accounted(p) ==
  \/ have[p] = srv[p] \/ p \in edited
  \/ p \in late \cup unheard \cup replaced \cup struck
  \/ p \in away /\ srv[p] = 0
  \/ InFlight /\ p \in Touched(other.entry)
  \/ srv[p] # 0 /\ session \in {"off", "reading"}
  \/ srv[p] # 0 /\ session = "read" /\ p \in found
  \/ Pending(p)
AllAccounted == \A p \in Paths \ outside : Accounted(p)

LEMMA AccountedStays ==
  ASSUME NEW p, Accounted(p), have'[p] = have[p], srv'[p] = srv[p], p \in edited => p \in edited',
         p \in late \cup unheard \cup replaced \cup struck =>
           p \in late' \cup unheard' \cup replaced' \cup struck',
         p \in away => p \in away',
         InFlight /\ p \in Touched(other.entry) => InFlight' /\ p \in Touched(other'.entry),
         session \in {"off", "reading"} => session' \in {"off", "reading"},
         session = "read" /\ p \in found => session' = "read" /\ p \in found',
         Pending(p) => Pending(p)'
  PROVE  Accounted(p)'
BY DEF Accounted

LEMMA PendingStays ==
  ASSUME NEW p, Pending(p), outOfDate' = outOfDate,
         \A m \in DOMAIN toServer' : m \in DOMAIN toServer \/ m.kind # "patch"
  PROVE  Pending(p)'
BY DEF Pending, Patched

LEMMA AppliesAccounted ==
  ASSUME Base, NEW m, Applies(m), NEW p \in Paths \ outside, Accounted(p)
  PROVE  Accounted(p)'
<1>1. CASE p \in Touched(m.entry)
  <2>1. have'[p] = srv[p] \/ p \in late' \/ p \in edited'
    BY <1>1 DEF Applies
  <2>2. srv' = srv
    BY DEF Applies
  <2>. QED BY <2>1, <2>2 DEF Accounted
<1>2. CASE p \notin Touched(m.entry)
  <2>1. /\ have'[p] = have[p] /\ (p \in edited' <=> p \in edited) /\ (p \in late' <=> p \in late)
        /\ (p \in unheard' <=> p \in unheard) /\ (p \in replaced' <=> p \in replaced)
        /\ (p \in struck' <=> p \in struck)
    BY <1>2 DEF Applies
  <2>2. UNCHANGED <<srv, other, session, found, away, outOfDate>>
    BY DEF Applies
  <2>3. Pending(p) => Pending(p)'
    <3>1. SUFFICES ASSUME Pending(p) PROVE Pending(p)'
      OBVIOUS
    <3>2. PICK i \in DOMAIN outOfDate : p \in Touched(outOfDate[i]) /\ ~Patched(toServer, outOfDate[i])
      BY <3>1 DEF Pending
    <3>3. PICK v \in (0..writes) \cup {None} :
            DOMAIN toServer' = DOMAIN toServer \cup {Message("patch", m.entry, v)}
      BY AppliesWire DEF Base
    <3>4. Message("patch", m.entry, v).entry = m.entry
      BY DEF Message
    <3>5. ~Patched(toServer', outOfDate[i])
      BY <1>2, <3>2, <3>3, <3>4 DEF Patched
    <3>. QED BY <2>2, <3>2, <3>5 DEF Pending
  <2>. QED BY <2>1, <2>2, <2>3, AccountedStays DEF InFlight
<1>. QED BY <1>1, <1>2

\* The entry that an answer removes is one that the browser has done, or one
\* outside of the root; or it is struck.
LEMMA RemovesAccounted ==
  ASSUME Base, NEW m, NEW i, Removes(m, i), NEW p \in Paths \ outside, Accounted(p)
  PROVE  Accounted(p)'
<1>1. /\ UNCHANGED <<srv, have, edited, other, session, found, late, unheard, replaced, away>>
      /\ outOfDate' = Without(outOfDate, i) /\ outOfDate \in Seq(Legal) /\ i \in 0..Len(outOfDate)
      /\ struck' = struck \cup Mistaken(i, m.entry)
      /\ DOMAIN toServer' \subseteq DOMAIN toServer
      /\ m \in DOMAIN toServer /\ m \in Answers /\ m.kind \in {"patch", "root"}
  BY BagTake DEF Removes, Base, TypeInv, SessionTypes
<1>2. Pending(p) => Pending(p)' \/ p \in struck'
  <2>1. SUFFICES ASSUME Pending(p) PROVE Pending(p)' \/ p \in struck'
    OBVIOUS
  <2>2. PICK k \in DOMAIN outOfDate : p \in Touched(outOfDate[k]) /\ ~Patched(toServer, outOfDate[k])
    BY <2>1 DEF Pending
  <2>3. ~Patched(toServer', outOfDate[k])
    BY <1>1, <2>2 DEF Patched
  <2>4. CASE k # i
    <3>1. \E j \in DOMAIN outOfDate' : outOfDate'[j] = outOfDate[k]
      BY <1>1, <2>4, WithoutFacts
    <3>. QED BY <2>2, <2>3, <3>1 DEF Pending
  <2>5. CASE k = i /\ outOfDate[k] # m.entry
    <3>1. i # 0
      BY <1>1, <2>5
    <3>. QED BY <1>1, <2>2, <2>5, <3>1 DEF Mistaken
  <2>6. CASE k = i /\ outOfDate[k] = m.entry
    <3>1. m.kind = "root"
      BY <1>1, <2>2, <2>6 DEF Patched
    <3>2. m.entry.path \in outside /\ m.entry \in Legal
      BY <1>1, <3>1, AnswerFacts
    <3>3. p \in outside
      BY <2>2, <2>6, <3>2, LegalFacts
    <3>. QED BY <3>3
  <2>. QED BY <2>4, <2>5, <2>6
<1>3. CASE p \in struck'
  BY <1>3 DEF Accounted
<1>4. CASE Pending(p) => Pending(p)'
  BY <1>1, <1>4, AccountedStays DEF InFlight
<1>. QED BY <1>2, <1>3, <1>4

LEMMA OtherAccounted ==
  ASSUME Base, NEW p \in Paths \ outside, Accounted(p),
         OtherLocks \/ OtherPatches \/ OtherFails \/ OtherReleases \/ OtherDies
  PROVE  Accounted(p)'
<1>1. UNCHANGED <<have, edited, session, found, outOfDate, toServer, late, replaced, struck, away>>
  BY DEF OtherLocks, OtherPatches, OtherFails, OtherReleases, OtherDies, browser, sess, wire, lists_,
     history, lost
<1>2. Pending(p) => Pending(p)'
  BY <1>1 DEF Pending
<1>3. CASE OtherPatches
  <2>1. /\ InFlight' /\ Touched(other'.entry) = Touched(other.entry)
        /\ ~InFlight /\ unheard' = unheard
        /\ p \notin Touched(other.entry) => srv'[p] = srv[p]
    BY <1>3, OtherPatchesFacts DEF Base, InFlight, OtherPatches, history, lost
  <2>2. CASE p \in Touched(other.entry)
    BY <2>1, <2>2 DEF Accounted
  <2>3. CASE p \notin Touched(other.entry)
    BY <1>1, <1>2, <2>1, <2>3, AccountedStays
  <2>. QED BY <2>2, <2>3
<1>4. CASE OtherLocks \/ OtherFails
  <2>1. ~InFlight /\ srv' = srv /\ unheard' = unheard
    BY <1>4 DEF OtherLocks, OtherFails, InFlight, Idle, history, lost
  <2>. QED BY <1>1, <1>2, <2>1, AccountedStays
<1>5. CASE OtherReleases
  <2>1. other' = [other EXCEPT !.pc = "released"] /\ other.pc = "patched"
    BY <1>5 DEF OtherReleases
  <2>2. other \in [pc : {"locked", "patched", "released"}, entry : Legal]
    BY <2>1, OtherFacts DEF Base
  <2>3. InFlight' /\ other'.entry = other.entry
    BY <2>1, <2>2 DEF InFlight
  <2>4. srv' = srv /\ unheard' = unheard
    BY <1>5 DEF OtherReleases, history, lost
  <2>. QED BY <1>1, <1>2, <2>3, <2>4, AccountedStays
<1>6. CASE OtherDies
  <2>1. srv' = srv /\ unheard' = unheard \cup Touched(other.entry)
    BY <1>6 DEF OtherDies, files
  <2>2. CASE p \in Touched(other.entry)
    BY <2>1, <2>2 DEF Accounted
  <2>3. CASE p \notin Touched(other.entry)
    BY <1>1, <1>2, <2>1, <2>3, AccountedStays
  <2>. QED BY <2>2, <2>3
<1>. QED BY <1>3, <1>4, <1>5, <1>6

\* The update that was under way is listed, or the session will read it.
LEMMA PublishAccounted ==
  ASSUME Base, NEW p \in Paths \ outside, Accounted(p), OtherPublishes
  PROVE  Accounted(p)'
<1>1. UNCHANGED <<srv, have, edited, late, unheard, replaced, struck, toServer>>
  BY DEF OtherPublishes, files, browser, lost
<1>2. InFlight
  BY DEF OtherPublishes, InFlight
<1>3. CASE session = "off"
  <2>1. away' = away \cup Touched(other.entry) /\ UNCHANGED <<session, found, outOfDate>>
    BY <1>3 DEF OtherPublishes, sess, lists_
  <2>2. CASE p \in Touched(other.entry)
    BY <1>1, <1>3, <2>1, <2>2 DEF Accounted
  <2>3. CASE p \notin Touched(other.entry)
    <3>1. Pending(p) => Pending(p)'
      BY <1>1, <2>1 DEF Pending
    <3>. QED BY <1>1, <2>1, <2>3, <3>1, AccountedStays
  <2>. QED BY <2>2, <2>3
<1>4. CASE session # "off"
  <2>1. UNCHANGED <<session, found, away>>
    BY <1>4 DEF OtherPublishes
  <2>2. /\ \A i \in DOMAIN outOfDate : i \in DOMAIN outOfDate' /\ outOfDate'[i] = outOfDate[i]
        /\ \E i \in DOMAIN outOfDate' : outOfDate'[i] = other.entry
    BY <1>4, PublishGrows DEF Base
  <2>3. Pending(p) => Pending(p)'
    BY <1>1, <2>2 DEF Pending
  <2>4. CASE p \in Touched(other.entry)
    <3>1. ~Patched(toServer', other.entry)
      BY <1>1, <1>2, PublishedIsNew DEF Base, Patched
    <3>2. Pending(p)'
      BY <2>2, <2>4, <3>1 DEF Pending
    <3>. QED BY <3>2 DEF Accounted
  <2>5. CASE p \notin Touched(other.entry)
    BY <1>1, <2>1, <2>3, <2>5, AccountedStays
  <2>. QED BY <2>4, <2>5
<1>. QED BY <1>3, <1>4

\* The listing has what was found, and nothing has been answered of it yet.
LEMMA ListingAccounted ==
  ASSUME Base, NEW p \in Paths \ outside, Accounted(p), HandleFullDownstream
  PROVE  Accounted(p)'
<1>1. /\ UNCHANGED <<srv, have, edited, other, toServer, late, unheard, struck, away>>
      /\ session = "read"
  BY DEF HandleFullDownstream, files, browser
<1>2. CASE found = {}
  <2>1. UNCHANGED <<outOfDate, replaced>>
    BY <1>2 DEF HandleFullDownstream, lists_
  <2>2. Pending(p) => Pending(p)'
    BY <1>1, <2>1 DEF Pending
  <2>. QED BY <1>1, <1>2, <2>1, <2>2, AccountedStays DEF InFlight
<1>3. CASE found # {}
  <2>1. /\ replaced' = replaced \cup Listed
        /\ \A i \in DOMAIN outOfDate' : outOfDate'[i] = Entry(outOfDate'[i].path, "create", None)
        /\ \A q \in found : \E i \in DOMAIN outOfDate' : outOfDate'[i].path = q
        /\ outOfDate' \in Seq(Legal)
    BY <1>3, ListingFacts DEF Base
  <2>2. CASE p \in Listed
    BY <2>1, <2>2 DEF Accounted
  <2>3. CASE p \in found
    <3>1. PICK i \in DOMAIN outOfDate' : outOfDate'[i].path = p
      BY <2>1, <2>3
    <3>2. outOfDate'[i].no = 0 /\ outOfDate'[i] \in Legal
      BY <2>1 DEF Entry
    <3>3. p \in Touched(outOfDate'[i])
      BY <3>1, <3>2, LegalFacts
    <3>4. ~Patched(toServer', outOfDate'[i])
      <4>1. \A m \in DOMAIN toServer : m.kind = "patch" => m.entry.no # 0
        BY <1>1, AroundHas DEF Base, Fresh
      <4>. QED BY <1>1, <3>2, <4>1 DEF Patched
    <3>. QED BY <3>3, <3>4 DEF Accounted, Pending
  <2>4. CASE p \notin Listed /\ p \notin found
    <3>1. ~Pending(p)
      BY <2>4 DEF Pending, Listed
    <3>. QED BY <1>1, <2>1, <2>4, <3>1, AccountedStays DEF InFlight
  <2>. QED BY <2>2, <2>3, <2>4
<1>. QED BY <1>2, <1>3

LEMMA SessionAccounted ==
  ASSUME Base, NEW p \in Paths \ outside, Accounted(p), Connect \/ GetListOfSyncs \/ Disconnect
  PROVE  Accounted(p)'
<1>1. UNCHANGED <<srv, have, edited, other, late, unheard, replaced, struck>>
  BY DEF Connect, GetListOfSyncs, Disconnect, files, browser, history, lost
<1>2. CASE Connect
  BY <1>1, <1>2 DEF Connect, Accounted, Pending, InFlight, wire, lists_, history
<1>3. CASE GetListOfSyncs
  BY <1>1, <1>3 DEF GetListOfSyncs, Accounted, Pending, InFlight, wire, lists_, history
<1>4. CASE Disconnect
  <2>1. away' = away \cup Listed /\ session' = "off"
    BY <1>4 DEF Disconnect
  <2>2. Pending(p) => p \in Listed
    BY DEF Pending, Listed
  <2>. QED BY <1>1, <2>1, <2>2 DEF Accounted, InFlight
<1>. QED BY <1>2, <1>3, <1>4

LEMMA UploadAccounted ==
  ASSUME Base, NEW p \in Paths \ outside, Accounted(p), NEW m,
         \/ m \in Paths /\ (Edit(m) \/ Ask(m))
         \/ HandleSyncInitRequest(m) \/ OwnLocks \/ OwnPatches \/ OwnDenied \/ OwnFails
  PROVE  Accounted(p)'
<1>1. UNCHANGED <<other, session, found, outOfDate, late, unheard, replaced, struck, away>>
  BY DEF Edit, Ask, HandleSyncInitRequest, OwnLocks, OwnPatches, OwnDenied, OwnFails, sess, lists_, history, lost
<1>2. Pending(p) => Pending(p)'
  <2>1. \A x \in DOMAIN toServer' : x \in DOMAIN toServer \/ x.kind # "patch"
    <3>1. CASE Ask(m)
      <4>. DEFINE w == Message("sync", Entry(m, "create", None), 0)
      <4>1. toServer' = toServer (+) One(w) /\ w.kind = "sync"
        BY <3>1 DEF Ask, Message
      <4>. HIDE DEF w
      <4>2. DOMAIN toServer' = DOMAIN toServer \cup {w}
        BY <4>1, BagAddOne
      <4>. QED BY <4>1, <4>2
    <3>2. CASE HandleSyncInitRequest(m)
      BY <3>2, SyncInitFacts DEF Base
    <3>3. CASE Edit(m) \/ OwnLocks \/ OwnPatches \/ OwnDenied \/ OwnFails
      BY <3>3 DEF Edit, OwnLocks, OwnPatches, OwnDenied, OwnFails, wire
    <3>. QED BY <3>1, <3>2, <3>3
  <2>. QED BY <1>1, <2>1, PendingStays
<1>3. CASE m \in Paths /\ Edit(m)
  <2>1. srv' = srv /\ edited' = edited \cup {m} /\ have' = [have EXCEPT ![m] = writes']
    BY <1>3 DEF Edit
  <2>2. CASE p = m
    BY <2>1, <2>2 DEF Accounted
  <2>3. CASE p # m
    <3>1. have'[p] = have[p]
      BY <2>1, <2>3 DEF Base, TypeInv, FileTypes
    <3>. QED BY <1>1, <1>2, <2>1, <3>1, AccountedStays DEF InFlight
  <2>. QED BY <2>2, <2>3
<1>4. CASE Ask(m) \/ HandleSyncInitRequest(m) \/ OwnLocks \/ OwnDenied \/ OwnFails
  <2>1. UNCHANGED <<srv, have, edited>>
    BY <1>4 DEF Ask, HandleSyncInitRequest, OwnLocks, OwnDenied, OwnFails, files, browser
  <2>. QED BY <1>1, <1>2, <2>1, AccountedStays DEF InFlight
<1>5. CASE OwnPatches
  <2>1. have' = have /\ edited' = edited \ {own.path} /\ own.path \in Paths
    BY <1>5 DEF OwnPatches, Base, TypeInv, OwnTypes
  <2>2. CASE have[own.path] = 0
    <3>1. srv' = srv
      BY <1>5, <2>2 DEF OwnPatches
    <3>2. edited' = edited
      BY <2>1, <2>2 DEF Base, BrowserInv
    <3>. QED BY <1>1, <1>2, <2>1, <3>1, <3>2, AccountedStays DEF InFlight
  <2>3. CASE have[own.path] # 0
    <3>1. srv' = [srv EXCEPT ![own.path] = have[own.path]]
      BY <1>5, <2>3 DEF OwnPatches
    <3>2. CASE p = own.path
      <4>1. srv'[p] = have'[p]
        BY <2>1, <3>1, <3>2 DEF Base, TypeInv, FileTypes
      <4>. QED BY <4>1 DEF Accounted
    <3>3. CASE p # own.path
      <4>1. srv'[p] = srv[p] /\ (p \in edited => p \in edited')
        BY <2>1, <3>1, <3>3 DEF Base, TypeInv, FileTypes
      <4>. QED BY <1>1, <1>2, <2>1, <4>1, AccountedStays DEF InFlight
    <3>. QED BY <3>2, <3>3
  <2>. QED BY <2>2, <2>3
<1>. QED BY <1>3, <1>4, <1>5

LEMMA AccountedStep ==
  ASSUME Base, AllAccounted, [Next]_vars
  PROVE  AllAccounted'
<1>. SUFFICES ASSUME NEW p \in Paths \ outside', Step PROVE Accounted(p)'
  BY Steps DEF Base, AllAccounted
<1>1. p \in Paths \ outside /\ Accounted(p)
  <2>1. outside' = outside
    BY DEF Step, Relay, Applies, Removes, OtherLocks, OtherPatches, OtherFails, OtherReleases,
       OtherPublishes, OtherDies, Connect, GetListOfSyncs, HandleFullDownstream, Disconnect, Edit, Ask,
       HandleSyncInitRequest, OwnLocks, OwnPatches, OwnDenied, OwnFails, browser
  <2>. QED BY <2>1 DEF AllAccounted
<1>2. CASE Relay
  <2>1. Pending(p) => Pending(p)'
    BY <1>2, PendingStays DEF Relay
  <2>. QED BY <1>1, <1>2, <2>1, AccountedStays DEF Relay, InFlight, lost
<1>3. CASE \E m : Applies(m)
  BY <1>1, <1>3, AppliesAccounted
<1>4. CASE \E m, i : Removes(m, i)
  BY <1>1, <1>4, RemovesAccounted
<1>5. CASE OtherLocks \/ OtherPatches \/ OtherFails \/ OtherReleases \/ OtherDies
  BY <1>1, <1>5, OtherAccounted
<1>6. CASE OtherPublishes
  BY <1>1, <1>6, PublishAccounted
<1>7. CASE HandleFullDownstream
  BY <1>1, <1>7, ListingAccounted
<1>8. CASE Connect \/ GetListOfSyncs \/ Disconnect
  BY <1>1, <1>8, SessionAccounted
<1>9. CASE \/ \E m \in Paths : Edit(m) \/ Ask(m)
           \/ \E m : HandleSyncInitRequest(m)
           \/ OwnLocks \/ OwnPatches \/ OwnDenied \/ OwnFails
  BY <1>1, <1>9, UploadAccounted
<1>. QED BY <1>2, <1>3, <1>4, <1>5, <1>6, <1>7, <1>8, <1>9 DEF Step

LEMMA AccountedGives == Base /\ AllAccounted => Delivered
<1>. SUFFICES ASSUME Base, AllAccounted, Quiet, NEW p \in Paths \ outside
              PROVE  \/ have[p] = srv[p] \/ p \in edited \/ p \in Listed
                     \/ p \in late \cup unheard \cup replaced \cup struck
                     \/ p \in away /\ srv[p] = 0
  BY DEF Delivered
<1>1. session = "on" /\ ~InFlight
  BY DEF Quiet, InFlight, Idle
<1>2. Pending(p) => p \in Listed
  BY DEF Pending, Listed
<1>. QED BY <1>1, <1>2 DEF AllAccounted, Accounted

\* A file that differs from the server's when nothing is under way is one that
\* the session still lists, or one of five kinds of update that the code loses.
\* It holds since an entry of outOfDate stays unanswered until the browser has
\* done what it says, and its answer then removes that entry or a lost one.
THEOREM DeliveredHolds == Spec => []Delivered
<1>1. Init => Base /\ AllAccounted
  <2>1. Init => AllAccounted
    BY DEF Init, InitWith, AllAccounted, Accounted
  <2>. QED BY <2>1, InitBase
<1>2. Base /\ AllAccounted /\ [Next]_vars => (Base /\ AllAccounted)'
  BY BaseStep, AccountedStep
<1>. QED BY <1>1, <1>2, AccountedGives, PTL DEF Spec

-----------------------------------------------------------------------------
(* An upload does not replace what its browser was told of *)

\* What is under way about e leads the browser to the server's version.
Fits(e) == /\ ~Patched(toServer, e)
           /\ \A m \in DOMAIN toBrowser : m.kind = "diffs" /\ m.entry = e => m.version = srv[e.path]
Hearing(p) == \E i \in DOMAIN outOfDate : outOfDate[i].path = p /\ Fits(outOfDate[i])

\* The session accepts an upload of a path that it does not list: the update
\* that it was told of last has then reached the browser.
Heard == \A p \in told \ outside : Known(p) \/ Hearing(p)
Knew == own.pc \in {"locking", "locked"} /\ own.knew => Known(own.path)

LEMMA KnownStays ==
  ASSUME NEW p, Known(p), srv'[p] = srv[p], known[p] \subseteq known'[p],
         p \in edited => p \in edited' /\ have'[p] = have[p],
         p \in late \cup replaced \cup struck => p \in late' \cup replaced' \cup struck'
  PROVE  Known(p)'
BY DEF Known

LEMMA HearingStays ==
  ASSUME NEW p, Hearing(p), srv'[p] = srv[p],
         \A i \in DOMAIN outOfDate : \E j \in DOMAIN outOfDate' : outOfDate'[j] = outOfDate[i],
         \A m \in DOMAIN toServer' : m \in DOMAIN toServer \/ m.kind # "patch",
         \A m \in DOMAIN toBrowser' :
           m \in DOMAIN toBrowser \/ (m.kind = "diffs" => m.version = srv[m.entry.path])
  PROVE  Hearing(p)'
<1>1. PICK i \in DOMAIN outOfDate : outOfDate[i].path = p /\ Fits(outOfDate[i])
  BY DEF Hearing
<1>2. PICK j \in DOMAIN outOfDate' : outOfDate'[j] = outOfDate[i]
  BY <1>1
<1>3. ~Patched(toServer', outOfDate[i])
  BY <1>1 DEF Fits, Patched
<1>4. \A m \in DOMAIN toBrowser' : m.kind = "diffs" /\ m.entry = outOfDate[i] => m.version = srv'[p]
  BY <1>1 DEF Fits
<1>. QED BY <1>1, <1>2, <1>3, <1>4 DEF Fits, Hearing

LEMMA AppliesHeard ==
  ASSUME Base, NEW m, Applies(m), NEW p \in Paths \ outside, Known(p) \/ Hearing(p)
  PROVE  Known(p)' \/ Hearing(p)'
<1>1. CASE Known(p)
  BY <1>1 DEF Applies
<1>2. CASE Hearing(p)
  <2>1. PICK i \in DOMAIN outOfDate : outOfDate[i].path = p /\ Fits(outOfDate[i])
    BY <1>2 DEF Hearing
  <2>2. CASE outOfDate[i] = m.entry
    BY <2>1, <2>2 DEF Applies, Fits
  <2>3. CASE outOfDate[i] # m.entry
    <3>1. PICK v \in (0..writes) \cup {None} :
            DOMAIN toServer' = DOMAIN toServer \cup {Message("patch", m.entry, v)}
      BY AppliesWire DEF Base
    <3>2. Message("patch", m.entry, v).entry = m.entry
      BY DEF Message
    <3>3. ~Patched(toServer', outOfDate[i])
      BY <2>1, <2>3, <3>1, <3>2 DEF Patched, Fits
    <3>4. UNCHANGED <<srv, outOfDate>> /\ DOMAIN toBrowser' \subseteq DOMAIN toBrowser
      BY AppliesWire DEF Applies, Base
    <3>. QED BY <2>1, <3>3, <3>4 DEF Fits, Hearing
  <2>. QED BY <2>2, <2>3
<1>. QED BY <1>1, <1>2

LEMMA RemovesHeard ==
  ASSUME Base, NEW m, NEW i, Removes(m, i), NEW p \in Paths \ outside, Known(p) \/ Hearing(p)
  PROVE  Known(p)' \/ Hearing(p)'
<1>1. /\ UNCHANGED <<srv, have, edited, known, toBrowser, late, replaced>>
      /\ outOfDate' = Without(outOfDate, i) /\ outOfDate \in Seq(Legal) /\ i \in 0..Len(outOfDate)
      /\ struck' = struck \cup Mistaken(i, m.entry)
      /\ DOMAIN toServer' \subseteq DOMAIN toServer
      /\ m \in DOMAIN toServer /\ m \in Answers /\ m.kind \in {"patch", "root"}
  BY BagTake DEF Removes, Base, TypeInv, SessionTypes
<1>2. CASE Known(p)
  BY <1>1, <1>2, KnownStays
<1>3. CASE Hearing(p)
  <2>1. PICK k \in DOMAIN outOfDate : outOfDate[k].path = p /\ Fits(outOfDate[k])
    BY <1>3 DEF Hearing
  <2>2. ~Patched(toServer', outOfDate[k])
    BY <1>1, <2>1 DEF Patched, Fits
  <2>3. CASE k # i
    <3>1. \E j \in DOMAIN outOfDate' : outOfDate'[j] = outOfDate[k]
      BY <1>1, <2>3, WithoutFacts
    <3>. QED BY <1>1, <2>1, <2>2, <3>1 DEF Hearing, Fits
  <2>4. CASE k = i /\ outOfDate[k] # m.entry
    <3>1. i # 0 /\ outOfDate[k] \in Legal
      BY <1>1, <2>4
    <3>2. p \in Touched(outOfDate[k])
      BY <2>1, <3>1, LegalFacts
    <3>3. p \in struck'
      BY <1>1, <2>4, <3>1, <3>2 DEF Mistaken
    <3>. QED BY <3>3 DEF Known
  <2>5. CASE k = i /\ outOfDate[k] = m.entry
    <3>1. m.kind = "root"
      BY <1>1, <2>1, <2>5 DEF Patched, Fits
    <3>2. m.entry.path \in outside
      BY <1>1, <3>1, AnswerFacts
    <3>. QED BY <2>1, <2>5, <3>2
  <2>. QED BY <2>3, <2>4, <2>5
<1>. QED BY <1>2, <1>3

LEMMA OtherHeard ==
  ASSUME Base, NEW p \in Paths \ outside, Known(p) \/ Hearing(p),
         OtherLocks \/ OtherPatches \/ OtherFails \/ OtherReleases \/ OtherDies,
         OtherPatches => p \notin Touched(other.entry)
  PROVE  Known(p)' \/ Hearing(p)'
<1>1. UNCHANGED <<have, edited, known, outOfDate, toServer, toBrowser, late, replaced, struck>>
  BY DEF OtherLocks, OtherPatches, OtherFails, OtherReleases, OtherDies, browser, sess, wire, lists_,
     history, lost
<1>2. srv'[p] = srv[p]
  BY OtherPatchesFacts DEF OtherLocks, OtherFails, OtherReleases, OtherDies, files, Base
<1>. QED BY <1>1, <1>2, KnownStays, HearingStays

\* Sending what is listed adds no diffs.
LEMMA NoNewDiffs ==
  ASSUME TypeInv, NEW q \in Seq(Legal), NEW current \in [Paths -> Nat], SendSourceLists(q, current)
  PROVE  \A m \in DOMAIN toBrowser' : m \in DOMAIN toBrowser \/ m.kind # "diffs"
<1>1. \A m \in DOMAIN toBrowser' : m \in DOMAIN toBrowser \/
        \E i \in DOMAIN q : AtOnce(q[i]) /\ m = Message(q[i].type, q[i], 0)
  BY SendFacts
<1>. QED BY <1>1 DEF Message, AtOnce

LEMMA PublishHeard ==
  ASSUME Base, Heard, OtherPublishes
  PROVE  Heard'
<1>1. UNCHANGED <<srv, have, edited, outside, known, late, replaced, struck, toServer>>
  BY DEF OtherPublishes, files, browser, lost
<1>2. CASE session = "off"
  BY <1>1, <1>2 DEF OtherPublishes, sess, lists_, Heard, Known, Hearing, Fits
<1>3. CASE session # "off"
  <2>1. /\ outOfDate' \in Seq(Legal)
        /\ \A i \in DOMAIN outOfDate : i \in DOMAIN outOfDate' /\ outOfDate'[i] = outOfDate[i]
        /\ \E i \in DOMAIN outOfDate' : outOfDate'[i] = other.entry
    BY <1>3, PublishGrows DEF Base
  <2>2. told' = told \cup {other.entry.path} /\ SendSourceLists(outOfDate', currentDownstream)
    BY <1>3 DEF OtherPublishes
  <2>3. \A m \in DOMAIN toBrowser' : m \in DOMAIN toBrowser \/ m.kind # "diffs"
    BY <2>1, <2>2, NoNewDiffs DEF Base, TypeInv, SessionTypes
  <2>4. ASSUME NEW p \in told \ outside PROVE Known(p)' \/ Hearing(p)'
    <3>1. Known(p) \/ Hearing(p)
      BY DEF Heard
    <3>2. \A i \in DOMAIN outOfDate : \E j \in DOMAIN outOfDate' : outOfDate'[j] = outOfDate[i]
      BY <2>1
    <3>3. Known(p) => Known(p)'
      BY <1>1, KnownStays
    <3>4. Hearing(p) => Hearing(p)'
      BY <1>1, <2>3, <3>2, HearingStays
    <3>. QED BY <3>1, <3>3, <3>4
  <2>5. ASSUME NEW p, p = other.entry.path PROVE Hearing(p)'
    <3>1. InFlight
      BY DEF OtherPublishes, InFlight
    <3>2. ~Patched(toServer', other.entry)
      BY <1>1, <3>1, PublishedIsNew DEF Base, Patched
    <3>3. \A m \in DOMAIN toBrowser : m.kind = "diffs" => m.entry.type # "forced"
      BY RequestFacts DEF Base, TypeInv, WireTypes
    <3>4. \A m \in DOMAIN toBrowser' : m.kind = "diffs" => m.entry # other.entry
      BY <2>3, <3>1, <3>3, PublishedIsNew DEF Base
    <3>. QED BY <2>1, <2>5, <3>2, <3>4 DEF Hearing, Fits
  <2>. QED BY <1>1, <2>2, <2>4, <2>5 DEF Heard
<1>. QED BY <1>2, <1>3

LEMMA ListingHeard ==
  ASSUME Base, Heard, HandleFullDownstream
  PROVE  Heard'
<1>1. /\ UNCHANGED <<srv, have, edited, outside, known, toServer, late, struck>>
      /\ session = "read" /\ told' = told \cup found
  BY DEF HandleFullDownstream, files, browser
<1>2. CASE found = {}
  BY <1>1, <1>2 DEF HandleFullDownstream, lists_, Heard, Known, Hearing, Fits
<1>3. CASE found # {}
  <2>1. /\ replaced' = replaced \cup Listed
        /\ \A i \in DOMAIN outOfDate' : outOfDate'[i] = Entry(outOfDate'[i].path, "create", None)
        /\ \A q \in found : \E i \in DOMAIN outOfDate' : outOfDate'[i].path = q
        /\ outOfDate' \in Seq(Legal) /\ SendSourceLists(outOfDate', NoneCurrent)
    BY <1>3, ListingFacts DEF Base
  <2>2. NoneCurrent \in [Paths -> Nat]
    BY DEF NoneCurrent
  <2>3. \A m \in DOMAIN toBrowser' : m \in DOMAIN toBrowser \/ m.kind # "diffs"
    BY <2>1, <2>2, NoNewDiffs DEF Base
  <2>4. ASSUME NEW p \in told \ outside PROVE Known(p)'
    <3>1. CASE Known(p)
      BY <1>1, <2>1, <3>1, KnownStays
    <3>2. CASE Hearing(p)
      <4>1. PICK i \in DOMAIN outOfDate : outOfDate[i].path = p
        BY <3>2 DEF Hearing
      <4>2. p \in Touched(outOfDate[i])
        BY <4>1, LegalFacts DEF Base, TypeInv, SessionTypes
      <4>3. p \in replaced'
        BY <2>1, <4>2 DEF Listed
      <4>. QED BY <4>3 DEF Known
    <3>. QED BY <3>1, <3>2 DEF Heard
  <2>5. ASSUME NEW p \in found PROVE Hearing(p)'
    <3>1. PICK i \in DOMAIN outOfDate' : outOfDate'[i].path = p
      BY <2>1
    <3>2. outOfDate'[i].no = 0
      BY <2>1 DEF Entry
    <3>3. \A m \in DOMAIN toServer : m.kind = "patch" => m.entry.no # 0
      BY <1>1, AroundHas DEF Base, Fresh
    <3>4. \A m \in DOMAIN toBrowser : m.kind = "diffs" => m.entry.no # 0
      <4>1. \A m \in DOMAIN toBrowser : m.kind = "diffs" => m.entry.type # "forced"
        BY RequestFacts DEF Base, TypeInv, WireTypes
      <4>. QED BY <1>1, <4>1, AroundHas DEF Base, Fresh
    <3>5. ~Patched(toServer', outOfDate'[i])
      BY <1>1, <3>2, <3>3 DEF Patched
    <3>6. \A m \in DOMAIN toBrowser' : m.kind = "diffs" => m.entry # outOfDate'[i]
      BY <2>3, <3>2, <3>4
    <3>. QED BY <3>1, <3>5, <3>6 DEF Hearing, Fits
  <2>. QED BY <1>1, <2>4, <2>5 DEF Heard
<1>. QED BY <1>2, <1>3

LEMMA UploadHeard ==
  ASSUME Base, NEW p \in Paths \ outside, Known(p) \/ Hearing(p), NEW m,
         \/ m \in Paths /\ (Edit(m) \/ Ask(m))
         \/ HandleSyncInitRequest(m) \/ OwnLocks \/ OwnDenied \/ OwnFails
         \/ OwnPatches /\ p # own.path
  PROVE  Known(p)' \/ Hearing(p)'
<1>1. UNCHANGED <<outOfDate, toBrowser, late, replaced, struck>>
  BY DEF Edit, Ask, HandleSyncInitRequest, OwnLocks, OwnPatches, OwnDenied, OwnFails, sess, lists_, wire, history, lost
<1>2. srv'[p] = srv[p] /\ known'[p] = known[p]
  <2>1. CASE OwnPatches /\ p # own.path
    <3>1. CASE have[own.path] = 0
      BY <2>1, <3>1 DEF OwnPatches
    <3>2. CASE have[own.path] # 0
      <4>1. /\ srv' = [srv EXCEPT ![own.path] = have[own.path]]
            /\ known' = [known EXCEPT ![own.path] = @ \cup {have[own.path]}]
        BY <2>1, <3>2 DEF OwnPatches
      <4>. QED BY <2>1, <4>1 DEF Base, TypeInv, FileTypes
    <3>. QED BY <3>1, <3>2
  <2>2. CASE ~(OwnPatches /\ p # own.path)
    BY <2>2 DEF Edit, Ask, HandleSyncInitRequest, OwnLocks, OwnDenied, OwnFails, files, history
  <2>. QED BY <2>1, <2>2
<1>3. p \in edited => p \in edited' /\ have'[p] = have[p]
  <2>1. CASE Edit(m)
    <3>1. have' = [have EXCEPT ![m] = writes'] /\ m \notin edited /\ edited' = edited \cup {m}
      BY <2>1 DEF Edit
    <3>. QED BY <3>1 DEF Base, TypeInv, FileTypes
  <2>2. CASE OwnPatches /\ p # own.path
    BY <2>2 DEF OwnPatches
  <2>3. CASE Ask(m) \/ HandleSyncInitRequest(m) \/ OwnLocks \/ OwnDenied \/ OwnFails
    BY <2>3 DEF Ask, HandleSyncInitRequest, OwnLocks, OwnDenied, OwnFails, browser
  <2>. QED BY <2>1, <2>2, <2>3
<1>4. \A x \in DOMAIN toServer' : x \in DOMAIN toServer \/ x.kind # "patch"
  <2>1. CASE Ask(m)
    <3>. DEFINE w == Message("sync", Entry(m, "create", None), 0)
    <3>1. toServer' = toServer (+) One(w) /\ w.kind = "sync"
      BY <2>1 DEF Ask, Message
    <3>. HIDE DEF w
    <3>2. DOMAIN toServer' = DOMAIN toServer \cup {w}
      BY <3>1, BagAddOne
    <3>. QED BY <3>1, <3>2
  <2>2. CASE HandleSyncInitRequest(m)
    BY <2>2, SyncInitFacts DEF Base
  <2>3. CASE Edit(m) \/ OwnLocks \/ OwnPatches \/ OwnDenied \/ OwnFails
    BY <2>3 DEF Edit, OwnLocks, OwnPatches, OwnDenied, OwnFails, wire
  <2>. QED BY <2>1, <2>2, <2>3
<1>. QED BY <1>1, <1>2, <1>3, <1>4, KnownStays, HearingStays

LEMMA HeardStep ==
  ASSUME Base, Heard, Step
  PROVE  Heard'
<1>1. outside' = outside /\ told \subseteq Paths
  BY DEF Step, Relay, Applies, Removes, OtherLocks, OtherPatches, OtherFails, OtherReleases,
     OtherPublishes, OtherDies, Connect, GetListOfSyncs, HandleFullDownstream, Disconnect, Edit, Ask,
     HandleSyncInitRequest, OwnLocks, OwnPatches, OwnDenied, OwnFails, browser, Base, TypeInv, SessionTypes
<1>2. CASE Relay
  <2>1. ASSUME NEW p \in told \ outside PROVE Known(p)' \/ Hearing(p)'
    <3>1. Known(p) => Known(p)'
      BY <1>2, KnownStays DEF Relay, lost
    <3>2. Hearing(p) => Hearing(p)'
      BY <1>2, HearingStays DEF Relay
    <3>. QED BY <3>1, <3>2 DEF Heard
  <2>. QED BY <1>1, <1>2, <2>1 DEF Relay, Heard
<1>3. ASSUME NEW m, Applies(m) PROVE Heard'
  BY <1>1, <1>3, AppliesHeard DEF Heard, Applies
<1>4. ASSUME NEW m, NEW i, Removes(m, i) PROVE Heard'
  BY <1>1, <1>4, RemovesHeard DEF Heard, Removes
<1>5. CASE OtherLocks \/ OtherPatches \/ OtherFails \/ OtherReleases \/ OtherDies
  <2>1. told' \subseteq told /\ (OtherPatches => told' = told \ Touched(other.entry))
    BY <1>5 DEF OtherLocks, OtherPatches, OtherFails, OtherReleases, OtherDies, sess
  <2>. QED BY <1>1, <1>5, <2>1, OtherHeard DEF Heard
<1>6. CASE OtherPublishes
  BY <1>6, PublishHeard
<1>7. CASE HandleFullDownstream
  BY <1>7, ListingHeard
<1>8. CASE Connect \/ GetListOfSyncs
  BY <1>1, <1>8 DEF Connect, GetListOfSyncs, Heard, Known, Hearing, Fits, files, browser, lists_, wire,
     history, lost
<1>9. CASE Disconnect
  BY <1>9 DEF Disconnect, Heard
<1>10. CASE \/ \E m \in Paths : Edit(m) \/ Ask(m)
            \/ \E m : HandleSyncInitRequest(m)
            \/ OwnLocks \/ OwnPatches \/ OwnDenied \/ OwnFails
  <2>1. told' \subseteq told /\ (OwnPatches => told' = told \ {own.path})
    BY <1>10 DEF Edit, Ask, HandleSyncInitRequest, OwnLocks, OwnPatches, OwnDenied, OwnFails, sess
  <2>. QED BY <1>1, <1>10, <2>1, UploadHeard DEF Heard
<1>. QED BY <1>2, <1>3, <1>4, <1>5, <1>6, <1>7, <1>8, <1>9, <1>10 DEF Step

\* The acceptance of an upload: the path is not listed, so that it is known.
LEMMA KnewStep ==
  ASSUME Base, Heard, Knew, Step
  PROVE  Knew'
<1>. DEFINE p == own.path
<1>1. own.pc \in {"locking", "locked"} => p \in Paths \ outside
  BY DEF Base, TypeInv, OwnTypes
<1>2. ASSUME own' = own, Known(p) => Known(p)' PROVE Knew'
  BY <1>2 DEF Knew, Known
<1>3. CASE Relay
  BY <1>2, <1>3, KnownStays DEF Relay, lost
<1>4. ASSUME NEW m, Applies(m) PROVE Knew'
  BY <1>1, <1>4 DEF Applies, Knew, Known
<1>5. ASSUME NEW m, NEW i, Removes(m, i) PROVE Knew'
  BY <1>2, <1>5, KnownStays DEF Removes
<1>6. CASE OtherPatches
  <2>1. /\ own'.pc = own.pc /\ own'.path = own.path
        /\ p \in Touched(other.entry) => ~own'.knew
        /\ p \notin Touched(other.entry) => own' = own
        /\ \A q \in Paths \ Touched(other.entry) : srv'[q] = srv[q]
    BY <1>6, OtherPatchesFacts DEF Base
  <2>2. UNCHANGED <<have, edited, known, late, replaced, struck>>
    BY <1>6 DEF OtherPatches, browser, history, lost
  <2>3. CASE p \in Touched(other.entry)
    BY <2>1, <2>3 DEF Knew
  <2>4. CASE p \notin Touched(other.entry) /\ p \in Paths
    BY <1>2, <2>1, <2>2, <2>4, KnownStays
  <2>5. CASE p \notin Paths
    BY <1>1, <2>1, <2>5 DEF Knew
  <2>. QED BY <2>3, <2>4, <2>5
<1>7. CASE OtherLocks \/ OtherFails \/ OtherReleases \/ OtherDies
  BY <1>2, <1>7, KnownStays DEF OtherLocks, OtherFails, OtherReleases, OtherDies, files, browser, history, lost
<1>8. CASE OtherPublishes \/ HandleFullDownstream
  <2>1. UNCHANGED <<srv, have, edited, known, late, struck, own>> /\ replaced \subseteq replaced'
    BY <1>8 DEF OtherPublishes, HandleFullDownstream, files, browser, lost
  <2>. QED BY <1>2, <2>1, KnownStays
<1>9. CASE Connect \/ GetListOfSyncs
  BY <1>2, <1>9, KnownStays DEF Connect, GetListOfSyncs, files, browser, history, lost
<1>10. CASE Disconnect \/ OwnPatches \/ OwnDenied \/ OwnFails
  BY <1>10 DEF Disconnect, OwnPatches, OwnDenied, OwnFails, Calm, Knew
<1>11. ASSUME NEW m \in Paths, Edit(m) PROVE Knew'
  BY <1>11 DEF Edit, Calm, Knew
<1>12. ASSUME NEW m \in Paths, Ask(m) PROVE Knew'
  <2>1. own' = [own EXCEPT !.pc = "asked", !.path = m]
    BY <1>12 DEF Ask
  <2>2. own'.pc = "asked"
    BY <2>1 DEF Base, TypeInv, OwnTypes
  <2>. QED BY <2>2 DEF Knew
<1>13. ASSUME NEW m, HandleSyncInitRequest(m) PROVE Knew'
  <2>. DEFINE q == m.entry.path
  <2>1. /\ q \in Paths \ outside /\ (q \in PathsIn(outOfDate) => own' = Calm)
        /\ q \notin PathsIn(outOfDate) => own' = [pc |-> "locking", path |-> q, knew |-> q \in told]
    BY <1>13, SyncInitFacts DEF Base
  <2>2. UNCHANGED <<srv, have, edited, known, late, replaced, struck>>
    BY <1>13 DEF HandleSyncInitRequest, files, browser, history, lost
  <2>. HIDE DEF q
  <2>3. CASE q \in PathsIn(outOfDate)
    BY <2>1, <2>3 DEF Calm, Knew
  <2>4. CASE q \notin PathsIn(outOfDate)
    <3>1. own'.path = q /\ own'.knew = (q \in told)
      BY <2>1, <2>4
    <3>2. ~Hearing(q)
      BY <2>4 DEF Hearing, PathsIn
    <3>3. q \in told => Known(q)
      BY <2>1, <3>2 DEF Heard
    <3>4. Known(q) => Known(q)'
      BY <2>2 DEF Known
    <3>. QED BY <3>1, <3>3, <3>4 DEF Knew, Known
  <2>. QED BY <2>3, <2>4
<1>14. CASE OwnLocks
  <2>1. own' = [own EXCEPT !.pc = "locked"] /\ own.pc = "locking"
        /\ UNCHANGED <<srv, have, edited, known, late, replaced, struck>>
    BY <1>14 DEF OwnLocks, browser, history, lost
  <2>2. own'.path = own.path /\ own'.knew = own.knew
    BY <2>1 DEF Base, TypeInv, OwnTypes
  <2>. QED BY <2>1, <2>2 DEF Knew, Known
<1>. QED BY <1>3, <1>4, <1>5, <1>6, <1>7, <1>8, <1>9, <1>10, <1>11, <1>12, <1>13, <1>14 DEF Step

LEMMA KnewGives == Knew /\ Base => NoKnownOverwrite
BY DEF Knew, Known, NoKnownOverwrite

\* An upload replaces no version that the session had been told of when it
\* accepted it, unless the browser had that version, or had compared it with
\* its own, or the update was forgotten (replaced, struck) or came too late.
\* It holds since a path that was told of and is not known stays listed, with
\* what is under way leading to the server's version.
THEOREM NoKnownOverwriteHolds == Spec => []NoKnownOverwrite
<1>. DEFINE Inv == Base /\ Heard /\ Knew
<1>1. Init => Inv
  <2>1. Init => Heard /\ Knew
    BY DEF Init, InitWith, Heard, Knew, Calm
  <2>. QED BY <2>1, InitBase
<1>2. Inv /\ [Next]_vars => Inv'
  <2>1. Base /\ [Next]_vars => Step
    BY Steps DEF Base
  <2>. QED BY <2>1, BaseStep, HeardStep, KnewStep
<1>3. Inv => NoKnownOverwrite
  BY KnewGives
<1>. QED BY <1>1, <1>2, <1>3, PTL DEF Spec

-----------------------------------------------------------------------------
(* How many messages of a kind are under way *)

\* The copies of the elements of a bag, and those of the ones in S.
AllCopies(b) == {c \in (DOMAIN b) \X Nat : c[2] \in 1..b[c[1]]}
Copies(b, S) == {c \in AllCopies(b) : c[1] \in S}
Count(b, S) == Cardinality(Copies(b, S))
Bagged(b) == b \in [DOMAIN b -> Nat \ {0}] /\ IsFiniteSet(AllCopies(b))

LEMMA CountType ==
  ASSUME NEW b, Bagged(b), NEW S
  PROVE  IsFiniteSet(Copies(b, S)) /\ Count(b, S) \in Nat
<1>1. Copies(b, S) \in SUBSET AllCopies(b)
  BY DEF Copies
<1>2. IsFiniteSet(Copies(b, S))
  BY <1>1, FS_Subset DEF Bagged
<1>. QED BY <1>2, FS_CardinalityType DEF Count

LEMMA CountEmpty ==
  ASSUME NEW S
  PROVE  Bagged(EmptyBag) /\ Count(EmptyBag, S) = 0
<1>1. AllCopies(EmptyBag) = {} /\ Copies(EmptyBag, S) = {}
  BY BagNone DEF AllCopies, Copies
<1>2. EmptyBag \in [DOMAIN EmptyBag -> Nat \ {0}]
  BY DEF EmptyBag, SetToBag
<1>. QED BY <1>1, <1>2, FS_EmptySet DEF Bagged, Count

LEMMA CountAdd ==
  ASSUME NEW b, Bagged(b), NEW m, NEW S
  PROVE  /\ Bagged(b (+) One(m))
         /\ m \in S => Count(b (+) One(m), S) = Count(b, S) + 1
         /\ m \notin S => Count(b (+) One(m), S) = Count(b, S)
<1>. DEFINE d == b (+) One(m)
            n == IF m \in DOMAIN b THEN b[m] ELSE 0
<1>1. /\ DOMAIN d = DOMAIN b \cup {m}
      /\ \A x \in DOMAIN d : d[x] = (IF x \in DOMAIN b THEN b[x] ELSE 0) + (IF x = m THEN 1 ELSE 0)
  BY DEF (+), One, SetToBag
<1>2. \A x \in DOMAIN b : b[x] \in Nat /\ b[x] # 0
  BY DEF Bagged
<1>3. n \in Nat
  BY <1>2
<1>4. d[m] = n + 1 /\ \A x \in DOMAIN b : x # m => d[x] = b[x]
  BY <1>1, <1>2
<1>5. d \in [DOMAIN d -> Nat \ {0}]
  <2>1. \A x \in DOMAIN d : d[x] \in Nat \ {0}
    BY <1>1, <1>2, <1>3, <1>4
  <2>2. d = [x \in DOMAIN d |-> d[x]]
    BY DEF (+)
  <2>. HIDE DEF d
  <2>. QED BY <2>1, <2>2
<1>. HIDE DEF d
<1>6. AllCopies(d) = AllCopies(b) \cup {<<m, n + 1>>}
  <2>1. ASSUME NEW x \in DOMAIN d, NEW k \in Nat
        PROVE  k \in 1..d[x] <=> (x \in DOMAIN b /\ k \in 1..b[x]) \/ (x = m /\ k = n + 1)
    <3>1. CASE x = m
      <4>1. d[x] = n + 1 /\ n \in Nat
        BY <1>3, <1>4, <3>1
      <4>2. k \in 1..(n + 1) <=> (k \in 1..n \/ k = n + 1)
        BY <1>3
      <4>3. k \in 1..n <=> (x \in DOMAIN b /\ k \in 1..b[x])
        BY <3>1
      <4>. HIDE DEF n
      <4>. QED BY <3>1, <4>1, <4>2, <4>3
    <3>2. CASE x # m
      BY <1>1, <1>4, <3>2
    <3>. QED BY <3>1, <3>2
  <2>. HIDE DEF n
  <2>2. ASSUME NEW x, NEW k
        PROVE  <<x, k>> \in AllCopies(d) <=> <<x, k>> \in AllCopies(b) \cup {<<m, n + 1>>}
    <3>1. <<x, k>> \in AllCopies(d) <=> x \in DOMAIN d /\ k \in Nat /\ k \in 1..d[x]
      BY DEF AllCopies
    <3>2. <<x, k>> \in AllCopies(b) <=> x \in DOMAIN b /\ k \in Nat /\ k \in 1..b[x]
      BY DEF AllCopies
    <3>3. <<x, k>> = <<m, n + 1>> <=> x = m /\ k = n + 1
      OBVIOUS
    <3>4. n + 1 \in Nat /\ m \in DOMAIN d /\ DOMAIN b \subseteq DOMAIN d
      BY <1>1, <1>3
    <3>. QED BY <2>1, <3>1, <3>2, <3>3, <3>4
  <2>3. /\ \A c \in AllCopies(d) : c = <<c[1], c[2]>>
        /\ \A c \in AllCopies(b) : c = <<c[1], c[2]>>
    BY DEF AllCopies
  <2>. QED BY <2>2, <2>3
<1>7. <<m, n + 1>> \notin AllCopies(b)
  <2>1. m \in DOMAIN b => ~(n + 1 \in 1..b[m])
    BY <1>2
  <2>. QED BY <2>1 DEF AllCopies
<1>. HIDE DEF n
<1>8. Bagged(d)
  BY <1>5, <1>6, FS_AddElement DEF Bagged
<1>9. CASE m \in S
  <2>1. Copies(d, S) = Copies(b, S) \cup {<<m, n + 1>>} /\ <<m, n + 1>> \notin Copies(b, S)
    BY <1>6, <1>7, <1>9 DEF Copies
  <2>2. IsFiniteSet(Copies(b, S))
    BY CountType
  <2>. QED BY <1>8, <1>9, <2>1, <2>2, FS_AddElement DEF Count, d
<1>10. CASE m \notin S
  <2>1. Copies(d, S) = Copies(b, S)
    BY <1>6, <1>10 DEF Copies
  <2>. QED BY <1>8, <1>10, <2>1 DEF Count, d
<1>. QED BY <1>9, <1>10

LEMMA CountTake ==
  ASSUME NEW b, Bagged(b), NEW m \in DOMAIN b, NEW S
  PROVE  /\ Bagged(b (-) One(m))
         /\ m \in S => Count(b, S) >= 1 /\ Count(b (-) One(m), S) = Count(b, S) - 1
         /\ m \notin S => Count(b (-) One(m), S) = Count(b, S)
<1>. DEFINE d == b (-) One(m)
            n == b[m]
<1>1. \A x \in DOMAIN b : b[x] \in Nat /\ b[x] # 0 /\ b[x] > 0
  BY DEF Bagged
<1>2. /\ DOMAIN d \subseteq DOMAIN b
      /\ \A x \in DOMAIN b : x # m => x \in DOMAIN d /\ d[x] = b[x]
      /\ n = 1 => m \notin DOMAIN d
      /\ n # 1 => m \in DOMAIN d /\ d[m] = n - 1
      /\ d = [x \in DOMAIN d |-> d[x]]
  BY <1>1 DEF (-), One, SetToBag
<1>3. n \in Nat /\ n # 0
  BY <1>1
<1>4. d \in [DOMAIN d -> Nat \ {0}]
  <2>1. \A x \in DOMAIN d : d[x] \in Nat \ {0}
    BY <1>1, <1>2, <1>3
  <2>. HIDE DEF d
  <2>. QED BY <1>2, <2>1
<1>. HIDE DEF d
<1>5. AllCopies(d) = AllCopies(b) \ {<<m, n>>} /\ <<m, n>> \in AllCopies(b)
  <2>1. ASSUME NEW x \in DOMAIN b, NEW k \in Nat
        PROVE  (x \in DOMAIN d /\ k \in 1..d[x]) <=> k \in 1..b[x] /\ ~(x = m /\ k = n)
    <3>1. CASE x = m /\ n = 1
      BY <1>2, <3>1
    <3>2. CASE x = m /\ n # 1
      BY <1>2, <1>3, <3>2
    <3>3. CASE x # m
      BY <1>2, <3>3
    <3>. QED BY <3>1, <3>2, <3>3
  <2>2. <<m, n>> \in AllCopies(b)
    <3>1. n \in 1..b[m]
      BY <1>3
    <3>. QED BY <1>3, <3>1 DEF AllCopies
  <2>. HIDE DEF n
  <2>3. ASSUME NEW x, NEW k
        PROVE  <<x, k>> \in AllCopies(d) <=> <<x, k>> \in AllCopies(b) \ {<<m, n>>}
    <3>1. <<x, k>> \in AllCopies(d) <=> x \in DOMAIN d /\ k \in Nat /\ k \in 1..d[x]
      BY DEF AllCopies
    <3>2. <<x, k>> \in AllCopies(b) <=> x \in DOMAIN b /\ k \in Nat /\ k \in 1..b[x]
      BY DEF AllCopies
    <3>3. <<x, k>> = <<m, n>> <=> x = m /\ k = n
      OBVIOUS
    <3>. QED BY <1>2, <2>1, <3>1, <3>2, <3>3
  <2>4. /\ \A c \in AllCopies(d) : c = <<c[1], c[2]>>
        /\ \A c \in AllCopies(b) : c = <<c[1], c[2]>>
    BY DEF AllCopies
  <2>. QED BY <2>2, <2>3, <2>4
<1>. HIDE DEF n
<1>6. Bagged(d)
  BY <1>4, <1>5, FS_RemoveElement DEF Bagged
<1>7. CASE m \in S
  <2>1. Copies(d, S) = Copies(b, S) \ {<<m, n>>} /\ <<m, n>> \in Copies(b, S)
    BY <1>5, <1>7 DEF Copies
  <2>2. IsFiniteSet(Copies(b, S))
    BY CountType
  <2>3. Cardinality(Copies(d, S)) = Cardinality(Copies(b, S)) - 1
    BY <2>1, <2>2, FS_RemoveElement
  <2>4. Count(d, S) \in Nat /\ Count(b, S) \in Nat
    BY <1>6, CountType
  <2>5. Count(b, S) >= 1
    BY <2>3, <2>4 DEF Count
  <2>. QED BY <1>6, <1>7, <2>3, <2>5 DEF Count, d
<1>8. CASE m \notin S
  <2>1. Copies(d, S) = Copies(b, S)
    BY <1>5, <1>8 DEF Copies
  <2>. QED BY <1>6, <1>8, <2>1 DEF Count, d
<1>. QED BY <1>7, <1>8

\* The elements f[i] are added, one copy each.
LEMMA CountAll ==
  ASSUME NEW b, Bagged(b), NEW I, IsFiniteSet(I), NEW f, DOMAIN f = I,
         \A i, j \in I : f[i] = f[j] => i = j,
         NEW g \in [{f[i] : i \in I} -> {1}],
         NEW S, NEW J, J \subseteq I, \A i \in J : f[i] \in S
  PROVE  Bagged(b (+) g) /\ Count(b (+) g, S) >= Cardinality(J)
<1>. DEFINE d == b (+) g
            D == {f[i] : i \in I}
            n(x) == IF x \in DOMAIN b THEN b[x] ELSE 0
<1>1. /\ DOMAIN d = DOMAIN b \cup D
      /\ \A x \in DOMAIN d : d[x] = n(x) + (IF x \in D THEN g[x] ELSE 0)
      /\ d = [x \in DOMAIN d |-> d[x]]
  BY DEF (+)
<1>2. \A x : n(x) \in Nat /\ (x \in DOMAIN b => n(x) # 0 /\ n(x) = b[x])
  BY DEF Bagged
<1>3. \A x \in D : g[x] = 1
  OBVIOUS
<1>4. \A i \in I : f[i] \in D
  OBVIOUS
<1>5. \A x \in D : \E i \in I : x = f[i]
  OBVIOUS
<1>. HIDE DEF d, D
<1>6. \A x \in DOMAIN d : /\ x \in D => d[x] = n(x) + 1
                          /\ x \notin D => d[x] = b[x] /\ x \in DOMAIN b
  BY <1>1, <1>2, <1>3
<1>7. d \in [DOMAIN d -> Nat \ {0}]
  <2>1. \A x \in DOMAIN d : d[x] \in Nat \ {0}
    BY <1>2, <1>6
  <2>. QED BY <1>1, <2>1
<1>. DEFINE new == [i \in I |-> <<f[i], n(f[i]) + 1>>]
            N == {new[i] : i \in I}
<1>8. IsFiniteSet(N)
  <2>1. new \in Surjection(I, N)
    BY DEF Surjection
  <2>. HIDE DEF new, N
  <2>. QED BY <2>1, FS_Surjection
<1>9. AllCopies(d) \subseteq AllCopies(b) \cup N
  <2>1. ASSUME NEW x, NEW k, <<x, k>> \in AllCopies(d), <<x, k>> \notin AllCopies(b) PROVE <<x, k>> \in N
    <3>1. x \in DOMAIN d /\ k \in Nat /\ k \in 1..d[x]
      BY <2>1 DEF AllCopies
    <3>2. ~(x \in DOMAIN b /\ k \in 1..b[x])
      BY <2>1, <3>1 DEF AllCopies
    <3>3. x \in D
      BY <1>6, <3>1, <3>2
    <3>4. ~(k \in 1..n(x))
      <4>1. CASE x \in DOMAIN b
        BY <1>2, <3>2, <4>1
      <4>2. CASE x \notin DOMAIN b
        BY <4>2
      <4>. QED BY <4>1, <4>2
    <3>5. d[x] = n(x) + 1 /\ n(x) \in Nat
      BY <1>2, <1>6, <3>1, <3>3
    <3>. HIDE DEF n
    <3>6. k = n(x) + 1
      BY <3>1, <3>4, <3>5
    <3>7. PICK i \in I : x = f[i]
      BY <1>5, <3>3
    <3>8. new[i] = <<x, k>>
      BY <3>6, <3>7
    <3>. QED BY <3>8
  <2>2. \A c \in AllCopies(d) : c = <<c[1], c[2]>>
    BY DEF AllCopies
  <2>. QED BY <2>1, <2>2
<1>10. Bagged(d)
  <2>1. IsFiniteSet(AllCopies(b) \cup N)
    BY <1>8, FS_Union DEF Bagged
  <2>2. AllCopies(d) \in SUBSET (AllCopies(b) \cup N)
    BY <1>9
  <2>. QED BY <1>7, <2>1, <2>2, FS_Subset DEF Bagged
<1>11. Count(d, S) >= Cardinality(J)
  <2>. DEFINE h == [i \in J |-> <<f[i], 1>>]
  <2>1. ASSUME NEW i \in J PROVE h[i] \in Copies(d, S)
    <3>1. f[i] \in DOMAIN d /\ d[f[i]] \in Nat \ {0}
      BY <1>1, <1>4, <1>7
    <3>2. 1 \in 1..d[f[i]] /\ 1 \in Nat
      BY <3>1
    <3>. QED BY <3>1, <3>2 DEF Copies, AllCopies
  <2>2. \A i, j \in J : h[i] = h[j] => i = j
    OBVIOUS
  <2>3. h \in [J -> Copies(d, S)]
    BY <2>1
  <2>. HIDE DEF h
  <2>4. h \in Injection(J, Copies(d, S))
    BY <2>2, <2>3 DEF Injection, IsInjective
  <2>5. IsFiniteSet(Copies(d, S)) /\ Count(d, S) \in Nat
    BY <1>10, CountType
  <2>6. IsFiniteSet(J) /\ Cardinality(J) <= Cardinality(Copies(d, S))
    BY <2>4, <2>5, FS_Injection
  <2>7. Cardinality(J) \in Nat
    BY <2>6, FS_CardinalityType
  <2>. QED BY <2>5, <2>6, <2>7 DEF Count
<1>. QED BY <1>10, <1>11 DEF d

\* The updates of a path, and the messages about them.  What the code sends of
\* itself, to force a sync, is not among them.
For(p) == {e \in Legal : e.path = p}
Mail(p) == [kind : {"checksums", "diffs", "rename", "delete", "patch", "delay", "root"},
            entry : For(p), version : Nat \cup {None}]
Listings(p) == {i \in DOMAIN outOfDate : outOfDate[i].path = p}

LEMMA RequestMail ==
  ASSUME TypeInv, NEW m \in Requests \cup Orders, NEW p
  PROVE  m \in Mail(p) <=> m \in Requests /\ m.entry.path = p
<1>1. m \in Orders => m.entry \notin Legal /\ m \notin Requests
  BY RequestFacts, ForcedFacts
<1>2. m \in Mail(p) => m.entry \in Legal /\ m.entry.path = p
  BY DEF Mail, For
<1>3. m \in Requests /\ m.entry.path = p => m \in Mail(p)
  <2>1. 0..writes \subseteq Nat
    BY DEF TypeInv, FileTypes
  <2>. QED BY <2>1 DEF Requests, Mail, For
<1>. QED BY <1>1, <1>2, <1>3

LEMMA AnswerMail ==
  ASSUME TypeInv, NEW m \in Answers \cup Wishes, NEW p
  PROVE  m \in Mail(p) <=> m \in Answers /\ m.entry.path = p
<1>1. m \in Wishes => m.kind = "sync" /\ m \notin Answers
  BY DEF Wishes, Answers
<1>2. m \in Mail(p) => m.kind # "sync" /\ m.entry.path = p
  BY DEF Mail, For
<1>3. m \in Answers /\ m.entry.path = p => m \in Mail(p)
  <2>1. 0..writes \subseteq Nat
    BY DEF TypeInv, FileTypes
  <2>. QED BY <2>1 DEF Answers, Mail, For
<1>. QED BY <1>1, <1>2, <1>3

LEMMA OneTime ==
  ASSUME NEW q, \A i, j \in DOMAIN q : q[i] = q[j] => i = j, NEW i \in DOMAIN q
  PROVE  Times(q, q[i]) = 1
<1>1. {j \in DOMAIN q : q[j] = q[i]} = {i}
  OBVIOUS
<1>. QED BY <1>1, FS_Singleton DEF Times

\* When all that is listed is sent, each entry has a message or a source list.
LEMMA SendCounts ==
  ASSUME TypeInv, Bagged(lists), Bagged(toBrowser), NEW q \in Seq(Legal),
         \A i, j \in DOMAIN q : q[i] = q[j] => i = j,
         NEW current \in [Paths -> Nat], SendSourceLists(q, current), NEW p \in Paths
  PROVE  LET n == Cardinality({i \in DOMAIN q : q[i].path = p})
             l == Count(lists', For(p))
             w == Count(toBrowser', Mail(p))
         IN  /\ Bagged(lists') /\ Bagged(toBrowser') /\ n \in Nat /\ l \in Nat /\ w \in Nat
             /\ n <= l + w /\ n <= l + currentDownstream'[p]
<1>. DEFINE Now == {i \in DOMAIN q : AtOnce(q[i])}
            Later == DOMAIN q \ Now
            NowFor == {i \in DOMAIN q : AtOnce(q[i]) /\ q[i].path = p}
            LaterFor == {i \in Later : q[i].path = p}
            now == {e \in Range(q) : AtOnce(e)}
            sent == {Message(e.type, e, 0) : e \in now}
            out == [i \in Now |-> Message(q[i].type, q[i], 0)]
            made == [i \in Later |-> q[i]]
            down == [m \in sent |-> Times(q, m.entry)]
            list == [e \in Range(q) \ now |-> Times(q, e)]
<1>1. /\ currentDownstream'[p] = current[p] + Cardinality(NowFor)
      /\ toBrowser' = toBrowser (+) down
      /\ lists' = lists (+) list
  BY DEF SendSourceLists
<1>2. /\ IsFiniteSet(Now) /\ IsFiniteSet(Later)
      /\ IsFiniteSet(NowFor) /\ Cardinality(NowFor) \in Nat
      /\ IsFiniteSet(LaterFor) /\ Cardinality(LaterFor) \in Nat
  BY CountIsNat
<1>3. /\ \A e \in Range(q) : \E i \in DOMAIN q : q[i] = e
      /\ \A i \in DOMAIN q : q[i] \in Range(q) /\ q[i] \in Legal
  BY DEF Range
<1>4. sent = {out[i] : i \in Now} /\ DOMAIN out = Now
  BY <1>3
<1>5. Range(q) \ now = {made[i] : i \in Later} /\ DOMAIN made = Later
  BY <1>3
<1>6. /\ \A i \in Now : out[i] = Message(q[i].type, q[i], 0) /\ out[i].entry = q[i]
      /\ \A i \in Later : made[i] = q[i]
  BY DEF Message
<1>7. /\ \A i, j \in Now : out[i] = out[j] => i = j
      /\ \A i, j \in Later : made[i] = made[j] => i = j
  BY <1>6
<1>8. down \in [{out[i] : i \in Now} -> {1}]
  <2>1. \A i \in DOMAIN q : Times(q, q[i]) = 1
    BY OneTime
  <2>2. ASSUME NEW m \in sent PROVE Times(q, m.entry) = 1
    <3>1. PICK i \in Now : m = out[i]
      BY <1>4
    <3>. QED BY <1>6, <2>1, <3>1
  <2>3. down \in [sent -> {1}]
    <3>. HIDE DEF sent
    <3>. QED BY <2>2
  <2>. HIDE DEF sent, out, down, Now
  <2>. QED BY <1>4, <2>3
<1>9. list \in [{made[i] : i \in Later} -> {1}]
  <2>1. \A i \in DOMAIN q : Times(q, q[i]) = 1
    BY OneTime
  <2>2. ASSUME NEW e \in Range(q) \ now PROVE Times(q, e) = 1
    BY <1>3, <2>1
  <2>3. list \in [Range(q) \ now -> {1}]
    <3>. HIDE DEF now
    <3>. QED BY <2>2
  <2>. HIDE DEF now, made, list, Later
  <2>. QED BY <1>5, <2>3
<1>10. \A i \in NowFor : out[i] \in Mail(p)
  <2>1. ASSUME NEW i \in NowFor PROVE out[i] \in Mail(p)
    <3>1. q[i] \in For(p) /\ q[i].type \in {"rename", "delete"}
      BY <1>3 DEF For, AtOnce
    <3>. QED BY <3>1 DEF Mail, Message
  <2>. QED BY <2>1
<1>11. \A i \in LaterFor : made[i] \in For(p)
  BY <1>3 DEF For
<1>12. NowFor \subseteq Now /\ LaterFor \subseteq Later
  OBVIOUS
<1>13. {i \in DOMAIN q : q[i].path = p} = NowFor \cup LaterFor /\ NowFor \cap LaterFor = {}
  OBVIOUS
<1>. HIDE DEF Now, Later, NowFor, LaterFor, out, made, down, list
<1>14. Bagged(toBrowser') /\ Count(toBrowser', Mail(p)) >= Cardinality(NowFor)
  BY <1>1, <1>2, <1>4, <1>7, <1>8, <1>10, <1>12, CountAll
<1>15. Bagged(lists') /\ Count(lists', For(p)) >= Cardinality(LaterFor)
  BY <1>1, <1>2, <1>5, <1>7, <1>9, <1>11, <1>12, CountAll
<1>16. Cardinality(NowFor \cup LaterFor) = Cardinality(NowFor) + Cardinality(LaterFor)
  <2>1. Cardinality({}) = 0
    BY FS_EmptySet
  <2>2. Cardinality(NowFor \cup LaterFor) =
          Cardinality(NowFor) + Cardinality(LaterFor) - Cardinality(NowFor \cap LaterFor)
    BY <1>2, FS_Union
  <2>3. Cardinality(NowFor \cap LaterFor) = 0
    BY <1>13, <2>1, Zenon
  <2>. QED BY <1>2, <2>2, <2>3
<1>17. Count(toBrowser', Mail(p)) \in Nat /\ Count(lists', For(p)) \in Nat
  BY <1>14, <1>15, CountType
<1>18. current[p] \in Nat
  OBVIOUS
<1>. DEFINE a == Cardinality(NowFor)
            b == Cardinality(LaterFor)
            l == Count(lists', For(p))
            w == Count(toBrowser', Mail(p))
            c == current[p]
<1>19. /\ a \in Nat /\ b \in Nat /\ l \in Nat /\ w \in Nat /\ c \in Nat /\ w >= a /\ l >= b
       /\ currentDownstream'[p] = c + a /\ Cardinality({i \in DOMAIN q : q[i].path = p}) = a + b
  BY <1>1, <1>2, <1>13, <1>14, <1>15, <1>16, <1>17, <1>18
<1>. HIDE DEF a, b, l, w, c
<1>20. a + b \in Nat /\ a + b <= l + w /\ a + b <= l + (c + a)
  BY <1>19
<1>. QED BY <1>14, <1>15, <1>19, <1>20 DEF l, w

-----------------------------------------------------------------------------
(* What is listed is sent again, or held *)

Sized == Bagged(lists) /\ Bagged(toBrowser) /\ Bagged(toServer)
Due(p) == Count(lists, For(p)) + (Count(toBrowser, Mail(p)) + Count(toServer, Mail(p)))

\* Each entry of a path has a list or a message of its own.  A path outside of
\* the root has also a current sync for each message: where there is none the
\* server drops an answer without removing an entry.
Retried(p) ==
  /\ Cardinality(Listings(p)) <= Due(p)
  /\ p \in outside => Cardinality(Listings(p)) <= Count(lists, For(p)) + currentDownstream[p]
AllRetried == \A p \in Paths \ held : Retried(p)

LEMMA ForStays ==
  ASSUME outside' = outside, NEW p
  PROVE  For(p)' = For(p) /\ Mail(p)' = Mail(p)
BY DEF For, Mail, Legal

LEMMA Numbers ==
  ASSUME TypeInv, Sized, NEW p \in Paths
  PROVE  /\ Count(lists, For(p)) \in Nat /\ Count(toBrowser, Mail(p)) \in Nat
         /\ Count(toServer, Mail(p)) \in Nat /\ currentDownstream[p] \in Nat
         /\ Cardinality(Listings(p)) \in Nat /\ IsFiniteSet(Listings(p))
<1>1. Listings(p) \subseteq DOMAIN outOfDate /\ outOfDate \in Seq(Legal)
  BY DEF Listings, TypeInv, SessionTypes
<1>2. Cardinality(Listings(p)) \in Nat /\ IsFiniteSet(Listings(p))
  BY <1>1, CountIsNat
<1>. QED BY <1>2, CountType DEF Sized, TypeInv, SessionTypes

\* A step that gives up no work of a path.
LEMMA RetriedStays ==
  ASSUME TypeInv, Sized, TypeInv', Sized', outside' = outside, NEW p \in Paths, Retried(p),
         Cardinality(Listings(p)') <= Cardinality(Listings(p)),
         Due(p) <= Due(p)',
         p \in outside => Count(lists, For(p)) + currentDownstream[p] <=
                            Count(lists', For(p)) + currentDownstream'[p]
  PROVE  Retried(p)'
<1>1. For(p)' = For(p) /\ Mail(p)' = Mail(p)
  BY ForStays
<1>2. /\ Due(p) \in Nat /\ Count(lists, For(p)) + currentDownstream[p] \in Nat
      /\ Cardinality(Listings(p)) \in Nat
  BY Numbers DEF Due
<1>3. /\ Count(lists', For(p)) \in Nat /\ Count(toBrowser', Mail(p)) \in Nat
      /\ Count(toServer', Mail(p)) \in Nat /\ currentDownstream'[p] \in Nat
  BY <1>1, CountType DEF Sized, TypeInv, SessionTypes
<1>4. Due(p)' = Count(lists', For(p)) + (Count(toBrowser', Mail(p)) + Count(toServer', Mail(p)))
  BY <1>1 DEF Due
<1>5. Cardinality(Listings(p)') \in Nat
  <2>1. Listings(p)' \subseteq DOMAIN outOfDate' /\ outOfDate' \in Seq(Legal)
    <3>1. Legal' = Legal
      BY DEF Legal
    <3>. QED BY <3>1 DEF Listings, TypeInv, SessionTypes
  <2>. QED BY <2>1, CountIsNat
<1>. DEFINE a == Cardinality(Listings(p))
            b == Cardinality(Listings(p)')
            c == Due(p)
            d == Due(p)'
            e == Count(lists, For(p)) + currentDownstream[p]
            f == Count(lists', For(p)) + currentDownstream'[p]
<1>6. a \in Nat /\ b \in Nat /\ c \in Nat /\ d \in Nat /\ e \in Nat /\ f \in Nat
  BY <1>2, <1>3, <1>4, <1>5
<1>7. b <= a /\ a <= c /\ c <= d /\ (p \in outside => a <= e /\ e <= f)
  BY DEF Retried
<1>. HIDE DEF a, b, c, d, e, f
<1>8. b <= d /\ (p \in outside => b <= f)
  BY <1>6, <1>7
<1>. QED BY <1>1, <1>8 DEF Retried, a, b, c, d, e, f

\* The same, where the list stays, one number at a time.
LEMMA RetriedMoves ==
  ASSUME TypeInv, Sized, TypeInv', Sized', outside' = outside, outOfDate' = outOfDate,
         NEW p \in Paths, Retried(p),
         Due(p) <= Count(lists', For(p)) + (Count(toBrowser', Mail(p)) + Count(toServer', Mail(p))),
         Count(lists, For(p)) + currentDownstream[p] <= Count(lists', For(p)) + currentDownstream'[p]
  PROVE  Retried(p)'
<1>1. For(p)' = For(p) /\ Mail(p)' = Mail(p) /\ Listings(p)' = Listings(p)
  BY ForStays DEF Listings
<1>2. Cardinality(Listings(p)) \in Nat
  BY Numbers
<1>3. Cardinality(Listings(p)') <= Cardinality(Listings(p))
  BY <1>1, <1>2
<1>4. Due(p)' = Count(lists', For(p)) + (Count(toBrowser', Mail(p)) + Count(toServer', Mail(p)))
  BY <1>1 DEF Due
<1>. QED BY <1>3, <1>4, RetriedStays

LEMMA RetriedSame ==
  ASSUME TypeInv, Sized, AllRetried, TypeInv', held' = held,
         UNCHANGED <<outside, outOfDate, lists, toBrowser, toServer, currentDownstream>>
  PROVE  Sized' /\ AllRetried'
<1>1. Sized'
  BY DEF Sized
<1>2. \A p : For(p)' = For(p) /\ Mail(p)' = Mail(p)
  BY ForStays
<1>. QED BY <1>1, <1>2 DEF AllRetried, Retried, Due, Listings

LEMMA SendSourceListRetries ==
  ASSUME TypeInv, Sized, AllRetried, TypeInv', NEW e, SendSourceList(e)
  PROVE  Sized' /\ AllRetried'
<1>. DEFINE m == Message("checksums", e, 0)
<1>1. /\ e \in DOMAIN lists /\ lists' = lists (-) One(e) /\ e \in Legal \cup Forced /\ e.path \in Paths
      /\ UNCHANGED <<outside, outOfDate, toServer>>
  BY LegalFacts, ForcedFacts
     DEF SendSourceList, BagIn, BagToSet, TypeInv, WireTypes, browser
<1>2. \A p \in Paths : /\ m \in Mail(p) <=> e \in For(p)
                       /\ e \in For(p) => e.path = p
  <2>1. ASSUME NEW p \in Paths PROVE (m \in Mail(p) <=> e \in For(p)) /\ (e \in For(p) => e.path = p)
    BY DEF Message, Mail, For
  <2>. QED BY <2>1
<1>. HIDE DEF m
<1>3. ASSUME NEW p PROVE /\ Bagged(lists')
                         /\ e \in For(p) => Count(lists', For(p)) = Count(lists, For(p)) - 1
                         /\ e \notin For(p) => Count(lists', For(p)) = Count(lists, For(p))
  BY <1>1, CountTake DEF Sized
<1>4. CASE srv[e.path] = 0
  <2>1. UNCHANGED <<currentDownstream, toBrowser>> /\ held' = held \cup {e.path}
    BY <1>4 DEF SendSourceList
  <2>2. Sized'
    BY <1>1, <1>3, <2>1 DEF Sized
  <2>3. ASSUME NEW p \in Paths \ held' PROVE Retried(p)'
    <3>1. p \in Paths /\ Retried(p) /\ e \notin For(p)
      BY <1>2, <2>1 DEF AllRetried
    <3>2. /\ Due(p) <= Count(lists', For(p)) + (Count(toBrowser', Mail(p)) + Count(toServer', Mail(p)))
          /\ Count(lists, For(p)) + currentDownstream[p] <= Count(lists', For(p)) + currentDownstream'[p]
      BY <1>1, <1>3, <2>1, <3>1, Numbers DEF Due
    <3>. QED BY <1>1, <2>2, <3>1, <3>2, RetriedMoves
  <2>. QED BY <2>2, <2>3 DEF AllRetried
<1>5. CASE srv[e.path] # 0
  <2>1. /\ currentDownstream' = [currentDownstream EXCEPT ![e.path] = @ + 1]
        /\ toBrowser' = toBrowser (+) One(m) /\ held' = held
    BY <1>5 DEF SendSourceList, m
  <2>2. Bagged(toBrowser')
    BY <2>1, CountAdd DEF Sized
  <2>3. Sized'
    BY <1>1, <1>3, <2>2 DEF Sized
  <2>4. ASSUME NEW p \in Paths \ held' PROVE Retried(p)'
    <3>1. p \in Paths /\ Retried(p)
      BY <2>1 DEF AllRetried
    <3>2. /\ m \in Mail(p) => Count(toBrowser', Mail(p)) = Count(toBrowser, Mail(p)) + 1
          /\ m \notin Mail(p) => Count(toBrowser', Mail(p)) = Count(toBrowser, Mail(p))
      BY <2>1, CountAdd DEF Sized
    <3>3. /\ currentDownstream'[p] >= currentDownstream[p]
          /\ p = e.path => currentDownstream'[p] = currentDownstream[p] + 1
      BY <1>1, <2>1, <3>1 DEF TypeInv, SessionTypes
    <3>4. /\ Count(lists, For(p)) \in Nat /\ Count(toBrowser, Mail(p)) \in Nat
          /\ Count(toServer, Mail(p)) \in Nat /\ currentDownstream[p] \in Nat
          /\ currentDownstream'[p] \in Nat
      BY <3>1, Numbers DEF TypeInv, SessionTypes
    <3>5. CASE e \in For(p)
      <4>1. /\ Count(lists', For(p)) = Count(lists, For(p)) - 1
            /\ Count(toBrowser', Mail(p)) = Count(toBrowser, Mail(p)) + 1
            /\ currentDownstream'[p] = currentDownstream[p] + 1 /\ toServer' = toServer
        BY <1>1, <1>2, <1>3, <3>1, <3>2, <3>3, <3>5
      <4>2. /\ Due(p) <= Count(lists', For(p)) + (Count(toBrowser', Mail(p)) + Count(toServer', Mail(p)))
            /\ Count(lists, For(p)) + currentDownstream[p] <= Count(lists', For(p)) + currentDownstream'[p]
        BY <3>4, <4>1 DEF Due
      <4>. QED BY <1>1, <2>3, <3>1, <4>2, RetriedMoves
    <3>6. CASE e \notin For(p)
      <4>1. /\ Count(lists', For(p)) = Count(lists, For(p))
            /\ Count(toBrowser', Mail(p)) = Count(toBrowser, Mail(p)) /\ toServer' = toServer
        BY <1>1, <1>2, <1>3, <3>1, <3>2, <3>6
      <4>2. /\ Due(p) <= Count(lists', For(p)) + (Count(toBrowser', Mail(p)) + Count(toServer', Mail(p)))
            /\ Count(lists, For(p)) + currentDownstream[p] <= Count(lists', For(p)) + currentDownstream'[p]
        BY <3>3, <3>4, <4>1 DEF Due
      <4>. QED BY <1>1, <2>3, <3>1, <4>2, RetriedMoves
    <3>. QED BY <3>5, <3>6
  <2>. QED BY <2>3, <2>4 DEF AllRetried
<1>. QED BY <1>4, <1>5

\* An answer is taken off the wire.
LEMMA GotCounts ==
  ASSUME TypeInv, Sized, NEW kind, kind # "sync", NEW m, Got(kind, m)
  PROVE  /\ m \in DOMAIN toServer /\ m \in Answers /\ m.kind = kind /\ m.entry.path \in Paths
         /\ Bagged(toServer')
         /\ \A p \in Paths :
              /\ p = m.entry.path => /\ Count(toServer, Mail(p)) >= 1
                                     /\ Count(toServer', Mail(p)) = Count(toServer, Mail(p)) - 1
              /\ p # m.entry.path => Count(toServer', Mail(p)) = Count(toServer, Mail(p))
<1>1. /\ m \in DOMAIN toServer /\ m.kind = kind /\ toServer' = toServer (-) One(m)
      /\ m \in Answers \cup Wishes
  BY DEF Got, BagIn, BagToSet, TypeInv, WireTypes
<1>2. m \in Answers /\ m.entry.path \in Paths
  BY <1>1, AnswerFacts
<1>3. \A p : m \in Mail(p) <=> m.entry.path = p
  BY <1>2, AnswerMail
<1>. QED BY <1>1, <1>2, <1>3, CountTake DEF Sized

\* The sync of a path is given up, and its entry left: the path is held.
LEMMA HeldRetries ==
  ASSUME TypeInv, Sized, AllRetried, TypeInv', NEW kind, kind # "sync", NEW m, Got(kind, m),
         held' = held \cup {m.entry.path},
         currentDownstream' = currentDownstream \/ delaySync(m.entry.path),
         UNCHANGED <<outside, outOfDate, lists, toBrowser>>
  PROVE  Sized' /\ AllRetried'
<1>1. Sized'
  BY GotCounts DEF Sized
<1>2. ASSUME NEW p \in Paths \ held' PROVE Retried(p)'
  <2>1. p \in Paths /\ Retried(p) /\ p # m.entry.path
    BY <1>2 DEF AllRetried
  <2>2. currentDownstream'[p] = currentDownstream[p]
    BY <2>1 DEF delaySync, TypeInv, SessionTypes
  <2>3. Count(toServer', Mail(p)) = Count(toServer, Mail(p))
    BY <2>1, GotCounts
  <2>4. /\ Due(p) <= Count(lists', For(p)) + (Count(toBrowser', Mail(p)) + Count(toServer', Mail(p)))
        /\ Count(lists, For(p)) + currentDownstream[p] <= Count(lists', For(p)) + currentDownstream'[p]
    BY <2>1, <2>2, <2>3, Numbers DEF Due
  <2>. QED BY <1>1, <2>1, <2>4, RetriedMoves
<1>. QED BY <1>1, <1>2 DEF AllRetried

LEMMA DiffRequestRetries ==
  ASSUME TypeInv, Sized, AllRetried, TypeInv', NEW m, HandleDiffRequest(m)
  PROVE  Sized' /\ AllRetried'
<1>1. Got("diffs", m) /\ UNCHANGED <<outside, outOfDate, lists>>
  BY DEF HandleDiffRequest, ServerOnly, browser
<1>2. m \in Answers /\ m.kind = "diffs" /\ m.entry.path \in Paths
  BY <1>1, GotCounts
<1>3. CASE lock[m.entry.path] # None \/ srv[m.entry.path] = 0
  <2>1. delaySync(m.entry.path) /\ held' = held \cup {m.entry.path} /\ toBrowser' = toBrowser
    BY <1>3 DEF HandleDiffRequest
  <2>. QED BY <1>1, <2>1, HeldRetries
<1>4. CASE ~(lock[m.entry.path] # None \/ srv[m.entry.path] = 0)
  <2>. DEFINE d == Message("diffs", m.entry, srv[m.entry.path])
  <2>1. toBrowser' = toBrowser (+) One(d) /\ currentDownstream' = currentDownstream /\ held' = held
    BY <1>4 DEF HandleDiffRequest
  <2>2. \A p : d \in Mail(p) <=> m.entry.path = p
    <3>1. m.entry \in Legal /\ srv[m.entry.path] \in Nat \cup {None}
      BY <1>2, AnswerFacts DEF TypeInv, FileTypes
    <3>2. ASSUME NEW p PROVE d \in Mail(p) <=> m.entry.path = p
      BY <3>1 DEF Message, Mail, For
    <3>. QED BY <3>2
  <2>. HIDE DEF d
  <2>3. Sized'
    BY <1>1, <2>1, GotCounts, CountAdd DEF Sized
  <2>4. ASSUME NEW p \in Paths \ held' PROVE Retried(p)'
    <3>1. p \in Paths /\ Retried(p)
      BY <2>1 DEF AllRetried
    <3>2. /\ m.entry.path = p => Count(toBrowser', Mail(p)) = Count(toBrowser, Mail(p)) + 1
          /\ m.entry.path # p => Count(toBrowser', Mail(p)) = Count(toBrowser, Mail(p))
      BY <2>1, <2>2, CountAdd DEF Sized
    <3>3. /\ m.entry.path = p => Count(toServer', Mail(p)) = Count(toServer, Mail(p)) - 1
          /\ m.entry.path # p => Count(toServer', Mail(p)) = Count(toServer, Mail(p))
      BY <1>1, <3>1, GotCounts
    <3>4. /\ Count(lists, For(p)) \in Nat /\ Count(toBrowser, Mail(p)) \in Nat
          /\ Count(toServer, Mail(p)) \in Nat /\ currentDownstream[p] \in Nat
          /\ lists' = lists /\ currentDownstream' = currentDownstream
      BY <1>1, <2>1, <3>1, Numbers
    <3>5. /\ Due(p) <= Count(lists', For(p)) + (Count(toBrowser', Mail(p)) + Count(toServer', Mail(p)))
          /\ Count(lists, For(p)) + currentDownstream[p] <= Count(lists', For(p)) + currentDownstream'[p]
      <4>1. CASE m.entry.path = p
        BY <3>2, <3>3, <3>4, <4>1 DEF Due
      <4>2. CASE m.entry.path # p
        BY <3>2, <3>3, <3>4, <4>2 DEF Due
      <4>. QED BY <4>1, <4>2
    <3>. QED BY <1>1, <2>3, <3>1, <3>5, RetriedMoves
  <2>. QED BY <2>3, <2>4 DEF AllRetried
<1>. QED BY <1>3, <1>4

LEMMA DelayRetries ==
  ASSUME TypeInv, Sized, AllRetried, TypeInv', NEW m, HandleDelayRequest(m)
  PROVE  Sized' /\ AllRetried'
<1>1. Got("delay", m) /\ delaySync(m.entry.path) /\ held' = held \cup {m.entry.path}
      /\ UNCHANGED <<outside, outOfDate, lists, toBrowser>>
  BY DEF HandleDelayRequest, ServerOnly, browser
<1>. QED BY <1>1, HeldRetries

\* An entry less, of its own path.
LEMMA RemoveCounts ==
  ASSUME TypeInv, Sized, NEW i \in 0..Len(outOfDate), outOfDate' = Without(outOfDate, i), NEW p \in Paths
  PROVE  /\ Cardinality(Listings(p)') \in Nat
         /\ Cardinality(Listings(p)') <= Cardinality(Listings(p))
         /\ i # 0 /\ outOfDate[i].path = p =>
              Cardinality(Listings(p)') <= Cardinality(Listings(p)) - 1
<1>1. outOfDate \in Seq(Legal)
  BY DEF TypeInv, SessionTypes
<1>. DEFINE rest == Listings(p) \ {i}
            f == [j \in Listings(p)' |-> Moved(i, j)]
<1>2. IsFiniteSet(Listings(p)) /\ Cardinality(Listings(p)) \in Nat
  BY Numbers
<1>3. f \in Injection(Listings(p)', rest)
  <2>1. ASSUME NEW j \in Listings(p)' PROVE f[j] \in rest
    BY <1>1, WithoutFacts DEF Listings
  <2>2. ASSUME NEW j \in Listings(p)', NEW k \in Listings(p)', f[j] = f[k] PROVE j = k
    BY <1>1, <2>2, WithoutFacts DEF Listings
  <2>3. f \in [Listings(p)' -> rest]
    BY <2>1
  <2>. QED BY <2>2, <2>3 DEF Injection, IsInjective
<1>4. /\ IsFiniteSet(rest)
      /\ Cardinality(rest) = IF i \in Listings(p) THEN Cardinality(Listings(p)) - 1
                             ELSE Cardinality(Listings(p))
  BY <1>2, FS_RemoveElement
<1>5. i # 0 /\ outOfDate[i].path = p => i \in Listings(p)
  BY <1>1 DEF Listings
<1>. HIDE DEF rest, f
<1>6. IsFiniteSet(Listings(p)') /\ Cardinality(Listings(p)') <= Cardinality(rest)
  BY <1>3, <1>4, FS_Injection
<1>7. Cardinality(Listings(p)') \in Nat /\ Cardinality(rest) \in Nat
  BY <1>4, <1>6, FS_CardinalityType
<1>. DEFINE a == Cardinality(Listings(p))
            b == Cardinality(Listings(p)')
            c == Cardinality(rest)
<1>8. a \in Nat /\ b \in Nat /\ c \in Nat /\ b <= c
      /\ (i \in Listings(p) => c = a - 1) /\ (i \notin Listings(p) => c = a)
  BY <1>2, <1>4, <1>6, <1>7
<1>. HIDE DEF a, b, c
<1>9. b <= a /\ (i \in Listings(p) => b <= a - 1)
  BY <1>8
<1>. QED BY <1>5, <1>7, <1>9 DEF a, b

\* Where a path has no entry the search finds none.
LEMMA NoneListed ==
  ASSUME TypeInv, NEW p, IndexOf(outOfDate, p) = 0
  PROVE  Cardinality(Listings(p)) = 0
<1>1. outOfDate \in Seq(Legal)
  BY DEF TypeInv, SessionTypes
<1>2. Listings(p) = {}
  BY <1>1, IndexFinds DEF Listings
<1>. QED BY <1>2, FS_EmptySet

LEMMA PatchResponseRetries ==
  ASSUME TypeInv, Sized, AllRetried, TypeInv', NEW m, HandlePatchResponse(m)
  PROVE  Sized' /\ AllRetried'
<1>. DEFINE q == m.entry.path
            i == IndexOf(outOfDate, q)
<1>1. Got("patch", m) /\ UNCHANGED <<outside, lists, toBrowser>>
  BY DEF HandlePatchResponse, ServerOnly, browser
<1>2. m \in Answers /\ m.kind = "patch" /\ q \in Paths /\ q \notin outside
  BY <1>1, GotCounts, AnswerFacts
<1>3. Sized'
  BY <1>1, GotCounts DEF Sized
<1>4. CASE m.version \notin {None, srv[q]}
  <2>1. held' = held \cup {q} /\ UNCHANGED lists_
    BY <1>4 DEF HandlePatchResponse
  <2>. QED BY <1>1, <2>1, HeldRetries DEF lists_
<1>5. CASE m.version \in {None, srv[q]}
  <2>1. delaySync(q) /\ outOfDate' = Without(outOfDate, i) /\ held' = held
    BY <1>5 DEF HandlePatchResponse, endDownstream
  <2>2. i \in 0..Len(outOfDate) /\ (i # 0 => outOfDate[i].path = q)
    BY IndexFinds DEF TypeInv, SessionTypes
  <2>3. i = 0 => Cardinality(Listings(q)) = 0
    BY NoneListed
  <2>. HIDE DEF q, i
  <2>4. ASSUME NEW p \in Paths \ held' PROVE Retried(p)'
    <3>1. p \in Paths /\ Retried(p)
      BY <2>1 DEF AllRetried
    <3>2. /\ p = q => Count(toServer', Mail(p)) = Count(toServer, Mail(p)) - 1 /\ Count(toServer, Mail(p)) >= 1
          /\ p # q => Count(toServer', Mail(p)) = Count(toServer, Mail(p))
      BY <1>1, <3>1, GotCounts DEF q
    <3>3. /\ Count(lists, For(p)) \in Nat /\ Count(toBrowser, Mail(p)) \in Nat
          /\ Count(toServer, Mail(p)) \in Nat /\ currentDownstream[p] \in Nat
          /\ Cardinality(Listings(p)) \in Nat
          /\ lists' = lists /\ toBrowser' = toBrowser
      BY <1>1, <3>1, Numbers
    <3>4. /\ Cardinality(Listings(p)') \in Nat
          /\ Cardinality(Listings(p)') <= Cardinality(Listings(p))
          /\ p = q /\ i # 0 => Cardinality(Listings(p)') <= Cardinality(Listings(p)) - 1
      BY <2>1, <2>2, <3>1, RemoveCounts
    <3>5. For(p)' = For(p) /\ Mail(p)' = Mail(p)
      BY <1>1, ForStays
    <3>6. CASE p = q
      <4>1. Cardinality(Listings(p)) <= Due(p)
        BY <3>1 DEF Retried
      <4>2. Cardinality(Listings(p)') <=
              Count(lists', For(p)) + (Count(toBrowser', Mail(p)) + Count(toServer', Mail(p)))
        <5>1. CASE i = 0
          BY <2>3, <3>2, <3>3, <3>4, <3>6, <5>1
        <5>2. CASE i # 0
          BY <3>2, <3>3, <3>4, <3>6, <4>1, <5>2 DEF Due
        <5>. QED BY <5>1, <5>2
      <4>3. p \notin outside' /\ Listings(p)' = Listings(p)'
        BY <1>1, <1>2, <3>6 DEF q
      <4>. QED BY <3>5, <4>2, <4>3 DEF Retried, Due
    <3>7. CASE p # q
      <4>1. currentDownstream'[p] = currentDownstream[p]
        BY <2>1, <3>1, <3>7 DEF delaySync, TypeInv, SessionTypes
      <4>2. Due(p) <= Due(p)'
        BY <3>2, <3>3, <3>5, <3>7 DEF Due
      <4>3. Count(lists, For(p)) + currentDownstream[p] <= Count(lists', For(p)) + currentDownstream'[p]
        BY <3>3, <4>1
      <4>. QED BY <1>1, <1>3, <3>1, <3>4, <4>2, <4>3, RetriedStays
    <3>. QED BY <3>6, <3>7
  <2>. QED BY <1>3, <2>4 DEF AllRetried
<1>. QED BY <1>4, <1>5

LEMMA RootResponseRetries ==
  ASSUME TypeInv, Sized, AllRetried, TypeInv', NEW m, HandleRootResponse(m)
  PROVE  Sized' /\ AllRetried'
<1>. DEFINE q == m.entry.path
            i == IndexOf(outOfDate, q)
            j == IF i = 0 THEN Len(outOfDate) ELSE i
<1>1. Got("root", m) /\ UNCHANGED <<outside, lists, toBrowser, held>>
  BY DEF HandleRootResponse, ServerOnly, browser
<1>2. m \in Answers /\ q \in Paths /\ q \in outside
  BY <1>1, GotCounts, AnswerFacts
<1>3. Sized'
  BY <1>1, GotCounts DEF Sized
<1>4. \A p \in Paths :
        /\ p = q => Count(toServer', Mail(p)) = Count(toServer, Mail(p)) - 1 /\ Count(toServer, Mail(p)) >= 1
        /\ p # q => Count(toServer', Mail(p)) = Count(toServer, Mail(p))
  BY <1>1, GotCounts
<1>5. \A p : For(p)' = For(p) /\ Mail(p)' = Mail(p)
  BY <1>1, ForStays
<1>6. CASE currentDownstream[q] = 0
  <2>1. UNCHANGED lists_
    BY <1>6 DEF HandleRootResponse
  <2>. HIDE DEF q
  <2>2. ASSUME NEW p \in Paths \ held' PROVE Retried(p)'
    <3>1. p \in Paths /\ Retried(p)
      BY <1>1 DEF AllRetried
    <3>2. /\ Count(lists, For(p)) \in Nat /\ Count(toBrowser, Mail(p)) \in Nat
          /\ Count(toServer, Mail(p)) \in Nat /\ Cardinality(Listings(p)) \in Nat
          /\ lists' = lists /\ toBrowser' = toBrowser /\ currentDownstream' = currentDownstream
          /\ Listings(p)' = Listings(p)
      BY <1>1, <2>1, <3>1, Numbers DEF lists_, Listings
    <3>3. CASE p = q
      <4>1. Cardinality(Listings(p)) <= Count(lists, For(p)) + 0
        BY <1>2, <1>6, <3>1, <3>3 DEF Retried, q
      <4>2. Cardinality(Listings(p)) <=
              Count(lists, For(p)) + (Count(toBrowser, Mail(p)) + (Count(toServer, Mail(p)) - 1))
        BY <1>4, <3>1, <3>2, <3>3, <4>1
      <4>. QED BY <1>4, <1>5, <1>6, <3>1, <3>2, <3>3, <4>1, <4>2 DEF Retried, Due
    <3>4. CASE p # q
      BY <1>1, <1>4, <1>5, <3>1, <3>2, <3>4 DEF Retried, Due
    <3>. QED BY <3>3, <3>4
  <2>. QED BY <1>3, <2>2 DEF AllRetried
<1>7. CASE currentDownstream[q] # 0
  <2>1. delaySync(q) /\ outOfDate' = Without(outOfDate, j)
    BY <1>7 DEF HandleRootResponse
  <2>2. /\ i \in 0..Len(outOfDate) /\ (i # 0 => outOfDate[i].path = q)
        /\ Len(outOfDate) \in 0..Len(outOfDate)
    BY IndexFinds DEF TypeInv, SessionTypes
  <2>3. i = 0 => Cardinality(Listings(q)) = 0
    BY NoneListed
  <2>. HIDE DEF q, i
  <2>4. j \in 0..Len(outOfDate) /\ (i # 0 => j = i)
    BY <2>2
  <2>. HIDE DEF j
  <2>5. ASSUME NEW p \in Paths \ held' PROVE Retried(p)'
    <3>1. p \in Paths /\ Retried(p)
      BY <1>1 DEF AllRetried
    <3>2. /\ Count(lists, For(p)) \in Nat /\ Count(toBrowser, Mail(p)) \in Nat
          /\ Count(toServer, Mail(p)) \in Nat /\ currentDownstream[p] \in Nat
          /\ Cardinality(Listings(p)) \in Nat /\ lists' = lists /\ toBrowser' = toBrowser
      BY <1>1, <3>1, Numbers
    <3>3. /\ Cardinality(Listings(p)') \in Nat
          /\ Cardinality(Listings(p)') <= Cardinality(Listings(p))
          /\ p = q /\ i # 0 => Cardinality(Listings(p)') <= Cardinality(Listings(p)) - 1
      BY <2>1, <2>2, <2>4, <3>1, RemoveCounts
    <3>4. CASE p = q
      <4>1. currentDownstream'[p] = currentDownstream[p] - 1 /\ currentDownstream[p] >= 1
        BY <1>7, <2>1, <3>1, <3>2, <3>4 DEF delaySync, TypeInv, SessionTypes
      <4>2. /\ Cardinality(Listings(p)) <= Due(p)
            /\ Cardinality(Listings(p)) <= Count(lists, For(p)) + currentDownstream[p]
        BY <1>2, <3>1, <3>4 DEF Retried, q
      <4>3. /\ Cardinality(Listings(p)') <=
                 Count(lists', For(p)) + (Count(toBrowser', Mail(p)) + Count(toServer', Mail(p)))
            /\ Cardinality(Listings(p)') <= Count(lists', For(p)) + currentDownstream'[p]
        <5>1. CASE i = 0
          BY <1>4, <2>3, <3>1, <3>2, <3>3, <3>4, <4>1, <5>1
        <5>2. CASE i # 0
          BY <1>4, <3>1, <3>2, <3>3, <3>4, <4>1, <4>2, <5>2 DEF Due
        <5>. QED BY <5>1, <5>2
      <4>. QED BY <1>5, <4>3 DEF Retried, Due
    <3>5. CASE p # q
      <4>1. currentDownstream'[p] = currentDownstream[p]
        BY <2>1, <3>1, <3>5 DEF delaySync, TypeInv, SessionTypes
      <4>2. Due(p) <= Due(p)'
        BY <1>4, <1>5, <3>1, <3>2, <3>5 DEF Due
      <4>3. Count(lists, For(p)) + currentDownstream[p] <= Count(lists', For(p)) + currentDownstream'[p]
        BY <3>2, <4>1
      <4>. QED BY <1>1, <1>3, <3>1, <3>3, <4>2, <4>3, RetriedStays
    <3>. QED BY <3>4, <3>5
  <2>. QED BY <1>3, <2>5 DEF AllRetried
<1>. QED BY <1>6, <1>7

\* Mail that is not about an update comes or goes.
LEMMA CountsStay ==
  ASSUME TypeInv, Sized, AllRetried, TypeInv', Sized', held' = held,
         UNCHANGED <<outside, outOfDate, currentDownstream>>,
         \A p \in Paths : /\ Count(lists', For(p)) = Count(lists, For(p))
                          /\ Count(toBrowser', Mail(p)) = Count(toBrowser, Mail(p))
                          /\ Count(toServer', Mail(p)) = Count(toServer, Mail(p))
  PROVE  AllRetried'
<1>1. ASSUME NEW p \in Paths \ held' PROVE Retried(p)'
  <2>1. p \in Paths /\ Retried(p)
    BY <1>1 DEF AllRetried
  <2>2. /\ Due(p) <= Count(lists', For(p)) + (Count(toBrowser', Mail(p)) + Count(toServer', Mail(p)))
        /\ Count(lists, For(p)) + currentDownstream[p] <= Count(lists', For(p)) + currentDownstream'[p]
    BY <2>1, Numbers DEF Due
  <2>. QED BY <2>1, <2>2, RetriedMoves
<1>. QED BY <1>1 DEF AllRetried

\* The browser answers a request: one message less is on its way down, and one
\* more on its way up.
LEMMA ReplyRetries ==
  ASSUME TypeInv, Sized, AllRetried, TypeInv', NEW m \in Requests, Received(m),
         NEW kind \in {"root", "diffs", "delay", "patch"}, NEW v \in Nat \cup {None},
         Reply(kind, m.entry, v),
         UNCHANGED <<outside, held, outOfDate, currentDownstream, lists>>
  PROVE  Sized' /\ AllRetried'
<1>. DEFINE a == Message(kind, m.entry, v)
<1>1. /\ m \in DOMAIN toBrowser /\ toBrowser' = toBrowser (-) One(m)
      /\ toServer' = toServer (+) One(a)
  BY DEF Received, BagIn, BagToSet, Reply
<1>2. \A p : (m \in Mail(p) <=> m.entry.path = p) /\ (a \in Mail(p) <=> m.entry.path = p)
  <2>1. \A p : m \in Mail(p) <=> m.entry.path = p
    BY RequestMail
  <2>2. m.entry \in Legal
    BY RequestFacts
  <2>3. ASSUME NEW p PROVE a \in Mail(p) <=> m.entry.path = p
    BY <2>2 DEF Message, Mail, For
  <2>. QED BY <2>1, <2>3
<1>. HIDE DEF a
<1>3. Sized'
  BY <1>1, CountAdd, CountTake DEF Sized
<1>4. ASSUME NEW p \in Paths \ held' PROVE Retried(p)'
  <2>1. p \in Paths /\ Retried(p)
    BY <1>4 DEF AllRetried
  <2>2. /\ m.entry.path = p => Count(toBrowser', Mail(p)) = Count(toBrowser, Mail(p)) - 1
        /\ m.entry.path # p => Count(toBrowser', Mail(p)) = Count(toBrowser, Mail(p))
    BY <1>1, <1>2, CountTake DEF Sized
  <2>3. /\ m.entry.path = p => Count(toServer', Mail(p)) = Count(toServer, Mail(p)) + 1
        /\ m.entry.path # p => Count(toServer', Mail(p)) = Count(toServer, Mail(p))
    BY <1>1, <1>2, CountAdd DEF Sized
  <2>4. /\ Count(lists, For(p)) \in Nat /\ Count(toBrowser, Mail(p)) \in Nat
        /\ Count(toServer, Mail(p)) \in Nat /\ currentDownstream[p] \in Nat
    BY <2>1, Numbers
  <2>5. Due(p) <= Count(lists', For(p)) + (Count(toBrowser', Mail(p)) + Count(toServer', Mail(p)))
    <3>1. CASE m.entry.path = p
      BY <2>2, <2>3, <2>4, <3>1 DEF Due
    <3>2. CASE m.entry.path # p
      BY <2>2, <2>3, <2>4, <3>2 DEF Due
    <3>. QED BY <3>1, <3>2
  <2>6. Count(lists, For(p)) + currentDownstream[p] <= Count(lists', For(p)) + currentDownstream'[p]
    BY <2>4
  <2>. QED BY <1>3, <2>1, <2>5, <2>6, RetriedMoves
<1>. QED BY <1>3, <1>4 DEF AllRetried

LEMMA BrowserRetries ==
  ASSUME TypeInv, Sized, AllRetried, TypeInv', NEW m,
         \/ IgnoreOutside(m) \/ IgnoreForced(m) \/ HandleChecksumRequest(m) \/ HandleDiffResponse(m)
         \/ HandleDeleteRequest(m) \/ HandleRenameRequest(m) \/ ResendChecksums(m)
         \/ BrowserFails(m)
  PROVE  Sized' /\ AllRetried'
<1>1. Received(m) /\ m \in Requests \cup Orders
  BY ReceivedFacts DEF IgnoreOutside, IgnoreForced, HandleChecksumRequest, HandleDiffResponse,
     HandleDeleteRequest, HandleRenameRequest, ResendChecksums, BrowserFails
<1>2. UNCHANGED <<outside, held, outOfDate, currentDownstream, lists>>
  BY DEF IgnoreOutside, IgnoreForced, HandleChecksumRequest, HandleDiffResponse,
     HandleDeleteRequest, HandleRenameRequest, ResendChecksums, BrowserFails, BrowserOnly, sess, lists_, history
<1>3. CASE IgnoreForced(m)
  <2>1. m \in Orders /\ m \notin Requests /\ m \in DOMAIN toBrowser
        /\ toBrowser' = toBrowser (-) One(m) /\ toServer' = toServer
    BY <1>1, <1>3, RequestFacts, ForcedFacts, ReceivedFacts DEF IgnoreForced, Received
  <2>2. \A p : m \notin Mail(p)
    BY <2>1, RequestMail
  <2>3. /\ Bagged(toBrowser')
        /\ \A p \in Paths : Count(toBrowser', Mail(p)) = Count(toBrowser, Mail(p))
    BY <2>1, <2>2, CountTake DEF Sized
  <2>4. Sized'
    BY <1>2, <2>1, <2>3 DEF Sized
  <2>. QED BY <1>2, <2>1, <2>3, <2>4, CountsStay
<1>4. CASE ~IgnoreForced(m)
  <2>1. m \in Requests
    BY <1>1, <1>4, RequestFacts DEF IgnoreOutside, HandleChecksumRequest, HandleDiffResponse,
       HandleDeleteRequest, HandleRenameRequest, ResendChecksums, BrowserFails
  <2>2. \E kind \in {"root", "diffs", "delay", "patch"}, v \in Nat \cup {None} :
          Reply(kind, m.entry, v)
    <3>1. 0 \in Nat /\ m.version \in Nat
      BY <2>1, RequestFacts DEF TypeInv, FileTypes
    <3>2. CASE IgnoreOutside(m) \/ HandleChecksumRequest(m) \/ ResendChecksums(m) \/ BrowserFails(m)
      BY <3>1, <3>2 DEF IgnoreOutside, HandleChecksumRequest, ResendChecksums, BrowserFails
    <3>3. CASE HandleDiffResponse(m)
      <4>1. Reply("patch", m.entry, m.version) \/ Reply("patch", m.entry, None)
        BY <3>3 DEF HandleDiffResponse
      <4>. QED BY <3>1, <4>1
    <3>4. CASE HandleDeleteRequest(m)
      <4>1. Reply("delay", m.entry, 0) \/ Reply("patch", m.entry, 0)
        BY <3>4 DEF HandleDeleteRequest
      <4>. QED BY <3>1, <4>1
    <3>5. CASE HandleRenameRequest(m)
      <4>1. m.entry.old \in Paths
        <5>1. m.kind = "rename"
          BY <3>5 DEF HandleRenameRequest
        <5>2. m.entry \in Legal /\ m.entry.type = "rename"
          BY <2>1, <5>1, RequestFacts
        <5>. QED BY <5>2, LegalFacts
      <4>2. have[m.entry.old] \in Nat
        BY <4>1 DEF TypeInv, FileTypes
      <4>3. \/ Reply("delay", m.entry, 0) \/ Reply("patch", m.entry, None)
            \/ Reply("patch", m.entry, have[m.entry.old])
        BY <3>5 DEF HandleRenameRequest
      <4>. QED BY <3>1, <4>2, <4>3
    <3>. QED BY <1>4, <3>2, <3>3, <3>4, <3>5
  <2>. QED BY <1>1, <1>2, <2>1, <2>2, ReplyRetries
<1>. QED BY <1>3, <1>4

\* The path of diffs that throw is held.
LEMMA ThrowRetries ==
  ASSUME TypeInv, Sized, AllRetried, TypeInv', NEW m, BrowserThrows(m)
  PROVE  Sized' /\ AllRetried'
<1>1. /\ UNCHANGED <<outside, outOfDate, currentDownstream, lists, toServer>>
      /\ held' = held \cup {m.entry.path} /\ Received(m) /\ m.kind = "diffs"
  BY DEF BrowserThrows, BrowserOnly, sess, lists_
<1>2. m \in Requests /\ m \in DOMAIN toBrowser /\ toBrowser' = toBrowser (-) One(m)
  BY <1>1, ReceivedFacts DEF Orders, Received
<1>3. /\ Bagged(toBrowser')
      /\ \A p \in Paths : m \notin Mail(p) => Count(toBrowser', Mail(p)) = Count(toBrowser, Mail(p))
  BY <1>2, CountTake DEF Sized
<1>4. Sized'
  BY <1>1, <1>3 DEF Sized
<1>5. ASSUME NEW p \in Paths \ held' PROVE Retried(p)'
  <2>1. p \in Paths /\ Retried(p) /\ p # m.entry.path
    BY <1>1, <1>5 DEF AllRetried
  <2>2. Count(toBrowser', Mail(p)) = Count(toBrowser, Mail(p))
    BY <1>2, <1>3, <2>1, RequestMail
  <2>3. /\ Due(p) <= Count(lists', For(p)) + (Count(toBrowser', Mail(p)) + Count(toServer', Mail(p)))
        /\ Count(lists, For(p)) + currentDownstream[p] <= Count(lists', For(p)) + currentDownstream'[p]
    BY <1>1, <2>1, <2>2, Numbers DEF Due
  <2>. QED BY <1>1, <1>4, <2>1, <2>3, RetriedMoves
<1>. QED BY <1>4, <1>5 DEF AllRetried

LEMMA AskRetries ==
  ASSUME TypeInv, Sized, AllRetried, TypeInv', NEW p \in Paths, Ask(p)
  PROVE  Sized' /\ AllRetried'
<1>. DEFINE m == Message("sync", Entry(p, "create", None), 0)
<1>1. /\ toServer' = toServer (+) One(m)
      /\ UNCHANGED <<outside, held, outOfDate, currentDownstream, lists, toBrowser>>
  BY DEF Ask, browser, sess, lists_, history
<1>2. \A q : m \notin Mail(q)
  BY DEF Message, Mail
<1>. HIDE DEF m
<1>3. Bagged(toServer') /\ \A q \in Paths : Count(toServer', Mail(q)) = Count(toServer, Mail(q))
  BY <1>1, <1>2, CountAdd DEF Sized
<1>4. Sized'
  BY <1>1, <1>3 DEF Sized
<1>. QED BY <1>1, <1>3, <1>4, CountsStay

LEMMA SyncInitRetries ==
  ASSUME TypeInv, Sized, AllRetried, TypeInv', NEW m, HandleSyncInitRequest(m)
  PROVE  Sized' /\ AllRetried'
<1>. DEFINE e == Entry(m.entry.path, "forced", None)
<1>1. /\ m \in DOMAIN toServer /\ m.kind = "sync" /\ toServer' = toServer (-) One(m)
      /\ m \in Answers \cup Wishes
  BY DEF HandleSyncInitRequest, Got, BagIn, BagToSet, TypeInv, WireTypes
<1>2. /\ UNCHANGED <<outside, held, outOfDate, currentDownstream, toBrowser>>
      /\ lists' = lists \/ lists' = lists (+) One(e)
  BY DEF HandleSyncInitRequest, browser, lists_, history
<1>3. m.entry.path \in Paths /\ m \notin Answers
  BY <1>1, AnswerFacts DEF Answers
<1>4. \A q : e \notin For(q)
  BY <1>3, ForcedFacts DEF For
<1>5. \A q : m \notin Mail(q)
  BY <1>1, <1>3, AnswerMail
<1>. HIDE DEF e
<1>6. Bagged(toServer') /\ \A q \in Paths : Count(toServer', Mail(q)) = Count(toServer, Mail(q))
  BY <1>1, <1>5, CountTake DEF Sized
<1>7. Bagged(lists') /\ \A q \in Paths : Count(lists', For(q)) = Count(lists, For(q))
  BY <1>2, <1>4, CountAdd DEF Sized
<1>8. Sized'
  BY <1>2, <1>6, <1>7 DEF Sized
<1>. QED BY <1>2, <1>6, <1>7, <1>8, CountsStay

\* When all that is listed is sent, nothing is left lying, whatever is held.
LEMMA AllSentRetries ==
  ASSUME TypeInv, Sized, TypeInv', Distinct', outside' = outside, toServer' = toServer, Paths # {},
         NEW current \in [Paths -> Nat], SendSourceLists(outOfDate', current)
  PROVE  Sized' /\ AllRetried'
<1>1. outOfDate' \in Seq(Legal)
  <2>1. Legal' = Legal
    BY DEF Legal
  <2>. QED BY <2>1 DEF TypeInv, SessionTypes
<1>2. \A i, j \in DOMAIN outOfDate' : outOfDate'[i] = outOfDate'[j] => i = j
  BY DEF Distinct
<1>3. ASSUME NEW p \in Paths
      PROVE  /\ Bagged(lists') /\ Bagged(toBrowser')
             /\ Retried(p)'
  <2>. DEFINE n == Cardinality(Listings(p)')
              l == Count(lists', For(p))
              w == Count(toBrowser', Mail(p))
              s == Count(toServer', Mail(p))
  <2>1. Listings(p)' = {i \in DOMAIN outOfDate' : outOfDate'[i].path = p}
    BY DEF Listings
  <2>2. /\ Bagged(lists') /\ Bagged(toBrowser') /\ n \in Nat /\ l \in Nat /\ w \in Nat
        /\ n <= l + w /\ n <= l + currentDownstream'[p]
    BY <1>1, <1>2, <2>1, SendCounts DEF Sized
  <2>3. s \in Nat
    BY CountType DEF Sized
  <2>4. For(p)' = For(p) /\ Mail(p)' = Mail(p)
    BY ForStays
  <2>5. Due(p)' = l + (w + s)
    BY <2>4 DEF Due
  <2>. HIDE DEF n, l, w, s
  <2>6. n <= l + (w + s)
    BY <2>2, <2>3
  <2>7. n <= Due(p)' /\ n <= l + currentDownstream'[p]
    BY <2>2, <2>5, <2>6
  <2>. QED BY <2>2, <2>4, <2>7 DEF Retried, n, l
<1>4. Sized'
  BY <1>3 DEF Sized
<1>. QED BY <1>3, <1>4 DEF AllRetried

LEMMA PublishRetries ==
  ASSUME TypeInv, Sized, AllRetried, TypeInv', Distinct', OtherPublishes
  PROVE  Sized' /\ AllRetried'
<1>1. outside' = outside /\ toServer' = toServer
  BY DEF OtherPublishes, browser
<1>2. CASE session = "off"
  <2>1. UNCHANGED <<outside, held, outOfDate, currentDownstream, lists, toBrowser, toServer>>
    BY <1>1, <1>2 DEF OtherPublishes, sess, lists_
  <2>. QED BY <2>1, RetriedSame
<1>3. CASE session # "off"
  <2>1. SendSourceLists(outOfDate', currentDownstream)
    BY <1>3 DEF OtherPublishes
  <2>2. currentDownstream \in [Paths -> Nat]
    BY DEF TypeInv, SessionTypes
  <2>3. Paths # {}
    BY OtherFacts, LegalFacts DEF OtherPublishes
  <2>. QED BY <1>1, <2>1, <2>2, <2>3, AllSentRetries
<1>. QED BY <1>2, <1>3

LEMMA ListingRetries ==
  ASSUME TypeInv, Sized, AllRetried, TypeInv', Distinct', HandleFullDownstream
  PROVE  Sized' /\ AllRetried'
<1>1. outside' = outside /\ toServer' = toServer /\ held' = held
  BY DEF HandleFullDownstream, browser
<1>2. CASE found = {}
  <2>1. UNCHANGED <<outOfDate, currentDownstream, lists, toBrowser>>
    BY <1>2 DEF HandleFullDownstream, lists_
  <2>. QED BY <1>1, <2>1, RetriedSame
<1>3. CASE found # {}
  <2>1. SendSourceLists(outOfDate', NoneCurrent)
    BY <1>3, ListingFacts
  <2>2. NoneCurrent \in [Paths -> Nat]
    BY DEF NoneCurrent
  <2>3. Paths # {}
    BY <1>3 DEF TypeInv, SessionTypes
  <2>. QED BY <1>1, <2>1, <2>2, <2>3, AllSentRetries
<1>. QED BY <1>2, <1>3

\* An empty session has nothing to do.
Nothing == /\ outOfDate = <<>> /\ currentDownstream = NoneCurrent
           /\ lists = EmptyBag /\ toBrowser = EmptyBag /\ toServer = EmptyBag

LEMMA NothingRetries == Nothing => Sized /\ AllRetried
<1>. SUFFICES ASSUME Nothing PROVE Sized /\ AllRetried
  OBVIOUS
<1>. USE DEF Nothing
<1>1. Sized
  BY CountEmpty DEF Sized
<1>2. ASSUME NEW p \in Paths PROVE Retried(p)
  <2>1. Cardinality(Listings(p)) = 0
    <3>1. Listings(p) = {}
      BY EmptySeq DEF Listings
    <3>. QED BY <3>1, FS_EmptySet
  <2>2. /\ Count(lists, For(p)) = 0 /\ Count(toBrowser, Mail(p)) = 0
        /\ Count(toServer, Mail(p)) = 0 /\ currentDownstream[p] = 0
    BY CountEmpty DEF NoneCurrent
  <2>. QED BY <2>1, <2>2 DEF Retried, Due
<1>. QED BY <1>1, <1>2 DEF AllRetried

LEMMA NothingRetriesNext == Nothing' => Sized' /\ AllRetried'
BY NothingRetries, PTL

LEMMA RetriedStep ==
  ASSUME Base, Sized, AllRetried, [Next]_vars
  PROVE  Sized' /\ AllRetried'
<1>1. TypeInv /\ TypeInv' /\ Distinct'
  BY BaseStep DEF Base
<1>2. CASE \/ UNCHANGED vars \/ OtherLocks \/ OtherPatches \/ OtherFails \/ OtherReleases \/ OtherDies
           \/ Connect \/ GetListOfSyncs \/ OwnLocks \/ OwnPatches \/ OwnDenied \/ OwnFails \/ \E p \in Paths : Edit(p)
  <2>1. /\ held' = held
        /\ UNCHANGED <<outside, outOfDate, lists, toBrowser, toServer, currentDownstream>>
    BY <1>2 DEF OtherLocks, OtherPatches, OtherFails, OtherReleases, OtherDies, Connect,
       GetListOfSyncs, OwnLocks, OwnPatches, OwnDenied, OwnFails, Edit, vars, browser, sess, lists_, wire, history
  <2>. QED BY <1>1, <2>1, RetriedSame
<1>3. CASE OtherPublishes
  BY <1>1, <1>3, PublishRetries
<1>4. CASE HandleFullDownstream
  BY <1>1, <1>4, ListingRetries
<1>5. ASSUME NEW e, SendSourceList(e) PROVE Sized' /\ AllRetried'
  BY <1>1, <1>5, SendSourceListRetries
<1>6. CASE ServerStep
  BY <1>1, <1>6, DiffRequestRetries, PatchResponseRetries, DelayRetries, RootResponseRetries,
     SyncInitRetries DEF ServerStep
<1>7. ASSUME NEW m,
             \/ IgnoreOutside(m) \/ IgnoreForced(m) \/ HandleChecksumRequest(m)
             \/ HandleDiffResponse(m) \/ HandleDeleteRequest(m) \/ HandleRenameRequest(m)
             \/ ResendChecksums(m) \/ BrowserFails(m)
      PROVE  Sized' /\ AllRetried'
  BY <1>1, <1>7, BrowserRetries
<1>8. ASSUME NEW p \in Paths, Ask(p) PROVE Sized' /\ AllRetried'
  BY <1>1, <1>8, AskRetries
<1>9. CASE Disconnect
  <2>1. /\ outOfDate' = <<>> /\ lists' = EmptyBag /\ toBrowser' = EmptyBag /\ toServer' = EmptyBag
        /\ currentDownstream' = NoneCurrent
    BY <1>9 DEF Disconnect
  <2>2. NoneCurrent' = NoneCurrent
    BY DEF NoneCurrent
  <2>. QED BY <2>1, <2>2, NothingRetriesNext DEF Nothing
<1>10. ASSUME NEW m, BrowserThrows(m) PROVE Sized' /\ AllRetried'
  BY <1>1, <1>10, ThrowRetries
<1>. QED BY <1>2, <1>3, <1>4, <1>5, <1>6, <1>7, <1>8, <1>9, <1>10
     DEF Next, OtherStep, SessionStep, BrowserStep, OwnStep, Unforced

LEMMA QuietGives ==
  ASSUME Base, Sized, AllRetried
  PROVE  LeftOnlyIfHeld
<1>. SUFFICES ASSUME Quiet, NEW p \in PathsIn(outOfDate), p \notin held PROVE FALSE
  BY DEF LeftOnlyIfHeld
<1>1. PICK i \in DOMAIN outOfDate : outOfDate[i].path = p
  BY DEF PathsIn
<1>2. TypeInv /\ outOfDate[i] \in Legal
  BY DEF Base, TypeInv, SessionTypes
<1>3. p \in Paths
  BY <1>1, <1>2, LegalFacts
<1>4. Cardinality(Listings(p)) <= Due(p) /\ Due(p) = 0
  <2>1. /\ Count(lists, For(p)) = 0 /\ Count(toBrowser, Mail(p)) = 0
        /\ Count(toServer, Mail(p)) = 0
    BY CountEmpty DEF Quiet
  <2>. QED BY <1>3, <2>1 DEF AllRetried, Retried, Due
<1>5. IsFiniteSet(Listings(p)) /\ Cardinality(Listings(p)) = 0
  BY <1>2, <1>3, <1>4, Numbers
<1>6. Listings(p) = {}
  BY <1>5, FS_EmptySet
<1>. QED BY <1>1, <1>6 DEF Listings

\* When nothing is under way, a path that is still listed as out of date was
\* locked, failed or was not what the server verified, after the last update
\* was broadcast: each entry of any other path had a message or a source list of its own
\* under way, until an answer removed it (handlePatchResponse(),
\* handleRootResponse(), delaySync() of sync-protocol-handler.js).
THEOREM LeftOnlyIfHeldHolds == Spec => []LeftOnlyIfHeld
<1>. DEFINE Inv == Base /\ Sized /\ AllRetried
<1>1. Init => Inv
  <2>1. Init => Sized /\ AllRetried
    BY NothingRetries DEF Init, InitWith, Nothing
  <2>. QED BY <2>1, InitBase
<1>2. Inv /\ [Next]_vars => Inv'
  BY BaseStep, RetriedStep
<1>3. Inv => LeftOnlyIfHeld
  BY QuietGives
<1>. QED BY <1>1, <1>2, <1>3, PTL DEF Spec
=============================================================================
