--------------------------- MODULE SyncLockProofs ---------------------------
(***************************************************************************)
(* Theorems about SyncLock, for every set of clients, processes and paths  *)
(* and every finite set of calls.                                          *)
(***************************************************************************)
EXTENDS SyncLock, FiniteSetTheorems, TLAPS

-----------------------------------------------------------------------------
(* What the helpers return.                                                *)

LEMMA LocksAtFinite ==
  ASSUME NEW s, NEW p
  PROVE  Cardinality(LocksAt(s, p)) \in Nat
<1>1. LocksAt(s, p) \subseteq Requests
  BY DEF LocksAt
<1>2. IsFiniteSet(LocksAt(s, p))
  BY <1>1, ConstantsAssumption, FS_Subset DEF ConstantsAssumption
<1>. QED
  BY <1>2, FS_CardinalityType

LEMMA PublishType ==
  ASSUME NEW box \in [Servers -> Seq(Messages)], NEW msgs \in Seq(Messages)
  PROVE  Publish(box, msgs) \in [Servers -> Seq(Messages)]
BY DEF Publish

LEMMA AnswerType ==
  ASSUME NEW rs, answers \in [Requests -> 0..2], Answer(rs)
  PROVE  answers' \in [Requests -> 0..2]
BY DEF Answer

LEMMA DieType ==
  ASSUME TypeOK, NEW s \in Servers, NEW how \in {"killed", "faulted"}, Die(s, how)
  PROVE  /\ up' \in [Servers -> {"up", "killed", "faulted"}]
         /\ inbox' \in [Servers -> Seq(Messages)]
<1>1. <<>> \in Seq(Messages)
  OBVIOUS
<1>. QED
  BY <1>1 DEF Die, TypeOK

\* A call that is under way runs in a process.
LEMMA ServerType ==
  ASSUME TypeOK, NEW r \in Requests, pc[r] # "new"
  PROVE  Server(r) \in Servers
BY ConstantsAssumption DEF TypeOK, Server, ConstantsAssumption

LEMMA Repeated ==
  ASSUME NEW S, NEW m \in S, NEW n \in Nat
  PROVE  [i \in 1..n |-> m] \in Seq(S)
<1>1. [i \in 1..n |-> m] \in [1..n -> S]
  OBVIOUS
<1>. QED
  BY <1>1 DEF Seq

LEMMA MessageTypes ==
  ASSUME NEW p \in Paths
  PROVE  LockRequest(p) \in Messages /\ LockResponse(p) \in Messages
BY DEF LockRequest, LockResponse, Messages

-----------------------------------------------------------------------------
LEMMA InitType == Init => TypeOK
<1>1. <<>> \in Seq(Messages)
  OBVIOUS
<1>. QED
  BY <1>1 DEF Init, TypeOK, PCs

LEMMA StepType == TypeOK /\ [Next]_vars => TypeOK'
<1>. SUFFICES ASSUME TypeOK, [Next]_vars
              PROVE  TypeOK'
  OBVIOUS
<1>. USE DEF TypeOK, PCs, redisVars, callVars, waitVars
<1>1. ASSUME NEW r \in Requests, NEW c \in Clients, NEW p \in Paths, Request(r, c, p)
      PROVE  TypeOK'
  BY <1>1 DEF Request
<1>2. ASSUME NEW r \in Requests, ExecHsetnx(r)
      PROVE  TypeOK'
  BY <1>2 DEF ExecHsetnx
<1>3. ASSUME NEW r \in Requests, ExecHset(r)
      PROVE  TypeOK'
  BY <1>3 DEF ExecHset
<1>4. ASSUME NEW r \in Requests, ExecHdel(r)
      PROVE  TypeOK'
  BY <1>4 DEF ExecHdel
<1>5. ASSUME NEW r \in Requests, RequestFails(r)
      PROVE  TypeOK'
  <2>1. answers' \in [Requests -> 0..2]
    BY <1>5, AnswerType DEF RequestFails
  <2>. QED
    BY <1>5, <2>1 DEF RequestFails
<1>15. ASSUME NEW r \in Requests, ReleaseFails(r)
       PROVE  TypeOK'
  BY <1>15 DEF ReleaseFails
<1>6. ASSUME NEW r \in Requests, Acquired(r)
      PROVE  TypeOK'
  <2>1. answers' \in [Requests -> 0..2]
    BY <1>6, AnswerType DEF Acquired
  <2>. QED
    BY <1>6, <2>1 DEF Acquired
<1>7. ASSUME NEW r \in Requests, Contended(r)
      PROVE  TypeOK'
  <2>1. path[r] \in Paths /\ client[r] \in Clients
    BY <1>7 DEF Contended
  <2>2. <<LockRequest(path[r])>> \in Seq(Messages)
    BY <2>1, MessageTypes
  <2>3. inbox' \in [Servers -> Seq(Messages)]
    BY <1>7, <2>2, PublishType DEF Contended
  <2>4. UNION {LocksAt(s, path[r]) : s \in {t \in Servers : up[t] = "up"}} \subseteq Requests
    BY DEF LocksAt
  <2>5. asked' \in [Requests -> SUBSET Requests]
    BY <1>7, <2>4 DEF Contended
  <2>. QED
    BY <1>7, <2>1, <2>3, <2>5 DEF Contended
<1>8. ASSUME NEW r \in Requests, Timeout(r)
      PROVE  TypeOK'
  <2>1. Server(r) \in Servers
    BY <1>8, ServerType DEF Timeout
  <2>2. /\ up' \in [Servers -> {"up", "killed", "faulted"}]
        /\ inbox' \in [Servers -> Seq(Messages)]
    BY <1>8, <2>1, DieType DEF Timeout
  <2>. QED
    BY <1>8, <2>2 DEF Timeout
<1>9. ASSUME NEW r \in Requests, Release(r)
      PROVE  TypeOK'
  BY <1>9 DEF Release
<1>10. ASSUME NEW r \in Requests, Released(r)
       PROVE  TypeOK'
  BY <1>10 DEF Released
<1>11. ASSUME NEW s \in Servers, HandleLockRequest(s)
       PROVE  TypeOK'
  <2>. DEFINE p == Head(inbox[s]).path
  <2>. DEFINE denials == [i \in 1..Cardinality(LocksAt(s, p)) |-> LockResponse(p)]
  <2>1. Head(inbox[s]) \in Messages /\ Tail(inbox[s]) \in Seq(Messages)
    BY <1>11 DEF HandleLockRequest
  <2>2. p \in Paths
    BY <2>1 DEF Messages
  <2>3. denials \in Seq(Messages)
    <3>1. LockResponse(p) \in Messages
      BY <2>2, MessageTypes
    <3>2. Cardinality(LocksAt(s, p)) \in Nat
      BY LocksAtFinite
    <3>. QED
      BY <3>1, <3>2, Repeated
  <2>4. [inbox EXCEPT ![s] = Tail(@)] \in [Servers -> Seq(Messages)]
    BY <2>1
  <2>5. inbox' \in [Servers -> Seq(Messages)]
    BY <1>11, <2>3, <2>4, PublishType DEF HandleLockRequest
  <2>. QED
    BY <1>11, <2>5 DEF HandleLockRequest
<1>12. ASSUME NEW s \in Servers, HandleLockResponse(s)
       PROVE  TypeOK'
  <2>1. Tail(inbox[s]) \in Seq(Messages)
    BY <1>12 DEF HandleLockResponse
  <2>2. /\ up' \in [Servers -> {"up", "killed", "faulted"}]
        /\ inbox' \in [Servers -> Seq(Messages)]
    BY <1>12, <2>1, DieType, ZenonT(30) DEF HandleLockResponse
  <2>3. answers' \in [Requests -> 0..2]
    BY <1>12, AnswerType DEF HandleLockResponse
  <2>4. listening' \subseteq Requests
    BY <1>12 DEF HandleLockResponse
  <2>5. slot' \in [Clients -> Requests \cup {None}]
    BY <1>12 DEF HandleLockResponse
  <2>6. pc' \in [Requests -> PCs]
    BY <1>12 DEF HandleLockResponse
  <2>7. \A r \in Requests : pc'[r] # "new" => pc[r] # "new"
    BY <1>12 DEF HandleLockResponse
  <2>. QED
    BY <1>12, <2>2, <2>3, <2>4, <2>5, <2>6, <2>7 DEF HandleLockResponse
<1>13. ASSUME NEW s \in Servers, Kill(s)
       PROVE  TypeOK'
  <2>1. /\ up' \in [Servers -> {"up", "killed", "faulted"}]
        /\ inbox' \in [Servers -> Seq(Messages)]
    BY <1>13, DieType DEF Kill
  <2>. QED
    BY <1>13, <2>1 DEF Kill
<1>14. CASE UNCHANGED vars
  BY <1>14 DEF vars
<1>. QED
  BY <1>1, <1>2, <1>3, <1>4, <1>5, <1>6, <1>7, <1>8, <1>9, <1>10, <1>11, <1>12,
     <1>13, <1>14, <1>15 DEF Next

(* Type correctness: whatever the processes do, the store, the inboxes and *)
(* the bookkeeping of every call stay well formed.                         *)
THEOREM TypeCorrect == Spec => []TypeOK
<1>. QED
  BY InitType, StepType, PTL DEF Spec

-----------------------------------------------------------------------------
(* Mutual exclusion.  By itself ExclusiveUntilTakeover is not inductive:   *)
(* that a second hsetnx must lose rests on the entry still being there, so *)
(* it is strengthened with EntryNamesHolder.                               *)

EntryInv == EntryNamesHolder /\ ExclusiveUntilTakeover

LEMMA InitEntry == Init => EntryInv
BY DEF Init, EntryInv, EntryNamesHolder, ExclusiveUntilTakeover, Covers

\* Most actions leave the redis hash and every covering call as they are.
LEMMA CoversUnchanged ==
  ASSUME TypeOK, EntryInv,
         UNCHANGED <<store, takenOver, client, path>>,
         \A r \in Requests : pc'[r] \in {"won", "seized", "held", "hdel"}
           => /\ pc[r] \in {"won", "seized", "held", "hdel"}
              /\ pc'[r] = "seized" => pc[r] = "seized"
  PROVE  EntryInv'
BY DEF EntryInv, EntryNamesHolder, ExclusiveUntilTakeover, Covers

LEMMA StepEntry == TypeOK /\ EntryInv /\ [Next]_vars => EntryInv'
<1>. SUFFICES ASSUME TypeOK, EntryInv, [Next]_vars
              PROVE  EntryInv'
  OBVIOUS
<1>. USE DEF redisVars, callVars, waitVars, takenOver
<1>1. ASSUME NEW r \in Requests, NEW c \in Clients, NEW p \in Paths, Request(r, c, p)
      PROVE  EntryInv'
  BY <1>1 DEF Request, TypeOK, EntryInv, EntryNamesHolder, ExclusiveUntilTakeover, Covers
<1>2. ASSUME NEW r \in Requests, ExecHsetnx(r)
      PROVE  EntryInv'
  <2>1. CASE store[path[r]] # None
    <3>1. UNCHANGED <<store, takenOver, client, path>>
      BY <1>2, <2>1 DEF ExecHsetnx
    <3>2. \A q \in Requests : pc'[q] \in {"won", "seized", "held", "hdel"} => pc'[q] = pc[q]
      BY <1>2, <2>1 DEF ExecHsetnx, TypeOK
    <3>. QED
      BY <3>1, <3>2, CoversUnchanged
  <2>2. CASE store[path[r]] = None
    <3>1. /\ store' = [store EXCEPT ![path[r]] = client[r]]
          /\ pc' = [pc EXCEPT ![r] = "won"]
          /\ UNCHANGED <<client, path, takenOver>>
      BY <1>2, <2>2 DEF ExecHsetnx
    <3>2. client[r] \in Clients /\ path[r] \in Paths
      BY <1>2 DEF ExecHsetnx, TypeOK
    <3>3. ASSUME path[r] \notin takenOver, NEW q \in Requests, Covers(q, path[r])
          PROVE  FALSE
      <4>1. store[path[r]] = client[q]
        BY <3>2, <3>3 DEF EntryInv, EntryNamesHolder
      <4>2. client[q] \in Clients
        BY <3>3 DEF Covers, TypeOK
      <4>. QED
        BY <2>2, <4>1, <4>2, ConstantsAssumption DEF ConstantsAssumption
    <3>4. EntryNamesHolder'
      BY <3>1, <3>2, <3>3 DEF TypeOK, EntryInv, EntryNamesHolder, Covers
    <3>5. ExclusiveUntilTakeover'
      BY <3>1, <3>2, <3>3 DEF TypeOK, EntryInv, ExclusiveUntilTakeover, Covers
    <3>. QED
      BY <3>4, <3>5 DEF EntryInv
  <2>. QED
    BY <2>1, <2>2
<1>3. ASSUME NEW r \in Requests, ExecHset(r)
      PROVE  EntryInv'
  <2>1. client[r] \in Clients /\ path[r] \in Paths
    BY <1>3 DEF ExecHset, TypeOK
  <2>. QED
    BY <1>3, <2>1 DEF ExecHset, TypeOK, EntryInv, EntryNamesHolder, ExclusiveUntilTakeover, Covers
<1>4. ASSUME NEW r \in Requests, ExecHdel(r)
      PROVE  EntryInv'
  <2>1. Covers(r, path[r]) /\ path[r] \in Paths
    BY <1>4 DEF ExecHdel, Covers, TypeOK
  <2>. QED
    BY <1>4, <2>1 DEF ExecHdel, TypeOK, EntryInv, EntryNamesHolder, ExclusiveUntilTakeover, Covers
<1>5. ASSUME NEW r \in Requests, RequestFails(r)
      PROVE  EntryInv'
  BY <1>5, CoversUnchanged DEF RequestFails, TypeOK
<1>15. ASSUME NEW r \in Requests, ReleaseFails(r)
       PROVE  EntryInv'
  BY <1>15, CoversUnchanged DEF ReleaseFails, TypeOK
<1>6. ASSUME NEW r \in Requests, Acquired(r)
      PROVE  EntryInv'
  BY <1>6, CoversUnchanged DEF Acquired, TypeOK
<1>7. ASSUME NEW r \in Requests, Contended(r)
      PROVE  EntryInv'
  BY <1>7, CoversUnchanged DEF Contended, TypeOK
<1>8. ASSUME NEW r \in Requests, Timeout(r)
      PROVE  EntryInv'
  BY <1>8, CoversUnchanged DEF Timeout, TypeOK
<1>9. ASSUME NEW r \in Requests, Release(r)
      PROVE  EntryInv'
  BY <1>9, CoversUnchanged DEF Release, TypeOK
<1>10. ASSUME NEW r \in Requests, Released(r)
       PROVE  EntryInv'
  BY <1>10, CoversUnchanged DEF Released, TypeOK
<1>11. ASSUME NEW s \in Servers, HandleLockRequest(s)
       PROVE  EntryInv'
  BY <1>11, CoversUnchanged DEF HandleLockRequest
<1>12. ASSUME NEW s \in Servers, HandleLockResponse(s)
       PROVE  EntryInv'
  <2>1. UNCHANGED <<store, takenOver, client, path>>
    BY <1>12 DEF HandleLockResponse
  <2>2. \A r \in Requests : pc'[r] \in {"won", "seized", "held", "hdel"} => pc'[r] = pc[r]
    BY <1>12 DEF HandleLockResponse, TypeOK
  <2>. QED
    BY <2>1, <2>2, CoversUnchanged
<1>13. ASSUME NEW s \in Servers, Kill(s)
       PROVE  EntryInv'
  BY <1>13, CoversUnchanged DEF Kill
<1>14. CASE UNCHANGED vars
  BY <1>14, CoversUnchanged DEF vars
<1>. QED
  BY <1>1, <1>2, <1>3, <1>4, <1>5, <1>6, <1>7, <1>8, <1>9, <1>10, <1>11, <1>12,
     <1>13, <1>14, <1>15 DEF Next

LEMMA EntryInvariant == Spec => [](TypeOK /\ EntryInv)
<1>. QED
  BY InitType, StepType, InitEntry, StepEntry, PTL DEF Spec

(* Mutual exclusion: until a timed-out call overwrites the entry of a      *)
(* path, at most one lock covers the path, whatever processes die, redis   *)
(* commands fail and calls of a client overlap.                            *)
THEOREM Exclusive == Spec => []ExclusiveUntilTakeover
<1>1. EntryInv => ExclusiveUntilTakeover
  BY DEF EntryInv
<1>. QED
  BY EntryInvariant, <1>1, PTL

(* Until then the redis entry of a covered path names the covering client. *)
THEOREM EntryTruthful == Spec => []EntryNamesHolder
<1>1. EntryInv => EntryNamesHolder
  BY DEF EntryInv
<1>. QED
  BY EntryInvariant, <1>1, PTL

-----------------------------------------------------------------------------
(* Counting.  The bound on the locks that cover a path is inductive: each  *)
(* accepted command changes the number of locks, the presence of the entry *)
(* and the number of takeovers together.                                   *)

Covering == [p \in Paths |-> {r \in Requests : Covers(r, p)}]
Entries  == [p \in Paths |-> IF store[p] = None THEN 0 ELSE 1]

Bounded(p) == Cardinality(Covering[p]) <= takeovers[p] + Entries[p]

LEMMA BoundByCovering ==
  HoldersBoundedByTakeovers <=> \A p \in Paths : Bounded(p)
BY DEF HoldersBoundedByTakeovers, Covering, Entries, Bounded

LEMMA CoveringFinite ==
  ASSUME NEW p \in Paths
  PROVE  IsFiniteSet(Covering[p]) /\ Cardinality(Covering[p]) \in Nat
<1>1. IsFiniteSet(Covering[p])
  BY FS_Subset, ConstantsAssumption DEF Covering, ConstantsAssumption
<1>. QED
  BY <1>1, FS_CardinalityType

\* A subset has no more elements.
LEMMA FewerElements ==
  ASSUME NEW S, NEW T, IsFiniteSet(S), T \subseteq S
  PROVE  Cardinality(T) \in Nat /\ Cardinality(T) <= Cardinality(S)
<1>1. IsFiniteSet(T) /\ Cardinality(T) <= Cardinality(S)
  BY FS_Subset
<1>. QED
  BY <1>1, FS_CardinalityType

\* One element more.
LEMMA OneMore ==
  ASSUME NEW S, NEW T, NEW x, IsFiniteSet(S), T \subseteq S \cup {x}
  PROVE  Cardinality(T) \in Nat /\ Cardinality(T) <= Cardinality(S) + 1
<1>1. IsFiniteSet(S \cup {x})
  BY FS_AddElement
<1>2. Cardinality(S \cup {x}) = Cardinality(S) \/ Cardinality(S \cup {x}) = Cardinality(S) + 1
  BY FS_AddElement
<1>3. Cardinality(T) \in Nat /\ Cardinality(T) <= Cardinality(S \cup {x})
  BY <1>1, FewerElements
<1>4. Cardinality(S) \in Nat
  BY FS_CardinalityType
<1>. QED
  BY <1>2, <1>3, <1>4

\* One element less.
LEMMA OneLess ==
  ASSUME NEW S, NEW T, NEW x \in S, IsFiniteSet(S), T \subseteq S \ {x}
  PROVE  Cardinality(T) \in Nat /\ Cardinality(T) <= Cardinality(S) - 1
<1>1. IsFiniteSet(S \ {x})
  BY FS_RemoveElement
<1>2. Cardinality(S \ {x}) = Cardinality(S) - 1
  BY FS_RemoveElement
<1>3. Cardinality(T) \in Nat /\ Cardinality(T) <= Cardinality(S \ {x})
  BY <1>1, FewerElements
<1>. QED
  BY <1>2, <1>3

\* A path whose entry and takeovers stay, and that no new lock covers.
LEMMA BoundKept ==
  ASSUME TypeOK, NEW p \in Paths, Bounded(p),
         store'[p] = store[p], takeovers'[p] = takeovers[p],
         Covering'[p] \subseteq Covering[p]
  PROVE  Bounded(p)'
<1>1. Cardinality(Covering'[p]) \in Nat /\ Cardinality(Covering'[p]) <= Cardinality(Covering[p])
  BY CoveringFinite, FewerElements
<1>2. Cardinality(Covering[p]) \in Nat /\ takeovers[p] \in Nat
  BY CoveringFinite DEF TypeOK
<1>3. Entries'[p] = Entries[p] /\ Entries[p] \in {0, 1}
  BY DEF Entries
<1>. QED
  BY <1>1, <1>2, <1>3 DEF Bounded

\* A lock more, on a path that gets its entry or a takeover.
LEMMA BoundGrows ==
  ASSUME TypeOK, NEW p \in Paths, NEW r, Bounded(p),
         Covering'[p] \subseteq Covering[p] \cup {r},
         takeovers'[p] \in Nat,
         takeovers'[p] + Entries'[p] >= takeovers[p] + Entries[p] + 1
  PROVE  Bounded(p)'
<1>1. Cardinality(Covering'[p]) \in Nat /\ Cardinality(Covering'[p]) <= Cardinality(Covering[p]) + 1
  BY CoveringFinite, OneMore
<1>2. Cardinality(Covering[p]) \in Nat /\ takeovers[p] \in Nat
  BY CoveringFinite DEF TypeOK
<1>3. Entries[p] \in {0, 1} /\ Entries'[p] \in {0, 1}
  BY DEF Entries
<1>. QED
  BY <1>1, <1>2, <1>3 DEF Bounded

\* A lock less, on a path that may lose its entry.
LEMMA BoundShrinks ==
  ASSUME TypeOK, NEW p \in Paths, NEW r \in Covering[p], Bounded(p),
         Covering'[p] \subseteq Covering[p] \ {r},
         takeovers'[p] = takeovers[p]
  PROVE  Bounded(p)'
<1>1. Cardinality(Covering'[p]) \in Nat /\ Cardinality(Covering'[p]) <= Cardinality(Covering[p]) - 1
  BY CoveringFinite, OneLess
<1>2. Cardinality(Covering[p]) \in Nat /\ takeovers[p] \in Nat
  BY CoveringFinite DEF TypeOK
<1>3. Entries[p] \in {0, 1} /\ Entries'[p] \in {0, 1}
  BY DEF Entries
<1>. QED
  BY <1>1, <1>2, <1>3 DEF Bounded

\* What a redis command does to a path that is not its own.
LEMMA OtherPaths ==
  ASSUME TypeOK, NEW r \in Requests, ExecHsetnx(r) \/ ExecHset(r) \/ ExecHdel(r),
         NEW p \in Paths, p # path[r], Bounded(p)
  PROVE  Bounded(p)'
<1>1. store'[p] = store[p] /\ takeovers'[p] = takeovers[p]
  BY DEF ExecHsetnx, ExecHset, ExecHdel, TypeOK
<1>2. UNCHANGED <<path, client>> /\ \A q \in Requests \ {r} : pc'[q] = pc[q]
  BY DEF ExecHsetnx, ExecHset, ExecHdel, TypeOK, callVars
<1>3. Covering'[p] \subseteq Covering[p]
  BY <1>2 DEF Covering, Covers
<1>. QED
  BY <1>1, <1>3, BoundKept

LEMMA StepBound ==
  TypeOK /\ HoldersBoundedByTakeovers /\ [Next]_vars => HoldersBoundedByTakeovers'
<1>a. HoldersBoundedByTakeovers' <=> \A p \in Paths : Bounded(p)'
  BY DEF HoldersBoundedByTakeovers, Covering, Entries, Bounded
<1>. SUFFICES ASSUME TypeOK, HoldersBoundedByTakeovers, [Next]_vars, NEW p \in Paths
              PROVE  Bounded(p)'
  BY <1>a
<1>0. Bounded(p)
  BY BoundByCovering
<1>. USE DEF redisVars, callVars, waitVars
<1>. DEFINE Quietly == /\ UNCHANGED <<store, takeovers>>
                       /\ Covering'[p] \subseteq Covering[p]
<1>1. ASSUME NEW r \in Requests, NEW c \in Clients, NEW q \in Paths, Request(r, c, q)
      PROVE  Quietly
  BY <1>1 DEF Request, TypeOK, Covering, Covers
<1>2. ASSUME NEW r \in Requests, ExecHsetnx(r)
      PROVE  Bounded(p)'
  <2>1. CASE p # path[r]
    BY <1>0, <1>2, <2>1, OtherPaths
  <2>2. CASE p = path[r] /\ store[p] = None
    <3>1. Covering'[p] \subseteq Covering[p] \cup {r}
      BY <1>2 DEF ExecHsetnx, Covering, Covers, TypeOK
    <3>2. client[r] \in Clients /\ client[r] # None
      BY <1>2, ConstantsAssumption DEF ExecHsetnx, TypeOK, ConstantsAssumption
    <3>3. takeovers'[p] = takeovers[p] /\ Entries[p] = 0 /\ Entries'[p] = 1
      BY <1>2, <2>2, <3>2 DEF ExecHsetnx, TypeOK, Entries
    <3>4. takeovers[p] \in Nat
      BY DEF TypeOK
    <3>. QED
      BY <1>0, <3>1, <3>3, <3>4, BoundGrows
  <2>3. CASE p = path[r] /\ store[p] # None
    <3>1. store' = store /\ takeovers' = takeovers
      BY <1>2, <2>3 DEF ExecHsetnx
    <3>2. Covering'[p] \subseteq Covering[p]
      BY <1>2, <2>3 DEF ExecHsetnx, Covering, Covers, TypeOK
    <3>. QED
      BY <1>0, <3>1, <3>2, BoundKept
  <2>. QED
    BY <2>1, <2>2, <2>3
<1>3. ASSUME NEW r \in Requests, ExecHset(r)
      PROVE  Bounded(p)'
  <2>1. CASE p # path[r]
    BY <1>0, <1>3, <2>1, OtherPaths
  <2>2. CASE p = path[r]
    <3>1. Covering'[p] \subseteq Covering[p] \cup {r}
      BY <1>3 DEF ExecHset, Covering, Covers, TypeOK
    <3>2. client[r] \in Clients /\ client[r] # None
      BY <1>3, ConstantsAssumption DEF ExecHset, TypeOK, ConstantsAssumption
    <3>3. takeovers[p] \in Nat /\ takeovers'[p] = takeovers[p] + 1
      BY <1>3, <2>2 DEF ExecHset, TypeOK
    <3>4. Entries[p] \in {0, 1} /\ Entries'[p] = 1
      BY <1>3, <2>2, <3>2 DEF ExecHset, TypeOK, Entries
    <3>. QED
      BY <1>0, <3>1, <3>3, <3>4, BoundGrows
  <2>. QED
    BY <2>1, <2>2
<1>4. ASSUME NEW r \in Requests, ExecHdel(r)
      PROVE  Bounded(p)'
  <2>1. CASE p # path[r]
    BY <1>0, <1>4, <2>1, OtherPaths
  <2>2. CASE p = path[r]
    <3>1. r \in Covering[p] /\ Covering'[p] \subseteq Covering[p] \ {r}
      BY <1>4, <2>2 DEF ExecHdel, Covering, Covers, TypeOK
    <3>2. takeovers'[p] = takeovers[p]
      BY <1>4 DEF ExecHdel
    <3>. QED
      BY <1>0, <3>1, <3>2, BoundShrinks
  <2>. QED
    BY <2>1, <2>2
<1>5. ASSUME NEW r \in Requests,
             RequestFails(r) \/ ReleaseFails(r) \/ Acquired(r) \/ Contended(r)
               \/ Timeout(r) \/ Release(r) \/ Released(r)
      PROVE  Quietly
  BY <1>5 DEF RequestFails, ReleaseFails, Acquired, Contended, Timeout, Release, Released,
              TypeOK, Covering, Covers
<1>6. ASSUME NEW s \in Servers, HandleLockRequest(s) \/ Kill(s)
      PROVE  Quietly
  BY <1>6 DEF HandleLockRequest, Kill, Covering, Covers
<1>7. ASSUME NEW s \in Servers, HandleLockResponse(s)
      PROVE  Quietly
  <2>1. UNCHANGED <<store, takeovers, client, path>>
    BY <1>7 DEF HandleLockResponse
  <2>2. \A r \in Requests : pc'[r] \in {"won", "seized", "held", "hdel"} => pc'[r] = pc[r]
    BY <1>7 DEF HandleLockResponse, TypeOK
  <2>. QED
    BY <2>1, <2>2 DEF Covering, Covers
<1>8. CASE UNCHANGED vars
  <2>1. Quietly
    BY <1>8 DEF vars, Covering, Covers
  <2>. QED
    BY <2>1, <1>0, BoundKept
<1>9. Quietly => Bounded(p)'
  BY <1>0, BoundKept
<1>. QED
  BY <1>1, <1>2, <1>3, <1>4, <1>5, <1>6, <1>7, <1>8, <1>9 DEF Next

LEMMA InitBound == Init => HoldersBoundedByTakeovers
<1>. SUFFICES ASSUME Init, NEW p \in Paths
              PROVE  Bounded(p)
  BY BoundByCovering
<1>1. Covering[p] = {}
  BY DEF Init, Covering, Covers
<1>2. Cardinality(Covering[p]) = 0
  BY <1>1, FS_EmptySet
<1>. QED
  BY <1>2 DEF Init, Entries, Bounded

(* The harm a takeover does is bounded: whatever entries are deleted by    *)
(* locks that are no longer theirs to delete, a path has at most one lock  *)
(* more than the number of times it was taken over.                        *)
THEOREM HoldersBounded == Spec => []HoldersBoundedByTakeovers
<1>. QED
  BY InitType, StepType, InitBound, StepBound, PTL DEF Spec

-----------------------------------------------------------------------------
(* The listener bookkeeping of clients that ask for one lock at a time.    *)
(* A call waits exactly while its listener is registered and its client's  *)
(* slot names it; that no listener or timer meets an empty slot follows.   *)

OnePending ==
  \A q, r \in Requests : Pending(q) /\ Pending(r) /\ client[q] = client[r] => q = r

WaitersListen ==
  \A r \in Requests : pc[r] = "waiting" => r \in listening /\ slot[client[r]] = r

ListenersWait == \A r \in listening : pc[r] = "waiting"

SlotsWait ==
  \A c \in Clients : slot[c] # None => pc[slot[c]] = "waiting" /\ client[slot[c]] = c

PendingUnanswered ==
  \A r \in Requests : pc[r] = "new" \/ Pending(r) => answers[r] = 0

WaitInv ==
  /\ OnePending
  /\ WaitersListen
  /\ ListenersWait
  /\ SlotsWait
  /\ PendingUnanswered
  /\ AnsweredOnce
  /\ NoFault

LEMMA InitWait == Init => WaitInv
BY DEF Init, WaitInv, OnePending, WaitersListen, ListenersWait, SlotsWait,
       PendingUnanswered, AnsweredOnce, NoFault, Pending

\* Steps of a call that neither wait, nor start or stop being pending.
LEMMA WaitUnchanged ==
  ASSUME TypeOK, WaitInv, UNCHANGED <<client, slot, listening, answers>>, NoFault',
         \A r \in Requests :
           /\ pc'[r] = "waiting" <=> pc[r] = "waiting"
           /\ (pc'[r] = "new" \/ Pending(r)') => (pc[r] = "new" \/ Pending(r))
           /\ Pending(r)' => Pending(r)
  PROVE  WaitInv'
<1>1. OnePending' /\ WaitersListen' /\ PendingUnanswered' /\ AnsweredOnce'
  BY DEF WaitInv, OnePending, WaitersListen, PendingUnanswered, AnsweredOnce
<1>2. ListenersWait' /\ SlotsWait'
  BY ConstantsAssumption
  DEF ConstantsAssumption, TypeOK, WaitInv, ListenersWait, SlotsWait
<1>. QED
  BY <1>1, <1>2 DEF WaitInv

LEMMA StepWait == ~Pipelined /\ TypeOK /\ WaitInv /\ [Next]_vars => WaitInv'
<1>. SUFFICES ASSUME ~Pipelined, TypeOK, WaitInv, [Next]_vars
              PROVE  WaitInv'
  OBVIOUS
<1>. USE DEF redisVars, callVars, waitVars
<1>1. ASSUME NEW r \in Requests, NEW c \in Clients, NEW p \in Paths, Request(r, c, p)
      PROVE  WaitInv'
  <2>1. /\ pc[r] = "new"
        /\ pc' = [pc EXCEPT ![r] = "hsetnx"]
        /\ client' = [client EXCEPT ![r] = c]
        /\ \A q \in Requests : client[q] = c => ~Pending(q)
        /\ UNCHANGED <<up, slot, listening, answers>>
    BY <1>1 DEF Request
  <2>2. OnePending'
    BY <2>1 DEF TypeOK, WaitInv, OnePending, Pending
  <2>3. WaitersListen'
    BY <2>1 DEF TypeOK, WaitInv, WaitersListen
  <2>4. ListenersWait'
    BY <2>1 DEF TypeOK, WaitInv, ListenersWait
  <2>5. SlotsWait'
    BY <2>1, ConstantsAssumption DEF ConstantsAssumption, TypeOK, WaitInv, SlotsWait
  <2>6. PendingUnanswered' /\ AnsweredOnce' /\ NoFault'
    BY <2>1 DEF TypeOK, WaitInv, PendingUnanswered, AnsweredOnce, NoFault, Pending
  <2>. QED
    BY <2>2, <2>3, <2>4, <2>5, <2>6 DEF WaitInv
<1>2. ASSUME NEW r \in Requests, ExecHsetnx(r)
      PROVE  WaitInv'
  <2>1. NoFault' /\ UNCHANGED <<client, slot, listening, answers>>
    BY <1>2 DEF ExecHsetnx, WaitInv, NoFault
  <2>. QED
    BY <1>2, <2>1, WaitUnchanged DEF ExecHsetnx, TypeOK, Pending
<1>3. ASSUME NEW r \in Requests, ExecHset(r)
      PROVE  WaitInv'
  <2>1. NoFault' /\ UNCHANGED <<client, slot, listening, answers>>
    BY <1>3 DEF ExecHset, WaitInv, NoFault
  <2>. QED
    BY <1>3, <2>1, WaitUnchanged DEF ExecHset, TypeOK, Pending
<1>4. ASSUME NEW r \in Requests, ExecHdel(r)
      PROVE  WaitInv'
  <2>1. NoFault' /\ UNCHANGED <<client, slot, listening, answers>>
    BY <1>4 DEF ExecHdel, WaitInv, NoFault
  <2>. QED
    BY <1>4, <2>1, WaitUnchanged DEF ExecHdel, TypeOK, Pending
<1>5. ASSUME NEW r \in Requests, RequestFails(r)
      PROVE  WaitInv'
  <2>1. /\ pc[r] \in {"hsetnx", "hset"}
        /\ pc' = [pc EXCEPT ![r] = "failed"]
        /\ Answer({r})
        /\ UNCHANGED <<up, client, slot, listening>>
    BY <1>5 DEF RequestFails
  <2>2. OnePending' /\ WaitersListen'
    BY <2>1 DEF TypeOK, WaitInv, OnePending, WaitersListen, Pending
  <2>3. ListenersWait' /\ SlotsWait'
    BY <2>1, ConstantsAssumption
    DEF ConstantsAssumption, TypeOK, WaitInv, ListenersWait, SlotsWait
  <2>4. PendingUnanswered' /\ AnsweredOnce' /\ NoFault'
    BY <2>1
    DEF TypeOK, WaitInv, PendingUnanswered, AnsweredOnce, NoFault, Answer, Pending
  <2>. QED
    BY <2>2, <2>3, <2>4 DEF WaitInv
<1>15. ASSUME NEW r \in Requests, ReleaseFails(r)
       PROVE  WaitInv'
  <2>1. NoFault' /\ UNCHANGED <<client, slot, listening, answers>>
    BY <1>15 DEF ReleaseFails, WaitInv, NoFault
  <2>. QED
    BY <1>15, <2>1, WaitUnchanged DEF ReleaseFails, TypeOK, Pending
<1>6. ASSUME NEW r \in Requests, Acquired(r)
      PROVE  WaitInv'
  <2>1. /\ pc[r] \in {"won", "seized"}
        /\ pc' = [pc EXCEPT ![r] = "held"]
        /\ Answer({r})
        /\ UNCHANGED <<up, client, slot, listening>>
    BY <1>6 DEF Acquired
  <2>2. OnePending' /\ WaitersListen'
    BY <2>1 DEF TypeOK, WaitInv, OnePending, WaitersListen, Pending
  <2>3. ListenersWait' /\ SlotsWait'
    BY <2>1, ConstantsAssumption
    DEF ConstantsAssumption, TypeOK, WaitInv, ListenersWait, SlotsWait
  <2>4. PendingUnanswered' /\ AnsweredOnce' /\ NoFault'
    BY <2>1
    DEF TypeOK, WaitInv, PendingUnanswered, AnsweredOnce, NoFault, Answer, Pending
  <2>. QED
    BY <2>2, <2>3, <2>4 DEF WaitInv
<1>7. ASSUME NEW r \in Requests, Contended(r)
      PROVE  WaitInv'
  <2>1. /\ pc[r] = "lost"
        /\ pc' = [pc EXCEPT ![r] = "waiting"]
        /\ slot' = [slot EXCEPT ![client[r]] = r]
        /\ listening' = listening \cup {r}
        /\ client[r] \in Clients
        /\ UNCHANGED <<up, client, answers>>
    BY <1>7 DEF Contended, TypeOK
  <2>2. \A q \in Requests : pc[q] = "waiting" => client[q] # client[r]
    BY <2>1 DEF WaitInv, OnePending, Pending
  <2>3. OnePending'
    BY <2>1 DEF TypeOK, WaitInv, OnePending, Pending
  <2>4. WaitersListen'
    BY <2>1, <2>2 DEF TypeOK, WaitInv, WaitersListen
  <2>5. ListenersWait'
    BY <2>1 DEF TypeOK, WaitInv, ListenersWait
  <2>6. SlotsWait'
    BY <2>1, ConstantsAssumption DEF ConstantsAssumption, TypeOK, WaitInv, SlotsWait
  <2>7. PendingUnanswered' /\ AnsweredOnce' /\ NoFault'
    BY <2>1 DEF TypeOK, WaitInv, PendingUnanswered, AnsweredOnce, NoFault, Pending
  <2>. QED
    BY <2>3, <2>4, <2>5, <2>6, <2>7 DEF WaitInv
<1>8. ASSUME NEW r \in Requests, Timeout(r)
      PROVE  WaitInv'
  <2>1. pc[r] = "waiting" /\ slot[client[r]] = r /\ client[r] \in Clients
    BY <1>8 DEF Timeout, WaitInv, WaitersListen, TypeOK
  <2>2. /\ pc' = [pc EXCEPT ![r] = "hset"]
        /\ slot' = [slot EXCEPT ![client[r]] = None]
        /\ listening' = listening \ {r}
        /\ UNCHANGED <<up, client, answers>>
    BY <1>8, <2>1, ConstantsAssumption DEF Timeout, ConstantsAssumption
  <2>3. \A q \in Requests : pc[q] = "waiting" /\ client[q] = client[r] => q = r
    BY <2>1 DEF WaitInv, OnePending, Pending
  <2>4. OnePending'
    BY <2>1, <2>2 DEF TypeOK, WaitInv, OnePending, Pending
  <2>5. WaitersListen'
    BY <2>1, <2>2, <2>3 DEF TypeOK, WaitInv, WaitersListen
  <2>6. ListenersWait'
    BY <2>2 DEF TypeOK, WaitInv, ListenersWait
  <2>7. SlotsWait'
    BY <2>1, <2>2, ConstantsAssumption DEF ConstantsAssumption, TypeOK, WaitInv, SlotsWait
  <2>8. PendingUnanswered' /\ AnsweredOnce' /\ NoFault'
    BY <2>1, <2>2 DEF TypeOK, WaitInv, PendingUnanswered, AnsweredOnce, NoFault, Pending
  <2>. QED
    BY <2>4, <2>5, <2>6, <2>7, <2>8 DEF WaitInv
<1>9. ASSUME NEW r \in Requests, Release(r)
      PROVE  WaitInv'
  <2>1. NoFault' /\ UNCHANGED <<client, slot, listening, answers>>
    BY <1>9 DEF Release, WaitInv, NoFault
  <2>. QED
    BY <1>9, <2>1, WaitUnchanged DEF Release, TypeOK, Pending
<1>10. ASSUME NEW r \in Requests, Released(r)
       PROVE  WaitInv'
  <2>1. NoFault' /\ UNCHANGED <<client, slot, listening, answers>>
    BY <1>10 DEF Released, WaitInv, NoFault
  <2>. QED
    BY <1>10, <2>1, WaitUnchanged DEF Released, TypeOK, Pending
<1>11. ASSUME NEW s \in Servers, HandleLockRequest(s)
       PROVE  WaitInv'
  <2>1. NoFault' /\ UNCHANGED <<pc, client, slot, listening, answers>>
    BY <1>11 DEF HandleLockRequest, WaitInv, NoFault
  <2>. QED
    BY <2>1, WaitUnchanged DEF Pending
<1>12. ASSUME NEW s \in Servers, HandleLockResponse(s)
       PROVE  WaitInv'
  <2>. DEFINE called == ListenersAt(s, Head(inbox[s]).path)
  <2>. DEFINE callers == {client[r] : r \in called}
  <2>1. called \subseteq listening /\ called \subseteq Requests
    BY DEF ListenersAt, TypeOK
  <2>2. \A r \in called :
          pc[r] = "waiting" /\ slot[client[r]] = r /\ client[r] \in Clients /\ r # None
    BY <2>1, ConstantsAssumption
    DEF ConstantsAssumption, WaitInv, ListenersWait, WaitersListen, TypeOK
  <2>3. \A q, r \in called : client[q] = client[r] => q = r
    BY <2>1, <2>2 DEF WaitInv, OnePending, Pending
  <2>4. /\ listening' = listening \ {slot[c] : c \in callers}
        /\ slot' = [c \in Clients |-> IF c \in callers THEN None ELSE slot[c]]
        /\ pc' = [r \in Requests |->
                    IF r \in called /\ pc[r] = "waiting" THEN "denied" ELSE pc[r]]
        /\ Answer(called)
        /\ UNCHANGED <<up, client>>
    BY <1>12, <2>2, <2>3 DEF HandleLockResponse
  <2>5. listening' = listening \ called
    <3>1. {slot[c] : c \in callers} = called
      BY <2>2
    <3>. QED
      BY <2>4, <3>1
  <2>6. \A r \in Requests \ called : pc'[r] = pc[r]
    BY <2>4
  <2>7. \A r \in called : pc'[r] = "denied"
    BY <2>1, <2>2, <2>4
  <2>8. \A q \in Requests \ called : pc[q] = "waiting" => client[q] \notin callers
    BY <2>1, <2>2 DEF WaitInv, WaitersListen
  <2>9. OnePending'
    BY <2>4, <2>6, <2>7 DEF WaitInv, OnePending, Pending
  <2>10. WaitersListen'
    BY <2>4, <2>5, <2>6, <2>7, <2>8 DEF WaitInv, WaitersListen, TypeOK
  <2>11. ListenersWait'
    BY <2>5, <2>6 DEF WaitInv, ListenersWait, TypeOK
  <2>12. SlotsWait'
    <3>1. SUFFICES ASSUME NEW c \in Clients, slot'[c] # None
                   PROVE  pc'[slot'[c]] = "waiting" /\ client'[slot'[c]] = c
      BY DEF SlotsWait
    <3>2. c \notin callers /\ slot'[c] = slot[c]
      BY <2>4, <3>1
    <3>3. pc[slot[c]] = "waiting" /\ client[slot[c]] = c /\ slot[c] \in Requests
      BY <3>1, <3>2 DEF WaitInv, SlotsWait, TypeOK
    <3>4. slot[c] \notin called
      BY <3>2, <3>3
    <3>. QED
      BY <2>4, <2>6, <3>2, <3>3, <3>4
  <2>13. PendingUnanswered' /\ AnsweredOnce'
    BY <2>2, <2>4, <2>6, <2>7
    DEF TypeOK, WaitInv, PendingUnanswered, AnsweredOnce, Answer, Pending
  <2>14. NoFault'
    BY <2>4 DEF WaitInv, NoFault
  <2>. QED
    BY <2>9, <2>10, <2>11, <2>12, <2>13, <2>14 DEF WaitInv
<1>13. ASSUME NEW s \in Servers, Kill(s)
       PROVE  WaitInv'
  <2>1. NoFault' /\ UNCHANGED <<pc, client, slot, listening, answers>>
    BY <1>13 DEF Kill, Die, WaitInv, NoFault, TypeOK
  <2>. QED
    BY <2>1, WaitUnchanged DEF Pending
<1>14. CASE UNCHANGED vars
  <2>1. NoFault' /\ UNCHANGED <<pc, client, slot, listening, answers>>
    BY <1>14 DEF vars, WaitInv, NoFault
  <2>. QED
    BY <2>1, WaitUnchanged DEF Pending
<1>. QED
  BY <1>1, <1>2, <1>3, <1>4, <1>5, <1>6, <1>7, <1>8, <1>9, <1>10, <1>11, <1>12,
     <1>13, <1>14, <1>15 DEF Next

(* When no client asks for a lock before its last call was answered, no    *)
(* process is ended by an emptied listener slot.                           *)
THEOREM NoFaultWhenSerial == ~Pipelined => (Spec => []NoFault)
<1>. SUFFICES ASSUME ~Pipelined PROVE Spec => []NoFault
  OBVIOUS
<1>1. TypeOK /\ WaitInv /\ [Next]_vars => WaitInv'
  BY StepWait
<1>2. WaitInv => NoFault
  BY DEF WaitInv
<1>. QED
  BY <1>1, <1>2, InitType, StepType, InitWait, PTL DEF Spec

(* Then, too, no callback runs twice.                                      *)
THEOREM AnsweredOnceWhenSerial == ~Pipelined => (Spec => []AnsweredOnce)
<1>. SUFFICES ASSUME ~Pipelined PROVE Spec => []AnsweredOnce
  OBVIOUS
<1>1. TypeOK /\ WaitInv /\ [Next]_vars => WaitInv'
  BY StepWait
<1>2. WaitInv => AnsweredOnce
  BY DEF WaitInv
<1>. QED
  BY <1>1, <1>2, InitType, StepType, InitWait, PTL DEF Spec

-----------------------------------------------------------------------------
(* A holder that was asked denies before the timer expires.                *)

(* Whom a call has asked has held the path, and gives it back for good.    *)
AskedHeld ==
  \A r \in Requests : \A q \in asked[r] :
     /\ pc[q] \in {"held", "hdel", "deleted", "released"}
     /\ path[q] = path[r] /\ pc[r] # "new"

(* The request is on its way to the holder, or the denial back.            *)
Coming(s, m) == \E i \in 1..Len(inbox[s]) : inbox[s][i] = m
Faces(r, q) == pc[r] = "waiting" /\ Running(r) /\ pc[q] = "held" /\ Running(q)
Hears(r, q) == \/ Coming(Server(q), LockRequest(path[r]))
               \/ Coming(Server(r), LockResponse(path[r]))
AskedHear == \A r \in Requests : \A q \in asked[r] : Faces(r, q) => Hears(r, q)

AskedInv == AskedHeld /\ AskedHear /\ AskedHolderKeepsLock

LEMMA InitAsked == Init => AskedInv
BY DEF Init, AskedInv, AskedHeld, AskedHear, AskedHolderKeepsLock

(* No step but those of a lock's start and end moves a call towards it.    *)
Onward ==
  /\ asked' = asked
  /\ \A r \in Requests :
       /\ pc[r] # "new" => client'[r] = client[r] /\ path'[r] = path[r] /\ pc'[r] # "new"
       /\ pc'[r] = "waiting" => pc[r] = "waiting"
       /\ pc[r] \in {"held", "hdel", "deleted", "released"} =>
            /\ pc'[r] \in {"held", "hdel", "deleted", "released"}
            /\ pc'[r] = "held" => pc[r] = "held"
  /\ \A s \in Servers : up'[s] = "up" => up[s] = "up"

LEMMA OnwardFaces ==
  ASSUME TypeOK, AskedHeld, Onward, NEW r \in Requests, NEW q \in asked[r]
  PROVE  /\ q \in Requests /\ Server(q) \in Servers /\ Server(r) \in Servers
         /\ Server(q)' = Server(q) /\ Server(r)' = Server(r) /\ path'[r] = path[r]
         /\ pc[q] # "new" /\ pc[r] # "new"
         /\ Running(q)' => Running(q)
         /\ Faces(r, q)' => Faces(r, q)
<1>1. /\ q \in Requests /\ pc[q] # "new" /\ pc[r] # "new"
      /\ pc[q] \in {"held", "hdel", "deleted", "released"}
  BY DEF TypeOK, AskedHeld
<1>2. /\ client'[q] = client[q] /\ client'[r] = client[r] /\ path'[r] = path[r]
      /\ pc'[q] = "held" => pc[q] = "held"
      /\ pc'[r] = "waiting" => pc[r] = "waiting"
  BY <1>1 DEF Onward
<1>3. Server(q) \in Servers /\ Server(r) \in Servers
  BY <1>1, ServerType
<1>4. Server(q)' = Server(q) /\ Server(r)' = Server(r)
  BY <1>2 DEF Server
<1>5. (up'[Server(q)] = "up" => up[Server(q)] = "up") /\ (up'[Server(r)] = "up" => up[Server(r)] = "up")
  BY <1>3 DEF Onward
<1>6. (Running(q)' => Running(q)) /\ (Running(r)' => Running(r))
  BY <1>1, <1>4, <1>5 DEF Running
<1>. QED BY <1>1, <1>2, <1>3, <1>4, <1>6 DEF Faces

LEMMA AskedStays ==
  ASSUME TypeOK, AskedInv, Onward,
         \A r \in Requests : \A q \in asked[r] : Faces(r, q) /\ Hears(r, q) /\ Faces(r, q)' => Hears(r, q)',
         \A r \in Requests : pc'[r] = "hset" =>
           pc[r] = "hset" \/ (Prompt => \A q \in asked[r] : ~(pc[q] = "held" /\ Running(q)))
  PROVE  AskedInv'
<1>1. AskedHeld'
  <2>1. ASSUME NEW r \in Requests, NEW q \in asked'[r]
        PROVE  /\ pc'[q] \in {"held", "hdel", "deleted", "released"}
               /\ path'[q] = path'[r] /\ pc'[r] # "new"
    <3>1. q \in asked[r] /\ q \in Requests
      BY <2>1 DEF Onward, TypeOK
    <3>2. /\ pc[q] \in {"held", "hdel", "deleted", "released"}
          /\ path[q] = path[r] /\ pc[r] # "new"
      BY <3>1 DEF AskedInv, AskedHeld
    <3>. QED BY <3>1, <3>2 DEF Onward
  <2>. QED BY <2>1 DEF AskedHeld
<1>2. AskedHear'
  <2>1. ASSUME NEW r \in Requests, NEW q \in asked'[r], Faces(r, q)' PROVE Hears(r, q)'
    <3>1. q \in asked[r]
      BY <2>1 DEF Onward
    <3>2. Faces(r, q)
      BY <2>1, <3>1, OnwardFaces DEF AskedInv
    <3>. QED BY <2>1, <3>1, <3>2 DEF AskedInv, AskedHear
  <2>. QED BY <2>1 DEF AskedHear
<1>3. AskedHolderKeepsLock'
  <2>1. ASSUME Prompt, NEW r \in Requests, pc'[r] = "hset", NEW q \in asked'[r], pc'[q] = "held",
               Running(q)'
        PROVE  FALSE
    <3>1. q \in asked[r]
      BY <2>1 DEF Onward
    <3>2. q \in Requests /\ Running(q) /\ pc[q] = "held"
      BY <2>1, <3>1, OnwardFaces DEF AskedInv, AskedHeld, Onward
    <3>. QED BY <2>1, <3>1, <3>2 DEF AskedInv, AskedHolderKeepsLock
  <2>. QED BY <2>1 DEF AskedHolderKeepsLock
<1>. QED BY <1>1, <1>2, <1>3 DEF AskedInv

(* Where inboxes only grow, or are those of a process that ends.           *)
LEMMA InboxesKeep ==
  ASSUME TypeOK, AskedInv, Onward,
         \A s \in Servers : up'[s] = "up" => inbox'[s] = inbox[s],
         NEW r \in Requests, NEW q \in asked[r], Hears(r, q), Faces(r, q)'
  PROVE  Hears(r, q)'
<1>1. /\ Server(q) \in Servers /\ Server(r) \in Servers
      /\ Server(q)' = Server(q) /\ Server(r)' = Server(r) /\ path'[r] = path[r]
  BY OnwardFaces DEF AskedInv
<1>2. up'[Server(q)'] = "up" /\ up'[Server(r)'] = "up"
  BY DEF Faces, Running
<1>3. inbox'[Server(q)] = inbox[Server(q)] /\ inbox'[Server(r)] = inbox[Server(r)]
  BY <1>1, <1>2
<1>. QED BY <1>1, <1>3 DEF Hears, Coming, LockRequest, LockResponse

LEMMA PublishKeeps ==
  ASSUME NEW box \in [Servers -> Seq(Messages)], NEW msgs \in Seq(Messages),
         NEW s \in Servers, up[s] = "up"
  PROVE  /\ \A i \in 1..Len(box[s]) :
              i \in 1..Len(Publish(box, msgs)[s]) /\ Publish(box, msgs)[s][i] = box[s][i]
         /\ \A i \in 1..Len(msgs) : \E j \in 1..Len(Publish(box, msgs)[s]) :
              Publish(box, msgs)[s][j] = msgs[i]
<1>1. Publish(box, msgs)[s] = box[s] \o msgs
  BY DEF Publish
<1>2. /\ Len(box[s] \o msgs) = Len(box[s]) + Len(msgs) /\ Len(box[s]) \in Nat /\ Len(msgs) \in Nat
      /\ \A i \in 1..Len(box[s]) : (box[s] \o msgs)[i] = box[s][i]
      /\ \A i \in 1..Len(msgs) : (box[s] \o msgs)[Len(box[s]) + i] = msgs[i]
  OBVIOUS
<1>3. \A i \in 1..Len(msgs) : Len(box[s]) + i \in 1..(Len(box[s]) + Len(msgs))
  BY <1>2
<1>4. \A i \in 1..Len(box[s]) : i \in 1..(Len(box[s]) + Len(msgs))
  BY <1>2
<1>. QED BY <1>1, <1>2, <1>3, <1>4

(* Receiving takes the first message.                                      *)
LEMMA TailKeeps ==
  ASSUME NEW box \in [Servers -> Seq(Messages)], NEW s \in Servers, box[s] # <<>>
  PROVE  LET rest == [box EXCEPT ![s] = Tail(@)] IN
         /\ rest \in [Servers -> Seq(Messages)]
         /\ \A t \in Servers : \A i \in 1..Len(box[t]) :
              \/ t = s /\ box[t][i] = Head(box[s])
              \/ \E j \in 1..Len(rest[t]) : rest[t][j] = box[t][i]
<1>. DEFINE rest == [box EXCEPT ![s] = Tail(@)]
<1>1. /\ Tail(box[s]) \in Seq(Messages) /\ Len(Tail(box[s])) = Len(box[s]) - 1
      /\ Len(box[s]) \in Nat /\ Len(box[s]) # 0 /\ Head(box[s]) = box[s][1]
      /\ \A j \in 1..(Len(box[s]) - 1) : Tail(box[s])[j] = box[s][j + 1]
  OBVIOUS
<1>2. /\ rest \in [Servers -> Seq(Messages)] /\ rest[s] = Tail(box[s])
      /\ \A t \in Servers : t # s => rest[t] = box[t]
  BY <1>1
<1>. HIDE DEF rest
<1>3. ASSUME NEW i \in 1..Len(box[s]), i # 1
      PROVE  \E j \in 1..Len(rest[s]) : rest[s][j] = box[s][i]
  <2>1. i - 1 \in 1..(Len(box[s]) - 1) /\ (i - 1) + 1 = i
    BY <1>1, <1>3
  <2>. QED BY <1>1, <1>2, <2>1, ZenonT(30)
<1>4. \A t \in Servers : \A i \in 1..Len(box[t]) :
        \/ t = s /\ box[t][i] = Head(box[s])
        \/ \E j \in 1..Len(rest[t]) : rest[t][j] = box[t][i]
  BY <1>1, <1>2, <1>3
<1>. QED BY <1>2, <1>4 DEF rest

LEMMA ContendedAsked ==
  ASSUME TypeOK, AskedInv, NEW r \in Requests, Contended(r)
  PROVE  AskedInv'
<1>. DEFINE there == UNION {LocksAt(s, path[r]) : s \in {t \in Servers : up[t] = "up"}}
<1>1. /\ pc[r] = "lost" /\ path[r] \in Paths /\ pc' = [pc EXCEPT ![r] = "waiting"]
      /\ asked' = [asked EXCEPT ![r] = there]
      /\ inbox' = Publish(inbox, <<LockRequest(path[r])>>)
      /\ UNCHANGED <<up, client, path>>
  BY DEF Contended, TypeOK, callVars
<1>2. \A q \in there : q \in Requests /\ pc[q] = "held" /\ path[q] = path[r] /\ q # r
                       /\ Server(q) \in Servers /\ up[Server(q)] = "up"
  BY <1>1 DEF LocksAt
<1>. HIDE DEF there
<1>3. /\ pc'[r] = "waiting" /\ \A q \in Requests \ {r} : pc'[q] = pc[q]
      /\ asked'[r] = there /\ \A q \in Requests \ {r} : asked'[q] = asked[q]
      /\ \A q : Server(q)' = Server(q)
  BY <1>1 DEF TypeOK, Server
<1>4. \A p \in Requests : \A q \in asked[p] : q # r /\ q \in Requests
  BY <1>1 DEF AskedInv, AskedHeld, TypeOK
<1>5. AskedHeld'
  BY <1>1, <1>2, <1>3, <1>4 DEF AskedInv, AskedHeld
<1>6. AskedHolderKeepsLock'
  <2>1. \A q \in Requests \ {r} : Running(q)' => Running(q)
    BY <1>1, <1>3 DEF Running
  <2>. QED BY <1>3, <1>4, <2>1 DEF AskedInv, AskedHolderKeepsLock
<1>7. <<LockRequest(path[r])>> \in Seq(Messages) /\ Len(<<LockRequest(path[r])>>) = 1
  BY <1>1, MessageTypes
<1>8. ASSUME NEW p \in Requests, NEW q \in asked'[p], Faces(p, q)' PROVE Hears(p, q)'
  <2>1. CASE p = r
    <3>1. Server(q) \in Servers /\ up[Server(q)] = "up"
      BY <1>2, <1>3, <1>8, <2>1
    <3>2. \E j \in 1..Len(inbox'[Server(q)]) : inbox'[Server(q)][j] = LockRequest(path[r])
      <4>1. 1 \in 1..Len(<<LockRequest(path[r])>>) /\ <<LockRequest(path[r])>>[1] = LockRequest(path[r])
        BY <1>7
      <4>. QED BY <1>1, <1>7, <3>1, <4>1, PublishKeeps DEF TypeOK
    <3>. QED BY <1>1, <1>3, <2>1, <3>2 DEF Hears, Coming, LockRequest
  <2>2. CASE p # r
    <3>1. q \in asked[p] /\ q # r /\ q \in Requests
      BY <1>3, <1>4, <1>8, <2>2
    <3>2. Faces(p, q) /\ up[Server(p)] = "up" /\ up[Server(q)] = "up"
      BY <1>1, <1>3, <1>8, <2>2, <3>1 DEF Faces, Running
    <3>3. Hears(p, q)
      BY <3>1, <3>2 DEF AskedInv, AskedHear
    <3>4. Server(p) \in Servers /\ Server(q) \in Servers
      BY <3>1, <3>2, ServerType DEF Faces, Running
    <3>5. /\ \A i \in 1..Len(inbox[Server(p)]) :
               i \in 1..Len(inbox'[Server(p)]) /\ inbox'[Server(p)][i] = inbox[Server(p)][i]
          /\ \A i \in 1..Len(inbox[Server(q)]) :
               i \in 1..Len(inbox'[Server(q)]) /\ inbox'[Server(q)][i] = inbox[Server(q)][i]
      BY <1>1, <1>7, <3>2, <3>4, PublishKeeps DEF TypeOK
    <3>. QED BY <1>1, <1>3, <3>3, <3>5 DEF Hears, Coming, LockRequest, LockResponse
  <2>. QED BY <2>1, <2>2
<1>. QED BY <1>5, <1>6, <1>8 DEF AskedInv, AskedHear

LEMMA LockRequestAsked ==
  ASSUME TypeOK, AskedInv, NEW s \in Servers, HandleLockRequest(s)
  PROVE  AskedInv'
<1>. DEFINE m == Head(inbox[s])
            rest == [inbox EXCEPT ![s] = Tail(@)]
            denials == [i \in 1..Cardinality(LocksAt(s, m.path)) |-> LockResponse(m.path)]
<1>1. /\ inbox[s] # <<>> /\ m.channel = "lock-request"
      /\ inbox' = Publish(rest, denials)
      /\ UNCHANGED <<up, pc, client, path, asked>>
  BY DEF HandleLockRequest, callVars
<1>2. Onward
  BY <1>1 DEF Onward
<1>3. m \in Messages /\ m = LockRequest(m.path) /\ m.path \in Paths
  <2>1. m \in Messages
    BY <1>1 DEF TypeOK
  <2>. HIDE DEF m
  <2>. QED BY <1>1, <2>1 DEF Messages, LockRequest
<1>4. Cardinality(LocksAt(s, m.path)) \in Nat /\ IsFiniteSet(LocksAt(s, m.path))
  <2>1. LocksAt(s, m.path) \subseteq Requests
    BY DEF LocksAt
  <2>2. IsFiniteSet(LocksAt(s, m.path))
    BY <2>1, ConstantsAssumption, FS_Subset DEF ConstantsAssumption
  <2>. QED BY <2>2, FS_CardinalityType
<1>5. /\ denials \in Seq(Messages) /\ Len(denials) = Cardinality(LocksAt(s, m.path))
      /\ \A i \in 1..Len(denials) : denials[i] = LockResponse(m.path)
  BY <1>3, <1>4, MessageTypes
<1>6. /\ rest \in [Servers -> Seq(Messages)]
      /\ \A t \in Servers : \A i \in 1..Len(inbox[t]) :
           \/ t = s /\ inbox[t][i] = m
           \/ \E j \in 1..Len(rest[t]) : rest[t][j] = inbox[t][i]
  BY <1>1, TailKeeps, ZenonT(30) DEF TypeOK
<1>. HIDE DEF m, rest, denials
<1>7. ASSUME NEW r \in Requests, NEW q \in asked[r], Hears(r, q), Faces(r, q), Faces(r, q)'
      PROVE  Hears(r, q)'
  <2>1. /\ q \in Requests /\ Server(q) \in Servers /\ Server(r) \in Servers
        /\ Server(q)' = Server(q) /\ Server(r)' = Server(r) /\ path'[r] = path[r]
        /\ path[q] = path[r] /\ pc[q] = "held"
        /\ up[Server(q)] = "up" /\ up[Server(r)] = "up"
    BY <1>2, <1>7, OnwardFaces DEF AskedInv, AskedHeld, Faces, Running
  <2>2. CASE Coming(Server(q), LockRequest(path[r]))
    <3>1. PICK i \in 1..Len(inbox[Server(q)]) : inbox[Server(q)][i] = LockRequest(path[r])
      BY <2>2 DEF Coming
    <3>2. CASE Server(q) = s /\ inbox[Server(q)][i] = m
      <4>1. m.path = path[r]
        BY <3>1, <3>2 DEF LockRequest
      <4>2. q \in LocksAt(s, m.path)
        BY <2>1, <3>2, <4>1 DEF LocksAt
      <4>3. Cardinality(LocksAt(s, m.path)) # 0
        BY <1>4, <4>2, FS_EmptySet
      <4>4. 1 \in 1..Len(denials) /\ denials[1] = LockResponse(path[r])
        BY <1>4, <1>5, <4>1, <4>3
      <4>5. \E j \in 1..Len(inbox'[Server(r)]) : inbox'[Server(r)][j] = LockResponse(path[r])
        <5>1. \E j \in 1..Len(Publish(rest, denials)[Server(r)]) :
                Publish(rest, denials)[Server(r)][j] = denials[1]
          BY <1>5, <1>6, <2>1, <4>4, PublishKeeps
        <5>. QED BY <1>1, <4>4, <5>1
      <4>. QED BY <2>1, <4>5 DEF Hears, Coming, LockResponse
    <3>3. CASE \E j \in 1..Len(rest[Server(q)]) : rest[Server(q)][j] = inbox[Server(q)][i]
      <4>1. \E j \in 1..Len(inbox'[Server(q)]) : inbox'[Server(q)][j] = LockRequest(path[r])
        BY <1>1, <1>5, <1>6, <2>1, <3>1, <3>3, PublishKeeps
      <4>. QED BY <2>1, <4>1 DEF Hears, Coming, LockRequest
    <3>. QED BY <1>6, <2>1, <3>2, <3>3
  <2>3. CASE Coming(Server(r), LockResponse(path[r]))
    <3>1. PICK i \in 1..Len(inbox[Server(r)]) : inbox[Server(r)][i] = LockResponse(path[r])
      BY <2>3 DEF Coming
    <3>2. inbox[Server(r)][i] # m
      BY <1>1, <3>1 DEF LockResponse, m
    <3>3. \E j \in 1..Len(rest[Server(r)]) : rest[Server(r)][j] = LockResponse(path[r])
      BY <1>6, <2>1, <3>1, <3>2
    <3>4. \E j \in 1..Len(inbox'[Server(r)]) : inbox'[Server(r)][j] = LockResponse(path[r])
      BY <1>1, <1>5, <1>6, <2>1, <3>3, PublishKeeps, ZenonT(30)
    <3>. QED BY <2>1, <3>4 DEF Hears, Coming, LockResponse
  <2>. QED BY <1>7, <2>2, <2>3 DEF Hears
<1>. QED BY <1>1, <1>2, <1>7, AskedStays

LEMMA LockResponseAsked ==
  ASSUME TypeOK, WaitInv, AskedInv, NEW s \in Servers, HandleLockResponse(s)
  PROVE  AskedInv'
<1>. DEFINE m == Head(inbox[s])
            called == ListenersAt(s, m.path)
<1>1. inbox[s] # <<>> /\ m.channel = "lock-response" /\ UNCHANGED <<client, path, asked>>
  BY DEF HandleLockResponse, callVars
<1>2. CASE Die(s, "faulted") /\ UNCHANGED pc
  <2>1. Onward
    BY <1>1, <1>2 DEF Onward, Die, TypeOK
  <2>2. \A t \in Servers : up'[t] = "up" => inbox'[t] = inbox[t]
    BY <1>2 DEF Die, TypeOK
  <2>. QED BY <1>2, <2>1, <2>2, InboxesKeep, AskedStays
<1>3. CASE /\ inbox' = [inbox EXCEPT ![s] = Tail(@)] /\ UNCHANGED up
           /\ pc' = [r \in Requests |->
                       IF r \in called /\ pc[r] = "waiting" THEN "denied" ELSE pc[r]]
  <2>1. Onward
    BY <1>1, <1>3 DEF Onward, TypeOK
  <2>2. \A t \in Servers : \A i \in 1..Len(inbox[t]) :
          \/ t = s /\ inbox[t][i] = m
          \/ \E j \in 1..Len(inbox'[t]) : inbox'[t][j] = inbox[t][i]
    <3>. DEFINE rest == [inbox EXCEPT ![s] = Tail(@)]
    <3>1. \A t \in Servers : \A i \in 1..Len(inbox[t]) :
            \/ t = s /\ inbox[t][i] = m
            \/ \E j \in 1..Len(rest[t]) : rest[t][j] = inbox[t][i]
      BY <1>1, TailKeeps, ZenonT(30) DEF TypeOK
    <3>2. inbox' = rest
      BY <1>3
    <3>. HIDE DEF rest, m
    <3>. QED BY <3>1, <3>2
  <2>. HIDE DEF m
  <2>3. ASSUME NEW r \in Requests, NEW q \in asked[r], Hears(r, q), Faces(r, q), Faces(r, q)'
        PROVE  Hears(r, q)'
    <3>1. /\ Server(q) \in Servers /\ Server(r) \in Servers
          /\ Server(q)' = Server(q) /\ Server(r)' = Server(r) /\ path'[r] = path[r]
      BY <2>1, OnwardFaces DEF AskedInv
    <3>2. CASE Coming(Server(q), LockRequest(path[r]))
      <4>1. PICK i \in 1..Len(inbox[Server(q)]) : inbox[Server(q)][i] = LockRequest(path[r])
        BY <3>2 DEF Coming
      <4>2. inbox[Server(q)][i] # m
        BY <1>1, <4>1 DEF LockRequest
      <4>3. \E j \in 1..Len(inbox'[Server(q)]) : inbox'[Server(q)][j] = LockRequest(path[r])
        BY <2>2, <3>1, <4>1, <4>2
      <4>. QED BY <3>1, <4>3 DEF Hears, Coming, LockRequest
    <3>3. CASE Coming(Server(r), LockResponse(path[r]))
      <4>1. PICK i \in 1..Len(inbox[Server(r)]) : inbox[Server(r)][i] = LockResponse(path[r])
        BY <3>3 DEF Coming
      <4>2. ~(Server(r) = s /\ inbox[Server(r)][i] = m)
        <5>1. SUFFICES ASSUME Server(r) = s, inbox[Server(r)][i] = m PROVE FALSE
          OBVIOUS
        <5>2. m.path = path[r]
          BY <4>1, <5>1 DEF LockResponse
        <5>3. r \in called /\ pc[r] = "waiting"
          BY <2>3, <5>1, <5>2 DEF WaitInv, WaitersListen, ListenersAt, Faces
        <5>. QED BY <1>3, <2>3, <5>3 DEF Faces
      <4>3. \E j \in 1..Len(inbox'[Server(r)]) : inbox'[Server(r)][j] = LockResponse(path[r])
        BY <2>2, <3>1, <4>1, <4>2
      <4>. QED BY <3>1, <4>3 DEF Hears, Coming, LockResponse
    <3>. QED BY <2>3, <3>2, <3>3 DEF Hears
  <2>4. \A r \in Requests : pc'[r] = "hset" => pc[r] = "hset"
    BY <1>3
  <2>. QED BY <2>1, <2>3, <2>4, AskedStays
<1>. QED BY <1>2, <1>3 DEF HandleLockResponse, waitVars

(* The timer waits for what is on its way: nobody still has to deny.       *)
LEMMA TimeoutAsked ==
  ASSUME TypeOK, AskedInv, NEW r \in Requests, Timeout(r)
  PROVE  AskedInv'
<1>1. /\ pc[r] = "waiting" /\ Running(r) /\ (Prompt => Quiet(path[r]))
      /\ UNCHANGED <<client, path, asked>> /\ Server(r) \in Servers
  BY ServerType DEF Timeout, callVars
<1>2. CASE pc' = [pc EXCEPT ![r] = "hset"] /\ UNCHANGED <<up, inbox>>
  <2>1. Onward
    BY <1>1, <1>2 DEF Onward, TypeOK
  <2>2. ASSUME Prompt, NEW q \in asked[r], pc[q] = "held", Running(q) PROVE FALSE
    <3>1. Hears(r, q)
      BY <1>1, <2>2 DEF AskedInv, AskedHear, Faces
    <3>2. Server(q) \in Servers
      BY <2>1, <2>2, OnwardFaces DEF AskedInv
    <3>. QED BY <1>1, <2>2, <3>1, <3>2 DEF Quiet, Hears, Coming, LockRequest, LockResponse
  <2>3. \A q \in Requests : pc'[q] = "hset" => pc[q] = "hset" \/ q = r
    BY <1>2 DEF TypeOK
  <2>. QED BY <1>2, <2>1, <2>2, <2>3, InboxesKeep, AskedStays
<1>3. CASE Die(Server(r), "faulted") /\ UNCHANGED pc
  <2>1. Onward
    BY <1>1, <1>3 DEF Onward, Die, TypeOK
  <2>2. \A t \in Servers : up'[t] = "up" => inbox'[t] = inbox[t]
    BY <1>3 DEF Die, TypeOK
  <2>. QED BY <1>3, <2>1, <2>2, InboxesKeep, AskedStays
<1>. QED BY <1>2, <1>3 DEF Timeout, waitVars

LEMMA StepAsked == TypeOK /\ WaitInv /\ AskedInv /\ [Next]_vars => AskedInv'
<1>. SUFFICES ASSUME TypeOK, WaitInv, AskedInv, [Next]_vars
              PROVE  AskedInv'
  OBVIOUS
<1>1. ASSUME NEW r \in Requests,
             \/ \E c \in Clients, p \in Paths : Request(r, c, p)
             \/ ExecHsetnx(r) \/ ExecHset(r) \/ ExecHdel(r) \/ RequestFails(r) \/ ReleaseFails(r)
             \/ Acquired(r) \/ Release(r) \/ Released(r)
      PROVE  AskedInv'
  <2>1. Onward /\ UNCHANGED inbox
    BY <1>1 DEF Onward, Request, ExecHsetnx, ExecHset, ExecHdel, RequestFails, ReleaseFails, Acquired,
       Release, Released, TypeOK, redisVars, callVars, waitVars
  <2>2. \A q \in Requests : pc'[q] = "hset" => pc[q] = "hset"
    BY <1>1 DEF Request, ExecHsetnx, ExecHset, ExecHdel, RequestFails, ReleaseFails, Acquired,
       Release, Released, TypeOK
  <2>. QED BY <2>1, <2>2, InboxesKeep, AskedStays
<1>2. ASSUME NEW s \in Servers, Kill(s) PROVE AskedInv'
  <2>1. Onward /\ \A t \in Servers : up'[t] = "up" => inbox'[t] = inbox[t]
    BY <1>2 DEF Onward, Kill, Die, TypeOK, redisVars, callVars, waitVars
  <2>2. pc' = pc
    BY <1>2 DEF Kill
  <2>. QED BY <2>1, <2>2, InboxesKeep, AskedStays
<1>3. CASE UNCHANGED vars
  <2>1. Onward /\ UNCHANGED <<inbox, pc>>
    BY <1>3 DEF Onward, vars
  <2>. QED BY <2>1, InboxesKeep, AskedStays
<1>. QED BY <1>1, <1>2, <1>3, ContendedAsked, TimeoutAsked, LockRequestAsked, LockResponseAsked
         DEF Next

(* When messages are faster than the timer (Prompt) and no client has two  *)
(* calls under way, a call never overwrites the entry of a lock that was   *)
(* there to hear its lock-request and is still held: handleLockRequest()   *)
(* answers, and handleLockResponse() clears the timer.                     *)
THEOREM AskedHolderKeepsLockWhenSerial == ~Pipelined => (Spec => []AskedHolderKeepsLock)
<1>. SUFFICES ASSUME ~Pipelined PROVE Spec => []AskedHolderKeepsLock
  OBVIOUS
<1>1. TypeOK /\ WaitInv /\ [Next]_vars => WaitInv'
  BY StepWait
<1>2. AskedInv => AskedHolderKeepsLock
  BY DEF AskedInv
<1>. QED
  BY <1>1, <1>2, InitType, StepType, InitWait, InitAsked, StepAsked, PTL DEF Spec

-----------------------------------------------------------------------------
(* SyncLock implements LockService.  That a granted call finds the path    *)
(* free is EntryInv; that a denied call was refused for a cause needs two  *)
(* more facts: an entry in the hash was put there by a call that redis     *)
(* accepted, and so a call that lost its hsetnx lost it to another.        *)

outcome == [r \in Requests |-> Outcome(pc[r])]

Accepted(q, p) == path[q] = p /\ Outcome(pc[q]) \in {"granted", "done"}

EntryHasCause ==
  \A p \in Paths : store[p] # None => \E q \in Requests : Accepted(q, p)

LossHasCause ==
  \A r \in Requests : pc[r] \in {"lost", "waiting", "hset"}
    => \E q \in Requests \ {r} : Accepted(q, path[r])

CauseInv == EntryHasCause /\ LossHasCause

LEMMA InitCause == Init => CauseInv
BY DEF Init, CauseInv, EntryHasCause, LossHasCause

\* What was once accepted stays accepted.
LEMMA AcceptedForever ==
  ASSUME TypeOK, [Next]_vars, NEW q \in Requests, NEW p, Accepted(q, p)
  PROVE  Accepted(q, p)'
<1>. USE DEF redisVars, callVars, waitVars
<1>1. pc[q] \in {"won", "seized", "held", "hdel", "deleted", "released"}
  BY DEF TypeOK, PCs, Accepted, Outcome
<1>2. ASSUME pc'[q] \in {"won", "seized", "held", "hdel", "deleted", "released"},
             path'[q] = path[q]
      PROVE  Accepted(q, p)'
  BY <1>2 DEF Accepted, Outcome
<1>3. CASE UNCHANGED vars
  BY <1>1, <1>2, <1>3 DEF vars
<1>4. ASSUME NEW r \in Requests,
             \/ \E c \in Clients, pp \in Paths : Request(r, c, pp)
             \/ ExecHsetnx(r)
             \/ ExecHset(r)
             \/ ExecHdel(r)
             \/ RequestFails(r)
             \/ ReleaseFails(r)
             \/ Acquired(r)
             \/ Contended(r)
             \/ Timeout(r)
             \/ Release(r)
             \/ Released(r)
      PROVE  /\ pc'[q] \in {"won", "seized", "held", "hdel", "deleted", "released"}
             /\ path'[q] = path[q]
  BY <1>1, <1>4
  DEF TypeOK, Request, ExecHsetnx, ExecHset, ExecHdel, RequestFails, ReleaseFails,
      Acquired, Contended, Timeout, Release, Released
<1>5. ASSUME NEW s \in Servers, HandleLockRequest(s) \/ HandleLockResponse(s) \/ Kill(s)
      PROVE  pc'[q] = pc[q] /\ path'[q] = path[q]
  BY <1>1, <1>5 DEF TypeOK, HandleLockRequest, HandleLockResponse, Kill
<1>. QED
  BY <1>1, <1>2, <1>3, <1>4, <1>5 DEF Next

LEMMA StepCause == TypeOK /\ CauseInv /\ [Next]_vars => CauseInv'
<1>. SUFFICES ASSUME TypeOK, CauseInv, [Next]_vars
              PROVE  CauseInv'
  OBVIOUS
<1>. USE DEF redisVars, callVars, waitVars
<1>. DEFINE Losing == {"lost", "waiting", "hset"}
<1>1. \A p \in Paths :
        store'[p] # None => store[p] # None \/ \E r \in Requests : Accepted(r, p)'
  <2>1. ASSUME NEW r \in Requests, ExecHsetnx(r) \/ ExecHset(r),
               NEW p \in Paths, store'[p] # None
        PROVE  store[p] # None \/ Accepted(r, p)'
    <3>1. CASE p # path[r]
      BY <2>1, <3>1 DEF ExecHsetnx, ExecHset, TypeOK
    <3>2. CASE p = path[r] /\ pc'[r] \in {"won", "seized"}
      BY <2>1, <3>2 DEF ExecHsetnx, ExecHset, TypeOK, Accepted, Outcome
    <3>3. CASE p = path[r] /\ pc'[r] \notin {"won", "seized"}
      BY <2>1, <3>3 DEF ExecHsetnx, ExecHset, TypeOK
    <3>. QED
      BY <3>1, <3>2, <3>3
  <2>2. ASSUME NEW r \in Requests, ExecHdel(r), NEW p \in Paths, store'[p] # None
        PROVE  store[p] # None
    BY <2>2 DEF ExecHdel, TypeOK
  <2>3. ASSUME NEW r \in Requests,
               \/ \E c \in Clients, p \in Paths : Request(r, c, p)
               \/ RequestFails(r) \/ ReleaseFails(r) \/ Acquired(r) \/ Contended(r)
               \/ Timeout(r) \/ Release(r) \/ Released(r)
        PROVE  store' = store
    BY <2>3 DEF Request, RequestFails, ReleaseFails, Acquired, Contended, Timeout,
                Release, Released
  <2>4. ASSUME NEW s \in Servers, HandleLockRequest(s) \/ HandleLockResponse(s) \/ Kill(s)
        PROVE  store' = store
    BY <2>4 DEF HandleLockRequest, HandleLockResponse, Kill
  <2>5. CASE UNCHANGED vars
    BY <2>5 DEF vars
  <2>. QED
    BY <2>1, <2>2, <2>3, <2>4, <2>5 DEF Next
<1>2. \A r \in Requests : pc'[r] \in Losing =>
        /\ path'[r] = path[r]
        /\ \/ pc[r] \in Losing
           \/ pc[r] = "hsetnx" /\ store[path[r]] # None
  <2>1. ASSUME NEW q \in Requests, NEW r \in Requests, pc'[r] \in Losing,
               \/ ExecHsetnx(q) \/ ExecHset(q) \/ ExecHdel(q) \/ RequestFails(q)
               \/ ReleaseFails(q) \/ Acquired(q) \/ Contended(q) \/ Timeout(q) \/ Release(q) \/ Released(q)
        PROVE  /\ path'[r] = path[r]
               /\ \/ pc[r] \in Losing
                  \/ pc[r] = "hsetnx" /\ store[path[r]] # None
    BY <2>1 DEF TypeOK, ExecHsetnx, ExecHset, ExecHdel, RequestFails, ReleaseFails,
                Acquired, Contended, Timeout, Release, Released
  <2>2. ASSUME NEW q \in Requests, NEW c \in Clients, NEW p \in Paths, Request(q, c, p),
               NEW r \in Requests, pc'[r] \in Losing
        PROVE  path'[r] = path[r] /\ pc[r] \in Losing
    BY <2>2 DEF TypeOK, Request
  <2>3. ASSUME NEW s \in Servers, HandleLockRequest(s) \/ HandleLockResponse(s) \/ Kill(s),
               NEW r \in Requests, pc'[r] \in Losing
        PROVE  path'[r] = path[r] /\ pc[r] \in Losing
    BY <2>3 DEF TypeOK, HandleLockRequest, HandleLockResponse, Kill
  <2>4. CASE UNCHANGED vars
    BY <2>4 DEF vars
  <2>. QED
    BY <2>1, <2>2, <2>3, <2>4 DEF Next
<1>3. EntryHasCause'
  BY <1>1, AcceptedForever DEF CauseInv, EntryHasCause
<1>4. ASSUME NEW r \in Requests, pc'[r] \in Losing
      PROVE  \E q \in Requests \ {r} : Accepted(q, path[r])
  <2>1. CASE pc[r] \in Losing
    BY <2>1 DEF CauseInv, LossHasCause
  <2>2. CASE pc[r] = "hsetnx" /\ store[path[r]] # None
    <3>1. PICK q \in Requests : Accepted(q, path[r])
      BY <2>2 DEF CauseInv, EntryHasCause, TypeOK
    <3>2. q # r
      BY <2>2, <3>1 DEF Accepted, Outcome
    <3>. QED
      BY <3>1, <3>2
  <2>. QED
    BY <1>2, <1>4, <2>1, <2>2
<1>5. LossHasCause'
  BY <1>2, <1>4, AcceptedForever DEF LossHasCause
<1>. QED
  BY <1>3, <1>5 DEF CauseInv

-----------------------------------------------------------------------------
LEMMA OutcomeStep ==
  ASSUME TypeOK, NEW r \in Requests, NEW v, pc' = [pc EXCEPT ![r] = v]
  PROVE  outcome' = [outcome EXCEPT ![r] = Outcome(v)]
BY DEF TypeOK, outcome

LEMMA InitImplements == Init => Service!Init
BY DEF Init, Service!Init, Outcome, takenOver

LEMMA StepImplements ==
  TypeOK /\ EntryInv /\ CauseInv /\ [Next]_vars => [Service!Next]_Service!vars
<1>. SUFFICES ASSUME TypeOK, EntryInv, CauseInv, [Next]_vars
              PROVE  Service!Next \/ UNCHANGED <<outcome, path, takenOver>>
  BY DEF Service!vars, outcome
<1>. USE DEF redisVars, callVars, waitVars, takenOver
<1>1. ASSUME NEW r \in Requests, NEW c \in Clients, NEW p \in Paths, Request(r, c, p)
      PROVE  Service!Ask(r, p)
  <2>1. outcome' = [outcome EXCEPT ![r] = "asked"] /\ outcome[r] = "none"
    BY <1>1, OutcomeStep DEF Request, Outcome, outcome
  <2>. QED
    BY <1>1, <2>1 DEF Request, Service!Ask, Service!Become, outcome
<1>2. ASSUME NEW r \in Requests, ExecHsetnx(r), store[path[r]] = None
      PROVE  Service!Grant(r)
  <2>1. outcome' = [outcome EXCEPT ![r] = "granted"] /\ outcome[r] = "asked"
    BY <1>2, OutcomeStep DEF ExecHsetnx, Outcome, outcome
  <2>2. ASSUME NEW q \in Requests, path[q] = path[r], outcome[q] = "granted"
        PROVE  path[r] \in takenOver
    <3>1. Covers(q, path[r])
      BY <2>2 DEF Covers, outcome, Outcome, TypeOK, PCs
    <3>2. client[q] \in Clients /\ path[r] \in Paths
      BY <1>2, <3>1 DEF ExecHsetnx, Covers, TypeOK
    <3>. QED
      BY <1>2, <3>1, <3>2, ConstantsAssumption
      DEF ConstantsAssumption, EntryInv, EntryNamesHolder
  <2>. QED
    BY <1>2, <2>1, <2>2
    DEF ExecHsetnx, Service!Grant, Service!Granted, Service!Become, outcome
<1>3. ASSUME NEW r \in Requests, ExecHsetnx(r), store[path[r]] # None
      PROVE  UNCHANGED <<outcome, path, takenOver>>
  <2>1. outcome' = [outcome EXCEPT ![r] = "asked"] /\ outcome[r] = "asked"
    BY <1>3, OutcomeStep DEF ExecHsetnx, Outcome, outcome
  <2>. QED
    BY <1>3, <2>1 DEF ExecHsetnx, outcome
<1>4. ASSUME NEW r \in Requests, ExecHset(r)
      PROVE  Service!BreakIn(r)
  <2>1. outcome' = [outcome EXCEPT ![r] = "granted"] /\ outcome[r] = "asked"
    BY <1>4, OutcomeStep DEF ExecHset, Outcome, outcome
  <2>2. takenOver' = takenOver \cup {path[r]}
    <3>1. path[r] \in Paths /\ takeovers \in [Paths -> Nat]
      BY <1>4 DEF ExecHset, TypeOK
    <3>2. takeovers' = [takeovers EXCEPT ![path[r]] = @ + 1]
      BY <1>4 DEF ExecHset
    <3>3. takeovers'[path[r]] > 0
      BY <3>1, <3>2
    <3>4. \A p \in Paths \ {path[r]} : takeovers'[p] = takeovers[p]
      BY <3>1, <3>2
    <3>. QED
      BY <3>1, <3>3, <3>4 DEF takenOver
  <2>. QED
    BY <1>4, <2>1, <2>2 DEF ExecHset, Service!BreakIn, Service!Become, outcome
<1>5. ASSUME NEW r \in Requests,
             ExecHdel(r) \/ ReleaseFails(r)
      PROVE  Service!GiveBack(r)
  <2>1. outcome' = [outcome EXCEPT ![r] = "done"] /\ outcome[r] = "granted"
    BY <1>5, OutcomeStep DEF ExecHdel, ReleaseFails, Outcome, outcome
  <2>. QED
    BY <1>5, <2>1 DEF ExecHdel, ReleaseFails, Service!GiveBack, Service!Become, outcome
<1>6. ASSUME NEW r \in Requests, RequestFails(r)
      PROVE  Service!Fail(r)
  <2>1. outcome' = [outcome EXCEPT ![r] = "failed"] /\ outcome[r] = "asked"
    BY <1>6, OutcomeStep DEF RequestFails, Outcome, outcome
  <2>. QED
    BY <1>6, <2>1 DEF RequestFails, Service!Fail, Service!Become, outcome
<1>7. ASSUME NEW r \in Requests,
             Acquired(r) \/ Contended(r) \/ Timeout(r) \/ Release(r) \/ Released(r)
      PROVE  UNCHANGED <<outcome, path, takenOver>>
  <2>1. PICK v \in PCs : /\ pc' = [pc EXCEPT ![r] = v]
                         /\ Outcome(v) = Outcome(pc[r])
    <3>1. CASE Acquired(r)
      BY <3>1 DEF Acquired, Outcome, PCs
    <3>2. CASE Contended(r)
      BY <3>2 DEF Contended, Outcome, PCs
    <3>3. CASE Timeout(r) /\ slot[client[r]] # None
      BY <3>3 DEF Timeout, Outcome, PCs
    <3>4. CASE Timeout(r) /\ slot[client[r]] = None
      BY <3>4 DEF Timeout, Outcome, PCs, TypeOK
    <3>5. CASE Release(r)
      BY <3>5 DEF Release, Outcome, PCs
    <3>6. CASE Released(r)
      BY <3>6 DEF Released, Outcome, PCs
    <3>. QED
      BY <1>7, <3>1, <3>2, <3>3, <3>4, <3>5, <3>6
  <2>2. outcome' = outcome
    BY <2>1, OutcomeStep DEF outcome
  <2>. QED
    BY <1>7, <2>2 DEF Acquired, Contended, Timeout, Release, Released
<1>8. ASSUME NEW s \in Servers, HandleLockRequest(s) \/ Kill(s)
      PROVE  UNCHANGED <<outcome, path, takenOver>>
  BY <1>8 DEF HandleLockRequest, Kill, outcome
<1>9. ASSUME NEW s \in Servers, HandleLockResponse(s)
      PROVE  Service!Next
  <2>. DEFINE rs == {r \in Requests : pc[r] = "waiting" /\ pc'[r] = "denied"}
  <2>1. /\ \A r \in Requests \ rs : pc'[r] = pc[r]
        /\ UNCHANGED <<path, takenOver>>
    BY <1>9 DEF HandleLockResponse
  <2>2. outcome' = [r \in Requests |-> IF r \in rs THEN "denied" ELSE outcome[r]]
    <3>1. \A r \in rs : Outcome(pc'[r]) = "denied"
      BY DEF Outcome
    <3>2. \A r \in Requests \ rs : Outcome(pc'[r]) = Outcome(pc[r])
      BY <2>1
    <3>3. outcome' = [r \in Requests |-> Outcome(pc'[r])]
      BY DEF outcome
    <3>. QED
      BY <3>1, <3>2, <3>3 DEF outcome
  <2>3. ASSUME NEW r \in rs
        PROVE  /\ outcome[r] = "asked"
               /\ \E q \in Requests \ {r} :
                    path[q] = path[r] /\ outcome[q] \in {"granted", "done"}
    BY <2>3 DEF CauseInv, LossHasCause, Accepted, outcome, Outcome
  <2>4. Service!Deny(rs)
    BY <2>1, <2>2, <2>3 DEF Service!Deny, outcome
  <2>. QED
    BY <2>4 DEF Service!Next
<1>10. CASE UNCHANGED vars
  BY <1>10 DEF vars, outcome
<1>. QED
  BY <1>1, <1>2, <1>3, <1>4, <1>5, <1>6, <1>7, <1>8, <1>9, <1>10
  DEF Next, Service!Next

(* Every behaviour of the lock is a behaviour of the lock service: locks   *)
(* are exclusive until a call breaks in, and no call is denied a path that *)
(* was never granted to another.                                           *)
THEOREM Implementation == Spec => ImplementsLockService
<1>. QED
  BY InitType, StepType, InitEntry, StepEntry, InitCause, StepCause,
     InitImplements, StepImplements, PTL
  DEF Spec, ImplementsLockService, Service!Spec
=============================================================================
