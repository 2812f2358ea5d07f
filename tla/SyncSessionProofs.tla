------------------------- MODULE SyncSessionProofs -------------------------
(***************************************************************************)
(* Theorems about SyncSession, for every set of clients, paths, calls and  *)
(* talks, and whoever may hang up, be shut down, abandon a sync, send a    *)
(* SYNC while one is pending or a diff that cannot be read.                *)
(***************************************************************************)
EXTENDS SyncSession, TLAPS

-----------------------------------------------------------------------------
(* The inductive invariant.  SafeInv says of the calls, lock objects and   *)
(* sockets what holds whatever a browser sends; Session is the state       *)
(* machine of a client that has one talk with a process that is not dead.  *)

\* A call whose callback has not run.
Unanswered(r) == outcome[r] # "none" /\ object[r] = "none"

\* A lock object is as old as its call's answer, and freed before unlocked.
OutcomeInv ==
  \A r \in Calls :
    /\ outcome[r] = "none" => object[r] = "none" /\ asker[r] = None
    /\ object[r] = "live" => outcome[r] = "granted"
    /\ object[r] = "releasing" => outcome[r] \in {"granted", "done"}

\* A client's lock came from a call of its own.
OwnerInv ==
  \A c \in Clients : \A r \in Calls :
    lock[c] = r => asker[r] = c /\ object[r] # "none" /\ outcome[r] # "none"

\* A browser is gone once the socket is closed, and then close() has begun.
GoneInv ==
  \A c \in Clients :
    /\ \A t \in Talks : phase[c][t] = "gone" <=> ~online[c]
    /\ state[c] = "LISTENING" => online[c]

\* The exclusion of the lock service.
ExclusionInv ==
  \A q, r \in Calls :
    /\ q # r
    /\ outcome[q] = "granted"
    /\ outcome[r] = "granted"
    /\ want[q] = want[r]
    => want[r] \in broken

SafeInv == OutcomeInv /\ OwnerInv /\ GoneInv /\ ExclusionInv

\* Nothing goes on in any talk but Main.
OneTalk(c) ==
  /\ \A t \in Talks \ {Main} : work[c][t] = "none" /\ phase[c][t] \in {"idle", "gone"}
  /\ \A r \in Calls : asker[r] = c => line[r] = Main

\* The client's lock is being given back, and no other.
Giving(c) == lock[c] # None /\ object[lock[c]] = "releasing"

GivesOnlyItsLock(c) ==
  \A r \in Calls : asker[r] = c /\ object[r] = "releasing" => lock[c] = r

NoneUnanswered(c) == \A r \in Calls : asker[r] = c => ~Unanswered(r)

NoneGiven(c) == \A r \in Calls : asker[r] = c => object[r] # "releasing"

\* A session that is neither closing nor closed, by what its browser does.
Serving(c) ==
  /\ state[c] = "LISTENING"
  /\ ~awaiting[c]
  /\ GivesOnlyItsLock(c)
  /\ \/ /\ phase[c][Main] \in {"idle", "stuck"}
        /\ closable[c] /\ work[c][Main] = "none"
        /\ NoneUnanswered(c) /\ NoneGiven(c)
     \/ /\ phase[c][Main] = "asking"
        /\ closable[c] /\ work[c][Main] = "none" /\ NoneGiven(c)
        /\ \A q, r \in Calls :
             asker[q] = c /\ asker[r] = c /\ Unanswered(q) /\ Unanswered(r) => q = r
     \/ /\ phase[c][Main] \in {"granted", "diffing"}
        /\ closable[c] /\ work[c][Main] = "none"
        /\ NoneUnanswered(c) /\ Releasable(lock[c])
     \/ /\ phase[c][Main] = "summing"
        /\ closable[c] /\ work[c][Main] = "checksums"
        /\ NoneUnanswered(c) /\ Releasable(lock[c])
     \/ /\ phase[c][Main] \in {"patching", "renaming"}
        /\ ~closable[c] /\ work[c][Main] \in {"patch", "none"}
        /\ NoneUnanswered(c) /\ Releasable(lock[c])
     \/ /\ phase[c][Main] \in {"summing", "patching", "renaming"}
        /\ work[c][Main] = "none"
        /\ NoneUnanswered(c) /\ Giving(c)
        /\ closable[c] => after[lock[c]] \in {"end", "error"}
        /\ ~closable[c] => after[lock[c]] = "patch error" /\ phase[c][Main] # "summing"

\* A session whose close() waits for the step under way, or for ever.
Draining(c) ==
  /\ state[c] = "CLOSING"
  /\ awaiting[c]
  /\ ~closable[c]
  /\ phase[c][Main] \in {"patching", "renaming", "gone"}
  /\ NoneUnanswered(c)
  /\ GivesOnlyItsLock(c)
  /\ \/ work[c][Main] \in {"patch", "none"} /\ Releasable(lock[c])
     \/ work[c][Main] = "none" /\ Giving(c) /\ after[lock[c]] = "patch error"

\* A browser that waits for an answer no one is going to send.
Muted(c) ==
  /\ phase[c][Main] \in Waiting
  /\ work[c][Main] = "none"
  /\ NoneUnanswered(c)
  /\ \A r \in Calls : asker[r] = c /\ object[r] = "releasing" => after[r] = "close"

\* A session close() has overtaken; only shutdown() does so under a patch.
Overrun(c) ==
  /\ Overtaken(c)
  /\ c \notin MayShutdown =>
       \/ work[c][Main] # "patch" /\ phase[c][Main] = "gone"
       \/ Muted(c)

Session(c) == Serving(c) \/ Draining(c) \/ Overrun(c)

SessionInv == \A c \in Clients \ doubled : OneTalk(c) /\ Session(c)

Inv == SafeInv /\ CloseWaitsForPatch /\ FaultHasCause /\ (~fault => SessionInv)

-----------------------------------------------------------------------------
(* Types.  The provers take functions to BOOLEAN apart from the others.    *)

Objects == {"none", "live", "releasing", "unlocked"}
Afters  == {"none", "end", "error", "patch error", "close"}
Works   == {"none", "checksums", "patch"}

FlagsOK ==
  /\ closable \in [Clients -> BOOLEAN]
  /\ awaiting \in [Clients -> BOOLEAN]
  /\ online \in [Clients -> BOOLEAN]
  /\ fault \in BOOLEAN

CallsOK ==
  /\ outcome \in [Calls -> Lock!Outcomes]
  /\ want \in [Calls -> Paths \cup {None}]
  /\ broken \subseteq Paths
  /\ asker \in [Calls -> Clients \cup {None}]
  /\ object \in [Calls -> Objects]
  /\ line \in [Calls -> Talks]
  /\ after \in [Calls -> Afters]
  /\ lock \in [Clients -> Calls \cup {None}]
  /\ \A r \in Calls : outcome[r] # "none" => want[r] \in Paths /\ asker[r] \in Clients

StepsOK ==
  /\ state \in [Clients -> {"LISTENING", "CLOSING", "CLOSED"}]
  /\ work \in [Clients -> [Talks -> Works]]
  /\ phase \in [Clients -> [Talks -> Phases]]
  /\ doubled \subseteq Clients
  /\ spoiled \subseteq Clients

\* TypeOK in three parts.
LEMMA TypeParts == FlagsOK /\ CallsOK /\ StepsOK => TypeOK
BY Zenon DEF TypeOK, Lock!TypeOK, FlagsOK, CallsOK, StepsOK, Objects, Afters, Works

\* The talks and the calls have their types, to begin with.
LEMMA InitData == Init => CallsOK /\ StepsOK
<1>. SUFFICES ASSUME Init
              PROVE  CallsOK /\ StepsOK
  OBVIOUS
<1>1. CallsOK
  BY SessionAssumption
  DEF Init, CallsOK, Objects, Afters, Lock!Init, Lock!Outcomes, SessionAssumption
<1>2. StepsOK
  BY DEF Init, StepsOK, Phases, Works
<1>. QED
  BY <1>1, <1>2

\* The Boolean variables have their types, to begin with.
LEMMA InitFlags ==
  ASSUME Init
  PROVE  FlagsOK
<1>1. \A b \in BOOLEAN : [c \in Clients |-> b] \in [Clients -> BOOLEAN]
  OBVIOUS
<1>. QED
  BY <1>1 DEF Init, FlagsOK

\* An update of a Boolean function.
LEMMA UpdateFlag ==
  ASSUME NEW f \in [Clients -> BOOLEAN], NEW c, NEW b \in BOOLEAN
  PROVE  [f EXCEPT ![c] = b] \in [Clients -> BOOLEAN]
OBVIOUS

\* An update of one talk of one client.
LEMMA UpdateTalk ==
  ASSUME NEW S, NEW f \in [Clients -> [Talks -> S]], NEW c \in Clients, NEW t \in Talks, NEW v \in S
  PROVE  /\ [f EXCEPT ![c][t] = v] \in [Clients -> [Talks -> S]]
         /\ [f EXCEPT ![c][t] = v][c][t] = v
         /\ \A u \in Talks \ {t} : [f EXCEPT ![c][t] = v][c][u] = f[c][u]
         /\ \A d \in Clients \ {c} : [f EXCEPT ![c][t] = v][d] = f[d]
OBVIOUS

LEMMA GoneType == Gone \in [Talks -> Phases] /\ \A t \in Talks : Gone[t] = "gone"
BY DEF Gone, Phases

\* An answer that reaches the browser.
LEMMA SendType ==
  ASSUME StepsOK, NEW c \in Clients, NEW t \in Talks, NEW v \in Phases, Send(c, t, v)
  PROVE  /\ phase' \in [Clients -> [Talks -> Phases]]
         /\ phase'[c][t] = (IF online[c] THEN v ELSE phase[c][t])
         /\ \A u \in Talks \ {t} : phase'[c][u] = phase[c][u]
         /\ \A d \in Clients \ {c} : phase'[d] = phase[d]
<1>1. phase \in [Clients -> [Talks -> Phases]] /\ phase[c][t] \in Phases
  BY DEF StepsOK
<1>. DEFINE w == IF online[c] THEN v ELSE phase[c][t]
<1>2. w \in Phases /\ phase' = [phase EXCEPT ![c][t] = w]
  BY <1>1 DEF Send
<1>. HIDE DEF w
<1>3. QED
  BY <1>1, <1>2, UpdateTalk DEF w

\* What close() does to the flags.
LEMMA CloseFlags ==
  ASSUME FlagsOK, NEW c \in Clients, NEW objs, NEW locks, Close(c, objs, locks)
  PROVE  awaiting' \in [Clients -> BOOLEAN] /\ fault' \in BOOLEAN
BY UpdateFlag, ZenonT(30) DEF FlagsOK, Close, Throw

\* What close() does to the calls and the state.
LEMMA CloseData ==
  ASSUME CallsOK, StepsOK, NEW c \in Clients, NEW objs \in [Calls -> Objects],
         NEW locks \in [Clients -> Calls \cup {None}], Close(c, objs, locks)
  PROVE  /\ object' \in [Calls -> Objects]
         /\ after' \in [Calls -> Afters]
         /\ line' = line
         /\ lock' \in [Clients -> Calls \cup {None}]
         /\ state' \in [Clients -> {"LISTENING", "CLOSING", "CLOSED"}]
<1>. USE DEF CallsOK, StepsOK, Objects, Afters
<1>1. CASE state[c] = "CLOSING"
  BY <1>1 DEF Close
<1>2. CASE state[c] = "LISTENING" /\ ~closable[c]
  BY <1>2 DEF Close
<1>3. CASE state[c] = "LISTENING" /\ closable[c] /\ Held(locks[c], objs)
  <2>1. locks[c] \in Calls
    BY <1>3 DEF Held
  <2>2. \/ object' = objs /\ after' = after
        \/ /\ object' = [objs EXCEPT ![locks[c]] = "releasing"]
           /\ after' = [after EXCEPT ![locks[c]] = "close"]
    BY <1>3 DEF Close
  <2>3. line' = line /\ lock' = locks /\ state' = [state EXCEPT ![c] = "CLOSING"]
    BY <1>3 DEF Close
  <2>4. object' \in [Calls -> Objects] /\ after' \in [Calls -> Afters]
    BY <2>1, <2>2
  <2>. QED
    BY <2>3, <2>4
<1>4. CASE state[c] = "LISTENING" /\ closable[c] /\ ~Held(locks[c], objs)
  <2>1. /\ object' = objs /\ after' = after /\ line' = line
        /\ lock' = [locks EXCEPT ![c] = None]
        /\ state' = [state EXCEPT ![c] = "CLOSED"]
    BY <1>4, Zenon DEF Close
  <2>. QED
    BY <2>1
<1>. QED
  BY <1>1, <1>2, <1>3, <1>4 DEF Close

\* The browser's end of a close() the server begins.
LEMMA CloseHerePhase ==
  ASSUME StepsOK, NEW c \in Clients, NEW objs, NEW locks, CloseHere(c, objs, locks)
  PROVE  /\ phase' \in [Clients -> [Talks -> Phases]]
         /\ \A t \in Talks : phase'[c][t] = (IF state'[c] = "CLOSED" THEN "gone" ELSE phase[c][t])
         /\ \A d \in Clients \ {c} : phase'[d] = phase[d]
BY GoneType DEF CloseHere, StepsOK

LEMMA CloseHereOnline ==
  ASSUME FlagsOK, NEW c \in Clients, NEW objs, NEW locks, CloseHere(c, objs, locks)
  PROVE  /\ online' \in [Clients -> BOOLEAN]
         /\ online'[c] = (state'[c] # "CLOSED")
         /\ \A d \in Clients \ {c} : online'[d] = online[d]
BY UpdateFlag, ZenonT(30) DEF CloseHere, FlagsOK

\* What the end of close() does.
LEMMA FinishPhase ==
  ASSUME StepsOK, NEW c \in Clients, Finish(c)
  PROVE  /\ phase' \in [Clients -> [Talks -> Phases]]
         /\ \A t \in Talks : phase'[c][t] = "gone"
         /\ \A d \in Clients \ {c} : phase'[d] = phase[d]
BY GoneType DEF Finish, StepsOK

\* A lock that can be released is the lock object of a call.
LEMMA LockIsCall ==
  ASSUME CallsOK, NEW c \in Clients, Releasable(lock[c])
  PROVE  lock[c] \in Calls /\ object[lock[c]] = "live"
BY DEF CallsOK, Releasable

\* A step that gives its lock back.
LEMMA StartReleaseData ==
  ASSUME CallsOK, NEW l \in Calls, NEW then \in Afters, NEW t \in Talks, StartRelease(l, then, t)
  PROVE  /\ object' \in [Calls -> Objects]
         /\ line' \in [Calls -> Talks]
         /\ after' \in [Calls -> Afters]
BY DEF CallsOK, StartRelease, Objects

LEMMA GiveUpData ==
  ASSUME CallsOK, NEW c \in Clients, NEW t \in Talks, NEW then \in Afters, GiveUp(c, t, then)
  PROVE  /\ object' \in [Calls -> Objects]
         /\ line' \in [Calls -> Talks]
         /\ after' \in [Calls -> Afters]
<1>1. CASE Releasable(lock[c])
  BY <1>1, LockIsCall, StartReleaseData DEF GiveUp
<1>2. CASE ~Releasable(lock[c])
  BY <1>2 DEF GiveUp, CallsOK
<1>. QED
  BY <1>1, <1>2

LEMMA GiveUpFault ==
  ASSUME FlagsOK, NEW c, NEW t, NEW then, GiveUp(c, t, then)
  PROVE  fault' \in BOOLEAN
BY DEF GiveUp, FlagsOK, Throw

\* What a release that has come through does, in its four cases.
LEMMA ReleasedKinds ==
  ASSUME FlagsOK, CallsOK, NEW r \in Calls, Released(r)
  PROVE  /\ ~fault /\ object[r] = "releasing" /\ outcome[r] = "done"
         /\ asker[r] \in Clients
         /\ UNCHANGED <<outcome, want, broken, asker, line, work, doubled, spoiled>>
         /\ \/ /\ object' = [object EXCEPT ![r] = "unlocked"] /\ after' = after
               /\ closable' \in [Clients -> BOOLEAN]
               /\ \A d \in Clients \ {asker[r]} : closable'[d] = closable[d]
               /\ \/ Finish(asker[r]) /\ fault' \in BOOLEAN
                  \/ Throw /\ UNCHANGED <<closeVars, lock, browserVars>>
                  \/ /\ lock' = [lock EXCEPT ![asker[r]] = None]
                     /\ \E v \in {"stuck", "idle"} : Send(asker[r], line[r], v)
                     /\ UNCHANGED <<state, awaiting, online, fault>>
            \/ /\ Misses(asker[r], [object EXCEPT ![r] = "unlocked"],
                         [lock EXCEPT ![asker[r]] = None])
               /\ UNCHANGED closable
<1>. USE DEF lockVars, histories, closeVars, browserVars
<1>. DEFINE c     == asker[r]
            objs  == [object EXCEPT ![r] = "unlocked"]
            locks == [lock EXCEPT ![c] = None]
<1>0. /\ ~fault /\ object[r] = "releasing" /\ outcome[r] = "done"
      /\ UNCHANGED <<outcome, want, broken, asker, work, doubled, spoiled>>
  BY DEF Released
<1>1. c \in Clients
  BY <1>0 DEF CallsOK
<1>2. CASE after[r] = "close" /\ Finish(c) /\ object' = objs
             /\ UNCHANGED <<line, after, closable, fault>>
  BY <1>0, <1>1, <1>2 DEF FlagsOK
<1>3. CASE Throw /\ object' = objs /\ UNCHANGED <<line, after, closeVars, lock, browserVars>>
  BY <1>0, <1>1, <1>3 DEF FlagsOK
<1>4. CASE /\ closable' =
                [closable EXCEPT ![c] = IF after[r] = "patch error" THEN TRUE ELSE @]
           /\ IF after[r] = "patch error" /\ awaiting[c]
                THEN Finish(c)
                ELSE /\ lock' = locks
                     /\ Send(c, line[r], IF after[r] = "patch error" /\ phase[c][line[r]] = "renaming"
                                           THEN "stuck" ELSE "idle")
                     /\ UNCHANGED <<state, awaiting, online>>
           /\ object' = objs
           /\ UNCHANGED <<line, after, fault>>
  <2>1. closable' \in [Clients -> BOOLEAN] /\ \A d \in Clients \ {c} : closable'[d] = closable[d]
    BY <1>1, <1>4 DEF FlagsOK
  <2>2. fault' \in BOOLEAN
    BY <1>4 DEF FlagsOK
  <2>3. \/ Finish(c)
        \/ /\ lock' = locks
           /\ \E v \in {"stuck", "idle"} : Send(c, line[r], v)
           /\ UNCHANGED <<state, awaiting, online>>
    BY <1>4
  <2>. QED
    BY <1>0, <1>1, <1>4, <2>1, <2>2, <2>3
<1>5. CASE AnswerMisses(c, after[r], objs, locks)
  <2>1. CASE Misses(c, objs, locks) /\ UNCHANGED closable
    BY <1>0, <1>1, <2>1 DEF Misses, CloseHere, Close
  <2>2. CASE /\ closable' = [closable EXCEPT ![c] = TRUE]
             /\ Finish(c) /\ object' = objs /\ UNCHANGED <<line, after, fault>>
    <3>1. closable' \in [Clients -> BOOLEAN] /\ \A d \in Clients \ {c} : closable'[d] = closable[d]
      BY <1>1, <2>2 DEF FlagsOK
    <3>. QED
      BY <1>0, <1>1, <2>2, <3>1 DEF FlagsOK
  <2>3. CASE Finish(c) /\ object' = objs /\ Throw /\ UNCHANGED <<line, after, closable>>
    BY <1>0, <1>1, <2>3 DEF FlagsOK, Throw
  <2>. QED
    BY <1>5, <2>1, <2>2, <2>3 DEF AnswerMisses
<1>. QED
  BY <1>2, <1>3, <1>4, <1>5 DEF Released
\* Every step keeps the types of the Boolean variables.
LEMMA StepFlags ==
  ASSUME FlagsOK, CallsOK, [Next]_vars
  PROVE  FlagsOK'
<1>. USE UpdateFlag DEF FlagsOK, lockVars, objectVars, closeVars, browserVars, histories, Throw
<1>1. ASSUME NEW c \in Clients, NEW t \in Talks, NEW r \in Calls, NEW p \in Paths,
             HandleSyncInitRequest(c, t, r, p)
      PROVE  FlagsOK'
  BY <1>1 DEF HandleSyncInitRequest
<1>2. ASSUME NEW r \in Calls, LockDecides(r) \/ LockFreed(r)
      PROVE  FlagsOK'
  BY <1>2 DEF LockDecides, LockFreed
<1>b. ASSUME NEW r \in Calls, outcome[r] # "none"
      PROVE  asker[r] \in Clients
  BY <1>b DEF CallsOK
<1>m. ASSUME NEW c \in Clients, NEW objs, NEW locks, Misses(c, objs, locks),
             closable' = closable
      PROVE  FlagsOK'
  BY <1>m, CloseFlags, CloseHereOnline DEF Misses, CloseHere
<1>f. ASSUME NEW c, Finish(c), fault' \in BOOLEAN, closable' \in [Clients -> BOOLEAN]
      PROVE  FlagsOK'
  BY <1>f DEF Finish
<1>3. ASSUME NEW r \in Calls, LockGranted(r)
      PROVE  FlagsOK'
  BY <1>3, <1>b, <1>m DEF LockGranted
<1>4. ASSUME NEW r \in Calls, LockRefused(r)
      PROVE  FlagsOK'
  BY <1>4, <1>b, <1>m DEF LockRefused
<1>6. ASSUME NEW r \in Calls, Released(r)
      PROVE  FlagsOK'
  <2>1. CASE Misses(asker[r], [object EXCEPT ![r] = "unlocked"], [lock EXCEPT ![asker[r]] = None])
             /\ UNCHANGED closable
    BY <1>6, <2>1, <1>m, ReleasedKinds
  <2>2. CASE closable' \in [Clients -> BOOLEAN] /\ Finish(asker[r]) /\ fault' \in BOOLEAN
    BY <2>2, <1>f
  <2>3. CASE closable' \in [Clients -> BOOLEAN] /\ UNCHANGED <<awaiting, online>> /\ fault' \in BOOLEAN
    BY <2>3
  <2>. QED
    BY <1>6, <2>1, <2>2, <2>3, ReleasedKinds
<1>7. ASSUME NEW c \in Clients, NEW t \in Talks, Abandon(c, t) \/ HandleChecksumRequest(c, t)
      PROVE  FlagsOK'
  BY <1>7 DEF Abandon, HandleChecksumRequest
<1>8. ASSUME NEW c \in Clients, NEW t \in Talks,
             FileTooLarge(c, t) \/ ChecksumsFail(c, t) \/ PatchFail(c, t)
      PROVE  FlagsOK'
  BY <1>8, GiveUpFault DEF FileTooLarge, ChecksumsFail, PatchFail
<1>9. ASSUME NEW c \in Clients, NEW t \in Talks, ChecksumsDone(c, t)
      PROVE  FlagsOK'
  BY <1>9, <1>m DEF ChecksumsDone
<1>10. ASSUME NEW c \in Clients, NEW t \in Talks,
              HandleDiffResponse(c, t) \/ HandleRenameOrDelRequest(c, t)
       PROVE  FlagsOK'
  BY <1>10, ZenonT(30) DEF HandleDiffResponse, HandleRenameOrDelRequest, StartPatch
<1>11. ASSUME NEW c \in Clients, NEW t \in Talks, HandleSpoiledDiff(c, t)
       PROVE  FlagsOK'
  BY <1>11, ZenonT(30) DEF HandleSpoiledDiff
<1>12. ASSUME NEW c \in Clients, NEW t \in Talks, PatchDone(c, t)
       PROVE  FlagsOK'
  <2>1. awaiting[c] \in BOOLEAN
    OBVIOUS
  <2>2. fault' \in BOOLEAN
    BY <1>12, <2>1, ZenonT(30) DEF PatchDone
  <2>3. closable' \in [Clients -> BOOLEAN]
    BY <1>12, ZenonT(30) DEF PatchDone
  <2>4. Finish(c) \/ UNCHANGED <<awaiting, online>>
    BY <1>12, ZenonT(30) DEF PatchDone
  <2>. QED
    BY <2>2, <2>3, <2>4, <1>f
<1>13. ASSUME NEW c \in Clients, HangUp(c)
       PROVE  FlagsOK'
  BY <1>13, CloseFlags DEF HangUp
<1>14. ASSUME NEW c \in Clients, Shutdown(c)
       PROVE  FlagsOK'
  BY <1>14, CloseFlags, CloseHereOnline DEF Shutdown, CloseHere
<1>15. CASE UNCHANGED vars
  BY <1>15 DEF vars
<1>. QED
  BY <1>1, <1>2, <1>3, <1>4, <1>6, <1>7, <1>8, <1>9, <1>10, <1>11, <1>12, <1>13,
     <1>14, <1>15 DEF Next

\* Every step keeps the types of the calls and the lock objects.
LEMMA StepCalls ==
  ASSUME CallsOK, StepsOK, FlagsOK, [Next]_vars
  PROVE  CallsOK'
<1>. USE DEF lockVars, objectVars, closeVars, browserVars, histories
<1>1. ASSUME NEW c \in Clients, NEW t \in Talks, NEW r \in Calls, NEW p \in Paths,
             HandleSyncInitRequest(c, t, r, p)
      PROVE  CallsOK'
  BY <1>1 DEF HandleSyncInitRequest, Lock!Ask, Lock!Become, CallsOK, Lock!Outcomes
<1>2. ASSUME NEW r \in Calls, LockDecides(r)
      PROVE  CallsOK'
  <2>. USE DEF CallsOK, Lock!Outcomes
  <2>. UNCHANGED <<objectVars, lock>>
    BY <1>2 DEF LockDecides
  <2>1. CASE Lock!Grant(r)
    BY <2>1 DEF Lock!Grant, Lock!Become
  <2>2. CASE Lock!BreakIn(r)
    BY <2>2 DEF Lock!BreakIn, Lock!Become
  <2>3. CASE Lock!Deny({r})
    BY <2>3 DEF Lock!Deny
  <2>4. CASE Lock!Fail(r)
    BY <2>4 DEF Lock!Fail, Lock!Become
  <2>. QED
    BY <1>2, <2>1, <2>2, <2>3, <2>4 DEF LockDecides
<1>3. ASSUME NEW r \in Calls, LockFreed(r)
      PROVE  CallsOK'
  BY <1>3 DEF LockFreed, Lock!GiveBack, Lock!Become, CallsOK, Lock!Outcomes
<1>b. ASSUME NEW r \in Calls, outcome[r] # "none"
      PROVE  asker[r] \in Clients
  BY <1>b DEF CallsOK
<1>c. ASSUME UNCHANGED <<lockVars, asker>>, object' \in [Calls -> Objects],
             line' \in [Calls -> Talks], after' \in [Calls -> Afters],
             lock' \in [Clients -> Calls \cup {None}]
      PROVE  CallsOK'
  BY <1>c DEF CallsOK
<1>m. ASSUME NEW c \in Clients, NEW objs \in [Calls -> Objects],
             NEW locks \in [Clients -> Calls \cup {None}],
             Close(c, objs, locks), UNCHANGED <<lockVars, asker>>
      PROVE  CallsOK'
  <2>1. line' \in [Calls -> Talks]
    BY <1>m, CloseData DEF CallsOK
  <2>. QED
    BY <1>m, <2>1, <1>c, CloseData
<1>o. ASSUME NEW r \in Calls, NEW v \in Objects
      PROVE  [object EXCEPT ![r] = v] \in [Calls -> Objects]
  BY DEF CallsOK
<1>l. ASSUME NEW c \in Clients, NEW v \in Calls \cup {None}
      PROVE  [lock EXCEPT ![c] = v] \in [Clients -> Calls \cup {None}]
  BY DEF CallsOK
<1>t. /\ object \in [Calls -> Objects] /\ lock \in [Clients -> Calls \cup {None}]
      /\ line \in [Calls -> Talks] /\ after \in [Calls -> Afters]
  BY DEF CallsOK
<1>v. {"live", "unlocked"} \subseteq Objects /\ {"end", "error", "patch error"} \subseteq Afters
  BY DEF Objects, Afters
<1>4. ASSUME NEW r \in Calls, LockGranted(r)
      PROVE  CallsOK'
  <2>1. asker[r] \in Clients /\ UNCHANGED <<lockVars, asker>>
    BY <1>4, <1>b DEF LockGranted
  <2>2. /\ [object EXCEPT ![r] = "live"] \in [Calls -> Objects]
        /\ [lock EXCEPT ![asker[r]] = r] \in [Clients -> Calls \cup {None}]
    BY <2>1, <1>o, <1>l, <1>v
  <2>3. CASE Misses(asker[r], [object EXCEPT ![r] = "live"], [lock EXCEPT ![asker[r]] = r])
    BY <2>1, <2>2, <2>3, <1>m DEF Misses, CloseHere
  <2>4. CASE /\ object' = [object EXCEPT ![r] = "live"] /\ lock' = [lock EXCEPT ![asker[r]] = r]
             /\ UNCHANGED <<line, after>>
    BY <2>1, <2>2, <2>4, <1>c, <1>t
  <2>. QED
    BY <1>4, <2>3, <2>4 DEF LockGranted
<1>5. ASSUME NEW r \in Calls, LockRefused(r)
      PROVE  CallsOK'
  <2>1. asker[r] \in Clients /\ UNCHANGED <<lockVars, asker>>
    BY <1>5, <1>b DEF LockRefused
  <2>2. [object EXCEPT ![r] = "unlocked"] \in [Calls -> Objects]
    BY <1>o, <1>v
  <2>3. CASE Misses(asker[r], [object EXCEPT ![r] = "unlocked"], lock)
    BY <2>1, <2>2, <2>3, <1>m, <1>t DEF Misses, CloseHere
  <2>4. CASE object' = [object EXCEPT ![r] = "unlocked"] /\ UNCHANGED <<line, after, lock>>
    BY <2>1, <2>2, <2>4, <1>c, <1>t
  <2>. QED
    BY <1>5, <2>3, <2>4 DEF LockRefused
<1>6. ASSUME NEW r \in Calls, Released(r)
      PROVE  CallsOK'
  <2>1. asker[r] \in Clients /\ UNCHANGED <<lockVars, asker, line>>
    BY <1>6, ReleasedKinds
  <2>2. /\ [object EXCEPT ![r] = "unlocked"] \in [Calls -> Objects]
        /\ [lock EXCEPT ![asker[r]] = None] \in [Clients -> Calls \cup {None}]
    BY <2>1, <1>o, <1>l, <1>v
  <2>3. CASE Misses(asker[r], [object EXCEPT ![r] = "unlocked"], [lock EXCEPT ![asker[r]] = None])
    BY <2>1, <2>2, <2>3, <1>m DEF Misses, CloseHere
  <2>4. CASE /\ object' = [object EXCEPT ![r] = "unlocked"] /\ after' = after
             /\ lock' = lock \/ lock' = [lock EXCEPT ![asker[r]] = None]
    BY <2>1, <2>2, <2>4, <1>c, <1>t
  <2>. QED
    BY <1>6, <2>3, <2>4, ReleasedKinds DEF Finish
<1>7. ASSUME UNCHANGED <<lockVars, objectVars, lock>>
      PROVE  CallsOK'
  BY <1>7 DEF CallsOK
<1>8. ASSUME NEW c \in Clients, NEW t \in Talks,
             \/ Abandon(c, t) \/ HandleChecksumRequest(c, t) \/ HandleDiffResponse(c, t)
             \/ HandleSpoiledDiff(c, t) \/ HandleRenameOrDelRequest(c, t)
      PROVE  CallsOK'
  BY <1>8, <1>7 DEF Abandon, HandleChecksumRequest, HandleDiffResponse, HandleSpoiledDiff,
                    HandleRenameOrDelRequest, StartPatch
<1>9. ASSUME NEW c \in Clients, NEW t \in Talks,
             FileTooLarge(c, t) \/ ChecksumsFail(c, t) \/ PatchFail(c, t)
      PROVE  CallsOK'
  <2>1. UNCHANGED <<lockVars, asker, lock>> /\ (GiveUp(c, t, "error") \/ GiveUp(c, t, "patch error"))
    BY <1>9 DEF FileTooLarge, ChecksumsFail, PatchFail
  <2>. QED
    BY <2>1, <1>c, <1>t, <1>v, GiveUpData
<1>10. ASSUME NEW c \in Clients, NEW t \in Talks, ChecksumsDone(c, t)
       PROVE  CallsOK'
  BY <1>10, <1>m, <1>c, <1>t DEF ChecksumsDone, Misses, CloseHere
<1>11. ASSUME NEW c \in Clients, NEW t \in Talks, PatchDone(c, t)
       PROVE  CallsOK'
  <2>1. UNCHANGED <<lockVars, asker>>
    BY <1>11 DEF PatchDone
  <2>2. CASE Releasable(lock[c]) /\ StartRelease(lock[c], "end", t) /\ UNCHANGED lock
    BY <2>1, <2>2, <1>c, <1>t, <1>v, LockIsCall, StartReleaseData
  <2>3. CASE UNCHANGED <<object, line, after>> /\ (lock' = lock \/ lock' = [lock EXCEPT ![c] = None])
    BY <2>1, <2>3, <1>c, <1>t, <1>l
  <2>. QED
    BY <1>11, <2>2, <2>3 DEF PatchDone, Finish
<1>12. ASSUME NEW c \in Clients, HangUp(c) \/ Shutdown(c)
       PROVE  CallsOK'
  BY <1>12, <1>m, <1>t DEF HangUp, Shutdown, CloseHere
<1>13. CASE UNCHANGED vars
  BY <1>13, <1>7 DEF vars
<1>. QED
  BY <1>1, <1>2, <1>3, <1>4, <1>5, <1>6, <1>8, <1>9, <1>10, <1>11, <1>12, <1>13 DEF Next

\* Every step keeps the types of the talks.
LEMMA StepSteps ==
  ASSUME CallsOK, StepsOK, FlagsOK, [Next]_vars
  PROVE  StepsOK'
<1>. USE DEF lockVars, objectVars, closeVars, browserVars, histories
<1>t. /\ state \in [Clients -> {"LISTENING", "CLOSING", "CLOSED"}]
      /\ work \in [Clients -> [Talks -> Works]]
      /\ phase \in [Clients -> [Talks -> Phases]]
      /\ doubled \subseteq Clients /\ spoiled \subseteq Clients
  BY DEF StepsOK
<1>v. /\ {"idle", "asking", "granted", "summing", "diffing", "patching", "renaming", "stuck"}
           \subseteq Phases
      /\ {"none", "checksums", "patch"} \subseteq Works
  BY DEF Phases, Works
<1>w. ASSUME NEW c \in Clients, NEW t \in Talks
      PROVE  work[c][t] \in Works /\ phase[c][t] \in Phases
  BY <1>t
<1>c. ASSUME NEW c \in Clients, NEW objs, NEW locks, Close(c, objs, locks)
      PROVE  state' \in [Clients -> {"LISTENING", "CLOSING", "CLOSED"}]
  BY <1>c, <1>t DEF Close
<1>h. ASSUME NEW c \in Clients, NEW objs, NEW locks, CloseHere(c, objs, locks),
             work' \in [Clients -> [Talks -> Works]], UNCHANGED histories
      PROVE  StepsOK'
  BY <1>h, <1>t, <1>c, CloseHerePhase DEF CloseHere, StepsOK
<1>f. ASSUME NEW c \in Clients, Finish(c), UNCHANGED histories,
             work' \in [Clients -> [Talks -> Works]]
      PROVE  StepsOK'
  BY <1>f, <1>t, FinishPhase DEF Finish, StepsOK
<1>s. ASSUME NEW c \in Clients, NEW t \in Talks, NEW v \in Phases, Send(c, t, v),
             UNCHANGED <<state, histories>>, work' \in [Clients -> [Talks -> Works]]
      PROVE  StepsOK'
  BY <1>s, <1>t, SendType DEF StepsOK
<1>p. ASSUME NEW c \in Clients, NEW t \in Talks, NEW v \in Phases,
             phase' = [phase EXCEPT ![c][t] = v], UNCHANGED state,
             work' \in [Clients -> [Talks -> Works]],
             doubled' \subseteq Clients, spoiled' \subseteq Clients
      PROVE  StepsOK'
  BY <1>p, <1>t, UpdateTalk DEF StepsOK
<1>k. ASSUME NEW c \in Clients, NEW t \in Talks, NEW v \in Works,
             work' = [work EXCEPT ![c][t] = v]
      PROVE  work' \in [Clients -> [Talks -> Works]]
  BY <1>k, <1>t, UpdateTalk
<1>1. ASSUME NEW c \in Clients, NEW t \in Talks, NEW r \in Calls, NEW p \in Paths,
             HandleSyncInitRequest(c, t, r, p)
      PROVE  StepsOK'
  BY <1>1, <1>p, <1>t, <1>v DEF HandleSyncInitRequest
<1>2. ASSUME NEW r \in Calls, LockDecides(r) \/ LockFreed(r)
      PROVE  StepsOK'
  BY <1>2, <1>t DEF LockDecides, LockFreed, StepsOK
<1>b. ASSUME NEW r \in Calls, outcome[r] # "none"
      PROVE  asker[r] \in Clients /\ line[r] \in Talks
  BY <1>b DEF CallsOK
<1>3. ASSUME NEW r \in Calls, LockGranted(r)
      PROVE  StepsOK'
  BY <1>3, <1>b, <1>h, <1>s, <1>t, <1>v DEF LockGranted, Misses
<1>4. ASSUME NEW r \in Calls, LockRefused(r)
      PROVE  StepsOK'
  BY <1>4, <1>b, <1>h, <1>s, <1>t, <1>v DEF LockRefused, Misses
<1>5. ASSUME NEW r \in Calls, Released(r)
      PROVE  StepsOK'
  <2>1. /\ asker[r] \in Clients /\ line[r] \in Talks
        /\ work' \in [Clients -> [Talks -> Works]] /\ UNCHANGED histories
    BY <1>5, <1>b, <1>t, ReleasedKinds
  <2>2. CASE Finish(asker[r])
    BY <2>1, <2>2, <1>f
  <2>3. CASE UNCHANGED <<closeVars, lock, browserVars>>
    BY <2>1, <2>3, <1>t DEF StepsOK
  <2>4. CASE (\E v \in {"stuck", "idle"} : Send(asker[r], line[r], v)) /\ UNCHANGED state
    BY <2>1, <2>4, <1>s, <1>v
  <2>5. CASE Misses(asker[r], [object EXCEPT ![r] = "unlocked"], [lock EXCEPT ![asker[r]] = None])
    BY <2>1, <2>5, <1>h DEF Misses
  <2>. QED
    BY <1>5, <2>2, <2>3, <2>4, <2>5, ReleasedKinds
<1>6. ASSUME NEW c \in Clients, NEW t \in Talks, Abandon(c, t)
      PROVE  StepsOK'
  BY <1>6, <1>p, <1>t, <1>v DEF Abandon
<1>7. ASSUME NEW c \in Clients, NEW t \in Talks, NEW q \in Phases, NEW k \in Works,
             phase' = [phase EXCEPT ![c][t] = q],
             work' = [work EXCEPT ![c][t] = IF EnsureLock(c) THEN k ELSE @],
             UNCHANGED <<state, histories>>
      PROVE  StepsOK'
  BY <1>7, <1>p, <1>k, <1>t, <1>w
<1>8. ASSUME NEW c \in Clients, NEW t \in Talks,
             \/ HandleChecksumRequest(c, t) \/ HandleDiffResponse(c, t)
             \/ HandleRenameOrDelRequest(c, t)
      PROVE  StepsOK'
  <2>1. CASE HandleChecksumRequest(c, t)
    <3>1. /\ phase' = [phase EXCEPT ![c][t] = "summing"]
          /\ work' = [work EXCEPT ![c][t] = IF EnsureLock(c) THEN "checksums" ELSE @]
          /\ UNCHANGED <<state, histories>>
      BY <2>1 DEF HandleChecksumRequest
    <3>2. "summing" \in Phases /\ "checksums" \in Works
      BY <1>v
    <3>. QED
      BY <3>1, <3>2, <1>7
  <2>2. ASSUME NEW from, NEW to \in {"patching", "renaming"}, StartPatch(c, t, from, to)
        PROVE  StepsOK'
    <3>1. /\ phase' = [phase EXCEPT ![c][t] = to]
          /\ work' = [work EXCEPT ![c][t] = IF EnsureLock(c) THEN "patch" ELSE @]
          /\ UNCHANGED <<state, histories>>
      BY <2>2 DEF StartPatch
    <3>2. to \in Phases /\ "patch" \in Works
      BY <1>v
    <3>. QED
      BY <3>1, <3>2, <1>7
  <2>. QED
    BY <1>8, <2>1, <2>2 DEF HandleDiffResponse, HandleRenameOrDelRequest
<1>9. ASSUME NEW c \in Clients, NEW t \in Talks, FileTooLarge(c, t) \/ HandleSpoiledDiff(c, t)
      PROVE  StepsOK'
  BY <1>9, <1>p, <1>t, <1>v DEF FileTooLarge, HandleSpoiledDiff
<1>10. ASSUME NEW c \in Clients, NEW t \in Talks, ChecksumsFail(c, t) \/ PatchFail(c, t)
       PROVE  StepsOK'
  BY <1>10, <1>k, <1>t, <1>v DEF ChecksumsFail, PatchFail, StepsOK
<1>11. ASSUME NEW c \in Clients, NEW t \in Talks, ChecksumsDone(c, t)
       PROVE  StepsOK'
  <2>1. work' \in [Clients -> [Talks -> Works]] /\ UNCHANGED histories
    BY <1>11, <1>k, <1>v DEF ChecksumsDone
  <2>. QED
    BY <1>11, <2>1, <1>h, <1>s, <1>v DEF ChecksumsDone, Misses
<1>12. ASSUME NEW c \in Clients, NEW t \in Talks, PatchDone(c, t)
       PROVE  StepsOK'
  <2>1. work' \in [Clients -> [Talks -> Works]] /\ UNCHANGED histories
    BY <1>12, <1>k, <1>v DEF PatchDone
  <2>2. Finish(c) \/ UNCHANGED <<state, phase>>
    BY <1>12 DEF PatchDone
  <2>. QED
    BY <2>1, <2>2, <1>f, <1>t DEF StepsOK
<1>13. ASSUME NEW c \in Clients, HangUp(c)
       PROVE  StepsOK'
  <2>1. phase' \in [Clients -> [Talks -> Phases]]
    BY <1>13, <1>t, GoneType DEF HangUp
  <2>. QED
    BY <1>13, <2>1, <1>c, <1>t DEF HangUp, StepsOK
<1>14. ASSUME NEW c \in Clients, Shutdown(c)
       PROVE  StepsOK'
  BY <1>14, <1>h, <1>t DEF Shutdown
<1>15. CASE UNCHANGED vars
  BY <1>15 DEF vars, StepsOK
<1>. QED
  BY <1>1, <1>2, <1>3, <1>4, <1>5, <1>6, <1>8, <1>9, <1>10, <1>11, <1>12, <1>13, <1>14,
     <1>15 DEF Next

-----------------------------------------------------------------------------
(* Each step is the step of one client.                                    *)

\* What is under way for a call, but for the callback's argument.
Apart(c) ==
  /\ \A d \in Clients \ {c} : lock'[d] = lock[d]
  /\ \A r \in Calls : (asker'[r] # c \/ asker[r] \in Clients \ {c}) =>
       /\ asker'[r] = asker[r] /\ outcome'[r] = outcome[r]
       /\ object'[r] = object[r] /\ after'[r] = after[r] /\ line'[r] = line[r]

\* A client's lock objects are ready for a close().
Ready(c, objs, locks) ==
  /\ \A d \in Clients \ {c} : locks[d] = lock[d]
  /\ locks[c] \in {lock[c], None} \cup
       {r \in Calls : asker[r] = c /\ outcome[r] # "none" /\ objs[r] # "none"}
  /\ \A r \in Calls : objs[r] # object[r] =>
       /\ asker[r] = c /\ outcome[r] # "none" /\ objs[r] # "none"
       /\ objs[r] \in {"live", "releasing"} => outcome[r] = "granted"

\* A step that makes no call and decides none.
Touches(c) ==
  /\ UNCHANGED <<lockVars, asker>>
  /\ Ready(c, object', lock')
  /\ \A r \in Calls : asker[r] # c => after'[r] = after[r] /\ line'[r] = line[r]

\* A step that leaves the sessions of the other clients alone.
Alone(c) ==
  /\ \A d \in Clients \ {c} :
       /\ state'[d] = state[d] /\ closable'[d] = closable[d] /\ awaiting'[d] = awaiting[d]
       /\ work'[d] = work[d] /\ online'[d] = online[d] /\ phase'[d] = phase[d]
  /\ doubled \subseteq doubled'

LEMMA TouchesApart ==
  ASSUME NEW c \in Clients, Touches(c)
  PROVE  Apart(c)
BY DEF Touches, Apart, Ready, lockVars

LEMMA CloseTouches ==
  ASSUME CallsOK, OutcomeInv, OwnerInv, NEW c \in Clients,
         NEW objs \in [Calls -> Objects], NEW locks \in [Clients -> Calls \cup {None}],
         Ready(c, objs, locks), UNCHANGED <<lockVars, asker>>, Close(c, objs, locks)
  PROVE  Touches(c)
<1>1. CASE object' = objs /\ lock' = locks /\ UNCHANGED <<line, after>>
  BY <1>1 DEF Touches
<1>2. CASE /\ Held(locks[c], objs) /\ objs[locks[c]] = "live"
           /\ object' = [objs EXCEPT ![locks[c]] = "releasing"]
           /\ after'  = [after EXCEPT ![locks[c]] = "close"]
           /\ lock' = locks /\ UNCHANGED line
  <2>. DEFINE l == locks[c]
  <2>1. l \in Calls /\ l # None
    BY <1>2 DEF Held
  <2>2. asker[l] = c /\ outcome[l] = "granted"
    BY <1>2, <2>1 DEF Ready, OwnerInv, OutcomeInv
  <2>. HIDE DEF l
  <2>3. object' = [objs EXCEPT ![l] = "releasing"] /\ after' = [after EXCEPT ![l] = "close"]
    BY <1>2 DEF l
  <2>4. \A r \in Calls : r # l => object'[r] = objs[r] /\ after'[r] = after[r]
    BY <2>3 DEF CallsOK
  <2>5. object'[l] = "releasing"
    BY <2>1, <2>3
  <2>. QED
    BY <1>2, <2>1, <2>2, <2>4, <2>5 DEF Touches, Ready
<1>3. CASE /\ object' = objs /\ lock' = [locks EXCEPT ![c] = None]
           /\ UNCHANGED <<line, after>>
  BY <1>3 DEF Touches, Ready
<1>. QED
  BY <1>1, <1>2, <1>3 DEF Close

LEMMA StartReleaseTouches ==
  ASSUME CallsOK, OutcomeInv, OwnerInv, NEW c \in Clients, NEW then, NEW t,
         Releasable(lock[c]), StartRelease(lock[c], then, t), UNCHANGED <<lockVars, asker, lock>>
  PROVE  Touches(c)
<1>. DEFINE l == lock[c]
<1>1. l \in Calls /\ asker[l] = c /\ outcome[l] = "granted"
  BY LockIsCall DEF OwnerInv, OutcomeInv
<1>. HIDE DEF l
<1>2. /\ object' = [object EXCEPT ![l] = "releasing"]
      /\ after' = [after EXCEPT ![l] = then]
      /\ line' = [line EXCEPT ![l] = t]
  BY DEF StartRelease, l
<1>. QED
  BY <1>1, <1>2 DEF CallsOK, Touches, Ready

LEMMA GiveUpTouches ==
  ASSUME CallsOK, OutcomeInv, OwnerInv, NEW c \in Clients, NEW t, NEW then,
         GiveUp(c, t, then), UNCHANGED <<lockVars, asker, lock>>
  PROVE  Touches(c)
<1>1. CASE UNCHANGED <<object, line, after>>
  BY <1>1 DEF Touches, Ready
<1>. QED
  BY <1>1, StartReleaseTouches DEF GiveUp

LEMMA UntouchedTouches ==
  ASSUME NEW c \in Clients, UNCHANGED <<lockVars, objectVars>>,
         CallsOK, lock' = lock \/ lock' = [lock EXCEPT ![c] = None]
  PROVE  Touches(c)
BY DEF CallsOK, Touches, Ready, objectVars

LEMMA CloseAlone ==
  ASSUME FlagsOK, StepsOK, NEW c \in Clients, NEW objs, NEW locks, Close(c, objs, locks)
  PROVE  \A d \in Clients \ {c} : state'[d] = state[d] /\ awaiting'[d] = awaiting[d]
<1>. SUFFICES ASSUME NEW d \in Clients \ {c}
              PROVE  state'[d] = state[d] /\ awaiting'[d] = awaiting[d]
  OBVIOUS
<1>1. state' = state \/ \E v : state' = [state EXCEPT ![c] = v]
  BY DEF Close
<1>2. awaiting' = awaiting \/ awaiting' = [awaiting EXCEPT ![c] = TRUE]
  BY DEF Close
<1>3. state'[d] = state[d]
  BY <1>1 DEF StepsOK
<1>4. awaiting'[d] = awaiting[d]
  BY <1>2 DEF FlagsOK
<1>. QED
  BY <1>3, <1>4

LEMMA CloseHereAlone ==
  ASSUME FlagsOK, StepsOK, NEW c \in Clients, NEW objs, NEW locks, CloseHere(c, objs, locks),
         UNCHANGED <<closable, histories>>,
         \A d \in Clients \ {c} : work'[d] = work[d]
  PROVE  Alone(c)
BY CloseAlone, CloseHereOnline, CloseHerePhase DEF CloseHere, Alone, histories

LEMMA FinishAlone ==
  ASSUME FlagsOK, StepsOK, NEW c \in Clients, Finish(c),
         \A d \in Clients \ {c} : closable'[d] = closable[d] /\ work'[d] = work[d],
         UNCHANGED histories
  PROVE  Alone(c)
<1>1. \A d \in Clients \ {c} : state'[d] = state[d] /\ phase'[d] = phase[d]
  BY FinishPhase DEF Finish, StepsOK
<1>2. \A d \in Clients \ {c} : awaiting'[d] = awaiting[d] /\ online'[d] = online[d]
  BY DEF Finish, FlagsOK
<1>. QED
  BY <1>1, <1>2 DEF Alone, histories

LEMMA SendAlone ==
  ASSUME StepsOK, NEW c \in Clients, NEW t \in Talks, NEW v \in Phases, Send(c, t, v),
         \A d \in Clients \ {c} : closable'[d] = closable[d] /\ work'[d] = work[d],
         UNCHANGED <<state, awaiting, online, histories>>
  PROVE  Alone(c)
BY SendType DEF Alone, histories

\* The callbacks of calls and releases.
LEMMA CallbackIsApart ==
  ASSUME FlagsOK, CallsOK, StepsOK, OutcomeInv, OwnerInv, NEW r \in Calls,
         LockGranted(r) \/ LockRefused(r) \/ Released(r)
  PROVE  asker[r] \in Clients /\ Touches(asker[r]) /\ Alone(asker[r])
<1>. DEFINE c == asker[r]
<1>. USE DEF lockVars, closeVars, browserVars, histories
<1>1. c \in Clients /\ line[r] \in Talks
  BY DEF LockGranted, LockRefused, Released, CallsOK, OutcomeInv
<1>2. \A v \in Objects : [object EXCEPT ![r] = v] \in [Calls -> Objects]
  BY DEF CallsOK
<1>3. \A v \in Calls \cup {None} : [lock EXCEPT ![c] = v] \in [Clients -> Calls \cup {None}]
  BY DEF CallsOK
<1>4. {"live", "unlocked"} \subseteq Objects /\ {"granted", "idle", "stuck"} \subseteq Phases
  BY DEF Objects, Phases
<1>5. CASE LockGranted(r)
  <2>. DEFINE objs == [object EXCEPT ![r] = "live"]
              locks == [lock EXCEPT ![c] = r]
  <2>1. UNCHANGED <<lockVars, asker, closable, work, histories>> /\ outcome[r] = "granted"
    BY <1>5 DEF LockGranted
  <2>2. objs \in [Calls -> Objects] /\ locks \in [Clients -> Calls \cup {None}]
    BY <1>2, <1>3, <1>4
  <2>3. Ready(c, objs, locks)
    BY <1>1, <2>1 DEF Ready, CallsOK
  <2>4. CASE Misses(c, objs, locks)
    BY <1>1, <2>1, <2>2, <2>3, <2>4, CloseTouches, CloseHereAlone DEF Misses, CloseHere
  <2>5. CASE object' = objs /\ lock' = locks /\ Send(c, line[r], "granted")
             /\ UNCHANGED <<line, after, state, awaiting, online, fault>>
    <3>1. Touches(c)
      BY <2>1, <2>3, <2>5 DEF Touches
    <3>2. Alone(c)
      BY <1>1, <1>4, <2>1, <2>5, SendAlone
    <3>. QED
      BY <1>1, <3>1, <3>2
  <2>. QED
    BY <1>5, <2>4, <2>5 DEF LockGranted
<1>6. CASE LockRefused(r)
  <2>. DEFINE objs == [object EXCEPT ![r] = "unlocked"]
  <2>1. UNCHANGED <<lockVars, asker, closable, work, histories>> /\ outcome[r] # "none"
    BY <1>6 DEF LockRefused
  <2>2. objs \in [Calls -> Objects] /\ lock \in [Clients -> Calls \cup {None}]
    BY <1>2, <1>4 DEF CallsOK
  <2>3. Ready(c, objs, lock)
    BY <1>1, <2>1 DEF Ready, CallsOK
  <2>4. CASE Misses(c, objs, lock)
    BY <1>1, <2>1, <2>2, <2>3, <2>4, CloseTouches, CloseHereAlone DEF Misses, CloseHere
  <2>5. CASE object' = objs /\ lock' = lock /\ Send(c, line[r], "idle")
             /\ UNCHANGED <<line, after, state, awaiting, online, fault>>
    <3>1. Touches(c)
      BY <2>1, <2>3, <2>5 DEF Touches
    <3>2. Alone(c)
      BY <1>1, <1>4, <2>1, <2>5, SendAlone
    <3>. QED
      BY <1>1, <3>1, <3>2
  <2>. QED
    BY <1>6, <2>4, <2>5 DEF LockRefused
<1>7. CASE Released(r)
  <2>. DEFINE objs == [object EXCEPT ![r] = "unlocked"]
              locks == [lock EXCEPT ![c] = None]
  <2>1. UNCHANGED <<lockVars, asker, line, work, histories>> /\ outcome[r] = "done"
    BY <1>7, ReleasedKinds
  <2>2. objs \in [Calls -> Objects] /\ locks \in [Clients -> Calls \cup {None}]
    BY <1>2, <1>3, <1>4
  <2>3. Ready(c, objs, locks) /\ Ready(c, objs, lock)
    BY <1>1, <2>1 DEF Ready, CallsOK
  <2>4. CASE Misses(c, objs, locks) /\ UNCHANGED closable
    BY <1>1, <2>1, <2>2, <2>3, <2>4, CloseTouches, CloseHereAlone DEF Misses, CloseHere
  <2>5. CASE /\ object' = objs /\ after' = after /\ lock' \in {lock, locks}
             /\ \A d \in Clients \ {c} : closable'[d] = closable[d]
             /\ \/ Finish(c)
                \/ UNCHANGED browserVars /\ UNCHANGED <<state, awaiting>>
                \/ /\ \E v \in {"stuck", "idle"} : Send(c, line[r], v)
                   /\ UNCHANGED <<state, awaiting, online>>
    <3>1. Touches(c)
      BY <2>1, <2>3, <2>5 DEF Touches
    <3>2. CASE Finish(c)
      BY <1>1, <2>1, <2>5, <3>1, <3>2, FinishAlone
    <3>3. CASE UNCHANGED <<browserVars, state, awaiting>>
      BY <1>1, <2>1, <2>5, <3>1, <3>3 DEF Alone
    <3>4. CASE /\ \E v \in {"stuck", "idle"} : Send(c, line[r], v)
               /\ UNCHANGED <<state, awaiting, online>>
      BY <1>1, <1>4, <2>1, <2>5, <3>1, <3>4, SendAlone
    <3>. QED
      BY <2>5, <3>2, <3>3, <3>4
  <2>. QED
    BY <1>7, <2>4, <2>5, ReleasedKinds DEF Finish
<1>. QED
  BY <1>5, <1>6, <1>7

\* The steps of a talk.
TalkStep(c, t) ==
  \/ Abandon(c, t) \/ HandleChecksumRequest(c, t) \/ FileTooLarge(c, t)
  \/ ChecksumsDone(c, t) \/ ChecksumsFail(c, t)
  \/ HandleDiffResponse(c, t) \/ HandleSpoiledDiff(c, t) \/ HandleRenameOrDelRequest(c, t)
  \/ PatchDone(c, t) \/ PatchFail(c, t)

LEMMA TalkStepIsApart ==
  ASSUME FlagsOK, CallsOK, StepsOK, OutcomeInv, OwnerInv,
         NEW c \in Clients, NEW t \in Talks, TalkStep(c, t)
  PROVE  Touches(c) /\ Alone(c)
<1>. USE DEF lockVars, objectVars, closeVars, browserVars, histories
<1>p. ASSUME NEW v, phase' = [phase EXCEPT ![c][t] = v]
      PROVE  \A d \in Clients \ {c} : phase'[d] = phase[d]
  BY <1>p DEF StepsOK
<1>w. ASSUME NEW v, work' = [work EXCEPT ![c][t] = v]
      PROVE  \A d \in Clients \ {c} : work'[d] = work[d]
  BY <1>w DEF StepsOK
<1>u. ASSUME \A d \in Clients \ {c} : phase'[d] = phase[d] /\ work'[d] = work[d] /\ closable'[d] = closable[d],
             UNCHANGED <<state, awaiting, online, doubled>>
      PROVE  Alone(c)
  BY <1>u DEF Alone
<1>1. CASE Abandon(c, t)
  BY <1>1, <1>p, <1>u, UntouchedTouches DEF Abandon
<1>2. CASE HandleChecksumRequest(c, t)
  BY <1>2, <1>p, <1>w, <1>u, UntouchedTouches DEF HandleChecksumRequest
<1>3. CASE FileTooLarge(c, t)
  BY <1>3, <1>p, <1>u, GiveUpTouches DEF FileTooLarge
<1>4. CASE ChecksumsDone(c, t)
  <2>1. /\ UNCHANGED <<lockVars, asker, closable, histories>>
        /\ \A d \in Clients \ {c} : work'[d] = work[d]
    BY <1>4, <1>w DEF ChecksumsDone
  <2>2. CASE Send(c, t, "diffing") /\ UNCHANGED <<object, line, after, state, awaiting, lock, online, fault>>
    <3>1. "diffing" \in Phases
      BY DEF Phases
    <3>. QED
      BY <2>1, <2>2, <3>1, SendAlone, UntouchedTouches
  <2>3. CASE Misses(c, object, lock)
    <3>1. /\ object \in [Calls -> Objects] /\ lock \in [Clients -> Calls \cup {None}]
          /\ Ready(c, object, lock)
      BY DEF CallsOK, Ready
    <3>. QED
      BY <2>1, <2>3, <3>1, CloseTouches, CloseHereAlone DEF Misses, CloseHere
  <2>. QED
    BY <1>4, <2>2, <2>3 DEF ChecksumsDone
<1>5. CASE ChecksumsFail(c, t) \/ PatchFail(c, t)
  BY <1>5, <1>w, <1>u, GiveUpTouches DEF ChecksumsFail, PatchFail
<1>6. CASE HandleDiffResponse(c, t) \/ HandleRenameOrDelRequest(c, t)
  <2>1. PICK from, to : StartPatch(c, t, from, to)
    BY <1>6 DEF HandleDiffResponse, HandleRenameOrDelRequest
  <2>2. \A d \in Clients \ {c} : closable'[d] = closable[d]
    BY <2>1 DEF StartPatch, FlagsOK
  <2>. QED
    BY <2>1, <2>2, <1>p, <1>w, <1>u, UntouchedTouches DEF StartPatch
<1>7. CASE HandleSpoiledDiff(c, t)
  <2>2. \A d \in Clients \ {c} : closable'[d] = closable[d]
    BY <1>7 DEF HandleSpoiledDiff, FlagsOK
  <2>. QED
    BY <1>7, <2>2, <1>p, <1>u, UntouchedTouches DEF HandleSpoiledDiff
<1>8. CASE PatchDone(c, t)
  <2>1. /\ UNCHANGED <<lockVars, asker, histories>>
        /\ \A d \in Clients \ {c} : work'[d] = work[d]
    BY <1>8, <1>w DEF PatchDone
  <2>2. \A d \in Clients \ {c} : closable'[d] = closable[d]
    BY <1>8 DEF PatchDone, FlagsOK
  <2>3. CASE UNCHANGED <<object, line, after>> /\ Finish(c)
    BY <2>1, <2>2, <2>3, FinishAlone, UntouchedTouches DEF Finish
  <2>4. CASE UNCHANGED <<object, line, after, lock, browserVars, state, awaiting>>
    BY <2>1, <2>2, <2>4, <1>u, UntouchedTouches
  <2>5. CASE /\ Releasable(lock[c]) /\ StartRelease(lock[c], "end", t)
             /\ UNCHANGED <<state, awaiting, lock, browserVars>>
    BY <2>1, <2>2, <2>5, <1>u, StartReleaseTouches
  <2>. QED
    BY <1>8, <2>3, <2>4, <2>5 DEF PatchDone
<1>. QED
  BY <1>1, <1>2, <1>3, <1>4, <1>5, <1>6, <1>7, <1>8 DEF TalkStep

\* The ends of a connection.
LEMMA DoorIsApart ==
  ASSUME FlagsOK, CallsOK, StepsOK, OutcomeInv, OwnerInv,
         NEW c \in Clients, HangUp(c) \/ Shutdown(c)
  PROVE  Touches(c) /\ Alone(c)
<1>. USE DEF lockVars, histories
<1>1. /\ object \in [Calls -> Objects] /\ lock \in [Clients -> Calls \cup {None}]
      /\ Ready(c, object, lock)
  BY DEF CallsOK, Ready
<1>2. UNCHANGED <<lockVars, asker, closable, work, histories>> /\ Close(c, object, lock)
  BY DEF HangUp, Shutdown, CloseHere
<1>3. Touches(c)
  BY <1>1, <1>2, CloseTouches
<1>4. CASE HangUp(c)
  <2>1. \A d \in Clients \ {c} : phase'[d] = phase[d]
    BY <1>4 DEF HangUp, StepsOK
  <2>2. \A d \in Clients \ {c} : online'[d] = online[d]
    BY <1>4 DEF HangUp, FlagsOK
  <2>. QED
    BY <1>2, <1>3, <2>1, <2>2, CloseAlone DEF Alone
<1>5. CASE Shutdown(c)
  BY <1>2, <1>3, <1>5, CloseHereAlone DEF Shutdown
<1>. QED
  BY <1>4, <1>5

\* A browser's request, and what the lock service does with a call.
LEMMA RequestIsApart ==
  ASSUME FlagsOK, CallsOK, StepsOK, OutcomeInv, NEW c \in Clients, NEW t \in Talks,
         NEW r \in Calls, NEW p \in Paths, HandleSyncInitRequest(c, t, r, p)
  PROVE  Apart(c) /\ Alone(c)
<1>. USE DEF lockVars, closeVars, HandleSyncInitRequest
<1>1. Apart(c)
  BY SessionAssumption
  DEF SessionAssumption, Lock!Ask, Lock!Become, CallsOK, OutcomeInv, Apart
<1>2. \A d \in Clients \ {c} : phase'[d] = phase[d]
  BY DEF StepsOK
<1>. QED
  BY <1>1, <1>2 DEF Alone

LEMMA ServiceIsApart ==
  ASSUME CallsOK, NEW r \in Calls, LockDecides(r) \/ LockFreed(r)
  PROVE  asker[r] \in Clients /\ Apart(asker[r]) /\ Alone(asker[r])
<1>. USE DEF objectVars, closeVars, browserVars, histories
<1>1. outcome[r] \in {"asked", "granted"}
  BY DEF LockDecides, LockFreed, Lock!Grant, Lock!BreakIn, Lock!Deny, Lock!Fail, Lock!GiveBack
<1>2. asker[r] \in Clients
  BY <1>1 DEF CallsOK
<1>3. \A q \in Calls : q # r => outcome'[q] = outcome[q]
  BY DEF LockDecides, LockFreed, Lock!Grant, Lock!BreakIn, Lock!Deny, Lock!Fail,
     Lock!GiveBack, Lock!Become, CallsOK
<1>4. UNCHANGED <<objectVars, closeVars, lock, work, browserVars, histories>>
  BY DEF LockDecides, LockFreed
<1>. QED
  BY <1>2, <1>3, <1>4 DEF Apart, Alone

\* The kinds of steps.
LEMMA NextKinds ==
  ASSUME [Next]_vars
  PROVE  \/ \E c \in Clients, t \in Talks, r \in Calls, p \in Paths :
              HandleSyncInitRequest(c, t, r, p)
         \/ \E r \in Calls : LockDecides(r) \/ LockFreed(r)
         \/ \E r \in Calls : LockGranted(r) \/ LockRefused(r) \/ Released(r)
         \/ \E c \in Clients, t \in Talks : TalkStep(c, t)
         \/ \E c \in Clients : HangUp(c) \/ Shutdown(c)
         \/ UNCHANGED vars
BY DEF Next, TalkStep

-----------------------------------------------------------------------------
(* Calls, lock objects and their owners.                                   *)

LEMMA InitSafe == Init => SafeInv
<1>1. Init => OutcomeInv /\ OwnerInv /\ ExclusionInv
  BY SessionAssumption
  DEF SessionAssumption, Init, OutcomeInv, OwnerInv, ExclusionInv, Lock!Init
<1>2. Init => GoneInv
  BY DEF Init, GoneInv
<1>. QED
  BY <1>1, <1>2 DEF SafeInv

\* A step that makes no call and decides none.
LEMMA TouchesSafe ==
  ASSUME OutcomeInv, OwnerInv, ExclusionInv, NEW c \in Clients, Touches(c)
  PROVE  OutcomeInv' /\ OwnerInv' /\ ExclusionInv'
<1>1. OutcomeInv'
  BY DEF OutcomeInv, Touches, Ready, lockVars
<1>2. OwnerInv'
  <2>. SUFFICES ASSUME NEW d \in Clients, NEW r \in Calls, lock'[d] = r
                PROVE  asker'[r] = d /\ object'[r] # "none" /\ outcome'[r] # "none"
    BY DEF OwnerInv
  <2>1. asker'[r] = asker[r] /\ outcome'[r] = outcome[r]
    BY DEF Touches, lockVars
  <2>2. object'[r] = object[r] \/ object'[r] # "none"
    BY DEF Touches, Ready
  <2>3. lock[d] = r \/ (d = c /\ asker[r] = c /\ outcome[r] # "none" /\ object'[r] # "none")
    BY SessionAssumption DEF Touches, Ready, SessionAssumption
  <2>. QED
    BY <2>1, <2>2, <2>3 DEF OwnerInv
<1>3. ExclusionInv'
  BY DEF ExclusionInv, Touches, lockVars
<1>. QED
  BY <1>1, <1>2, <1>3

\* Every step keeps what is known of the calls: a grant comes only with the
\* path free or broken.
LEMMA StepOwners ==
  ASSUME FlagsOK, CallsOK, StepsOK, OutcomeInv, OwnerInv, ExclusionInv, [Next]_vars
  PROVE  OutcomeInv' /\ OwnerInv' /\ ExclusionInv'
<1>. USE DEF lockVars, objectVars
<1>1. ASSUME NEW c \in Clients, NEW t \in Talks, NEW r \in Calls, NEW p \in Paths,
             HandleSyncInitRequest(c, t, r, p)
      PROVE  OutcomeInv' /\ OwnerInv' /\ ExclusionInv'
  BY <1>1, SessionAssumption
  DEF SessionAssumption, HandleSyncInitRequest, Lock!Ask, Lock!Become, CallsOK, OutcomeInv,
      OwnerInv, ExclusionInv
<1>2. ASSUME NEW r \in Calls, LockDecides(r) \/ LockFreed(r)
      PROVE  OutcomeInv' /\ OwnerInv' /\ ExclusionInv'
  <2>. UNCHANGED <<objectVars, lock>>
    BY <1>2 DEF LockDecides, LockFreed
  <2>. USE DEF CallsOK, OutcomeInv, OwnerInv, ExclusionInv, Lock!Granted
  <2>1. CASE Lock!Grant(r)
    BY <2>1 DEF Lock!Grant, Lock!Become
  <2>2. CASE Lock!BreakIn(r)
    BY <2>2 DEF Lock!BreakIn, Lock!Become
  <2>3. CASE Lock!Deny({r})
    BY <2>3 DEF Lock!Deny
  <2>4. CASE Lock!Fail(r)
    BY <2>4 DEF Lock!Fail, Lock!Become
  <2>5. CASE LockFreed(r)
    BY <2>5 DEF LockFreed, Lock!GiveBack, Lock!Become
  <2>. QED
    BY <1>2, <2>1, <2>2, <2>3, <2>4, <2>5 DEF LockDecides
<1>3. CASE UNCHANGED vars
  BY <1>3 DEF vars, OutcomeInv, OwnerInv, ExclusionInv
<1>. QED
  BY <1>1, <1>2, <1>3, NextKinds, TouchesSafe, CallbackIsApart, TalkStepIsApart, DoorIsApart

\* GoneInv of one client.
GoneOf(c) ==
  /\ \A t \in Talks : phase[c][t] = "gone" <=> ~online[c]
  /\ state[c] = "LISTENING" => online[c]

LEMMA AloneGone ==
  ASSUME GoneInv, NEW c \in Clients, Alone(c), GoneOf(c)'
  PROVE  GoneInv'
BY DEF GoneInv, GoneOf, Alone

LEMMA FinishGone ==
  ASSUME FlagsOK, StepsOK, NEW c \in Clients, Finish(c)
  PROVE  GoneOf(c)'
<1>1. state'[c] = "CLOSED" /\ ~online'[c]
  BY DEF Finish, FlagsOK, StepsOK
<1>. QED
  BY <1>1, FinishPhase DEF GoneOf

LEMMA CloseState ==
  ASSUME StepsOK, NEW c \in Clients, NEW objs, NEW locks, Close(c, objs, locks)
  PROVE  state'[c] \in {"CLOSING", "CLOSED"}
BY DEF StepsOK, Close

LEMMA CloseHereGone ==
  ASSUME FlagsOK, StepsOK, NEW c \in Clients, GoneOf(c), online[c],
         NEW objs, NEW locks, CloseHere(c, objs, locks)
  PROVE  GoneOf(c)'
BY CloseState, CloseHereOnline, CloseHerePhase DEF CloseHere, GoneOf

LEMMA SendGone ==
  ASSUME StepsOK, NEW c \in Clients, NEW t \in Talks, NEW v \in Phases \ {"gone"}, Send(c, t, v),
         GoneOf(c), UNCHANGED <<state, online>>
  PROVE  GoneOf(c)'
BY SendType DEF GoneOf

LEMMA MoveGone ==
  ASSUME StepsOK, NEW c \in Clients, NEW t \in Talks, NEW v \in Phases \ {"gone"},
         phase' = [phase EXCEPT ![c][t] = v], phase[c][t] # "gone",
         GoneOf(c), UNCHANGED <<state, online>>
  PROVE  GoneOf(c)'
<1>1. phase \in [Clients -> [Talks -> Phases]]
  BY DEF StepsOK
<1>2. phase'[c][t] = v /\ \A u \in Talks \ {t} : phase'[c][u] = phase[c][u]
  BY <1>1, UpdateTalk
<1>. QED
  BY <1>2 DEF GoneOf

\* Every step keeps GoneInv.
LEMMA StepGone ==
  ASSUME FlagsOK, CallsOK, StepsOK, OutcomeInv, OwnerInv, GoneInv, [Next]_vars
  PROVE  GoneInv'
<1>. USE DEF closeVars, browserVars, objectVars
<1>g. \A c \in Clients : GoneOf(c)
  BY DEF GoneInv, GoneOf
<1>v. {"idle", "asking", "granted", "summing", "diffing", "patching", "renaming", "stuck"}
        \subseteq Phases \ {"gone"}
  BY DEF Phases
<1>s. ASSUME NEW c \in Clients, UNCHANGED <<state, online, phase>>
      PROVE  GoneOf(c)'
  BY <1>s, <1>g DEF GoneOf
<1>1. ASSUME NEW c \in Clients, NEW t \in Talks, NEW r \in Calls, NEW p \in Paths,
             HandleSyncInitRequest(c, t, r, p)
      PROVE  GoneOf(c)'
  BY <1>1, <1>g, <1>v, MoveGone DEF HandleSyncInitRequest
<1>2. ASSUME NEW r \in Calls, LockDecides(r) \/ LockFreed(r)
      PROVE  GoneInv'
  BY <1>2 DEF LockDecides, LockFreed, GoneInv
<1>3. ASSUME NEW r \in Calls, LockGranted(r) \/ LockRefused(r) \/ Released(r),
             NEW c \in Clients, c = asker[r]
      PROVE  GoneOf(c)'
  <2>1. line[r] \in Talks
    BY DEF CallsOK
  <2>2. ASSUME NEW objs, NEW locks, Misses(c, objs, locks)
        PROVE  GoneOf(c)'
    BY <2>2, <1>g, CloseHereGone DEF Misses
  <2>3. ASSUME NEW v \in {"granted", "idle", "stuck"}, Send(c, line[r], v),
               UNCHANGED <<state, online>>
        PROVE  GoneOf(c)'
    <3>1. v \in Phases \ {"gone"}
      BY <1>v
    <3>. QED
      BY <2>1, <2>3, <3>1, <1>g, SendGone
  <2>4. CASE LockGranted(r) \/ LockRefused(r)
    BY <1>3, <2>4, <2>2, <2>3 DEF LockGranted, LockRefused
  <2>5. CASE Released(r)
    <3>1. CASE Finish(c)
      BY <3>1, FinishGone
    <3>2. CASE UNCHANGED <<closeVars, lock, browserVars>>
      BY <2>1, <3>2, <1>s
    <3>3. CASE /\ \E v \in {"stuck", "idle"} : Send(c, line[r], v)
               /\ UNCHANGED <<state, awaiting, online, fault>>
      BY <2>3, <3>3
    <3>. QED
      BY <1>3, <2>2, <2>5, <3>1, <3>2, <3>3, ReleasedKinds
  <2>. QED
    BY <1>3, <2>4, <2>5
<1>4. ASSUME NEW c \in Clients, NEW t \in Talks, TalkStep(c, t)
      PROVE  GoneOf(c)'
  <2>1. CASE \/ Abandon(c, t) \/ HandleChecksumRequest(c, t) \/ FileTooLarge(c, t)
             \/ HandleSpoiledDiff(c, t)
    BY <2>1, <1>g, <1>v, MoveGone
    DEF Abandon, HandleChecksumRequest, FileTooLarge, HandleSpoiledDiff
  <2>2. CASE HandleDiffResponse(c, t) \/ HandleRenameOrDelRequest(c, t)
    <3>1. PICK from \in {"diffing", "granted"}, to \in {"patching", "renaming"} : StartPatch(c, t, from, to)
      BY <2>2 DEF HandleDiffResponse, HandleRenameOrDelRequest
    <3>. QED
      BY <3>1, <1>g, <1>v, MoveGone DEF StartPatch
  <2>3. CASE ChecksumsDone(c, t)
    BY <2>3, <1>g, <1>v, SendGone, CloseHereGone DEF ChecksumsDone, Misses
  <2>4. CASE ChecksumsFail(c, t) \/ PatchFail(c, t)
    BY <2>4, <1>s DEF ChecksumsFail, PatchFail
  <2>5. CASE PatchDone(c, t)
    BY <2>5, <1>s, FinishGone DEF PatchDone
  <2>. QED
    BY <1>4, <2>1, <2>2, <2>3, <2>4, <2>5 DEF TalkStep
<1>5. ASSUME NEW c \in Clients, HangUp(c) \/ Shutdown(c)
      PROVE  GoneOf(c)'
  <2>1. CASE HangUp(c)
    <3>1. (\A t \in Talks : phase'[c][t] = "gone") /\ ~online'[c]
      BY <2>1, GoneType DEF HangUp, StepsOK, FlagsOK
    <3>. QED
      BY <2>1, <3>1, CloseState DEF HangUp, GoneOf
  <2>2. CASE Shutdown(c)
    BY <2>2, <1>g, CloseHereGone DEF Shutdown, GoneOf
  <2>. QED
    BY <1>5, <2>1, <2>2
<1>6. CASE UNCHANGED vars
  BY <1>6 DEF vars, GoneInv
<1>7. ASSUME NEW c \in Clients, NEW t \in Talks, NEW r \in Calls, NEW p \in Paths,
             HandleSyncInitRequest(c, t, r, p)
      PROVE  GoneInv'
  BY <1>7, <1>1, AloneGone, RequestIsApart
<1>8. ASSUME NEW r \in Calls, LockGranted(r) \/ LockRefused(r) \/ Released(r)
      PROVE  GoneInv'
  <2>1. PICK c \in Clients : c = asker[r]
    BY <1>8, CallbackIsApart
  <2>2. Alone(c)
    BY <1>8, <2>1, CallbackIsApart
  <2>. QED
    BY <1>8, <2>1, <2>2, <1>3, AloneGone
<1>9. ASSUME NEW c \in Clients, NEW t \in Talks, TalkStep(c, t)
      PROVE  GoneInv'
  BY <1>9, <1>4, AloneGone, TalkStepIsApart
<1>10. ASSUME NEW c \in Clients, HangUp(c) \/ Shutdown(c)
       PROVE  GoneInv'
  BY <1>10, <1>5, AloneGone, DoorIsApart
<1>. QED
  BY <1>2, <1>6, <1>7, <1>8, <1>9, <1>10, NextKinds

-----------------------------------------------------------------------------
(* A session, by the steps of its own client.                              *)

\* The steps of another client leave a session as it is.
LEMMA OthersKeep ==
  ASSUME CallsOK, OwnerInv, NEW c \in Clients, NEW d \in Clients \ {c},
         Apart(c), Alone(c), OneTalk(d), Session(d)
  PROVE  OneTalk(d)' /\ Session(d)'
<1>1. /\ state'[d] = state[d] /\ closable'[d] = closable[d] /\ awaiting'[d] = awaiting[d]
      /\ work'[d] = work[d] /\ online'[d] = online[d] /\ phase'[d] = phase[d]
      /\ lock'[d] = lock[d]
  BY DEF Alone, Apart
<1>2. \A r \in Calls : asker'[r] = d \/ asker[r] = d =>
        /\ asker'[r] = asker[r] /\ outcome'[r] = outcome[r]
        /\ object'[r] = object[r] /\ after'[r] = after[r] /\ line'[r] = line[r]
  BY DEF Apart
<1>3. OneTalk(d)'
  BY <1>1, <1>2 DEF OneTalk
<1>4. ASSUME lock[d] # None
      PROVE  lock[d] \in Calls /\ object'[lock[d]] = object[lock[d]] /\ after'[lock[d]] = after[lock[d]]
  BY <1>2, <1>4 DEF CallsOK, OwnerInv
<1>5. Releasable(lock[d]) => Releasable(lock[d])'
  BY <1>1, <1>4 DEF Releasable
<1>6. Giving(d) => Giving(d)' /\ after'[lock'[d]] = after[lock[d]]
  BY <1>1, <1>4 DEF Giving
<1>7. /\ NoneUnanswered(d) => NoneUnanswered(d)'
      /\ NoneGiven(d) => NoneGiven(d)'
      /\ GivesOnlyItsLock(d) => GivesOnlyItsLock(d)'
      /\ (\A q, r \in Calls :
             asker[q] = d /\ asker[r] = d /\ Unanswered(q) /\ Unanswered(r) => q = r)
         => (\A q, r \in Calls :
             asker'[q] = d /\ asker'[r] = d /\ Unanswered(q)' /\ Unanswered(r)' => q = r)
  BY <1>1, <1>2 DEF NoneUnanswered, NoneGiven, GivesOnlyItsLock, Unanswered
<1>8. Serving(d) => Serving(d)'
  BY <1>1, <1>5, <1>6, <1>7 DEF Serving
<1>9. Draining(d) => Draining(d)'
  BY <1>1, <1>5, <1>6, <1>7 DEF Draining
<1>10. Overrun(d) => Overrun(d)'
  BY <1>1, <1>2, <1>7 DEF Overrun, Overtaken, Muted
<1>. QED
  BY <1>3, <1>8, <1>9, <1>10 DEF Session

\* A talk that does something is Main.
LEMMA MainTalk ==
  ASSUME NEW c \in Clients, OneTalk(c), NEW t \in Talks,
         work[c][t] # "none" \/ phase[c][t] \notin {"idle", "gone"}
  PROVE  t = Main
BY DEF OneTalk

\* OneTalk, by the steps of its client.
LEMMA OneTalkKept ==
  ASSUME NEW c \in Clients, OneTalk(c),
         \A t \in Talks \ {Main} : work'[c][t] \in {"none", work[c][t]}
                                   /\ phase'[c][t] \in {"gone", phase[c][t]},
         \A r \in Calls : asker'[r] = c => line'[r] = Main \/ (asker[r] = c /\ line'[r] = line[r])
  PROVE  OneTalk(c)'
BY DEF OneTalk

LEMMA SummaryOfServing ==
  ASSUME NEW c \in Clients, Serving(c)
  PROVE  /\ state[c] = "LISTENING" /\ ~awaiting[c]
         /\ \A r \in Calls : asker[r] = c /\ object[r] = "releasing" => lock[c] = r
         /\ work[c][Main] = "checksums" => phase[c][Main] = "summing"
         /\ work[c][Main] = "patch" => ~closable[c]
         /\ work[c][Main] # "none" => Releasable(lock[c]) /\ NoneUnanswered(c)
         /\ phase[c][Main] \in {"granted", "diffing"} =>
              /\ closable[c] /\ work[c][Main] = "none"
              /\ NoneUnanswered(c) /\ Releasable(lock[c])
         /\ phase[c][Main] \in {"idle", "stuck"} =>
              /\ closable[c] /\ work[c][Main] = "none"
              /\ NoneUnanswered(c) /\ NoneGiven(c)
         /\ phase[c][Main] # "asking" => NoneUnanswered(c)
         /\ ~closable[c] => phase[c][Main] \in {"patching", "renaming"}
BY DEF Serving, GivesOnlyItsLock

\* What is known of a client before a step that does not end the process.
Known(c) ==
  /\ FlagsOK /\ CallsOK /\ StepsOK /\ OutcomeInv /\ OwnerInv /\ GoneInv
  /\ OneTalk(c) /\ Session(c)

LEMMA OnlineKnown ==
  ASSUME NEW c \in Clients, Known(c)
  PROVE  /\ state[c] = "LISTENING" => online[c]
         /\ phase[c][Main] = "gone" <=> ~online[c]
BY SessionAssumption DEF Known, GoneInv, SessionAssumption

\* An overtaken session stays one.
LEMMA OverrunStays ==
  ASSUME NEW c \in Clients, Overrun(c), state'[c] = state[c], awaiting'[c] = awaiting[c],
         c \in MayShutdown \/ (phase'[c][Main] = "gone" /\ work'[c][Main] # "patch")
  PROVE  Session(c)'
BY DEF Session, Overrun, Overtaken

LEMMA ActiveOverrun ==
  ASSUME NEW c \in Clients, Overrun(c),
         phase[c][Main] \in {"idle", "granted", "diffing"} \/ work[c][Main] = "patch"
  PROVE  c \in MayShutdown
BY DEF Overrun, Muted, Waiting

\* What an update of Main shows.
LEMMA MainPhase ==
  ASSUME StepsOK, NEW c \in Clients, NEW v, phase' = [phase EXCEPT ![c][Main] = v]
  PROVE  phase'[c][Main] = v /\ \A t \in Talks \ {Main} : phase'[c][t] = phase[c][t]
BY SessionAssumption DEF StepsOK, SessionAssumption

LEMMA MainWork ==
  ASSUME StepsOK, NEW c \in Clients, NEW v, work' = [work EXCEPT ![c][Main] = v]
  PROVE  work'[c][Main] = v /\ \A t \in Talks \ {Main} : work'[c][t] = work[c][t]
BY SessionAssumption DEF StepsOK, SessionAssumption

LEMMA MainSend ==
  ASSUME StepsOK, NEW c \in Clients, NEW v \in Phases, Send(c, Main, v)
  PROVE  /\ phase'[c][Main] = (IF online[c] THEN v ELSE phase[c][Main])
         /\ \A t \in Talks \ {Main} : phase'[c][t] = phase[c][t]
BY SendType, SessionAssumption DEF SessionAssumption

LEMMA LiveIsHeld ==
  ASSUME NEW c \in Clients, Releasable(lock[c])
  PROVE  EnsureLock(c)
BY DEF Releasable, EnsureLock, Held

LEMMA NothingGiven ==
  ASSUME NEW c \in Clients, GivesOnlyItsLock(c), Releasable(lock[c])
  PROVE  NoneGiven(c)
BY DEF GivesOnlyItsLock, Releasable, NoneGiven

\* Calls and lock objects that stay as they are.
LEMMA SameCalls ==
  ASSUME NEW c \in Clients, UNCHANGED <<outcome, asker, object, lock, after>>
  PROVE  /\ NoneUnanswered(c)' <=> NoneUnanswered(c)
         /\ NoneGiven(c)' <=> NoneGiven(c)
         /\ GivesOnlyItsLock(c)' <=> GivesOnlyItsLock(c)
         /\ Releasable(lock[c])' <=> Releasable(lock[c])
         /\ Giving(c)' <=> Giving(c)
BY DEF NoneUnanswered, NoneGiven, GivesOnlyItsLock, Releasable, Giving, Unanswered

\* The client's lock begins to be given back.
LEMMA LockGiven ==
  ASSUME CallsOK, NEW c \in Clients, NEW then, NEW t,
         GivesOnlyItsLock(c), Releasable(lock[c]), StartRelease(lock[c], then, t),
         UNCHANGED <<outcome, asker, lock>>
  PROVE  /\ NoneUnanswered(c) => NoneUnanswered(c)'
         /\ GivesOnlyItsLock(c)'
         /\ Giving(c)'
         /\ after'[lock'[c]] = then
<1>. DEFINE l == lock[c]
<1>1. l \in Calls /\ l # None /\ object[l] = "live"
  BY LockIsCall DEF Releasable
<1>2. lock'[c] = l
  OBVIOUS
<1>. HIDE DEF l
<1>3. /\ object' = [object EXCEPT ![l] = "releasing"]
      /\ after' = [after EXCEPT ![l] = then]
  BY DEF StartRelease, l
<1>4. \A r \in Calls : asker[r] = c => object[r] # "releasing"
  BY NothingGiven DEF NoneGiven
<1>5. object'[l] = "releasing" /\ after'[l] = then /\ \A r \in Calls : r # l => object'[r] = object[r]
  BY <1>1, <1>3 DEF CallsOK
<1>6. NoneUnanswered(c) => NoneUnanswered(c)'
  BY <1>5 DEF NoneUnanswered, Unanswered
<1>7. GivesOnlyItsLock(c)' /\ Giving(c)'
  BY <1>1, <1>2, <1>4, <1>5 DEF GivesOnlyItsLock, Giving
<1>. QED
  BY <1>2, <1>5, <1>6, <1>7

LEMMA OwnAbandon ==
  ASSUME NEW c \in Clients, Known(c), Abandon(c, Main), ~fault'
  PROVE  Session(c)'
<1>. USE DEF Known, objectVars, closeVars, lockVars
<1>1. phase'[c][Main] = "idle" /\ phase[c][Main] \in {"granted", "diffing"}
  BY MainPhase DEF Abandon
<1>2. UNCHANGED <<outcome, asker, object, lock, after, state, closable, awaiting, work>>
  BY DEF Abandon
<1>3. CASE Serving(c)
  <2>1. /\ NoneUnanswered(c) /\ Releasable(lock[c]) /\ closable[c] /\ work[c][Main] = "none"
        /\ GivesOnlyItsLock(c) /\ state[c] = "LISTENING" /\ ~awaiting[c]
    BY <1>1, <1>3, SummaryOfServing DEF Serving
  <2>. QED
    BY <1>1, <1>2, <2>1, SameCalls, NothingGiven DEF Session, Serving
<1>4. CASE Overrun(c)
  BY <1>1, <1>2, <1>4, ActiveOverrun, OverrunStays
<1>. QED
  BY <1>1, <1>3, <1>4 DEF Session, Draining

LEMMA OwnChecksumRequest ==
  ASSUME NEW c \in Clients, Known(c), HandleChecksumRequest(c, Main), ~fault'
  PROVE  Session(c)'
<1>. USE DEF Known, objectVars, closeVars, lockVars
<1>1. phase'[c][Main] = "summing" /\ phase[c][Main] = "granted"
  BY MainPhase DEF HandleChecksumRequest
<1>2. UNCHANGED <<outcome, asker, object, lock, after, state, closable, awaiting>>
  BY DEF HandleChecksumRequest
<1>3. CASE Serving(c)
  <2>1. /\ NoneUnanswered(c) /\ Releasable(lock[c]) /\ closable[c]
        /\ GivesOnlyItsLock(c) /\ state[c] = "LISTENING" /\ ~awaiting[c]
    BY <1>1, <1>3, SummaryOfServing DEF Serving
  <2>2. work'[c][Main] = "checksums"
    BY <2>1, LiveIsHeld, MainWork DEF HandleChecksumRequest
  <2>. QED
    BY <1>1, <1>2, <2>1, <2>2, SameCalls DEF Session, Serving
<1>4. CASE Overrun(c)
  BY <1>1, <1>2, <1>4, ActiveOverrun, OverrunStays
<1>. QED
  BY <1>1, <1>3, <1>4 DEF Session, Draining

LEMMA OwnFileTooLarge ==
  ASSUME NEW c \in Clients, Known(c), FileTooLarge(c, Main), ~fault'
  PROVE  Session(c)'
<1>. USE DEF Known, closeVars, lockVars
<1>1. phase'[c][Main] = "summing" /\ phase[c][Main] = "granted"
  BY MainPhase DEF FileTooLarge
<1>2. UNCHANGED <<outcome, asker, lock, state, closable, awaiting, work>>
  BY DEF FileTooLarge
<1>3. CASE Serving(c)
  <2>1. /\ NoneUnanswered(c) /\ Releasable(lock[c]) /\ closable[c] /\ work[c][Main] = "none"
        /\ GivesOnlyItsLock(c) /\ state[c] = "LISTENING" /\ ~awaiting[c]
    BY <1>1, <1>3, SummaryOfServing DEF Serving
  <2>2. StartRelease(lock[c], "error", Main)
    BY <2>1 DEF FileTooLarge, GiveUp
  <2>3. NoneUnanswered(c)' /\ GivesOnlyItsLock(c)' /\ Giving(c)' /\ after'[lock'[c]] = "error"
    BY <1>2, <2>1, <2>2, LockGiven
  <2>. QED
    BY <1>1, <1>2, <2>1, <2>3 DEF Session, Serving
<1>4. CASE Overrun(c)
  BY <1>1, <1>2, <1>4, ActiveOverrun, OverrunStays
<1>. QED
  BY <1>1, <1>3, <1>4 DEF Session, Draining

LEMMA OwnStartPatch ==
  ASSUME NEW c \in Clients, Known(c), NEW from \in {"diffing", "granted"},
         NEW to \in {"patching", "renaming"}, StartPatch(c, Main, from, to), ~fault'
  PROVE  Session(c)'
<1>. USE DEF Known, objectVars, lockVars
<1>1. phase'[c][Main] = to /\ phase[c][Main] = from
  BY MainPhase DEF StartPatch
<1>2. UNCHANGED <<outcome, asker, object, lock, after, state, awaiting>>
  BY DEF StartPatch
<1>3. CASE Serving(c)
  <2>1. /\ NoneUnanswered(c) /\ Releasable(lock[c])
        /\ GivesOnlyItsLock(c) /\ state[c] = "LISTENING" /\ ~awaiting[c]
    BY <1>1, <1>3, SummaryOfServing DEF Serving
  <2>2. EnsureLock(c)
    BY <2>1, LiveIsHeld
  <2>3. work'[c][Main] = "patch"
    BY <2>2, MainWork DEF StartPatch
  <2>4. ~closable'[c]
    BY <2>2 DEF StartPatch, FlagsOK
  <2>. QED
    BY <1>1, <1>2, <2>1, <2>3, <2>4, SameCalls DEF Session, Serving
<1>4. CASE Overrun(c)
  BY <1>1, <1>2, <1>4, ActiveOverrun, OverrunStays
<1>. QED
  BY <1>1, <1>3, <1>4 DEF Session, Draining

LEMMA OwnSpoiledDiff ==
  ASSUME NEW c \in Clients, Known(c), HandleSpoiledDiff(c, Main), ~fault'
  PROVE  Session(c)'
<1>. USE DEF Known, objectVars, lockVars
<1>1. phase'[c][Main] = "patching" /\ phase[c][Main] = "diffing"
  BY MainPhase DEF HandleSpoiledDiff
<1>2. UNCHANGED <<outcome, asker, object, lock, after, state, awaiting, work>>
  BY DEF HandleSpoiledDiff
<1>3. CASE Serving(c)
  <2>1. /\ NoneUnanswered(c) /\ Releasable(lock[c]) /\ work[c][Main] = "none"
        /\ GivesOnlyItsLock(c) /\ state[c] = "LISTENING" /\ ~awaiting[c]
    BY <1>1, <1>3, SummaryOfServing DEF Serving
  <2>2. ~closable'[c]
    BY DEF HandleSpoiledDiff, FlagsOK, Throw
  <2>. QED
    BY <1>1, <1>2, <2>1, <2>2, SameCalls DEF Session, Serving
<1>4. CASE Overrun(c)
  BY <1>1, <1>2, <1>4, ActiveOverrun, OverrunStays
<1>. QED
  BY <1>1, <1>3, <1>4 DEF Session, Draining

LEMMA OwnChecksumsFail ==
  ASSUME NEW c \in Clients, Known(c), ChecksumsFail(c, Main), ~fault'
  PROVE  Session(c)'
<1>. USE DEF Known, closeVars, browserVars, lockVars
<1>1. work'[c][Main] = "none" /\ work[c][Main] = "checksums"
  BY MainWork DEF ChecksumsFail
<1>2. UNCHANGED <<outcome, asker, lock, state, closable, awaiting, phase>>
  BY DEF ChecksumsFail
<1>3. CASE Serving(c)
  <2>1. /\ NoneUnanswered(c) /\ Releasable(lock[c]) /\ phase[c][Main] = "summing" /\ closable[c]
        /\ GivesOnlyItsLock(c) /\ state[c] = "LISTENING" /\ ~awaiting[c]
    BY <1>1, <1>3, SummaryOfServing DEF Serving
  <2>2. StartRelease(lock[c], "error", Main)
    BY <2>1 DEF ChecksumsFail, GiveUp
  <2>3. NoneUnanswered(c)' /\ GivesOnlyItsLock(c)' /\ Giving(c)' /\ after'[lock'[c]] = "error"
    BY <1>2, <2>1, <2>2, LockGiven
  <2>. QED
    BY <1>1, <1>2, <2>1, <2>3 DEF Session, Serving
<1>4. CASE Overrun(c)
  BY <1>1, <1>2, <1>4, OverrunStays DEF Overrun, Muted
<1>. QED
  BY <1>1, <1>3, <1>4 DEF Session, Draining

LEMMA OwnPatchFail ==
  ASSUME NEW c \in Clients, Known(c), PatchFail(c, Main), ~fault'
  PROVE  Session(c)'
<1>. USE DEF Known, closeVars, browserVars, lockVars
<1>1. work'[c][Main] = "none" /\ work[c][Main] = "patch"
  BY MainWork DEF PatchFail
<1>2. UNCHANGED <<outcome, asker, lock, state, closable, awaiting, phase>>
  BY DEF PatchFail
<1>3. CASE Overrun(c)
  BY <1>1, <1>2, <1>3, ActiveOverrun, OverrunStays
<1>4. CASE Serving(c) \/ Draining(c)
  <2>1. /\ NoneUnanswered(c) /\ Releasable(lock[c]) /\ ~closable[c] /\ GivesOnlyItsLock(c)
    BY <1>1, <1>4, SummaryOfServing DEF Serving, Draining, Giving, Releasable
  <2>2. StartRelease(lock[c], "patch error", Main)
    BY <2>1 DEF PatchFail, GiveUp
  <2>3. /\ NoneUnanswered(c)' /\ GivesOnlyItsLock(c)' /\ Giving(c)'
        /\ after'[lock'[c]] = "patch error"
    BY <1>2, <2>1, <2>2, LockGiven
  <2>4. CASE Serving(c)
    <3>1. /\ phase[c][Main] \in {"patching", "renaming"}
          /\ state[c] = "LISTENING" /\ ~awaiting[c]
      BY <1>1, <2>4 DEF Serving
    <3>. QED
      BY <1>1, <1>2, <2>1, <2>3, <3>1 DEF Session, Serving
  <2>5. CASE Draining(c)
    BY <1>1, <1>2, <2>1, <2>3, <2>5 DEF Session, Draining
  <2>. QED
    BY <1>4, <2>4, <2>5
<1>. QED
  BY <1>3, <1>4 DEF Session

LEMMA OwnPatchDone ==
  ASSUME NEW c \in Clients, Known(c), PatchDone(c, Main), ~fault'
  PROVE  Session(c)'
<1>. USE DEF Known, closeVars, browserVars, lockVars
<1>1. work'[c][Main] = "none" /\ work[c][Main] = "patch"
  BY MainWork DEF PatchDone
<1>2. UNCHANGED <<outcome, asker>>
  BY DEF PatchDone
<1>3. CASE Overrun(c)
  <2>1. c \in MayShutdown /\ ~awaiting[c]
    BY <1>1, <1>3, ActiveOverrun DEF Overrun, Overtaken
  <2>2. UNCHANGED <<state, awaiting>>
    BY <2>1 DEF PatchDone, Throw
  <2>. QED
    BY <1>3, <2>1, <2>2, OverrunStays
<1>4. CASE Draining(c)
  <2>1. state[c] = "CLOSING" /\ awaiting[c] /\ Releasable(lock[c])
    BY <1>1, <1>4 DEF Draining
  <2>2. EnsureLock(c)
    BY <2>1, LiveIsHeld
  <2>. QED
    BY <2>1, <2>2 DEF PatchDone
<1>5. CASE Serving(c)
  <2>1. /\ NoneUnanswered(c) /\ Releasable(lock[c]) /\ phase[c][Main] \in {"patching", "renaming"}
        /\ GivesOnlyItsLock(c) /\ state[c] = "LISTENING" /\ ~awaiting[c]
    BY <1>1, <1>5, SummaryOfServing DEF Serving
  <2>2. EnsureLock(c)
    BY <2>1, LiveIsHeld
  <2>3. /\ StartRelease(lock[c], "end", Main)
        /\ closable' = [closable EXCEPT ![c] = TRUE]
        /\ UNCHANGED <<state, awaiting, lock, phase>>
    BY <2>1, <2>2 DEF PatchDone
  <2>4. NoneUnanswered(c)' /\ GivesOnlyItsLock(c)' /\ Giving(c)' /\ after'[lock'[c]] = "end"
    BY <1>2, <2>1, <2>3, LockGiven
  <2>5. closable'[c]
    BY <2>3 DEF FlagsOK
  <2>. QED
    BY <1>1, <2>1, <2>3, <2>4, <2>5 DEF Session, Serving
<1>. QED
  BY <1>3, <1>4, <1>5 DEF Session

-----------------------------------------------------------------------------
(* The same for the steps that may close the client.                       *)

\* What the browser sees of a failed send, with nothing else under way.
LEMMA OwnMiss ==
  ASSUME CallsOK, StepsOK, FlagsOK, NEW c \in Clients,
         NEW objs \in [Calls -> Objects], NEW locks \in [Clients -> Calls \cup {None}],
         state[c] = "LISTENING", ~awaiting[c], closable[c],
         phase[c][Main] \in Waiting, work'[c][Main] = "none",
         \A r \in Calls : asker[r] = c /\ outcome[r] # "none" => objs[r] # "none",
         \A r \in Calls : asker[r] = c => objs[r] # "releasing",
         UNCHANGED <<outcome, asker>>, CloseHere(c, objs, locks), ~fault'
  PROVE  Session(c)'
<1>1. Close(c, objs, locks)
  BY DEF CloseHere
<1>2. awaiting' = awaiting /\ state'[c] \in {"CLOSING", "CLOSED"}
  BY <1>1, CloseState DEF Close
<1>3. Overtaken(c)'
  BY <1>2 DEF Overtaken
<1>4. CASE state'[c] = "CLOSED"
  <2>1. phase'[c][Main] = "gone"
    BY <1>4, CloseHerePhase, SessionAssumption DEF SessionAssumption
  <2>. QED
    BY <1>3, <2>1 DEF Session, Overrun
<1>5. CASE state'[c] # "CLOSED"
  <2>1. phase'[c][Main] = phase[c][Main]
    BY <1>5, CloseHerePhase, SessionAssumption DEF SessionAssumption
  <2>2. /\ locks[c] \in Calls /\ objs[locks[c]] = "live"
        /\ object' = [objs EXCEPT ![locks[c]] = "releasing"]
        /\ after'  = [after EXCEPT ![locks[c]] = "close"]
    <3>1. ~(/\ state' = [state EXCEPT ![c] = "CLOSED"])
      BY <1>5 DEF StepsOK
    <3>2. Held(locks[c], objs)
      BY <1>1, <3>1 DEF Close, Throw
    <3>. QED
      BY <1>1, <3>1, <3>2 DEF Close, Throw, Held
  <2>. DEFINE l == locks[c]
  <2>3. l \in Calls
    BY <2>2
  <2>. HIDE DEF l
  <2>4. object' = [objs EXCEPT ![l] = "releasing"] /\ after' = [after EXCEPT ![l] = "close"]
    BY <2>2 DEF l
  <2>5. /\ object'[l] = "releasing" /\ after'[l] = "close"
        /\ \A r \in Calls : r # l => object'[r] = objs[r]
    BY <2>3, <2>4 DEF CallsOK
  <2>6. NoneUnanswered(c)'
    BY <2>5 DEF NoneUnanswered, Unanswered
  <2>7. \A r \in Calls : asker'[r] = c /\ object'[r] = "releasing" => after'[r] = "close"
    BY <2>5
  <2>8. Muted(c)'
    BY <2>1, <2>6, <2>7 DEF Muted
  <2>. QED
    BY <1>3, <2>8 DEF Session, Overrun
<1>. QED
  BY <1>4, <1>5

\* A close() of a client that is closing or closed throws or is not called.
LEMMA NoSecondClose ==
  ASSUME NEW c \in Clients, NEW objs, NEW locks, Close(c, objs, locks), ~fault'
  PROVE  state[c] = "LISTENING"
BY DEF Close, Throw

LEMMA NotServing ==
  ASSUME NEW c \in Clients, Session(c), state[c] # "LISTENING" \/ awaiting[c]
  PROVE  Draining(c) \/ Overrun(c)
BY DEF Session, Serving

LEMMA ListeningServes ==
  ASSUME NEW c \in Clients, Session(c), state[c] = "LISTENING"
  PROVE  Serving(c)
BY DEF Session, Draining, Overrun, Overtaken

LEMMA OwnChecksumsDone ==
  ASSUME NEW c \in Clients, Known(c), ChecksumsDone(c, Main), ~fault'
  PROVE  Session(c)'
<1>. USE DEF Known, lockVars
<1>1. work'[c][Main] = "none" /\ work[c][Main] = "checksums"
  BY MainWork DEF ChecksumsDone
<1>2. UNCHANGED <<outcome, asker, closable>>
  BY DEF ChecksumsDone
<1>3. CASE Misses(c, object, lock)
  <2>1. CloseHere(c, object, lock) /\ Serving(c)
    BY <1>3, NoSecondClose, ListeningServes DEF Misses, CloseHere
  <2>2. /\ NoneUnanswered(c) /\ Releasable(lock[c]) /\ phase[c][Main] = "summing" /\ closable[c]
        /\ GivesOnlyItsLock(c) /\ state[c] = "LISTENING" /\ ~awaiting[c]
    BY <1>1, <2>1, SummaryOfServing DEF Serving
  <2>3. NoneGiven(c)
    BY <2>2, NothingGiven
  <2>4. /\ \A r \in Calls : asker[r] = c /\ outcome[r] # "none" => object[r] # "none"
        /\ \A r \in Calls : asker[r] = c => object[r] # "releasing"
        /\ phase[c][Main] \in Waiting
    BY <2>2, <2>3 DEF NoneUnanswered, Unanswered, NoneGiven, Waiting
  <2>5. object \in [Calls -> Objects] /\ lock \in [Clients -> Calls \cup {None}]
    BY DEF CallsOK
  <2>. QED
    BY <1>1, <1>2, <2>1, <2>2, <2>4, <2>5, OwnMiss
<1>4. CASE Send(c, Main, "diffing") /\ UNCHANGED <<object, line, after, state, awaiting, lock, online, fault>>
  <2>1. phase'[c][Main] = IF online[c] THEN "diffing" ELSE phase[c][Main]
    BY <1>4, MainSend DEF Phases
  <2>2. CASE Serving(c)
    <3>1. /\ NoneUnanswered(c) /\ Releasable(lock[c]) /\ closable[c]
          /\ GivesOnlyItsLock(c) /\ state[c] = "LISTENING" /\ ~awaiting[c]
      BY <1>1, <2>2, SummaryOfServing DEF Serving
    <3>2. phase'[c][Main] = "diffing"
      BY <2>1, <3>1, OnlineKnown
    <3>. QED
      BY <1>1, <1>2, <1>4, <3>1, <3>2, SameCalls DEF Session, Serving
  <2>3. CASE Overrun(c)
    <3>1. c \in MayShutdown \/ phase[c][Main] = "gone"
      BY <1>1, <2>3 DEF Overrun, Muted
    <3>2. phase[c][Main] = "gone" => phase'[c][Main] = "gone"
      BY <2>1, OnlineKnown
    <3>. QED
      BY <1>1, <1>4, <2>3, <3>1, <3>2, OverrunStays
  <2>. QED
    BY <1>1, <2>2, <2>3 DEF Session, Draining
<1>. QED
  BY <1>3, <1>4 DEF ChecksumsDone

LEMMA OwnHangUp ==
  ASSUME NEW c \in Clients, Known(c), HangUp(c), ~fault'
  PROVE  Session(c)'
<1>. USE DEF Known, lockVars
<1>1. Close(c, object, lock) /\ UNCHANGED <<outcome, asker, closable, work>>
  BY DEF HangUp
<1>2. state[c] = "LISTENING" /\ Serving(c) /\ ~awaiting[c]
  BY <1>1, NoSecondClose, ListeningServes DEF Serving
<1>3. phase'[c][Main] = "gone"
  BY GoneType, SessionAssumption DEF HangUp, StepsOK, SessionAssumption
<1>4. CASE closable[c]
  <2>1. awaiting' = awaiting /\ state'[c] \in {"CLOSING", "CLOSED"}
    BY <1>1, <1>2, <1>4, CloseState DEF Close
  <2>2. work[c][Main] # "patch"
    BY <1>2, <1>4, SummaryOfServing
  <2>. QED
    BY <1>1, <1>2, <1>3, <2>1, <2>2 DEF Session, Overrun, Overtaken
<1>5. CASE ~closable[c]
  <2>1. /\ state' = [state EXCEPT ![c] = "CLOSING"]
        /\ awaiting' = [awaiting EXCEPT ![c] = TRUE]
        /\ UNCHANGED <<object, lock, line, after>>
    BY <1>1, <1>2, <1>5 DEF Close
  <2>2. state'[c] = "CLOSING" /\ awaiting'[c]
    BY <2>1 DEF StepsOK, FlagsOK
  <2>3. /\ NoneUnanswered(c) /\ GivesOnlyItsLock(c)
        /\ \/ work[c][Main] \in {"patch", "none"} /\ Releasable(lock[c])
           \/ work[c][Main] = "none" /\ Giving(c) /\ after[lock[c]] = "patch error"
    BY <1>2, <1>5 DEF Serving
  <2>. QED
    BY <1>1, <1>3, <1>5, <2>1, <2>2, <2>3, SameCalls DEF Session, Draining
<1>. QED
  BY <1>4, <1>5

LEMMA OwnShutdown ==
  ASSUME NEW c \in Clients, Known(c), Shutdown(c), ~fault'
  PROVE  Session(c)'
<1>. USE DEF Known, lockVars
<1>1. /\ Close(c, object, lock) /\ UNCHANGED <<outcome, asker, closable, work>>
      /\ c \in MayShutdown
  BY DEF Shutdown, CloseHere
<1>2. state[c] = "LISTENING" /\ Serving(c) /\ ~awaiting[c]
  BY <1>1, NoSecondClose, ListeningServes DEF Serving
<1>4. CASE closable[c]
  <2>1. awaiting' = awaiting /\ state'[c] \in {"CLOSING", "CLOSED"}
    BY <1>1, <1>2, <1>4, CloseState DEF Close
  <2>. QED
    BY <1>1, <1>2, <2>1 DEF Session, Overrun, Overtaken
<1>5. CASE ~closable[c]
  <2>1. /\ state' = [state EXCEPT ![c] = "CLOSING"]
        /\ awaiting' = [awaiting EXCEPT ![c] = TRUE]
        /\ UNCHANGED <<object, lock, line, after>>
    BY <1>1, <1>2, <1>5 DEF Close
  <2>2. state'[c] = "CLOSING" /\ awaiting'[c]
    BY <2>1 DEF StepsOK, FlagsOK
  <2>3. /\ NoneUnanswered(c) /\ GivesOnlyItsLock(c)
        /\ phase[c][Main] \in {"patching", "renaming"}
        /\ \/ work[c][Main] \in {"patch", "none"} /\ Releasable(lock[c])
           \/ work[c][Main] = "none" /\ Giving(c) /\ after[lock[c]] = "patch error"
    BY <1>2, <1>5 DEF Serving
  <2>4. phase'[c][Main] = phase[c][Main]
    BY <2>2, CloseHerePhase, SessionAssumption DEF Shutdown, SessionAssumption
  <2>. QED
    BY <1>1, <1>5, <2>1, <2>2, <2>3, <2>4, SameCalls DEF Session, Draining
<1>. QED
  BY <1>4, <1>5

LEMMA OwnRequest ==
  ASSUME NEW c \in Clients, Known(c), NEW r \in Calls, NEW p \in Paths,
         HandleSyncInitRequest(c, Main, r, p), ~fault'
  PROVE  Session(c)'
<1>. USE DEF Known, closeVars
<1>1. phase'[c][Main] = "asking" /\ phase[c][Main] = "idle"
  BY MainPhase DEF HandleSyncInitRequest
<1>2. UNCHANGED <<object, lock, after, state, closable, awaiting, work>>
  BY DEF HandleSyncInitRequest
<1>3. CASE Serving(c)
  <2>1. /\ NoneUnanswered(c) /\ NoneGiven(c) /\ closable[c] /\ work[c][Main] = "none"
        /\ state[c] = "LISTENING" /\ ~awaiting[c]
    BY <1>1, <1>3, SummaryOfServing DEF Serving
  <2>2. /\ outcome[r] = "none" /\ object[r] = "none"
        /\ \A q \in Calls : q # r => asker'[q] = asker[q] /\ outcome'[q] = outcome[q]
    BY DEF HandleSyncInitRequest, Lock!Ask, Lock!Become, OutcomeInv, CallsOK
  <2>3. \A q, s \in Calls :
           asker'[q] = c /\ asker'[s] = c /\ Unanswered(q)' /\ Unanswered(s)' => q = s
    BY <1>2, <2>1, <2>2 DEF NoneUnanswered, Unanswered
  <2>4. NoneGiven(c)' /\ GivesOnlyItsLock(c)'
    BY <1>2, <2>1, <2>2 DEF NoneGiven, GivesOnlyItsLock
  <2>. QED
    BY <1>1, <1>2, <2>1, <2>3, <2>4 DEF Session, Serving
<1>4. CASE Overrun(c)
  BY <1>1, <1>2, <1>4, ActiveOverrun, OverrunStays
<1>. QED
  BY <1>1, <1>3, <1>4 DEF Session, Draining

\* The lock service changes what a call has come to, not who waits for it.
LEMMA OwnService ==
  ASSUME NEW c \in Clients, Known(c), NEW r \in Calls, LockDecides(r) \/ LockFreed(r)
  PROVE  Session(c)'
<1>. USE DEF Known, objectVars, closeVars, browserVars
<1>1. UNCHANGED <<object, asker, lock, after, state, closable, awaiting, work, phase>>
  BY DEF LockDecides, LockFreed
<1>2. \A q \in Calls : outcome'[q] # "none" <=> outcome[q] # "none"
  BY DEF LockDecides, LockFreed, Lock!Grant, Lock!BreakIn, Lock!Deny, Lock!Fail,
     Lock!GiveBack, Lock!Become, CallsOK
<1>3. \A q \in Calls : Unanswered(q)' <=> Unanswered(q)
  BY <1>1, <1>2 DEF Unanswered
<1>4. /\ NoneUnanswered(c)' <=> NoneUnanswered(c)
      /\ NoneGiven(c)' <=> NoneGiven(c)
      /\ GivesOnlyItsLock(c)' <=> GivesOnlyItsLock(c)
      /\ Releasable(lock[c])' <=> Releasable(lock[c])
      /\ Giving(c)' <=> Giving(c)
  BY <1>1, <1>3 DEF NoneUnanswered, NoneGiven, GivesOnlyItsLock, Releasable, Giving
<1>5. Serving(c) => Serving(c)'
  BY <1>1, <1>3, <1>4 DEF Serving
<1>6. Draining(c) => Draining(c)'
  BY <1>1, <1>4 DEF Draining
<1>7. Overrun(c) => Overrun(c)'
  BY <1>1, <1>4 DEF Overrun, Overtaken, Muted
<1>. QED
  BY <1>5, <1>6, <1>7 DEF Session

\* A call that is answered is the one its browser waits for.
LEMMA AskingServes ==
  ASSUME NEW c \in Clients, Session(c), NEW r \in Calls, asker[r] = c, Unanswered(r)
  PROVE  /\ ~Draining(c)
         /\ Serving(c) =>
              /\ phase[c][Main] = "asking" /\ closable[c] /\ work[c][Main] = "none"
              /\ NoneGiven(c) /\ state[c] = "LISTENING" /\ ~awaiting[c]
              /\ \A q \in Calls : asker[q] = c /\ Unanswered(q) => q = r
         /\ Overrun(c) => c \in MayShutdown \/ (phase[c][Main] = "gone" /\ work[c][Main] # "patch")
BY DEF Session, Serving, Draining, Overrun, Muted, NoneUnanswered

LEMMA OwnGranted ==
  ASSUME NEW c \in Clients, Known(c), NEW r \in Calls, asker[r] = c, LockGranted(r), ~fault'
  PROVE  Session(c)'
<1>. USE DEF Known, lockVars
<1>. DEFINE objs  == [object EXCEPT ![r] = "live"]
            locks == [lock EXCEPT ![c] = r]
<1>1. /\ outcome[r] = "granted" /\ Unanswered(r) /\ line[r] = Main
      /\ UNCHANGED <<outcome, asker, closable, work>>
  BY DEF LockGranted, Unanswered, OneTalk
<1>2. /\ objs \in [Calls -> Objects] /\ objs[r] = "live"
      /\ \A q \in Calls : q # r => objs[q] = object[q]
  BY DEF CallsOK, Objects
<1>3. locks \in [Clients -> Calls \cup {None}] /\ locks[c] = r /\ r # None
  BY SessionAssumption DEF CallsOK, SessionAssumption
<1>. HIDE DEF objs, locks
<1>4. CASE Misses(c, objs, locks)
  <2>1. CloseHere(c, objs, locks) /\ Serving(c)
    BY <1>4, NoSecondClose, ListeningServes DEF Misses, CloseHere
  <2>2. /\ phase[c][Main] = "asking" /\ closable[c] /\ work'[c][Main] = "none"
        /\ NoneGiven(c) /\ state[c] = "LISTENING" /\ ~awaiting[c]
        /\ \A q \in Calls : asker[q] = c /\ Unanswered(q) => q = r
    BY <1>1, <2>1, AskingServes
  <2>3. /\ \A q \in Calls : asker[q] = c /\ outcome[q] # "none" => objs[q] # "none"
        /\ \A q \in Calls : asker[q] = c => objs[q] # "releasing"
        /\ phase[c][Main] \in Waiting
    BY <1>2, <2>2 DEF Unanswered, NoneGiven, Waiting
  <2>. QED
    BY <1>1, <1>2, <1>3, <2>1, <2>2, <2>3, OwnMiss
<1>5. CASE /\ object' = objs /\ lock' = locks
           /\ Send(c, line[r], "granted")
           /\ UNCHANGED <<line, after, state, awaiting, online, fault>>
  <2>1. phase'[c][Main] = IF online[c] THEN "granted" ELSE phase[c][Main]
    BY <1>1, <1>5, MainSend DEF Phases
  <2>2. CASE Serving(c)
    <3>1. /\ closable[c] /\ work[c][Main] = "none"
          /\ NoneGiven(c) /\ state[c] = "LISTENING" /\ ~awaiting[c]
          /\ \A q \in Calls : asker[q] = c /\ Unanswered(q) => q = r
      BY <1>1, <2>2, AskingServes
    <3>2. phase'[c][Main] = "granted"
      BY <2>1, <3>1, OnlineKnown
    <3>3. NoneUnanswered(c)'
      BY <1>1, <1>2, <1>5, <3>1 DEF NoneUnanswered, Unanswered
    <3>4. GivesOnlyItsLock(c)'
      BY <1>1, <1>2, <1>5, <3>1 DEF GivesOnlyItsLock, NoneGiven
    <3>5. Releasable(lock[c])'
      BY <1>2, <1>3, <1>5 DEF Releasable
    <3>. QED
      BY <1>1, <1>5, <3>1, <3>2, <3>3, <3>4, <3>5 DEF Session, Serving
  <2>3. CASE Overrun(c)
    <3>1. c \in MayShutdown \/ (phase[c][Main] = "gone" /\ work[c][Main] # "patch")
      BY <1>1, <2>3, AskingServes
    <3>2. phase[c][Main] = "gone" => phase'[c][Main] = "gone"
      BY <2>1, OnlineKnown
    <3>. QED
      BY <1>1, <1>5, <2>3, <3>1, <3>2, OverrunStays
  <2>. QED
    BY <1>1, <2>2, <2>3, AskingServes DEF Session
<1>. QED
  BY <1>4, <1>5 DEF LockGranted, objs, locks

LEMMA OwnRefused ==
  ASSUME NEW c \in Clients, Known(c), NEW r \in Calls, asker[r] = c, LockRefused(r), ~fault'
  PROVE  Session(c)'
<1>. USE DEF Known, lockVars
<1>. DEFINE objs == [object EXCEPT ![r] = "unlocked"]
<1>1. /\ Unanswered(r) /\ line[r] = Main
      /\ UNCHANGED <<outcome, asker, closable, work>>
  BY DEF LockRefused, Unanswered, OneTalk
<1>2. /\ objs \in [Calls -> Objects] /\ objs[r] = "unlocked"
      /\ \A q \in Calls : q # r => objs[q] = object[q]
  BY DEF CallsOK, Objects
<1>3. lock \in [Clients -> Calls \cup {None}]
  BY DEF CallsOK
<1>. HIDE DEF objs
<1>4. CASE Misses(c, objs, lock)
  <2>1. CloseHere(c, objs, lock) /\ Serving(c)
    BY <1>4, NoSecondClose, ListeningServes DEF Misses, CloseHere
  <2>2. /\ phase[c][Main] = "asking" /\ closable[c] /\ work'[c][Main] = "none"
        /\ NoneGiven(c) /\ state[c] = "LISTENING" /\ ~awaiting[c]
        /\ \A q \in Calls : asker[q] = c /\ Unanswered(q) => q = r
    BY <1>1, <2>1, AskingServes
  <2>3. /\ \A q \in Calls : asker[q] = c /\ outcome[q] # "none" => objs[q] # "none"
        /\ \A q \in Calls : asker[q] = c => objs[q] # "releasing"
        /\ phase[c][Main] \in Waiting
    BY <1>2, <2>2 DEF Unanswered, NoneGiven, Waiting
  <2>. QED
    BY <1>1, <1>2, <1>3, <2>1, <2>2, <2>3, OwnMiss
<1>5. CASE /\ object' = objs
           /\ Send(c, line[r], "idle")
           /\ UNCHANGED <<lock, line, after, state, awaiting, online, fault>>
  <2>1. phase'[c][Main] = IF online[c] THEN "idle" ELSE phase[c][Main]
    BY <1>1, <1>5, MainSend DEF Phases
  <2>2. CASE Serving(c)
    <3>1. /\ closable[c] /\ work[c][Main] = "none"
          /\ NoneGiven(c) /\ state[c] = "LISTENING" /\ ~awaiting[c]
          /\ \A q \in Calls : asker[q] = c /\ Unanswered(q) => q = r
      BY <1>1, <2>2, AskingServes
    <3>2. phase'[c][Main] = "idle"
      BY <2>1, <3>1, OnlineKnown
    <3>3. NoneUnanswered(c)'
      BY <1>1, <1>2, <1>5, <3>1 DEF NoneUnanswered, Unanswered
    <3>4. GivesOnlyItsLock(c)' /\ NoneGiven(c)'
      BY <1>1, <1>2, <1>5, <3>1 DEF GivesOnlyItsLock, NoneGiven
    <3>. QED
      BY <1>1, <1>5, <3>1, <3>2, <3>3, <3>4 DEF Session, Serving
  <2>3. CASE Overrun(c)
    <3>1. c \in MayShutdown \/ (phase[c][Main] = "gone" /\ work[c][Main] # "patch")
      BY <1>1, <2>3, AskingServes
    <3>2. phase[c][Main] = "gone" => phase'[c][Main] = "gone"
      BY <2>1, OnlineKnown
    <3>. QED
      BY <1>1, <1>5, <2>3, <3>1, <3>2, OverrunStays
  <2>. QED
    BY <1>1, <2>2, <2>3, AskingServes DEF Session
<1>. QED
  BY <1>4, <1>5 DEF LockRefused, objs

\* A release of a session that no close() has overtaken.
LEMMA ReleaseServes ==
  ASSUME NEW c \in Clients, Session(c), NEW r \in Calls, asker[r] = c, object[r] = "releasing"
  PROVE  /\ Serving(c) =>
              /\ lock[c] = r /\ work[c][Main] = "none" /\ NoneUnanswered(c)
              /\ phase[c][Main] \in Waiting /\ state[c] = "LISTENING" /\ ~awaiting[c]
              /\ closable[c] => after[r] \in {"end", "error"}
              /\ ~closable[c] => after[r] = "patch error"
         /\ Draining(c) =>
              /\ work[c][Main] = "none" /\ awaiting[c] /\ state[c] = "CLOSING"
              /\ after[r] = "patch error"
<1>1. CASE Serving(c)
  <2>1. lock[c] = r
    BY <1>1 DEF Serving, GivesOnlyItsLock
  <2>2. ~Releasable(lock[c]) /\ ~NoneGiven(c)
    BY <2>1 DEF Releasable, NoneGiven
  <2>3. ~Draining(c)
    BY <1>1 DEF Serving, Draining
  <2>. QED
    BY <1>1, <2>1, <2>2, <2>3 DEF Serving, Waiting
<1>2. CASE Draining(c)
  <2>1. lock[c] = r
    BY <1>2 DEF Draining, GivesOnlyItsLock
  <2>2. ~Releasable(lock[c])
    BY <2>1 DEF Releasable
  <2>3. ~Serving(c)
    BY <1>2 DEF Serving, Draining
  <2>. QED
    BY <1>2, <2>1, <2>2, <2>3 DEF Draining
<1>. QED
  BY <1>1, <1>2

LEMMA FinishOverrun ==
  ASSUME StepsOK, FlagsOK, NEW c \in Clients, Finish(c),
         c \in MayShutdown \/ work'[c][Main] # "patch"
  PROVE  Session(c)'
<1>1. state'[c] = "CLOSED" /\ ~awaiting'[c]
  BY DEF Finish, StepsOK, FlagsOK
<1>2. phase'[c][Main] = "gone"
  BY FinishPhase, SessionAssumption DEF SessionAssumption
<1>. QED
  BY <1>1, <1>2 DEF Session, Overrun, Overtaken

LEMMA OwnReleased ==
  ASSUME NEW c \in Clients, Known(c), NEW r \in Calls, asker[r] = c, Released(r), ~fault'
  PROVE  Session(c)'
<1>. USE DEF Known, lockVars, closeVars, browserVars
<1>. DEFINE objs  == [object EXCEPT ![r] = "unlocked"]
            locks == [lock EXCEPT ![c] = None]
<1>1. /\ object[r] = "releasing" /\ line[r] = Main
      /\ UNCHANGED <<outcome, asker, work>>
  BY DEF Released, OneTalk
<1>2. /\ objs \in [Calls -> Objects] /\ objs[r] = "unlocked"
      /\ \A q \in Calls : q # r => objs[q] = object[q]
  BY DEF CallsOK, Objects
<1>3. locks \in [Clients -> Calls \cup {None}] /\ locks[c] = None
  BY DEF CallsOK
<1>. HIDE DEF objs, locks
<1>w. c \in MayShutdown \/ work[c][Main] # "patch"
  BY <1>1, ReleaseServes DEF Session, Overrun, Muted
<1>4. CASE Finish(c)
  BY <1>1, <1>4, <1>w, FinishOverrun
<1>5. CASE /\ after[r] # "close"
           /\ Misses(c, objs, locks) /\ UNCHANGED closable
           /\ ~(after[r] \in {"patch error", "end"} /\ state[c] = "LISTENING" /\ closable[c])
           /\ ~(after[r] = "patch error" /\ state[c] = "LISTENING")
  <2>1. CloseHere(c, objs, locks) /\ Serving(c) /\ state[c] = "LISTENING"
    BY <1>5, NoSecondClose, ListeningServes DEF Misses, CloseHere
  <2>2. /\ lock[c] = r /\ work'[c][Main] = "none" /\ NoneUnanswered(c)
        /\ phase[c][Main] \in Waiting /\ ~awaiting[c] /\ closable[c]
    BY <1>1, <1>5, <2>1, ReleaseServes
  <2>3. /\ \A q \in Calls : asker[q] = c /\ outcome[q] # "none" => objs[q] # "none"
        /\ \A q \in Calls : asker[q] = c => objs[q] # "releasing"
    BY <1>2, <2>1, <2>2, SummaryOfServing DEF NoneUnanswered, Unanswered
  <2>. QED
    BY <1>1, <1>2, <1>3, <2>1, <2>2, <2>3, OwnMiss
<1>6. CASE /\ after[r] # "close"
           /\ closable' = [closable EXCEPT ![c] = IF after[r] = "patch error" THEN TRUE ELSE @]
           /\ ~(after[r] = "patch error" /\ awaiting[c])
           /\ lock' = locks
           /\ Send(c, line[r], IF after[r] = "patch error" /\ phase[c][line[r]] = "renaming"
                                 THEN "stuck" ELSE "idle")
           /\ object' = objs
           /\ UNCHANGED <<state, awaiting, online, line, after, fault>>
  <2>1. PICK v \in {"stuck", "idle"} : Send(c, Main, v)
    BY <1>1, <1>6
  <2>2. phase'[c][Main] = IF online[c] THEN v ELSE phase[c][Main]
    BY <2>1, MainSend DEF Phases
  <2>3. CASE Serving(c)
    <3>1. /\ lock[c] = r /\ work[c][Main] = "none" /\ NoneUnanswered(c)
          /\ state[c] = "LISTENING" /\ ~awaiting[c]
          /\ closable[c] \/ after[r] = "patch error"
      BY <1>1, <2>3, ReleaseServes
    <3>2. closable'[c]
      BY <1>6, <3>1 DEF FlagsOK
    <3>3. phase'[c][Main] = v
      BY <2>2, <3>1, OnlineKnown
    <3>4. NoneUnanswered(c)'
      BY <1>1, <1>2, <1>6, <3>1 DEF NoneUnanswered, Unanswered
    <3>5. \A q \in Calls : asker[q] = c /\ object[q] = "releasing" => q = r
      BY <2>3, <3>1, SummaryOfServing
    <3>6. \A q \in Calls : asker'[q] = c => object'[q] # "releasing"
      BY <1>1, <1>2, <1>6, <3>5
    <3>7. NoneGiven(c)' /\ GivesOnlyItsLock(c)'
      BY <3>6 DEF NoneGiven, GivesOnlyItsLock
    <3>. QED
      BY <1>1, <1>6, <3>1, <3>2, <3>3, <3>4, <3>7 DEF Session, Serving
  <2>4. CASE Overrun(c)
    <3>1. c \in MayShutdown \/ (phase[c][Main] = "gone" /\ work[c][Main] # "patch")
      BY <1>1, <1>6, <2>4 DEF Overrun, Muted
    <3>2. phase[c][Main] = "gone" => phase'[c][Main] = "gone"
      BY <2>2, OnlineKnown
    <3>. QED
      BY <1>1, <1>6, <2>4, <3>1, <3>2, OverrunStays
  <2>. QED
    BY <1>1, <1>6, <2>3, <2>4, ReleaseServes DEF Session
<1>7. \/ Finish(c)
      \/ /\ after[r] # "close"
         /\ closable' = [closable EXCEPT ![c] = IF after[r] = "patch error" THEN TRUE ELSE @]
         /\ ~(after[r] = "patch error" /\ awaiting[c])
         /\ lock' = locks
         /\ Send(c, line[r], IF after[r] = "patch error" /\ phase[c][line[r]] = "renaming"
                               THEN "stuck" ELSE "idle")
         /\ object' = objs
         /\ UNCHANGED <<state, awaiting, online, line, after, fault>>
      \/ after[r] # "close" /\ AnswerMisses(c, after[r], objs, locks)
  BY DEF Released, Throw, objs, locks
<1>8. CASE after[r] # "close" /\ AnswerMisses(c, after[r], objs, locks)
  BY <1>4, <1>5, <1>8 DEF AnswerMisses, Throw
<1>. QED
  BY <1>4, <1>6, <1>7, <1>8


-----------------------------------------------------------------------------
(* The other talks of a client that has only one.                          *)

LEMMA TalkIsMain ==
  ASSUME NEW c \in Clients, OneTalk(c), NEW t \in Talks, TalkStep(c, t)
  PROVE  t = Main
<1>1. work[c][t] # "none" \/ phase[c][t] \notin {"idle", "gone"}
  BY DEF TalkStep, Abandon, HandleChecksumRequest, FileTooLarge, ChecksumsDone, ChecksumsFail,
         HandleDiffResponse, HandleSpoiledDiff, HandleRenameOrDelRequest, StartPatch,
         PatchDone, PatchFail
<1>. QED
  BY <1>1, MainTalk

\* What becomes of the other talks in a step of the client.
OtherTalks(c) ==
  \A t \in Talks \ {Main} : work'[c][t] = work[c][t] /\ phase'[c][t] \in {"gone", phase[c][t]}

LEMMA FinishTalks ==
  ASSUME StepsOK, NEW c \in Clients, Finish(c),
         \A t \in Talks \ {Main} : work'[c][t] = work[c][t]
  PROVE  OtherTalks(c)
BY FinishPhase DEF OtherTalks

LEMMA CloseHereTalks ==
  ASSUME StepsOK, NEW c \in Clients, NEW objs, NEW locks, CloseHere(c, objs, locks),
         \A t \in Talks \ {Main} : work'[c][t] = work[c][t]
  PROVE  OtherTalks(c)
BY CloseHerePhase DEF OtherTalks

LEMMA GiveUpLine ==
  ASSUME CallsOK, NEW c \in Clients, NEW then, GiveUp(c, Main, then)
  PROVE  \A r \in Calls : line'[r] \in {Main, line[r]}
<1>1. line' = line \/ line' = [line EXCEPT ![lock[c]] = Main]
  BY DEF GiveUp, StartRelease
<1>. QED
  BY <1>1 DEF CallsOK

LEMMA TalkStepTalks ==
  ASSUME NEW c \in Clients, Known(c), TalkStep(c, Main)
  PROVE  OneTalk(c)'
<1>. USE DEF Known, lockVars, objectVars, closeVars, browserVars, histories
<1>w. ASSUME NEW v, work' = [work EXCEPT ![c][Main] = v]
      PROVE  \A t \in Talks \ {Main} : work'[c][t] = work[c][t]
  BY <1>w, MainWork
<1>p. ASSUME NEW v, phase' = [phase EXCEPT ![c][Main] = v]
      PROVE  \A t \in Talks \ {Main} : phase'[c][t] = phase[c][t]
  BY <1>p, MainPhase
<1>1. asker' = asker
  BY DEF TalkStep, Abandon, HandleChecksumRequest, FileTooLarge, ChecksumsDone, ChecksumsFail,
         HandleDiffResponse, HandleSpoiledDiff, HandleRenameOrDelRequest, StartPatch,
         PatchDone, PatchFail
<1>2. CASE Abandon(c, Main) \/ HandleSpoiledDiff(c, Main)
  BY <1>2, <1>p DEF Abandon, HandleSpoiledDiff, OneTalk
<1>3. CASE HandleChecksumRequest(c, Main)
  BY <1>3, <1>p, <1>w DEF HandleChecksumRequest, OneTalk
<1>4. CASE HandleDiffResponse(c, Main) \/ HandleRenameOrDelRequest(c, Main)
  BY <1>4, <1>p, <1>w DEF HandleDiffResponse, HandleRenameOrDelRequest, StartPatch, OneTalk
<1>5. CASE FileTooLarge(c, Main)
  BY <1>1, <1>5, <1>p, GiveUpLine DEF FileTooLarge, OneTalk
<1>6. CASE ChecksumsFail(c, Main) \/ PatchFail(c, Main)
  BY <1>1, <1>6, <1>w, GiveUpLine DEF ChecksumsFail, PatchFail, OneTalk
<1>7. CASE ChecksumsDone(c, Main)
  <2>1. \A t \in Talks \ {Main} : work'[c][t] = work[c][t]
    BY <1>7, <1>w DEF ChecksumsDone
  <2>2. line' = line
    BY <1>7, CloseData DEF ChecksumsDone, Misses, CloseHere, Close
  <2>3. OtherTalks(c)
    BY <1>7, <2>1, CloseHereTalks, MainSend DEF ChecksumsDone, Misses, OtherTalks, Phases
  <2>. QED
    BY <1>1, <2>2, <2>3 DEF OtherTalks, OneTalk
<1>8. CASE PatchDone(c, Main)
  <2>1. \A t \in Talks \ {Main} : work'[c][t] = work[c][t]
    BY <1>8, <1>w DEF PatchDone
  <2>2. line' = line \/ line' = [line EXCEPT ![lock[c]] = Main]
    BY <1>8 DEF PatchDone, StartRelease
  <2>3. \A r \in Calls : line'[r] \in {Main, line[r]}
    BY <2>2 DEF CallsOK
  <2>4. Finish(c) \/ phase' = phase
    BY <1>8 DEF PatchDone
  <2>5. OtherTalks(c)
    BY <2>1, <2>4, FinishTalks DEF OtherTalks
  <2>. QED
    BY <1>1, <2>3, <2>5 DEF OtherTalks, OneTalk
<1>. QED
  BY <1>2, <1>3, <1>4, <1>5, <1>6, <1>7, <1>8 DEF TalkStep

LEMMA CallbackTalks ==
  ASSUME NEW c \in Clients, Known(c), NEW r \in Calls, asker[r] = c,
         LockGranted(r) \/ LockRefused(r) \/ Released(r)
  PROVE  OneTalk(c)'
<1>. USE DEF Known, lockVars, closeVars, browserVars
<1>1. line[r] = Main /\ asker' = asker /\ work' = work
  BY DEF OneTalk, LockGranted, LockRefused, Released
<1>2. ASSUME NEW objs, NEW locks, Misses(c, objs, locks)
      PROVE  OtherTalks(c) /\ line' = line
  BY <1>1, <1>2, CloseHereTalks DEF Misses, CloseHere, Close
<1>3. ASSUME NEW v \in Phases, Send(c, Main, v)
      PROVE  OtherTalks(c)
  BY <1>1, <1>3, MainSend DEF OtherTalks
<1>4. ASSUME Finish(c)
      PROVE  OtherTalks(c)
  BY <1>1, <1>4, FinishTalks
<1>5. {"granted", "idle", "stuck"} \subseteq Phases
  BY DEF Phases
<1>6. CASE LockGranted(r)
  BY <1>1, <1>2, <1>3, <1>5, <1>6 DEF LockGranted, OtherTalks, OneTalk
<1>7. CASE LockRefused(r)
  BY <1>1, <1>2, <1>3, <1>5, <1>7 DEF LockRefused, OtherTalks, OneTalk
<1>8. CASE Released(r)
  <2>1. line' = line
    BY <1>8, ReleasedKinds
  <2>2. OtherTalks(c)
    <3>1. UNCHANGED browserVars => OtherTalks(c)
      BY <1>1 DEF OtherTalks
    <3>. QED
      BY <1>1, <1>2, <1>3, <1>4, <1>5, <1>8, <3>1, ReleasedKinds
  <2>. QED
    BY <1>1, <2>1, <2>2 DEF OtherTalks, OneTalk
<1>. QED
  BY <1>6, <1>7, <1>8

LEMMA DoorTalks ==
  ASSUME NEW c \in Clients, Known(c), HangUp(c) \/ Shutdown(c)
  PROVE  OneTalk(c)'
<1>. USE DEF Known, lockVars
<1>1. asker' = asker /\ work' = work /\ line' = line
  BY DEF HangUp, Shutdown, CloseHere, Close
<1>2. OtherTalks(c)
  <2>1. CASE HangUp(c)
    BY <1>1, <2>1, GoneType DEF HangUp, StepsOK, OtherTalks
  <2>2. CASE Shutdown(c)
    BY <1>1, <2>2, CloseHereTalks DEF Shutdown
  <2>. QED
    BY <2>1, <2>2
<1>. QED
  BY <1>1, <1>2 DEF OtherTalks, OneTalk

LEMMA RequestTalks ==
  ASSUME NEW c \in Clients, Known(c), NEW t \in Talks, NEW r \in Calls, NEW p \in Paths,
         HandleSyncInitRequest(c, t, r, p), c \notin doubled'
  PROVE  t = Main /\ OneTalk(c)'
<1>. USE DEF Known
<1>1. t = Main
  BY DEF HandleSyncInitRequest
<1>2. /\ phase' = [phase EXCEPT ![c][Main] = "asking"] /\ work' = work
      /\ asker' = [asker EXCEPT ![r] = c] /\ line' = [line EXCEPT ![r] = Main]
  BY <1>1 DEF HandleSyncInitRequest
<1>3. \A q \in Calls : asker'[q] = c => line'[q] = Main
  BY <1>2, SessionAssumption DEF CallsOK, OneTalk, SessionAssumption
<1>. QED
  BY <1>1, <1>2, <1>3, MainPhase DEF OneTalk

-----------------------------------------------------------------------------
(* The step that ends the process.                                         *)

\* It had a cause, and nothing but the faulty step has moved.
Caused(c) ==
  /\ state'[c] # "LISTENING" \/ c \in spoiled'
  /\ Patching(c)' => Patching(c) /\ state'[c] = state[c] /\ awaiting'[c] = awaiting[c]

LEMMA NoPatchWhenClosable ==
  ASSUME NEW c \in Clients, OneTalk(c), Serving(c), closable[c]
  PROVE  ~Patching(c)
BY SummaryOfServing DEF OneTalk, Patching

LEMMA CloseFault ==
  ASSUME NEW c \in Clients, FlagsOK, StepsOK, OneTalk(c), Session(c), ~fault,
         NEW objs, NEW locks, Close(c, objs, locks), fault',
         Patching(c)' => Patching(c)
  PROVE  Caused(c)
<1>1. state'[c] # "LISTENING"
  BY CloseState
<1>2. CASE state[c] = "CLOSING"
  BY <1>1, <1>2 DEF Close, Caused
<1>3. CASE state[c] = "LISTENING" /\ closable[c]
  BY <1>1, <1>3, NoPatchWhenClosable, ListeningServes DEF Caused
<1>. QED
  BY <1>2, <1>3 DEF Close

LEMMA MissFault ==
  ASSUME NEW c \in Clients, FlagsOK, StepsOK, OneTalk(c), Session(c), ~fault,
         NEW objs, NEW locks, Misses(c, objs, locks), fault', Patching(c)' => Patching(c)
  PROVE  Caused(c)
BY CloseFault DEF Misses, CloseHere

\* A step gives a lock back that cannot be given back.
LEMMA GiveUpCause ==
  ASSUME NEW c \in Clients, Session(c), NEW t, NEW then, GiveUp(c, t, then), ~fault, fault',
         phase[c][Main] = "granted" \/ work[c][Main] # "none"
  PROVE  state[c] # "LISTENING"
<1>1. ~Releasable(lock[c])
  BY DEF GiveUp
<1>2. Serving(c) => Releasable(lock[c])
  BY SummaryOfServing
<1>3. state[c] = "LISTENING" => Serving(c)
  BY ListeningServes
<1>. QED
  BY <1>1, <1>2, <1>3

LEMMA TalkFault ==
  ASSUME NEW c \in Clients, Known(c), TalkStep(c, Main), ~fault, fault'
  PROVE  Caused(c)
<1>. USE DEF Known, lockVars, objectVars, closeVars, browserVars, histories
<1>1. ~(Abandon(c, Main) \/ HandleChecksumRequest(c, Main) \/ HandleDiffResponse(c, Main)
         \/ HandleRenameOrDelRequest(c, Main))
  BY DEF Abandon, HandleChecksumRequest, HandleDiffResponse, HandleRenameOrDelRequest, StartPatch
<1>2. CASE HandleSpoiledDiff(c, Main)
  BY <1>2 DEF HandleSpoiledDiff, Caused, Patching
<1>3. CASE FileTooLarge(c, Main)
  BY <1>3, GiveUpCause DEF FileTooLarge, Caused, Patching
<1>4. ASSUME work' = [work EXCEPT ![c][Main] = "none"]
      PROVE  Patching(c)' => Patching(c)
  <2>1. work'[c][Main] = "none" /\ \A t \in Talks \ {Main} : work'[c][t] = work[c][t]
    BY <1>4, MainWork
  <2>. QED
    BY <2>1 DEF Patching
<1>5. CASE ChecksumsFail(c, Main) \/ PatchFail(c, Main)
  BY <1>4, <1>5, GiveUpCause DEF ChecksumsFail, PatchFail, Caused
<1>6. CASE ChecksumsDone(c, Main)
  BY <1>4, <1>6, MissFault DEF ChecksumsDone
<1>7. CASE PatchDone(c, Main)
  <2>1. UNCHANGED <<state, awaiting>>
    BY <1>7 DEF PatchDone
  <2>2. ASSUME state[c] = "LISTENING"
        PROVE  FALSE
    <3>1. Releasable(lock[c]) /\ ~awaiting[c] /\ EnsureLock(c)
      BY <1>7, <2>2, ListeningServes, SummaryOfServing, LiveIsHeld DEF PatchDone
    <3>. QED
      BY <1>7, <2>2, <3>1 DEF PatchDone, Throw
  <2>. QED
    BY <1>4, <1>7, <2>1, <2>2 DEF PatchDone, Caused
<1>. QED
  BY <1>1, <1>2, <1>3, <1>5, <1>6, <1>7 DEF TalkStep

LEMMA CallbackFault ==
  ASSUME NEW c \in Clients, Known(c), NEW r \in Calls, asker[r] = c,
         LockGranted(r) \/ LockRefused(r) \/ Released(r), ~fault, fault'
  PROVE  Caused(c)
<1>. USE DEF Known, lockVars, closeVars, browserVars
<1>1. work' = work /\ (Patching(c)' => Patching(c))
  BY DEF Patching, LockGranted, LockRefused, Released
<1>2. CASE LockGranted(r) \/ LockRefused(r)
  BY <1>1, <1>2, MissFault DEF LockGranted, LockRefused
<1>3. CASE Released(r)
  <2>1. object[r] = "releasing"
    BY <1>3 DEF Released
  <2>2. CASE /\ lock[c] = None \/ (after[r] = "end" /\ state[c] = "CLOSED")
             /\ UNCHANGED <<closeVars, lock, browserVars>>
    <3>1. state[c] # "LISTENING"
      <4>1. state[c] = "LISTENING" => Serving(c)
        BY ListeningServes
      <4>2. Serving(c) => lock[c] = r
        BY <2>1, ReleaseServes
      <4>3. r # None
        BY SessionAssumption DEF SessionAssumption
      <4>. QED
        BY <2>2, <4>1, <4>2, <4>3
    <3>. QED
      BY <1>1, <2>2, <3>1 DEF Caused
  <2>3. CASE \E objs, locks : Misses(c, objs, locks)
    BY <1>1, <2>3, MissFault
  <2>4. CASE Finish(c) /\ state[c] = "LISTENING" /\ closable[c]
    <3>1. state'[c] = "CLOSED"
      BY <2>4 DEF Finish, StepsOK
    <3>2. ~Patching(c)
      BY <2>4, NoPatchWhenClosable, ListeningServes
    <3>. QED
      BY <1>1, <3>1, <3>2 DEF Caused
  <2>. QED
    BY <1>3, <2>2, <2>3, <2>4 DEF Released, AnswerMisses
<1>. QED
  BY <1>2, <1>3

LEMMA DoorFault ==
  ASSUME NEW c \in Clients, Known(c), HangUp(c) \/ Shutdown(c), ~fault, fault'
  PROVE  Caused(c)
<1>. USE DEF Known
<1>1. Patching(c)' => Patching(c)
  BY DEF HangUp, Shutdown, Patching
<1>2. Close(c, object, lock)
  BY DEF HangUp, Shutdown, CloseHere
<1>. QED
  BY <1>1, <1>2, CloseFault

-----------------------------------------------------------------------------
(* The invariant.                                                          *)

LEMMA Overtaking ==
  ASSUME NEW c \in Clients, OneTalk(c), Session(c), c \notin MayShutdown, Patching(c)
  PROVE  ~Overtaken(c)
<1>1. work[c][Main] = "patch"
  BY DEF Patching, OneTalk
<1>. QED
  BY <1>1 DEF Session, Serving, Draining, Overrun, Overtaken, Muted

\* What one client's step does to all of them.
LEMMA StepOfOne ==
  ASSUME CallsOK, OwnerInv, CloseWaitsForPatch, SessionInv,
         NEW c \in Clients, Apart(c), Alone(c),
         c \notin doubled' /\ ~fault' => OneTalk(c)' /\ Session(c)',
         c \notin doubled' /\ fault' => Caused(c)
  PROVE  CloseWaitsForPatch' /\ FaultHasCause' /\ (~fault' => SessionInv')
<1>0. doubled \subseteq doubled'
  BY DEF Alone
<1>1. ASSUME NEW d \in Clients \ {c}, d \notin doubled'
      PROVE  OneTalk(d)' /\ Session(d)'
  BY <1>0, <1>1, OthersKeep DEF SessionInv
<1>2. ~fault' => SessionInv'
  BY <1>1 DEF SessionInv
<1>3. FaultHasCause'
  BY DEF FaultHasCause, Caused
<1>4. CloseWaitsForPatch'
  <2>. SUFFICES ASSUME NEW d \in Clients \ (MayShutdown \cup doubled'), Patching(d)'
                PROVE  ~Overtaken(d)'
    BY DEF CloseWaitsForPatch
  <2>1. CASE d # c
    BY <1>0, <2>1 DEF Alone, Patching, Overtaken, CloseWaitsForPatch
  <2>2. CASE d = c /\ fault'
    BY <1>0, <2>2 DEF Caused, CloseWaitsForPatch, Overtaken
  <2>3. CASE d = c /\ ~fault'
    <3>1. /\ \A t \in Talks \ {Main} : work'[d][t] = "none"
          /\ (Serving(d) \/ Draining(d) \/ Overrun(d))'
      BY <2>3 DEF OneTalk, Session
    <3>2. work'[d][Main] = "patch"
      BY <3>1 DEF Patching
    <3>. QED
      BY <3>1, <3>2 DEF Serving, Draining, Overrun, Overtaken, Muted
  <2>. QED
    BY <2>1, <2>2, <2>3
<1>. QED
  BY <1>2, <1>3, <1>4

\* Every step of a process that is not dead keeps the sessions' state machine.
LEMMA StepSession ==
  ASSUME FlagsOK, CallsOK, StepsOK, OutcomeInv, OwnerInv, GoneInv, CloseWaitsForPatch,
         SessionInv, ~fault, FaultHasCause, [Next]_vars
  PROVE  CloseWaitsForPatch' /\ FaultHasCause' /\ (~fault' => SessionInv')
<1>. USE DEF objectVars, closeVars, browserVars, histories
<1>k. ASSUME NEW c \in Clients \ doubled
      PROVE  Known(c)
  BY DEF SessionInv, Known
<1>1. ASSUME NEW c \in Clients, NEW t \in Talks, NEW r \in Calls, NEW p \in Paths,
             HandleSyncInitRequest(c, t, r, p)
      PROVE  CloseWaitsForPatch' /\ FaultHasCause' /\ (~fault' => SessionInv')
  <2>1. Apart(c) /\ Alone(c) /\ ~fault'
    BY <1>1, RequestIsApart DEF HandleSyncInitRequest
  <2>2. ASSUME c \notin doubled'
        PROVE  OneTalk(c)' /\ Session(c)'
    <3>1. Known(c)
      BY <2>1, <2>2, <1>k DEF Alone
    <3>2. t = Main
      BY <1>1, <2>2, <3>1, RequestTalks
    <3>. QED
      BY <1>1, <2>1, <2>2, <3>1, <3>2, RequestTalks, OwnRequest
  <2>. QED
    BY <2>1, <2>2, StepOfOne
<1>2. ASSUME NEW r \in Calls, LockDecides(r) \/ LockFreed(r)
      PROVE  CloseWaitsForPatch' /\ FaultHasCause' /\ (~fault' => SessionInv')
  <2>1. UNCHANGED <<objectVars, closeVars, lock, work, browserVars, fault, histories>>
    BY <1>2 DEF LockDecides, LockFreed
  <2>2. \A c \in Clients \ doubled : OneTalk(c)' /\ Session(c)'
    BY <1>2, <1>k, <2>1, OwnService DEF OneTalk, SessionInv
  <2>3. CloseWaitsForPatch' /\ FaultHasCause'
    BY <2>1 DEF CloseWaitsForPatch, FaultHasCause, Patching, Overtaken
  <2>. QED
    BY <2>1, <2>2, <2>3 DEF SessionInv
<1>3. ASSUME NEW r \in Calls, LockGranted(r) \/ LockRefused(r) \/ Released(r)
      PROVE  CloseWaitsForPatch' /\ FaultHasCause' /\ (~fault' => SessionInv')
  <2>1. PICK c \in Clients : c = asker[r]
    BY <1>3, CallbackIsApart
  <2>2. Apart(c) /\ Alone(c)
    BY <1>3, <2>1, CallbackIsApart, TouchesApart
  <2>3. ASSUME c \notin doubled'
        PROVE  (~fault' => OneTalk(c)' /\ Session(c)') /\ (fault' => Caused(c))
    <3>1. Known(c)
      BY <2>2, <2>3, <1>k DEF Alone
    <3>2. fault' => Caused(c)
      BY <1>3, <2>1, <3>1, CallbackFault
    <3>3. OneTalk(c)'
      BY <1>3, <2>1, <3>1, CallbackTalks
    <3>4. ~fault' => Session(c)'
      BY <1>3, <2>1, <3>1, OwnGranted, OwnRefused, OwnReleased
    <3>. QED
      BY <3>2, <3>3, <3>4
  <2>. QED
    BY <2>2, <2>3, StepOfOne
<1>4. ASSUME NEW c \in Clients, NEW t \in Talks, TalkStep(c, t)
      PROVE  CloseWaitsForPatch' /\ FaultHasCause' /\ (~fault' => SessionInv')
  <2>1. Apart(c) /\ Alone(c)
    BY <1>4, TalkStepIsApart, TouchesApart
  <2>2. ASSUME c \notin doubled'
        PROVE  (~fault' => OneTalk(c)' /\ Session(c)') /\ (fault' => Caused(c))
    <3>1. Known(c)
      BY <2>1, <2>2, <1>k DEF Alone
    <3>2. TalkStep(c, Main)
      BY <1>4, <3>1, TalkIsMain DEF Known
    <3>3. fault' => Caused(c)
      BY <3>1, <3>2, TalkFault
    <3>4. OneTalk(c)'
      BY <3>1, <3>2, TalkStepTalks
    <3>5. ~fault' => Session(c)'
      BY <3>1, <3>2, OwnAbandon, OwnChecksumRequest, OwnFileTooLarge, OwnChecksumsDone,
         OwnChecksumsFail, OwnStartPatch, OwnSpoiledDiff, OwnPatchDone, OwnPatchFail
      DEF TalkStep, HandleDiffResponse, HandleRenameOrDelRequest
    <3>. QED
      BY <3>3, <3>4, <3>5
  <2>. QED
    BY <2>1, <2>2, StepOfOne
<1>5. ASSUME NEW c \in Clients, HangUp(c) \/ Shutdown(c)
      PROVE  CloseWaitsForPatch' /\ FaultHasCause' /\ (~fault' => SessionInv')
  <2>1. Apart(c) /\ Alone(c)
    BY <1>5, DoorIsApart, TouchesApart
  <2>2. ASSUME c \notin doubled'
        PROVE  (~fault' => OneTalk(c)' /\ Session(c)') /\ (fault' => Caused(c))
    <3>1. Known(c)
      BY <2>1, <2>2, <1>k DEF Alone
    <3>2. fault' => Caused(c)
      BY <1>5, <3>1, DoorFault
    <3>3. OneTalk(c)'
      BY <1>5, <3>1, DoorTalks
    <3>4. ~fault' => Session(c)'
      BY <1>5, <3>1, OwnHangUp, OwnShutdown
    <3>. QED
      BY <3>2, <3>3, <3>4
  <2>. QED
    BY <2>1, <2>2, StepOfOne
<1>6. CASE UNCHANGED vars
  <2>. USE DEF vars, lockVars
  <2>1. SessionInv'
    <3>1. ASSUME NEW c \in Clients \ doubled
          PROVE  OneTalk(c)' /\ Session(c)'
      <4>1. /\ NoneUnanswered(c)' <=> NoneUnanswered(c)
            /\ NoneGiven(c)' <=> NoneGiven(c)
            /\ GivesOnlyItsLock(c)' <=> GivesOnlyItsLock(c)
            /\ Releasable(lock[c])' <=> Releasable(lock[c])
            /\ Giving(c)' <=> Giving(c)
        BY <1>6, SameCalls
      <4>2. Serving(c) => Serving(c)'
        BY <1>6, <4>1 DEF Serving, Unanswered
      <4>3. Draining(c) => Draining(c)'
        BY <1>6, <4>1 DEF Draining
      <4>4. Overrun(c) => Overrun(c)'
        BY <1>6, <4>1 DEF Overrun, Overtaken, Muted
      <4>5. OneTalk(c)'
        BY <1>6 DEF OneTalk, SessionInv
      <4>. QED
        BY <4>2, <4>3, <4>4, <4>5 DEF Session, SessionInv
    <3>. QED
      BY <1>6, <3>1 DEF SessionInv
  <2>2. CloseWaitsForPatch' /\ FaultHasCause'
    BY <1>6 DEF CloseWaitsForPatch, FaultHasCause, Patching, Overtaken
  <2>. QED
    BY <2>1, <2>2
<1>. QED
  BY <1>1, <1>2, <1>3, <1>4, <1>5, <1>6, NextKinds

LEMMA InitInv == Init => Inv
<1>. SUFFICES ASSUME Init
              PROVE  Inv
  OBVIOUS
<1>1. SafeInv
  BY InitSafe
<1>2. CloseWaitsForPatch /\ FaultHasCause
  BY DEF Init, CloseWaitsForPatch, FaultHasCause, Overtaken
<1>3. ASSUME NEW c \in Clients
      PROVE  OneTalk(c) /\ Session(c)
  <2>1. OneTalk(c)
    BY SessionAssumption DEF Init, OneTalk
  <2>2. /\ state[c] = "LISTENING" /\ ~awaiting[c] /\ closable[c]
        /\ work[c][Main] = "none" /\ phase[c][Main] = "idle"
    BY SessionAssumption DEF Init, SessionAssumption
  <2>3. NoneUnanswered(c) /\ NoneGiven(c) /\ GivesOnlyItsLock(c)
    BY DEF Init, Lock!Init, NoneUnanswered, Unanswered, NoneGiven, GivesOnlyItsLock
  <2>. QED
    BY <2>1, <2>2, <2>3 DEF Session, Serving
<1>. QED
  BY <1>1, <1>2, <1>3 DEF Inv, SessionInv

LEMMA StepInv ==
  ASSUME FlagsOK, CallsOK, StepsOK, Inv, [Next]_vars
  PROVE  FlagsOK' /\ CallsOK' /\ StepsOK' /\ Inv'
<1>1. FlagsOK' /\ CallsOK' /\ StepsOK'
  BY StepFlags, StepCalls, StepSteps
<1>2. SafeInv'
  BY StepOwners, StepGone DEF Inv, SafeInv
<1>3. CASE ~fault
  BY <1>1, <1>2, <1>3, StepSession DEF Inv, SafeInv
<1>4. CASE fault
  <2>1. UNCHANGED vars
    BY <1>4
    DEF Next, HandleSyncInitRequest, LockDecides, LockGranted, LockRefused, LockFreed, Released,
        Abandon, HandleChecksumRequest, FileTooLarge, ChecksumsDone, ChecksumsFail,
        HandleDiffResponse, HandleSpoiledDiff, HandleRenameOrDelRequest, StartPatch,
        PatchDone, PatchFail, HangUp, Shutdown
  <2>2. CloseWaitsForPatch' /\ FaultHasCause' /\ fault'
    BY <1>4, <2>1
    DEF Inv, CloseWaitsForPatch, FaultHasCause, Patching, Overtaken, vars, closeVars, histories
  <2>. QED
    BY <1>1, <1>2, <2>2 DEF Inv
<1>. QED
  BY <1>1, <1>3, <1>4

\* The types and the invariant hold in every state.
LEMMA Invariance == Spec => [](FlagsOK /\ CallsOK /\ StepsOK /\ Inv)
<1>1. Init => FlagsOK /\ CallsOK /\ StepsOK /\ Inv
  BY InitFlags, InitData, InitInv
<1>2. FlagsOK /\ CallsOK /\ StepsOK /\ Inv /\ [Next]_vars
        => (FlagsOK /\ CallsOK /\ StepsOK /\ Inv)'
  BY StepInv
<1>. QED
  BY <1>1, <1>2, PTL DEF Spec

-----------------------------------------------------------------------------
(* The theorems.                                                           *)

(* Every variable keeps its type, whatever the clients do.                 *)
THEOREM TypeCorrect == Spec => []TypeOK
BY Invariance, TypeParts, PTL

\* The lock of a client that patches, with no close() or SYNC in between.
LEMMA PatchingLock ==
  ASSUME CallsOK, Inv, ~fault, NEW c \in Clients, Patching(c), Orderly(c)
  PROVE  /\ lock[c] \in Calls /\ Releasable(lock[c])
         /\ outcome[lock[c]] = "granted" /\ asker[lock[c]] = c
<1>1. OneTalk(c) /\ Session(c) /\ ~Overrun(c)
  BY DEF Inv, SessionInv, Orderly, Overrun
<1>2. work[c][Main] = "patch"
  BY <1>1 DEF Patching, OneTalk
<1>3. Releasable(lock[c])
  BY <1>1, <1>2, SummaryOfServing DEF Session, Draining
<1>. QED
  BY <1>3, LockIsCall DEF Inv, SafeInv, OutcomeInv, OwnerInv

(* A patch, rename or delete runs under a live lock that the lock service  *)
(* granted to that client, until a close() overtakes it or the browser     *)
(* sends a SYNC while one is pending.                                      *)
THEOREM PatchIsUnderLock == Spec => []PatchUnderLock
<1>1. CallsOK /\ Inv => PatchUnderLock
  BY PatchingLock DEF PatchUnderLock
<1>. QED
  BY <1>1, Invariance, PTL

(* No two sessions write to the same path at once, unless a call has       *)
(* broken in on the path's lock or one of them has two talks going.        *)
THEOREM PatchIsExclusive == Spec => []PatchExclusive
<1>1. CallsOK /\ Inv => PatchExclusive
  <2>. SUFFICES ASSUME CallsOK, Inv, NEW c \in Clients, NEW d \in Clients, c # d,
                       Patching(c), Orderly(c), Patching(d), Orderly(d),
                       ~fault, want[lock[c]] = want[lock[d]]
                PROVE  want[lock[c]] \in broken
    BY DEF PatchExclusive
  <2>1. /\ lock[c] \in Calls /\ outcome[lock[c]] = "granted" /\ asker[lock[c]] = c
        /\ lock[d] \in Calls /\ outcome[lock[d]] = "granted" /\ asker[lock[d]] = d
    BY PatchingLock
  <2>. QED
    BY <2>1 DEF Inv, SafeInv, ExclusionInv
<1>. QED
  BY <1>1, Invariance, PTL

(* No hang-up makes close() overtake a patch: only shutdown() could.       *)
THEOREM CloseWaits == Spec => []CloseWaitsForPatch
BY Invariance, PTL DEF Inv

(* While a step gives a lock back, client.lock stays that lock, where no   *)
(* close() and no second SYNC comes in between.                            *)
THEOREM ReleaserHolds == Spec => []ReleaserStillHolds
<1>1. CallsOK /\ Inv => ReleaserStillHolds
  <2>. SUFFICES ASSUME CallsOK, Inv, ~fault, NEW r \in Calls, object[r] = "releasing",
                       NEW c, c = asker[r], Orderly(c)
                PROVE  lock[c] = r
    BY DEF ReleaserStillHolds
  <2>1. c \in Clients
    BY DEF CallsOK, Inv, SafeInv, OutcomeInv
  <2>2. Session(c) /\ ~Overrun(c)
    BY <2>1 DEF Inv, SessionInv, Orderly, Overrun
  <2>. QED
    BY <2>1, <2>2, SummaryOfServing DEF Session, Draining, GivesOnlyItsLock
<1>. QED
  BY <1>1, Invariance, PTL

(* An uncaught TypeError takes a client.close(), a second SYNC or a diff   *)
(* that cannot be read.                                                    *)
THEOREM FaultTakesCause == Spec => []FaultHasCause
BY Invariance, PTL DEF Inv
=============================================================================
