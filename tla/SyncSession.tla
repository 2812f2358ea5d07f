----------------------------- MODULE SyncSession -----------------------------
(***************************************************************************)
(* The upstream half of a sync session in one server process: the client   *)
(* objects of server/lib/client.js and the upstream steps and close() of   *)
(* server/lib/sync-protocol-handler.js, over the lock service that         *)
(* SyncLock implements.  The browser at the other end follows the steps of *)
(* client/src/message-handler.js.                                          *)
(*                                                                         *)
(* A browser has one sync under way at a time, or so it means to: it looks *)
(* at currentSync before two asynchronous calls, and the server does not   *)
(* look at all.  Main is the conversation that currentSync allows, the     *)
(* other Talks are those it lets slip through while Main is busy.          *)
(*                                                                         *)
(* What a step throws is not caught: it ends the process ("fault"), and    *)
(* with it every session the process serves.                               *)
(***************************************************************************)
EXTENDS FiniteSets

CONSTANTS
  Clients,     \* connections of one user, each with its client object
  Paths,
  Calls,       \* calls of SyncLock.request(), and the lock objects they yield
  Talks,       \* conversations a browser can have with the server at once
  Main,
  None,
  MayDouble,   \* clients whose browser may send a SYNC while one is pending
  MaySpoil,    \* clients that may send a diff the server cannot work with
  MayMiss,     \* clients to which sending may fail on an open socket
  MayHangUp,   \* clients whose web socket may close
  MayShutdown, \* clients the server itself may close
  MayAbandon   \* clients whose browser may fail locally and move on

ASSUME SessionAssumption ==
  /\ None \notin Clients \cup Paths \cup Calls
  /\ Main \in Talks
  /\ MayDouble \subseteq Clients
  /\ MaySpoil \subseteq Clients
  /\ MayMiss \subseteq Clients
  /\ MayHangUp \subseteq Clients
  /\ MayShutdown \subseteq Clients
  /\ MayAbandon \subseteq Clients

VARIABLES
  outcome, want, broken,  \* the lock service
  asker,     \* the client that made each call
  object,    \* the lock object of a call: "none" until its callback has run
  line,      \* the talk that the callback of a call, or of its release, answers
  after,     \* what the callback of a release goes on with
  state,     \* client.state
  closable,  \* client.closable
  awaiting,  \* is close() waiting for the 'closable' event?
  lock,      \* client.lock
  work,      \* the rsync operation under way for each talk of a client
  online,    \* is its web socket open?
  phase,     \* what the browser is doing in each talk
  fault,     \* has an uncaught TypeError ended the process?
  doubled,   \* history: clients that sent a SYNC while one was pending
  spoiled    \* history: clients whose diff made its handler throw

lockVars    == <<outcome, want, broken>>
objectVars  == <<asker, object, line, after>>
closeVars   == <<state, closable, awaiting>>
browserVars == <<online, phase>>
histories   == <<doubled, spoiled>>
vars == <<lockVars, objectVars, closeVars, lock, work, browserVars, fault,
          histories>>

Lock == INSTANCE LockService WITH Requests <- Calls

Phases == {"idle", "asking", "granted", "summing", "diffing", "patching",
           "renaming", "stuck", "gone"}

\* Those in which it waits for the server.
Waiting == {"asking", "summing", "patching", "renaming"}

\* client.sendMessage(): the browser moves on if the socket is still open.
Send(c, t, next) ==
  phase' = [phase EXCEPT ![c][t] = IF online[c] THEN next ELSE @]

\* A lock not yet marked unlocked, where objs says how far each has got.
Held(l, objs) == l # None /\ objs[l] # "unlocked"

\* ensureLock() does not compare the paths.
EnsureLock(c) == Held(lock[c], object)

Throw == fault' = TRUE

(* lock.release().  A second release of the same lock throws, since its    *)
(* lock-request listener is already null; so does releasing a null lock.   *)
Releasable(l) == l # None /\ object[l] = "live"

StartRelease(l, then, t) ==
  /\ object' = [object EXCEPT ![l] = "releasing"]
  /\ after'  = [after EXCEPT ![l] = then]
  /\ line'   = [line EXCEPT ![l] = t]

\* A step of talk t ends by giving client.lock back, whichever lock that is.
GiveUp(c, t, then) ==
  \/ Releasable(lock[c]) /\ StartRelease(lock[c], then, t) /\ UNCHANGED fault
  \/ ~Releasable(lock[c]) /\ Throw /\ UNCHANGED <<object, line, after>>

\* No browser at the other end any more.
Gone == [t \in Talks |-> "gone"]

\* done() of close(): drop the lock, the handler and the socket.
Finish(c) ==
  /\ state'    = [state EXCEPT ![c] = "CLOSED"]
  /\ awaiting' = [awaiting EXCEPT ![c] = FALSE]
  /\ lock'     = [lock EXCEPT ![c] = None]
  /\ online'   = [online EXCEPT ![c] = FALSE]
  /\ phase'    = [phase EXCEPT ![c] = Gone]

(* client.close(), where the handler that calls it leaves the lock objects *)
(* as objs and client.lock as locks.  A second close() before the first is *)
(* through throws: its broadcast listener is already null.                 *)
Close(c, objs, locks) ==
  \/ /\ state[c] = "CLOSING"
     /\ Throw
     /\ object' = objs /\ lock' = locks
     /\ UNCHANGED <<state, awaiting, line, after>>
  \/ /\ state[c] = "LISTENING" /\ ~closable[c]
     /\ state'    = [state EXCEPT ![c] = "CLOSING"]
     /\ awaiting' = [awaiting EXCEPT ![c] = TRUE]
     /\ object' = objs /\ lock' = locks
     /\ UNCHANGED <<line, after, fault>>
  \/ /\ state[c] = "LISTENING" /\ closable[c]
     /\ Held(locks[c], objs)
     /\ state' = [state EXCEPT ![c] = "CLOSING"]
     /\ IF objs[locks[c]] = "live"
          THEN /\ object' = [objs EXCEPT ![locks[c]] = "releasing"]
               /\ after'  = [after EXCEPT ![locks[c]] = "close"]
               /\ UNCHANGED fault
          ELSE object' = objs /\ Throw /\ UNCHANGED after
     /\ lock' = locks
     /\ UNCHANGED <<awaiting, line>>
  \/ /\ state[c] = "LISTENING" /\ closable[c]
     /\ ~Held(locks[c], objs)
     /\ state'  = [state EXCEPT ![c] = "CLOSED"]
     /\ object' = objs
     /\ lock'   = [locks EXCEPT ![c] = None]
     /\ UNCHANGED <<awaiting, line, after, fault>>

\* The server closes the client: the socket goes when the close() is through.
CloseHere(c, objs, locks) ==
  /\ Close(c, objs, locks)
  /\ online' = [online EXCEPT ![c] = state'[c] # "CLOSED"]
  /\ phase'  = [phase EXCEPT ![c] = IF state'[c] = "CLOSED" THEN Gone ELSE @]

\* The catch of sendMessage(): state ERROR, which close() sets anew at once.
Misses(c, objs, locks) ==
  /\ c \in MayMiss
  /\ online[c]
  /\ CloseHere(c, objs, locks)

-----------------------------------------------------------------------------
Init ==
  /\ Lock!Init
  /\ asker    = [r \in Calls |-> None]
  /\ object   = [r \in Calls |-> "none"]
  /\ line     = [r \in Calls |-> Main]
  /\ after    = [r \in Calls |-> "none"]
  /\ state    = [c \in Clients |-> "LISTENING"]
  /\ closable = [c \in Clients |-> TRUE]
  /\ awaiting = [c \in Clients |-> FALSE]
  /\ lock     = [c \in Clients |-> None]
  /\ work     = [c \in Clients |-> [t \in Talks |-> "none"]]
  /\ online   = [c \in Clients |-> TRUE]
  /\ phase    = [c \in Clients |-> [t \in Talks |-> "idle"]]
  /\ fault    = FALSE
  /\ doubled  = {}
  /\ spoiled  = {}

(* handleSyncInitRequest() of a path that is not out of date: ask for its  *)
(* lock, whatever else is under way for the client.                        *)
HandleSyncInitRequest(c, t, r, p) ==
  /\ ~fault
  /\ phase[c][t] = "idle"
  /\ t # Main => c \in MayDouble /\ phase[c][Main] # "idle"
  /\ Lock!Ask(r, p)
  /\ asker'   = [asker EXCEPT ![r] = c]
  /\ line'    = [line EXCEPT ![r] = t]
  /\ phase'   = [phase EXCEPT ![c][t] = "asking"]
  /\ doubled' = IF t = Main THEN doubled ELSE doubled \cup {c}
  /\ UNCHANGED <<object, after, closeVars, lock, work, online, fault, spoiled>>

\* The lock service makes up its mind.
LockDecides(r) ==
  /\ ~fault
  /\ Lock!Grant(r) \/ Lock!BreakIn(r) \/ Lock!Deny({r}) \/ Lock!Fail(r)
  /\ UNCHANGED <<objectVars, closeVars, lock, work, browserVars, fault, histories>>

\* A faulty LockGranted: client.lock is the call's client, not the lock.
LockGranted_KeepsId(r) ==
  /\ ~fault
  /\ outcome[r] = "granted"
  /\ object[r] = "none"
  /\ object' = [object EXCEPT ![r] = "live"]
  /\ lock'   = [lock EXCEPT ![asker[r]] = asker[r]]
  /\ Send(asker[r], line[r], "granted")
  /\ UNCHANGED <<lockVars, asker, line, after, closeVars, work, online, fault, histories>>

(* The callback of SyncLock.request(): it looks neither at client.state    *)
(* nor at the lock that client.lock may still name.                        *)
LockGranted(r) ==
  /\ ~fault
  /\ outcome[r] = "granted"
  /\ object[r] = "none"
  /\ LET objs  == [object EXCEPT ![r] = "live"]
         locks == [lock EXCEPT ![asker[r]] = r]
     IN  \/ /\ object' = objs /\ lock' = locks
            /\ Send(asker[r], line[r], "granted")
            /\ UNCHANGED <<line, after, state, awaiting, online, fault>>
         \/ Misses(asker[r], objs, locks)
  /\ UNCHANGED <<lockVars, asker, closable, work, histories>>

\* A faulty LockRefused: a denial is taken for a lock.
LockRefused_Holds(r) ==
  /\ ~fault
  /\ outcome[r] = "denied"
  /\ object[r] = "none"
  /\ object' = [object EXCEPT ![r] = "live"]
  /\ lock'   = [lock EXCEPT ![asker[r]] = r]
  /\ Send(asker[r], line[r], "granted")
  /\ UNCHANGED <<lockVars, asker, line, after, closeVars, work, online, fault, histories>>

\* A faulty LockRefused: the browser is not told.
LockRefused_Silent(r) ==
  /\ ~fault
  /\ outcome[r] \in {"denied", "failed"}
  /\ object[r] = "none"
  /\ object' = [object EXCEPT ![r] = "unlocked"]
  /\ UNCHANGED <<lockVars, asker, line, after, closeVars, lock, work, browserVars, fault,
                 histories>>

LockRefused(r) ==
  /\ ~fault
  /\ outcome[r] \in {"denied", "failed"}
  /\ object[r] = "none"
  /\ LET objs == [object EXCEPT ![r] = "unlocked"]
     IN  \/ /\ object' = objs
            /\ Send(asker[r], line[r], "idle")
            /\ UNCHANGED <<lock, line, after, state, awaiting, online, fault>>
         \/ Misses(asker[r], objs, lock)
  /\ UNCHANGED <<lockVars, asker, closable, work, histories>>

(* The browser fails to list or diff its own file, delays the path and     *)
(* moves on; it tells the server nothing.                                  *)
Abandon(c, t) ==
  /\ ~fault
  /\ c \in MayAbandon
  /\ phase[c][t] \in {"granted", "diffing"}
  /\ phase' = [phase EXCEPT ![c][t] = "idle"]
  /\ UNCHANGED <<lockVars, objectVars, closeVars, lock, work, online, fault, histories>>

HandleChecksumRequest(c, t) ==
  /\ ~fault
  /\ phase[c][t] = "granted"
  /\ phase' = [phase EXCEPT ![c][t] = "summing"]
  /\ work'  = [work EXCEPT ![c][t] = IF EnsureLock(c) THEN "checksums" ELSE @]
  /\ UNCHANGED <<lockVars, objectVars, closeVars, lock, online, fault, histories>>

\* checkFileSizeLimit(): a file is too large, and the request goes no further.
FileTooLarge(c, t) ==
  /\ ~fault
  /\ phase[c][t] = "granted"
  /\ EnsureLock(c)
  /\ phase' = [phase EXCEPT ![c][t] = "summing"]
  /\ GiveUp(c, t, "error")
  /\ UNCHANGED <<lockVars, asker, closeVars, lock, work, online, histories>>

ChecksumsDone(c, t) ==
  /\ ~fault
  /\ work[c][t] = "checksums"
  /\ work' = [work EXCEPT ![c][t] = "none"]
  /\ \/ /\ Send(c, t, "diffing")
        /\ UNCHANGED <<object, line, after, state, awaiting, lock, online, fault>>
     \/ Misses(c, object, lock)
  /\ UNCHANGED <<lockVars, asker, closable, histories>>

\* A faulty ChecksumsFail: the error goes out before the lock is given back.
ChecksumsFail_AnswersFirst(c, t) ==
  /\ ~fault
  /\ work[c][t] = "checksums"
  /\ work' = [work EXCEPT ![c][t] = "none"]
  /\ GiveUp(c, t, "error")
  /\ Send(c, t, "idle")
  /\ UNCHANGED <<lockVars, asker, closeVars, lock, online, histories>>

ChecksumsFail(c, t) ==
  /\ ~fault
  /\ work[c][t] = "checksums"
  /\ work' = [work EXCEPT ![c][t] = "none"]
  /\ GiveUp(c, t, "error")
  /\ UNCHANGED <<lockVars, asker, closeVars, lock, browserVars, histories>>

\* A faulty StartPatch: client.closable stays true.
StartPatch_Closable(c, t, from, to) ==
  /\ ~fault
  /\ phase[c][t] = from
  /\ phase' = [phase EXCEPT ![c][t] = to]
  /\ work'  = [work EXCEPT ![c][t] = IF EnsureLock(c) THEN "patch" ELSE @]
  /\ UNCHANGED <<lockVars, objectVars, closeVars, lock, online, fault, histories>>

\* handleDiffResponse(), handleRenameRequest() and handleDeleteRequest().
StartPatch(c, t, from, to) ==
  /\ ~fault
  /\ phase[c][t] = from
  /\ phase'    = [phase EXCEPT ![c][t] = to]
  /\ work'     = [work EXCEPT ![c][t] = IF EnsureLock(c) THEN "patch" ELSE @]
  /\ closable' = [closable EXCEPT ![c] = IF EnsureLock(c) THEN FALSE ELSE @]
  /\ UNCHANGED <<lockVars, objectVars, state, awaiting, lock, online, fault, histories>>

HandleDiffResponse(c, t)       == StartPatch(c, t, "diffing", "patching")
HandleRenameOrDelRequest(c, t) == StartPatch(c, t, "granted", "renaming")

(* A diff without data makes deserialize() throw, outside the try; one     *)
(* that makes rsync.patch() itself throw is caught and logged, with        *)
(* client.closable left false, the lock kept and the browser unanswered.   *)
HandleSpoiledDiff(c, t) ==
  /\ ~fault
  /\ c \in MaySpoil
  /\ phase[c][t] = "diffing"
  /\ phase'   = [phase EXCEPT ![c][t] = "patching"]
  /\ spoiled' = spoiled \cup {c}
  /\ \/ Throw /\ UNCHANGED closable
     \/ /\ EnsureLock(c)
        /\ closable' = [closable EXCEPT ![c] = FALSE]
        /\ UNCHANGED fault
  /\ UNCHANGED <<lockVars, objectVars, state, awaiting, lock, work, online, doubled>>

(* The patch, rename or delete is done: end() starts releasing the lock    *)
(* and, before the hdel is answered, closable() lets a waiting close() go  *)
(* on, which finds a lock that is not unlocked and releases it again.      *)
(* Without a lock, end() answers nobody, and closable() goes on.  It       *)
(* throws where a close() has dropped the handler, or where the lock is    *)
(* already being released.                                                 *)
PatchDone(c, t) ==
  /\ ~fault
  /\ work[c][t] = "patch"
  /\ work' = [work EXCEPT ![c][t] = "none"]
  /\ \/ /\ state[c] = "CLOSED"
        /\ Throw
        /\ UNCHANGED <<object, line, after, closeVars, lock, browserVars>>
     \/ /\ state[c] # "CLOSED" /\ EnsureLock(c)
        /\ IF Releasable(lock[c])
             THEN StartRelease(lock[c], "end", t) /\ fault' = awaiting[c]
             ELSE Throw /\ UNCHANGED <<object, line, after>>
        /\ closable' = [closable EXCEPT ![c] = TRUE]
        /\ UNCHANGED <<state, awaiting, lock, browserVars>>
     \/ /\ state[c] # "CLOSED" /\ ~EnsureLock(c)
        /\ closable' = [closable EXCEPT ![c] = TRUE]
        /\ IF awaiting[c] THEN Finish(c) ELSE UNCHANGED <<state, awaiting, lock, browserVars>>
        /\ UNCHANGED <<object, line, after, fault>>
  /\ UNCHANGED <<lockVars, asker, histories>>

\* A faulty PatchFail: the error path leaves the lock alone.
PatchFail_NotReleased(c, t) ==
  /\ ~fault
  /\ work[c][t] = "patch"
  /\ work' = [work EXCEPT ![c][t] = "none"]
  /\ Send(c, t, "idle")
  /\ UNCHANGED <<lockVars, objectVars, closeVars, lock, online, fault, histories>>

PatchFail(c, t) ==
  /\ ~fault
  /\ work[c][t] = "patch"
  /\ work' = [work EXCEPT ![c][t] = "none"]
  /\ GiveUp(c, t, "patch error")
  /\ UNCHANGED <<lockVars, asker, closeVars, lock, browserVars, histories>>

\* Redis deletes the entry, or fails to.
LockFreed(r) ==
  /\ ~fault
  /\ object[r] = "releasing"
  /\ Lock!GiveBack(r)
  /\ UNCHANGED <<objectVars, closeVars, lock, work, browserVars, fault, histories>>

(* The answer of a step that has given its lock back cannot be sent.  The  *)
(* close() this calls is through at once, unless a second talk is patching;*)
(* after a failed patch closable() sees to that.  end() still broadcasts.  *)
AnswerMisses(c, then, objs, locks) ==
  IF then = "patch error" /\ state[c] = "LISTENING"
    THEN /\ c \in MayMiss
         /\ online[c]
         /\ Finish(c)
         /\ closable' = [closable EXCEPT ![c] = TRUE]
         /\ object' = objs
         /\ UNCHANGED <<line, after, fault>>
    ELSE IF then = "end" /\ state[c] = "LISTENING" /\ closable[c]
    THEN /\ c \in MayMiss
         /\ online[c]
         /\ Finish(c)
         /\ object' = objs
         /\ Throw
         /\ UNCHANGED <<line, after, closable>>
    ELSE Misses(c, objs, locks) /\ UNCHANGED closable

(* The callback of a release, then what the releasing step goes on with:   *)
(* releaseLock(), which drops whatever client.lock is by now and throws if *)
(* that is null, and the answer; after a failed patch also closable().     *)
(* end() broadcasts at last, which throws once the handler has been closed.*)
Released(r) ==
  /\ ~fault
  /\ object[r] = "releasing"
  /\ outcome[r] = "done"
  /\ LET c      == asker[r]
         t      == line[r]
         objs   == [object EXCEPT ![r] = "unlocked"]
         locks  == [lock EXCEPT ![c] = None]
         answer == IF after[r] = "patch error" /\ phase[c][t] = "renaming"
                     THEN "stuck" ELSE "idle"
     IN  \/ /\ after[r] = "close"
            /\ Finish(c)
            /\ object' = objs
            /\ UNCHANGED <<line, after, closable, fault>>
         \/ /\ after[r] # "close"
            /\ lock[c] = None \/ (after[r] = "end" /\ state[c] = "CLOSED")
            /\ Throw
            /\ object' = objs
            /\ UNCHANGED <<line, after, closeVars, lock, browserVars>>
         \/ /\ after[r] # "close"
            /\ lock[c] # None
            /\ ~(after[r] = "end" /\ state[c] = "CLOSED")
            /\ closable' =
                 [closable EXCEPT ![c] = IF after[r] = "patch error" THEN TRUE ELSE @]
            /\ IF after[r] = "patch error" /\ awaiting[c]
                 THEN Finish(c)
                 ELSE /\ lock' = locks
                      /\ Send(c, t, answer)
                      /\ UNCHANGED <<state, awaiting, online>>
            /\ object' = objs
            /\ UNCHANGED <<line, after, fault>>
         \/ /\ after[r] # "close"
            /\ lock[c] # None
            /\ AnswerMisses(c, after[r], objs, locks)
  /\ UNCHANGED <<lockVars, asker, work, histories>>

\* ws.onclose (or ws.onerror).
HangUp(c) ==
  /\ ~fault
  /\ c \in MayHangUp
  /\ online[c]
  /\ online' = [online EXCEPT ![c] = FALSE]
  /\ phase'  = [phase EXCEPT ![c] = Gone]
  /\ Close(c, object, lock)
  /\ UNCHANGED <<lockVars, asker, closable, work, histories>>

\* shutdown() of client-manager.js closes the clients not yet closing.
Shutdown(c) ==
  /\ ~fault
  /\ c \in MayShutdown
  /\ state[c] = "LISTENING"
  /\ CloseHere(c, object, lock)
  /\ UNCHANGED <<lockVars, asker, closable, work, histories>>

Next ==
  \/ \E r \in Calls :
       \/ \E c \in Clients, t \in Talks, p \in Paths : HandleSyncInitRequest(c, t, r, p)
       \/ LockDecides(r)
       \/ LockGranted(r)
       \/ LockRefused(r)
       \/ LockFreed(r)
       \/ Released(r)
  \/ \E c \in Clients, t \in Talks :
       \/ Abandon(c, t)
       \/ HandleChecksumRequest(c, t)
       \/ FileTooLarge(c, t)
       \/ ChecksumsDone(c, t)
       \/ ChecksumsFail(c, t)
       \/ HandleDiffResponse(c, t)
       \/ HandleSpoiledDiff(c, t)
       \/ HandleRenameOrDelRequest(c, t)
       \/ PatchDone(c, t)
       \/ PatchFail(c, t)
  \/ \E c \in Clients : HangUp(c) \/ Shutdown(c)

Spec == Init /\ [][Next]_vars

(* Redis and the lock service answer every call, and every callback and    *)
(* file-system operation completes; nobody has to connect, ask or hang up. *)
Fairness ==
  /\ \A r \in Calls :
       WF_vars(\/ LockDecides(r) \/ LockGranted(r) \/ LockRefused(r)
               \/ LockFreed(r) \/ Released(r))
  /\ \A c \in Clients, t \in Talks :
       WF_vars(\/ ChecksumsDone(c, t) \/ ChecksumsFail(c, t)
               \/ PatchDone(c, t) \/ PatchFail(c, t))

FairSpec == Spec /\ Fairness

-----------------------------------------------------------------------------
(* Every variable keeps its type. *)
TypeOK ==
  /\ Lock!TypeOK
  /\ asker \in [Calls -> Clients \cup {None}]
  /\ object \in [Calls -> {"none", "live", "releasing", "unlocked"}]
  /\ line \in [Calls -> Talks]
  /\ after \in [Calls -> {"none", "end", "error", "patch error", "close"}]
  /\ state \in [Clients -> {"LISTENING", "CLOSING", "CLOSED"}]
  /\ closable \in [Clients -> BOOLEAN]
  /\ awaiting \in [Clients -> BOOLEAN]
  /\ lock \in [Clients -> Calls \cup {None}]
  /\ work \in [Clients -> [Talks -> {"none", "checksums", "patch"}]]
  /\ online \in [Clients -> BOOLEAN]
  /\ phase \in [Clients -> [Talks -> Phases]]
  /\ fault \in BOOLEAN
  /\ doubled \subseteq Clients
  /\ spoiled \subseteq Clients

\* close() went on for c without waiting for the step under way.
Overtaken(c) == state[c] # "LISTENING" /\ ~awaiting[c]

Patching(c) == \E t \in Talks : work[c][t] = "patch"

\* Neither a close() nor a second SYNC has come between c's steps.
Orderly(c) == ~Overtaken(c) /\ c \notin doubled

(* A patch, rename or delete runs under a lock of that client's own that   *)
(* is neither given back nor being given back (ensureLock(), asked once    *)
(* when the step starts, stands in for all of it), unless its browser has  *)
(* sent a SYNC while one was pending.                                      *)
PatchUnderLock ==
  \A c \in Clients :
    Patching(c) /\ Orderly(c) /\ ~fault =>
      /\ Releasable(lock[c])
      /\ outcome[lock[c]] = "granted"
      /\ asker[lock[c]] = c

(* Two sessions of a user write to the same path of the server's file      *)
(* system at once only where a call has broken in on the path's lock, or   *)
(* where one of the two browsers has sent a SYNC while one was pending.    *)
PatchExclusive ==
  \A c, d \in Clients :
    /\ c # d
    /\ Patching(c) /\ Orderly(c)
    /\ Patching(d) /\ Orderly(d)
    /\ ~fault
    /\ want[lock[c]] = want[lock[d]]
    => want[lock[c]] \in broken

(* A hang-up never makes close() overtake a patch that is under way: that  *)
(* is what client.closable is for.  (It is one flag for all the talks of a *)
(* client, so a second SYNC undoes it.)                                    *)
CloseWaitsForPatch ==
  \A c \in Clients \ (MayShutdown \cup doubled) : Patching(c) => ~Overtaken(c)

(* While end() or a failed step gives a lock back, client.lock stays that  *)
(* lock: releaseLock() finds it, and drops no later one in its place,      *)
(* unless the browser has sent a SYNC while one was pending.               *)
ReleaserStillHolds ==
  \A r \in Calls :
    object[r] = "releasing" /\ Orderly(asker[r]) /\ ~fault => lock[asker[r]] = r

(* What brings the process down by an uncaught TypeError: a client.close(),*)
(* a SYNC sent while one was pending, or a diff that cannot be read.       *)
(* Steps of clients that keep to the protocol never do it, though a step   *)
(* may fail, a sync be abandoned and a lock refused at any point.          *)
FaultHasCause ==
  fault => \E c \in Clients :
             state[c] # "LISTENING" \/ c \in doubled \/ c \in spoiled

(* A browser that waits for the server gets its answer, unless it is gone, *)
(* it sent a SYNC while one was pending, its diff made rsync.patch() throw *)
(* (which is logged and not answered), or the process has died.            *)
StepsAnswered ==
  \A c \in Clients :
    phase[c][Main] \in Waiting
      ~> phase[c][Main] \notin Waiting \/ c \in doubled \cup spoiled \/ fault

(* A close() that has begun comes to its end, unless the process dies; it  *)
(* waits for ever for a patch that threw.                                  *)
CloseCompletes ==
  \A c \in Clients :
    state[c] = "CLOSING" ~> state[c] = "CLOSED" \/ c \in spoiled \/ fault

(* sync-protocol-handler.js, in close(): "If we can't yet we wait on the   *)
(* closable event."  After a patch that succeeds, the close() that waited  *)
(* releases a second time the lock end() is releasing, and throws.         *)
WaitingCloseFinishes ==
  \A c \in Clients : awaiting[c] => ~fault
=============================================================================
