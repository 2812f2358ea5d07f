------------------------------ MODULE SyncLock ------------------------------
(***************************************************************************)
(* The distributed lock of server/lib/sync-lock.js over the three redis    *)
(* connections of server/redis-clients.js.                                 *)
(*                                                                         *)
(* A redis hash maps a path to the id of the client whose lock covers it.  *)
(* A caller that loses the hsetnx asks the holder over pub/sub and, if its *)
(* timer expires before a denial arrives, overwrites the entry.            *)
(*                                                                         *)
(* Requests is the set of calls of request() made in a behaviour: each     *)
(* element is used once, and stands for the lock object when it gets one.  *)
(* Paths stands for pairs (user's hash key, path).  A process that dies    *)
(* never returns; a restarted one is another element of Servers, and its   *)
(* clients come back with new tokens, that is as other Clients.            *)
(*                                                                         *)
(* The branch of handleLockRequest that gives a lock away (lines 41-58) is *)
(* left out: allowLockRequest is never set, so no lock reaches it.         *)
(***************************************************************************)
EXTENDS Naturals, Sequences, FiniteSets

CONSTANTS
  Clients,      \* ids (tokens) of connected clients
  Servers,      \* server processes
  Paths,        \* what a lock can cover
  Requests,     \* calls of request()
  None,         \* JavaScript's null, and an absent redis field
  Home,         \* the process each client is connected to
  Fragile,      \* the processes that may be killed
  Pipelined,    \* may a client ask again before its last call was answered?
  RedisFails,   \* may a redis command be answered with an error?
  Prompt        \* is CLIENT_TIMEOUT_MS longer than every message delay?

ASSUME ConstantsAssumption ==
  /\ Home \in [Clients -> Servers]
  /\ Fragile \subseteq Servers
  /\ {Pipelined, RedisFails, Prompt} \subseteq BOOLEAN
  /\ None \notin Clients \cup Paths \cup Requests
  /\ IsFiniteSet(Requests)

VARIABLES
  store,        \* redis: the hash, path -> client id
  up,           \* "up", "killed", or "faulted" by an uncaught TypeError
  inbox,        \* pub/sub messages each process has yet to receive
  pc,           \* where each call of request(), then its lock, has got to
  client,       \* the caller
  path,         \* the path it wants
  slot,         \* client._handleLockResponseFn: the call whose listener it is
  listening,    \* calls whose lock-response listener is on the emitter
  answers,      \* how often the call's callback has run (counted up to 2)
  takeovers,    \* history: how often a timed-out call overwrote a path's entry
  asked         \* history: locks a call's lock-request should have reached

redisVars == <<store, takeovers>>
callVars  == <<client, path>>
waitVars  == <<slot, listening>>
vars == <<store, up, inbox, pc, client, path, slot, listening, answers,
          takeovers, asked>>

(* "hsetnx", "hset", "hdel": the command is on its way to redis.  "won",   *)
(* "lost", "seized", "deleted": redis ran it and its reply is on its way.  *)
PCs == {"new", "hsetnx", "won", "lost", "waiting", "hset", "seized", "held",
        "hdel", "deleted", "released", "denied", "failed"}

LockRequest(p)  == [channel |-> "lock-request", path |-> p]
LockResponse(p) == [channel |-> "lock-response", path |-> p]
Messages == [channel: {"lock-request", "lock-response"}, path: Paths]

takenOver == {p \in Paths : takeovers[p] > 0}

Server(r)  == Home[client[r]]
Running(r) == pc[r] # "new" /\ up[Server(r)] = "up"
Pending(r) == pc[r] \in {"hsetnx", "won", "lost", "waiting", "hset", "seized"}

\* The locks on p whose lock-request listener is registered in process s.
LocksAt(s, p) == {r \in Requests : /\ pc[r] = "held"
                                   /\ path[r] = p
                                   /\ Server(r) = s}

\* The calls of process s whose lock-response listener matches p.
ListenersAt(s, p) == {r \in listening : path[r] = p /\ Server(r) = s}

\* One publish per message of msgs, to every process that is still there.
Publish(box, msgs) ==
  [s \in Servers |-> IF up[s] = "up" THEN box[s] \o msgs ELSE box[s]]

Answer(rs) ==
  answers' = [r \in Requests |->
                IF r \in rs /\ answers[r] < 2 THEN answers[r] + 1 ELSE answers[r]]

\* A process ends and loses what it has not received.
Die(s, how) ==
  /\ up'    = [up EXCEPT ![s] = how]
  /\ inbox' = [inbox EXCEPT ![s] = <<>>]

\* Nothing about p is under way: no message, no command, no reply.
Quiet(p) ==
  /\ \A s \in Servers : \A i \in 1..Len(inbox[s]) : inbox[s][i].path # p
  /\ \A r \in Requests :
        path[r] = p /\ Running(r)
          => pc[r] \in {"waiting", "held", "released", "denied", "failed"}

-----------------------------------------------------------------------------
Init ==
  /\ store     = [p \in Paths |-> None]
  /\ up        = [s \in Servers |-> "up"]
  /\ inbox     = [s \in Servers |-> <<>>]
  /\ pc        = [r \in Requests |-> "new"]
  /\ client    = [r \in Requests |-> None]
  /\ path      = [r \in Requests |-> None]
  /\ slot      = [c \in Clients |-> None]
  /\ listening = {}
  /\ answers   = [r \in Requests |-> 0]
  /\ takeovers = [p \in Paths |-> 0]
  /\ asked     = [r \in Requests |-> {}]

\* request(): send the hsetnx.
Request(r, c, p) ==
  /\ pc[r] = "new"
  /\ up[Home[c]] = "up"
  /\ Pipelined \/ \A q \in Requests : client[q] = c => ~Pending(q)
  /\ pc'     = [pc EXCEPT ![r] = "hsetnx"]
  /\ client' = [client EXCEPT ![r] = c]
  /\ path'   = [path EXCEPT ![r] = p]
  /\ UNCHANGED <<redisVars, up, inbox, waitVars, answers, asked>>

\* Mutant: hset where hsetnx is meant.
ExecHsetnx_Overwrites(r) ==
  /\ pc[r] = "hsetnx"
  /\ store' = [store EXCEPT ![path[r]] = client[r]]
  /\ pc'    = [pc EXCEPT ![r] = "won"]
  /\ UNCHANGED <<up, inbox, callVars, waitVars, answers, takeovers, asked>>

\* Mutant: the call, not the id of its client, is stored.
ExecHsetnx_StoresCall(r) ==
  /\ pc[r] = "hsetnx"
  /\ store[path[r]] = None
  /\ store' = [store EXCEPT ![path[r]] = r]
  /\ pc'    = [pc EXCEPT ![r] = "won"]
  /\ UNCHANGED <<up, inbox, callVars, waitVars, answers, takeovers, asked>>

(* Redis runs a command whether or not the process that sent it is alive.  *)
ExecHsetnx(r) ==
  /\ pc[r] = "hsetnx"
  /\ \/ /\ store[path[r]] = None
        /\ store' = [store EXCEPT ![path[r]] = client[r]]
        /\ pc'    = [pc EXCEPT ![r] = "won"]
     \/ /\ store[path[r]] # None
        /\ store' = store
        /\ pc'    = [pc EXCEPT ![r] = "lost"]
  /\ UNCHANGED <<up, inbox, callVars, waitVars, answers, takeovers, asked>>

ExecHset(r) ==
  /\ pc[r] = "hset"
  /\ store'     = [store EXCEPT ![path[r]] = client[r]]
  /\ takeovers' = [takeovers EXCEPT ![path[r]] = @ + 1]
  /\ pc'        = [pc EXCEPT ![r] = "seized"]
  /\ UNCHANGED <<up, inbox, callVars, waitVars, answers, asked>>

\* Mutant: the lock is not marked unlocked once its entry is gone.
ExecHdel_StaysLocked(r) ==
  /\ pc[r] = "hdel"
  /\ store' = [store EXCEPT ![path[r]] = None]
  /\ pc'    = [pc EXCEPT ![r] = "held"]
  /\ UNCHANGED <<up, inbox, callVars, waitVars, answers, takeovers, asked>>

ExecHdel(r) ==
  /\ pc[r] = "hdel"
  /\ store' = [store EXCEPT ![path[r]] = None]
  /\ pc'    = [pc EXCEPT ![r] = "deleted"]
  /\ UNCHANGED <<up, inbox, callVars, waitVars, answers, takeovers, asked>>

\* An error reply to hsetnx or hset: not run, and handed to the caller.
RequestFails(r) ==
  /\ RedisFails
  /\ Running(r)
  /\ pc[r] \in {"hsetnx", "hset"}
  /\ pc' = [pc EXCEPT ![r] = "failed"]
  /\ Answer({r})
  /\ UNCHANGED <<redisVars, up, inbox, callVars, waitVars, asked>>

\* An error reply to hdel: the entry stays, the lock is unlocked all the same.
ReleaseFails(r) ==
  /\ RedisFails
  /\ Running(r)
  /\ pc[r] = "hdel"
  /\ pc' = [pc EXCEPT ![r] = "released"]
  /\ UNCHANGED <<redisVars, up, inbox, callVars, waitVars, answers, asked>>

\* hsetnx answered 1, or the overwriting hset succeeded: new SyncLock.
Acquired(r) ==
  /\ pc[r] \in {"won", "seized"}
  /\ Running(r)
  /\ pc' = [pc EXCEPT ![r] = "held"]
  /\ Answer({r})
  /\ UNCHANGED <<redisVars, up, inbox, callVars, waitVars, asked>>

\* hsetnx answered 0: arm the timer, listen for a response, ask the holder.
Contended(r) ==
  /\ pc[r] = "lost"
  /\ Running(r)
  /\ pc'        = [pc EXCEPT ![r] = "waiting"]
  /\ slot'      = [slot EXCEPT ![client[r]] = r]
  /\ listening' = listening \cup {r}
  /\ inbox'     = Publish(inbox, <<LockRequest(path[r])>>)
  /\ asked'     = [asked EXCEPT ![r] =
                     UNION {LocksAt(s, path[r]) : s \in {t \in Servers : up[t] = "up"}}]
  /\ UNCHANGED <<redisVars, up, callVars, answers>>

\* Mutant: a denial does not clear the timer.
Timeout_NotCleared(r) ==
  /\ pc[r] \in {"waiting", "denied"}
  /\ Running(r)
  /\ slot[client[r]] = None
  /\ Die(Server(r), "faulted")
  /\ UNCHANGED <<redisVars, callVars, waitVars, pc, answers, asked>>

\* Mutant: no timer is armed.
Timeout_Never(r) == r \notin Requests /\ UNCHANGED vars

(* The timer of a waiting call.  removeListener() throws on a slot that is *)
(* already null, and no one catches it.                                    *)
Timeout(r) ==
  /\ pc[r] = "waiting"
  /\ Running(r)
  /\ Prompt => Quiet(path[r])
  /\ \/ /\ slot[client[r]] # None
        /\ listening' = listening \ {slot[client[r]]}
        /\ slot'      = [slot EXCEPT ![client[r]] = None]
        /\ pc'        = [pc EXCEPT ![r] = "hset"]
        /\ UNCHANGED <<up, inbox>>
     \/ /\ slot[client[r]] = None
        /\ Die(Server(r), "faulted")
        /\ UNCHANGED <<waitVars, pc>>
  /\ UNCHANGED <<redisVars, callVars, answers, asked>>

\* release(): stop listening for lock-requests, then send the hdel.
Release(r) ==
  /\ pc[r] = "held"
  /\ Running(r)
  /\ pc' = [pc EXCEPT ![r] = "hdel"]
  /\ UNCHANGED <<redisVars, up, inbox, callVars, waitVars, answers, asked>>

Released(r) ==
  /\ pc[r] = "deleted"
  /\ Running(r)
  /\ pc' = [pc EXCEPT ![r] = "released"]
  /\ UNCHANGED <<redisVars, up, inbox, callVars, waitVars, answers, asked>>

\* Mutant: the holder keeps silent.
HandleLockRequest_Silent(s) ==
  /\ up[s] = "up"
  /\ inbox[s] # <<>>
  /\ Head(inbox[s]).channel = "lock-request"
  /\ inbox' = [inbox EXCEPT ![s] = Tail(@)]
  /\ UNCHANGED <<redisVars, up, pc, callVars, waitVars, answers, asked>>

\* handleLockRequest: every lock on the path denies, addressing no one.
HandleLockRequest(s) ==
  /\ up[s] = "up"
  /\ inbox[s] # <<>>
  /\ Head(inbox[s]).channel = "lock-request"
  /\ LET p       == Head(inbox[s]).path
         denials == [i \in 1..Cardinality(LocksAt(s, p)) |-> LockResponse(p)]
     IN  inbox' = Publish([inbox EXCEPT ![s] = Tail(@)], denials)
  /\ UNCHANGED <<redisVars, up, pc, callVars, waitVars, answers, asked>>

\* Mutant: a denied call's listener stays registered.
HandleLockResponse_KeepsListening(s) ==
  /\ up[s] = "up"
  /\ inbox[s] # <<>>
  /\ Head(inbox[s]).channel = "lock-response"
  /\ LET called == ListenersAt(s, Head(inbox[s]).path)
     IN  /\ pc' = [r \in Requests |->
                     IF r \in called /\ pc[r] = "waiting" THEN "denied" ELSE pc[r]]
         /\ Answer(called)
  /\ inbox' = [inbox EXCEPT ![s] = Tail(@)]
  /\ UNCHANGED <<redisVars, up, callVars, waitVars, asked>>

(* handleLockResponse of every listener on the path, in one emit.  Each    *)
(* removes the listener its client's slot names, its own or not, and       *)
(* throws when an earlier one has emptied the slot.                        *)
HandleLockResponse(s) ==
  /\ up[s] = "up"
  /\ inbox[s] # <<>>
  /\ Head(inbox[s]).channel = "lock-response"
  /\ LET called  == ListenersAt(s, Head(inbox[s]).path)
         callers == {client[r] : r \in called}
     IN  \/ /\ \A r \in called : slot[client[r]] # None
            /\ \A q, r \in called : client[q] = client[r] => q = r
            /\ listening' = listening \ {slot[c] : c \in callers}
            /\ slot'      = [c \in Clients |-> IF c \in callers THEN None ELSE slot[c]]
            /\ pc'        = [r \in Requests |->
                               IF r \in called /\ pc[r] = "waiting" THEN "denied" ELSE pc[r]]
            /\ inbox' = [inbox EXCEPT ![s] = Tail(@)]
            /\ Answer(called)
            /\ UNCHANGED up
         \/ /\ \/ \E r \in called : slot[client[r]] = None
               \/ \E q, r \in called : client[q] = client[r] /\ q # r
            /\ Die(s, "faulted")
            /\ UNCHANGED <<waitVars, pc, answers>>
  /\ UNCHANGED <<redisVars, callVars, asked>>

Kill(s) ==
  /\ s \in Fragile
  /\ up[s] = "up"
  /\ Die(s, "killed")
  /\ UNCHANGED <<redisVars, pc, callVars, waitVars, answers, asked>>

Next ==
  \/ \E r \in Requests :
       \/ \E c \in Clients, p \in Paths : Request(r, c, p)
       \/ ExecHsetnx(r)
       \/ ExecHset(r)
       \/ ExecHdel(r)
       \/ RequestFails(r)
       \/ ReleaseFails(r)
       \/ Acquired(r)
       \/ Contended(r)
       \/ Timeout(r)
       \/ Release(r)
       \/ Released(r)
  \/ \E s \in Servers :
       \/ HandleLockRequest(s)
       \/ HandleLockResponse(s)
       \/ Kill(s)

Spec == Init /\ [][Next]_vars

(* Redis runs what it is sent, replies and messages arrive, timers expire. *)
(* Nothing makes a caller ask, a holder release or a process die.          *)
Fairness ==
  /\ \A r \in Requests :
       /\ WF_vars(ExecHsetnx(r) \/ ExecHset(r) \/ ExecHdel(r))
       /\ WF_vars(Acquired(r) \/ Contended(r) \/ Released(r))
       /\ WF_vars(Timeout(r))
  /\ \A s \in Servers : WF_vars(HandleLockRequest(s) \/ HandleLockResponse(s))

FairSpec == Spec /\ Fairness

-----------------------------------------------------------------------------
(* What the code offers its callers is the lock service of LockService:    *)
(* a call is granted when redis accepts it, and gives back when its hdel   *)
(* has run or failed.                                                      *)
Outcome(at) ==
  CASE at = "new"                                        -> "none"
    [] at \in {"hsetnx", "lost", "waiting", "hset"}      -> "asked"
    [] at \in {"won", "seized", "held", "hdel"}          -> "granted"
    [] at \in {"deleted", "released"}                    -> "done"
    [] at \in {"denied", "failed"}                       -> at

Service == INSTANCE LockService WITH
             outcome <- [r \in Requests |-> Outcome(pc[r])],
             want    <- path,
             broken  <- takenOver

(* Every step of the code is a step of the lock service or none.           *)
ImplementsLockService == Service!Spec

\* Every variable stays within the values the code can give it.
TypeOK ==
  /\ store \in [Paths -> Clients \cup {None}]
  /\ up \in [Servers -> {"up", "killed", "faulted"}]
  /\ inbox \in [Servers -> Seq(Messages)]
  /\ pc \in [Requests -> PCs]
  /\ client \in [Requests -> Clients \cup {None}]
  /\ path \in [Requests -> Paths \cup {None}]
  /\ slot \in [Clients -> Requests \cup {None}]
  /\ listening \subseteq Requests
  /\ answers \in [Requests -> 0..2]
  /\ takeovers \in [Paths -> Nat]
  /\ asked \in [Requests -> SUBSET Requests]
  /\ \A r \in Requests : pc[r] # "new" => client[r] \in Clients /\ path[r] \in Paths

(* A call covers its path from the moment redis accepts it until redis     *)
(* runs its hdel.                                                          *)
Covers(r, p) == path[r] = p /\ pc[r] \in {"won", "seized", "held", "hdel"}
Holds(r, p)  == Covers(r, p) /\ Running(r)

(* Until some timed-out call overwrites a path's entry, at most one lock   *)
(* covers the path, across all processes and however calls, replies,       *)
(* releases and deaths interleave.                                         *)
ExclusiveUntilTakeover ==
  \A p \in Paths : \A q, r \in Requests :
     p \notin takenOver /\ Covers(q, p) /\ Covers(r, p) => q = r

(* Until then, too, the entry names the client of the lock that covers the *)
(* path, so that isUserLocked() and every hsetnx tell the truth about it.  *)
EntryNamesHolder ==
  \A p \in Paths : \A r \in Requests :
     p \notin takenOver /\ Covers(r, p) => pc[r] # "seized" /\ store[p] = client[r]

(* After a takeover a release may delete the entry of another client,      *)
(* which lets a third one in.  The harm is bounded all the same: however   *)
(* takeovers, foreign deletions, deaths and redis errors follow each       *)
(* other, the locks that cover a path never outnumber its takeovers and    *)
(* its entry, if it has one, taken together.                               *)
HoldersBoundedByTakeovers ==
  \A p \in Paths :
     Cardinality({r \in Requests : Covers(r, p)})
       <= takeovers[p] + IF store[p] = None THEN 0 ELSE 1

(* The promise of lines 2-3: a path is synced by one client at a time.     *)
OneHolderPerPath ==
  \A p \in Paths : \A q, r \in Requests : Holds(q, p) /\ Holds(r, p) => q = r

(* No listener or timer finds its client's slot already emptied, which     *)
(* would make removeListener(null) throw and end the process.              *)
NoFault == \A s \in Servers : up[s] # "faulted"

(* The callback of a call runs at most once: a denial, a timeout and a     *)
(* late response do not each answer it.                                    *)
AnsweredOnce == \A r \in Requests : answers[r] <= 1

(* When messages are faster than the timer, a lock that was there to hear  *)
(* the lock-request and is still held is never taken over: its denial wins *)
(* the race against the asking call's timer.                               *)
AskedHolderKeepsLock ==
  Prompt => \A r \in Requests : pc[r] = "hset" =>
              \A q \in asked[r] : pc[q] = "held" => ~Running(q)

(* Every call is answered, by a lock, a denial or an error, unless its     *)
(* process dies: in particular a stale entry left by a dead holder delays  *)
(* a call but does not hang it.                                            *)
EveryCallAnswered ==
  \A r \in Requests : pc[r] = "hsetnx" ~> (answers[r] > 0 \/ ~Running(r))
=============================================================================
