----------------------------- MODULE Connections -----------------------------
(***************************************************************************)
(* How a browser and a server process come to a session and leave it: the  *)
(* API's connect() and disconnect(), the sync manager that opens, loses    *)
(* and reopens a web socket, the one-time tokens, the server's handshake   *)
(* and its list of clients, and the shutdown of the process.               *)
(*                                                                         *)
(* A socket carries both its ends: the browser's handlers and the client   *)
(* object of the server.  It is lost in two steps, as a web socket is:     *)
(* first readyState changes ("ending"), then onclose is called.            *)
(***************************************************************************)
EXTENDS Naturals, Sequences, FiniteSets, SequencesExt

CONSTANTS Managers, Sockets, Tokens, None,
          Attempts   \* options.reconnectAttempts; the default has no limit

ASSUME NoneAssumption == None \notin Managers \cup Sockets \cup Tokens
ASSUME AttemptsAssumption == Attempts \in Nat

VARIABLES
  \* the browser
  autoReconnect, limited,  \* options
  state,     \* sync.state
  manager,   \* the manager of the API, if any
  mgr,       \* every manager made: socket, counter, timer, token, failed
  pend,      \* the managers with a sync under way
  ws,        \* the sockets, seen from the browser: owner, net, on, onclose
  \* between them
  toServer, toBrowser,
  asks,      \* the sockets whose onopen waits for a token of /api/sync
  \* the server process
  phase,     \* up, closing, closed, gone
  table,     \* authTable: the tokens that can still be used
  info,      \* ClientInfo
  cl,        \* the client object of each socket: state, id
  clients,   \* the list of clients
  busy,      \* the clients in a step that must not be cut off
  counted, connected, awaited,   \* shutdown()
  left,      \* bounds
  \* history
  hasty,     \* disconnect() came before, or while, the socket changed
  stalled,   \* /api/sync gave no token
  thrown,    \* the calls that threw, each with sync.state of that moment
  shown,     \* how often each token was presented
  granted,   \* how many clients each token admitted
  calls,     \* how often shutdown() called back
  behind,    \* the clients behind an idle one when shutdown() walked the list
  cut,       \* the clients in such a step when the process ended
  crashed    \* it ended by an exception that nobody caught

options == <<autoReconnect, limited>>
browser == <<state, manager, mgr, pend>>
wire    == <<toServer, toBrowser, asks>>
auth    == <<table, info, shown, granted>>
closing == <<phase, counted, connected, awaited, calls, behind, cut, crashed>>
server  == <<cl, clients, busy>>
vars    == <<options, browser, ws, wire, auth, closing, server, left, hasty, stalled, thrown>>

NoManager == [socket |-> None, counter |-> 0, timer |-> FALSE, token |-> None, failed |-> FALSE]
NoSocket  == [owner |-> None, net |-> "none", on |-> "off", onclose |-> "off", again |-> FALSE]
NoClient  == [state |-> "CREATED", id |-> None]

Budgets == {"connects", "disconnects", "cuts", "refusals", "expiries", "syncs", "patches", "stops", "crashes"}

InitWith(bounds) ==
  /\ autoReconnect \in BOOLEAN /\ limited \in BOOLEAN /\ (limited => autoReconnect)
  /\ state = "DISCONNECTED" /\ manager = None
  /\ mgr = [m \in Managers |-> NoManager] /\ pend = {}
  /\ ws = [s \in Sockets |-> NoSocket]
  /\ toServer = [s \in Sockets |-> <<>>] /\ toBrowser = [s \in Sockets |-> <<>>] /\ asks = {}
  /\ phase = "up" /\ table = {} /\ info = {}
  /\ cl = [s \in Sockets |-> NoClient] /\ clients = <<>> /\ busy = {}
  /\ counted = 0 /\ connected = 0 /\ awaited = {}
  /\ left = bounds
  /\ hasty = FALSE /\ stalled = FALSE /\ thrown = {}
  /\ shown = [t \in Tokens |-> 0] /\ granted = [t \in Tokens |-> 0]
  /\ calls = 0 /\ behind = {} /\ cut = {} /\ crashed = FALSE

-----------------------------------------------------------------------------
(* Helpers *)

Spend(what) == left[what] > 0 /\ left' = [left EXCEPT ![what] = @ - 1]

\* Once, twice, more often is the same.
Again(n) == IF n = 2 THEN 2 ELSE n + 1

\* Managers, sockets and tokens are fresh objects; one that nobody refers to
\* stands for them, whichever it is.
First(S) == CHOOSE x \in S : TRUE
Unused(s) == ws[s] = NoSocket /\ cl[s] = NoClient
InUse(m) == m = manager \/ m \in pend \/ mgr[m].timer \/ \E s \in Sockets : ws[s].owner = m
FreshToken(t) ==
  /\ t \notin table \cup info
  /\ \A s \in Sockets : t # cl[s].id /\ \A i \in DOMAIN toServer[s] : toServer[s][i] # t
  /\ \A m \in Managers : InUse(m) => mgr[m].token # t

\* generateTokenForClient() and ClientInfo.init(), behind GET /api/sync.
Issue(t) ==
  /\ phase \in {"up", "closing"} /\ FreshToken(t) /\ t = First({x \in Tokens : FreshToken(x)})
  /\ table' = table \cup {t} /\ info' = info \cup {t}
  /\ shown' = [shown EXCEPT ![t] = 0] /\ granted' = [granted EXCEPT ![t] = 0]

\* connect() of the manager: a new socket.
Opening(m, reconnecting) ==
  [owner |-> m, net |-> "opening", on |-> "auth", again |-> reconnecting,
   onclose |-> IF autoReconnect THEN "again" ELSE "plain"]

\* manager.send(): without a socket it throws, and with a closed one it closes.
Send(m, s, message) == IF ws[s].net = "open" THEN Append(toServer[s], message) ELSE toServer[s]

-----------------------------------------------------------------------------
(* The API *)

NewManager(m, s, token) ==
  /\ state = "DISCONNECTED" /\ manager = None
  /\ ~InUse(m) /\ m = First({x \in Managers : ~InUse(x)})
  /\ Unused(s) /\ s = First({x \in Sockets : Unused(x)})
  /\ Spend("connects")
  /\ state' = "CONNECTING" /\ manager' = m
  /\ mgr' = [mgr EXCEPT ![m] = [NoManager EXCEPT !.token = token]]
  /\ ws' = [ws EXCEPT ![s] = Opening(m, FALSE)]
  /\ UNCHANGED <<options, pend, wire, closing, server, hasty, stalled, thrown>>

\* sync.connect(url) and sync.connect(url, token), whose token the application
\* has just got, or used before.
Connect(m, s)          == NewManager(m, s, None) /\ UNCHANGED auth
ConnectWithToken(m, s) ==
  \E t \in Tokens : NewManager(m, s, t) /\ (Issue(t) \/ (~FreshToken(t) /\ UNCHANGED auth))

\* manager.close(), called by disconnect() and by handleClose().
ClosedBy(m, sockets) ==
  LET s == mgr[m].socket IN
  IF s = None THEN sockets
  ELSE IF sockets[s].net = "open"
       THEN [sockets EXCEPT ![s].on = "off", ![s].onclose = "forget", ![s].net = "closing"]
       ELSE [sockets EXCEPT ![s].on = "off"]

\* sync.disconnect()
\* Mutant: the manager is dropped but not closed.
Disconnect_NotClosed ==
  /\ state # "DISCONNECTED"
  /\ Spend("disconnects")
  /\ state' = "DISCONNECTED" /\ manager' = None
  /\ IF manager = None THEN UNCHANGED <<ws, mgr, hasty>>
     ELSE LET s == mgr[manager].socket IN
          /\ ws' = ws
          /\ mgr' = [mgr EXCEPT ![manager].socket =
                       IF s # None /\ ws[s].net = "open" THEN s ELSE None]
          /\ hasty' = (hasty \/ manager \in pend \/ s = None \/ ws[s].net # "open")
  /\ UNCHANGED <<options, pend, wire, auth, closing, server, stalled, thrown>>
Disconnect ==
  /\ state # "DISCONNECTED"
  /\ Spend("disconnects")
  /\ state' = "DISCONNECTED" /\ manager' = None
  /\ IF manager = None THEN UNCHANGED <<ws, mgr, hasty>>
     ELSE LET s == mgr[manager].socket IN
          /\ ws' = ClosedBy(manager, ws)
          /\ mgr' = [mgr EXCEPT ![manager].socket =
                       IF s # None /\ ws[s].net = "open" THEN s ELSE None]
          /\ hasty' = (hasty \/ manager \in pend \/ s = None \/ ws[s].net # "open")
  /\ UNCHANGED <<options, pend, wire, auth, closing, server, stalled, thrown>>

Throws(what) == thrown' = thrown \cup {[in |-> what, state |-> state]}

\* sync.request(), called by the application or by the timer of sync.auto():
\* there is no manager, or syncUpstream() finds no socket.
Request ==
  /\ state \in {"CONNECTED", "SYNCING"}
  /\ IF manager = None \/ mgr[manager].socket = None THEN Throws("request") ELSE UNCHANGED thrown
  /\ UNCHANGED <<options, browser, ws, wire, auth, closing, server, left, hasty, stalled>>

\* sync.onSyncing(), called when a message begins a sync; the handler goes on
\* asynchronously ...
SyncBegins(s) ==
  /\ ws[s].net = "open" /\ ws[s].on = "run" /\ cl[s].state = "LISTENING"
  /\ Spend("syncs")
  /\ state' = "SYNCING" /\ pend' = pend \cup {ws[s].owner}
  /\ UNCHANGED <<options, manager, mgr, ws, wire, auth, closing, server, hasty, stalled, thrown>>

\* ... to syncNext(), if it was an upload: sync.onCompleted() reads the API's
\* manager, and then this manager's syncUpstream() asks for a socket ...
SyncNext(m) ==
  /\ m \in pend
  /\ IF manager = None THEN Throws("onCompleted")
     ELSE IF mgr[m].socket = None THEN Throws("syncNext") ELSE UNCHANGED thrown
  /\ UNCHANGED <<options, browser, ws, wire, auth, closing, server, left, hasty, stalled>>

\* ... and to the end of sync.onCompleted(), and allCompleted().
SyncEnds(m) ==
  /\ m \in pend /\ pend' = pend \ {m}
  /\ IF manager = None THEN Throws("onCompleted") ELSE UNCHANGED thrown
  /\ state' = IF state = "DISCONNECTED" \/ manager = None THEN state ELSE "CONNECTED"
  /\ UNCHANGED <<options, manager, mgr, ws, wire, auth, closing, server, left, hasty, stalled>>

-----------------------------------------------------------------------------
(* The sync manager *)

\* onopen: manager.socket is set only now; a token is sent or asked for.
Opens(s) ==
  LET m == ws[s].owner IN
  /\ ws[s].net = "accepted"
  /\ ws' = [ws EXCEPT ![s].net = "open"]
  /\ mgr' = [mgr EXCEPT ![m].socket = s, ![m].counter = 0]
  /\ IF ~ws[s].again /\ mgr[m].token # None
     THEN /\ toServer' = [toServer EXCEPT ![s] = Append(@, mgr[m].token)]
          /\ UNCHANGED asks
     ELSE asks' = asks \cup {s} /\ UNCHANGED toServer
  /\ UNCHANGED <<options, state, manager, pend, toBrowser, auth, closing, server, left, hasty,
                 stalled, thrown>>

\* A socket that is closed and waits for no token is forgotten.
Released(s) == IF ws[s].net = "none" THEN [ws EXCEPT ![s] = NoSocket] ELSE ws

\* The answer of /api/sync is sent on the manager's socket of that moment.
TokenArrives(s) ==
  LET m == ws[s].owner  now == mgr[m].socket IN
  /\ s \in asks /\ asks' = asks \ {s} /\ ws' = Released(s)
  /\ \E t \in Tokens :
       /\ Issue(t)
       /\ toServer' = IF now = None THEN toServer
                      ELSE [toServer EXCEPT ![now] = Send(m, now, t)]
  /\ UNCHANGED <<options, browser, toBrowser, closing, server, left, hasty, stalled, thrown>>

\* It fails: an error event, and nothing else happens.
TokenFails(s) ==
  /\ s \in asks /\ asks' = asks \ {s} /\ ws' = Released(s)
  /\ phase = "up" => Spend("refusals")
  /\ phase # "up" => UNCHANGED left
  /\ stalled' = TRUE
  /\ UNCHANGED <<options, browser, toServer, toBrowser, auth, closing, server, hasty, thrown>>

\* handleAuth(): messages go to the handler from now on, and the API's callback
\* says that it is connected.
HandleAuth(s) ==
  /\ ws[s].net # "ending" /\ toBrowser[s] # <<>>
  /\ toBrowser' = [toBrowser EXCEPT ![s] = Tail(@)]
  /\ IF ws[s].on = "auth"
     THEN /\ ws' = [ws EXCEPT ![s].on = "run"]
          /\ state' = IF state = "SYNCING" THEN state ELSE "CONNECTED"
     ELSE UNCHANGED <<ws, state>>
  /\ UNCHANGED <<options, manager, mgr, pend, toServer, asks, auth, closing, server, left, hasty,
                 stalled, thrown>>

\* The closing handshake has begun: readyState is CLOSING.
SeesClose(s) ==
  /\ ws[s].net = "lost" /\ toBrowser[s] = <<>>
  /\ ws' = [ws EXCEPT ![s].net = "ending"]
  /\ UNCHANGED <<options, browser, wire, auth, closing, server, left, hasty, stalled, thrown>>

\* onclose with autoReconnect: a timer, unless too many attempts have failed.
\* Mutant: the API is not told.
TryAgain_Silent(s) ==
  LET m == ws[s].owner  giveUp == limited /\ Attempts < mgr[m].counter IN
  /\ ws[s].onclose = "again"
  /\ mgr' = [mgr EXCEPT ![m].socket = None, ![m].timer = ~giveUp, ![m].failed = giveUp]
  /\ UNCHANGED state
\* Mutant: only one attempt is made.
TryAgain_Once(s) ==
  LET m == ws[s].owner  giveUp == limited /\ Attempts < mgr[m].counter IN
  /\ ws[s].onclose = "again"
  /\ mgr' = [mgr EXCEPT ![m].socket = None, ![m].timer = (mgr[m].counter = 0), ![m].failed = giveUp]
  /\ state' = IF mgr[m].counter = 0 THEN "DISCONNECTED" ELSE state
TryAgain(s) ==
  LET m == ws[s].owner  giveUp == limited /\ Attempts < mgr[m].counter IN
  /\ ws[s].onclose = "again"
  /\ mgr' = [mgr EXCEPT ![m].socket = None, ![m].timer = ~giveUp, ![m].failed = giveUp]
  /\ state' = IF mgr[m].counter = 0 THEN "DISCONNECTED" ELSE state

\* handleClose(): the API keeps its manager.
HandleClose(s) ==
  /\ ws[s].onclose = "plain"
  /\ mgr' = [mgr EXCEPT ![ws[s].owner].socket = None]
  /\ state' = "DISCONNECTED"

\* What manager.close() has left there.
Forget(s) ==
  /\ ws[s].onclose = "forget"
  /\ mgr' = [mgr EXCEPT ![ws[s].owner].socket = None]
  /\ UNCHANGED state

OnClose(s) ==
  /\ ws[s].net = "ending"
  /\ TryAgain(s) \/ HandleClose(s) \/ Forget(s)
  /\ ws' = [ws EXCEPT ![s] = [NoSocket EXCEPT !.owner = IF s \in asks THEN ws[s].owner ELSE None]]
  /\ toServer' = [toServer EXCEPT ![s] = <<>>] /\ toBrowser' = [toBrowser EXCEPT ![s] = <<>>]
  /\ UNCHANGED <<options, manager, pend, asks, auth, closing, server, left, hasty, stalled, thrown>>

\* The reconnection timer.  (The counter matters up to the limit.)
\* Mutant: a reconnection presents the old token.
Reconnect_OldToken(m, s) ==
  /\ mgr[m].timer /\ Unused(s) /\ s = First({x \in Sockets : Unused(x)})
  /\ mgr' = [mgr EXCEPT ![m].timer = FALSE,
                        ![m].counter = IF @ > Attempts THEN @ ELSE @ + 1]
  /\ ws' = [ws EXCEPT ![s] = Opening(m, FALSE)]
  /\ UNCHANGED <<options, state, manager, pend, wire, auth, closing, server, left, hasty, stalled,
                 thrown>>
Reconnect(m, s) ==
  /\ mgr[m].timer /\ Unused(s) /\ s = First({x \in Sockets : Unused(x)})
  /\ mgr' = [mgr EXCEPT ![m].timer = FALSE,
                        ![m].counter = IF @ > Attempts THEN @ ELSE @ + 1]
  /\ ws' = [ws EXCEPT ![s] = Opening(m, TRUE)]
  /\ UNCHANGED <<options, state, manager, pend, wire, auth, closing, server, left, hasty, stalled,
                 thrown>>

-----------------------------------------------------------------------------
(* The server: handshake *)

\* The web server upgrades the connection: ClientManager.add() and initClient().
Accept(s) ==
  /\ ws[s].net = "opening" /\ phase = "up"
  /\ ws' = [ws EXCEPT ![s].net = "accepted"]
  /\ cl' = [cl EXCEPT ![s].state = "CONNECTING"]
  /\ clients' = Append(clients, s)
  /\ UNCHANGED <<options, browser, wire, auth, closing, busy, left, hasty, stalled, thrown>>

\* Nobody listens, or the network fails.
Refused(s) ==
  /\ ws[s].net = "opening"
  /\ phase = "up" => Spend("cuts")
  /\ phase # "up" => UNCHANGED left
  /\ ws' = [ws EXCEPT ![s].net = "ending"]
  /\ UNCHANGED <<options, browser, wire, auth, closing, server, hasty, stalled, thrown>>

\* maybeFinished() of shutdown(), n times: the callback, when all are counted.
Count(n) ==
  /\ counted' = counted + n
  /\ calls' = calls + Cardinality({k \in (counted + 1)..(counted + n) : k >= connected})
  /\ phase' = IF calls' > calls THEN "closed" ELSE phase

\* client.close() once nothing is in its way, for a set of clients: the socket
\* is terminated, and 'closed' reaches ClientInfo, the list and shutdown().
WsAfter(done) ==
  [s \in Sockets |-> IF s \notin done THEN ws[s]
                     ELSE [ws[s] EXCEPT !.net = CASE @ \in {"accepted", "open"} -> "lost"
                                                  [] @ = "closing"              -> "ending"
                                                  [] OTHER                      -> @]]
Dropped(done) ==
  /\ ws' = WsAfter(done)
  /\ cl' = [s \in Sockets |-> IF s \in done THEN NoClient ELSE cl[s]]
  /\ toServer' = [s \in Sockets |-> IF s \in done THEN <<>> ELSE toServer[s]]
InfoAfter(done) == info \ {cl[s].id : s \in done}

\* client.close(): a step that must not be cut off is waited for.
Close(s) ==
  IF s \in busy
  THEN /\ cl' = [cl EXCEPT ![s].state = "CLOSING"]
       /\ UNCHANGED <<ws, clients, toServer, phase, counted, calls, awaited>>
  ELSE /\ Dropped({s})
       /\ clients' = RemoveFirst(clients, s)
       /\ awaited' = awaited \ {s}
       /\ IF s \in awaited THEN Count(1) ELSE UNCHANGED <<counted, calls, phase>>

\* The token arrives: it is used up, and the session begins ...
\* Mutant: the token can be used again.
Authorize_NotRevoked(s) ==
  /\ cl[s].state = "CONNECTING" /\ toServer[s] # <<>>
  /\ LET t == Head(toServer[s]) IN
     /\ t \in table
     /\ table' = table
     /\ shown' = [shown EXCEPT ![t] = Again(@)] /\ granted' = [granted EXCEPT ![t] = Again(@)]
     /\ cl' = [cl EXCEPT ![s] = [state |-> "LISTENING", id |-> t]]
     /\ toServer' = [toServer EXCEPT ![s] = Tail(@)]
     /\ toBrowser' = [toBrowser EXCEPT ![s] = Append(@, "authz")]
  /\ UNCHANGED <<options, browser, ws, asks, info, closing, clients, busy, left, hasty, stalled,
                 thrown>>
\* Mutant: the client is named after its socket.
Authorize_OldId(s) ==
  /\ cl[s].state = "CONNECTING" /\ toServer[s] # <<>>
  /\ LET t == Head(toServer[s]) IN
     /\ t \in table
     /\ table' = table \ {t}
     /\ shown' = [shown EXCEPT ![t] = Again(@)] /\ granted' = [granted EXCEPT ![t] = Again(@)]
     /\ cl' = [cl EXCEPT ![s] = [state |-> "LISTENING", id |-> s]]
     /\ toServer' = [toServer EXCEPT ![s] = Tail(@)]
     /\ toBrowser' = [toBrowser EXCEPT ![s] = Append(@, "authz")]
  /\ UNCHANGED <<options, browser, ws, asks, info, closing, clients, busy, left, hasty, stalled,
                 thrown>>
Authorize(s) ==
  /\ cl[s].state = "CONNECTING" /\ toServer[s] # <<>>
  /\ LET t == Head(toServer[s]) IN
     /\ t \in table
     /\ table' = table \ {t}
     /\ shown' = [shown EXCEPT ![t] = Again(@)] /\ granted' = [granted EXCEPT ![t] = Again(@)]
     /\ cl' = [cl EXCEPT ![s] = [state |-> "LISTENING", id |-> t]]
     /\ toServer' = [toServer EXCEPT ![s] = Tail(@)]
     /\ toBrowser' = [toBrowser EXCEPT ![s] = Append(@, "authz")]
  /\ UNCHANGED <<options, browser, ws, asks, info, closing, clients, busy, left, hasty, stalled,
                 thrown>>

\* ... or it is not valid, and the client is closed.
Unauthorized(s) ==
  /\ cl[s].state = "CONNECTING" /\ toServer[s] # <<>>
  /\ LET t == Head(toServer[s]) IN
     /\ t \notin table
     /\ info' = info \ {t}
     /\ shown' = [shown EXCEPT ![t] = Again(@)]
  /\ Close(s)
  /\ UNCHANGED <<options, browser, toBrowser, asks, table, granted, busy, connected, behind, cut,
                 crashed, left, hasty, stalled, thrown>>

\* A second token on one socket is no message of the protocol.
Ignore(s) ==
  /\ cl[s].state \in {"LISTENING", "CLOSING"} /\ toServer[s] # <<>>
  /\ toServer' = [toServer EXCEPT ![s] = Tail(@)]
  /\ UNCHANGED <<options, browser, ws, toBrowser, asks, auth, closing, server, left, hasty,
                 stalled, thrown>>

\* The timer of generateTokenForClient().
\* Mutant: the timer removes the ClientInfo as well, used or not.
Expire_WithInfo(t) ==
  /\ Spend("expiries")
  /\ table' = table \ {t} /\ info' = info \ {t}
  /\ UNCHANGED <<options, browser, ws, wire, shown, granted, closing, server, hasty, stalled,
                 thrown>>
Expire(t) ==
  /\ t \in table /\ Spend("expiries")
  /\ table' = table \ {t}
  /\ UNCHANGED <<options, browser, ws, wire, info, shown, granted, closing, server, hasty, stalled,
                 thrown>>

-----------------------------------------------------------------------------
(* The server: the ends of a session *)

\* The connection breaks; messages on it are lost.
Cut(s) ==
  /\ ws[s].net \in {"accepted", "open"} /\ Spend("cuts")
  /\ ws' = [ws EXCEPT ![s].net = "lost"]
  /\ toServer' = [toServer EXCEPT ![s] = <<>>] /\ toBrowser' = [toBrowser EXCEPT ![s] = <<>>]
  /\ UNCHANGED <<options, browser, asks, auth, closing, server, hasty, stalled, thrown>>

\* The server's onclose or onerror.
HangUp(s) ==
  /\ cl[s].state \in {"CONNECTING", "LISTENING"}
  /\ ws[s].net \notin {"accepted", "open"}
  /\ Close(s)
  /\ info' = IF s \in busy THEN info ELSE InfoAfter({s})
  /\ UNCHANGED <<options, browser, toBrowser, asks, table, shown, granted, busy, connected,
                 behind, cut, crashed, left, hasty, stalled, thrown>>

\* A step that must not be cut off begins, and ends.
StepBegins(s) ==
  /\ cl[s].state = "LISTENING" /\ s \notin busy /\ phase \in {"up", "closed"}
  /\ Spend("patches")
  /\ busy' = busy \cup {s}
  /\ UNCHANGED <<options, browser, ws, wire, auth, closing, cl, clients, hasty, stalled, thrown>>

\* If close() waits for it, the client ends there: the patch failed, or its lock
\* is lost.  (A patch that was made ends in Crash.)
StepEnds(s) ==
  /\ s \in busy /\ busy' = busy \ {s}
  /\ IF cl[s].state = "CLOSING"
     THEN /\ Dropped({s})
          /\ clients' = RemoveFirst(clients, s)
          /\ info' = InfoAfter({s})
          /\ awaited' = awaited \ {s}
          /\ IF s \in awaited THEN Count(1) ELSE UNCHANGED <<counted, calls, phase>>
     ELSE UNCHANGED <<ws, cl, clients, toServer, info, awaited, counted, calls, phase>>
  /\ UNCHANGED <<options, browser, toBrowser, asks, table, shown, granted, connected, behind,
                 cut, crashed, left, hasty, stalled, thrown>>

\* A turn of the loop of shutdown(), which goes by index through a list from
\* which the clients that close at once remove themselves.
\* Mutants: a client that is waited for is counted at once; it is not waited for.
Turn_CountsAwaited(w, i) ==
  IF i > Len(w.list) THEN [w EXCEPT !.n = @ + 1]
  ELSE IF w.list[i] \in busy THEN [w EXCEPT !.n = @ + 1, !.awaits = @ \cup {w.list[i]}]
  ELSE [w EXCEPT !.list = RemoveAt(@, i), !.n = @ + 1, !.done = @ \cup {w.list[i]}]
Turn_PassesBusy(w, i) ==
  IF i > Len(w.list) \/ w.list[i] \in busy THEN [w EXCEPT !.n = @ + 1]
  ELSE [w EXCEPT !.list = RemoveAt(@, i), !.n = @ + 1, !.done = @ \cup {w.list[i]}]
Turn(w, i) ==
  IF i > Len(w.list) THEN [w EXCEPT !.n = @ + 1]
  ELSE IF w.list[i] \in busy THEN [w EXCEPT !.awaits = @ \cup {w.list[i]}]
  ELSE [w EXCEPT !.list = RemoveAt(@, i), !.n = @ + 1, !.done = @ \cup {w.list[i]}]
Walk ==
  LET start == [list |-> clients, n |-> 0, awaits |-> {}, done |-> {}]
      step[i \in 0..Len(clients)] == IF i = 0 THEN start ELSE Turn(step[i - 1], i)
  IN step[Len(clients)]

\* SocketServer.close() and ClientManager.shutdown(), once (inProcess).
Shutdown ==
  /\ phase = "up" /\ Spend("stops")
  /\ connected' = Len(clients)
  /\ LET n == IF clients = <<>> THEN 1 ELSE Walk.n IN
     /\ counted' = n
     /\ calls' = IF n >= connected' THEN 1 ELSE 0
     /\ phase' = IF n >= connected' THEN "closed" ELSE "closing"
  /\ awaited' = Walk.awaits
  /\ ws' = WsAfter(Walk.done)
  /\ cl' = [s \in Sockets |-> IF s \in Walk.done THEN NoClient
                              ELSE IF s \in Walk.awaits THEN [cl[s] EXCEPT !.state = "CLOSING"]
                              ELSE cl[s]]
  /\ clients' = Walk.list
  /\ toServer' = [s \in Sockets |-> IF s \in Walk.done THEN <<>> ELSE toServer[s]]
  /\ info' = InfoAfter(Walk.done)
  /\ behind' = {clients[j] : j \in {k \in DOMAIN clients : \E i \in 1..(k - 1) : clients[i] \notin busy}}
  /\ UNCHANGED <<options, browser, toBrowser, asks, table, shown, granted, busy, cut, crashed,
                 hasty, stalled, thrown>>

\* Then the web server destroys its connections, redis is closed, and the
\* process exits.
Dies(patched) ==
  /\ phase' = "gone" /\ cut' = busy \ patched /\ busy' = {}
  /\ Dropped(Sockets) /\ clients' = <<>>
  /\ table' = {} /\ info' = {} /\ awaited' = {}
  /\ UNCHANGED <<options, browser, toBrowser, asks, shown, granted, counted, connected, calls,
                 behind, hasty, stalled, thrown>>
Exit == phase = "closed" /\ Dies({}) /\ UNCHANGED <<crashed, left>>

\* An exception that nobody catches ends the process too: end() of a patch has
\* begun to release the lock when the close() that waits releases it again; or
\* a message throws in its handler, which nothing guards.
Crash(s) ==
  /\ \/ s \in busy /\ cl[s].state = "CLOSING" /\ Dies({s}) /\ UNCHANGED left
     \/ cl[s].state = "LISTENING" /\ Dies({}) /\ Spend("crashes")
  /\ crashed' = TRUE

\* The cluster master starts another worker.
Restart ==
  /\ phase = "gone" /\ phase' = "up"
  /\ counted' = 0 /\ connected' = 0 /\ calls' = 0 /\ behind' = {} /\ cut' = {}
  /\ crashed' = FALSE
  /\ UNCHANGED <<options, browser, ws, wire, auth, server, awaited, left, hasty, stalled, thrown>>

-----------------------------------------------------------------------------
Api == \/ \E m \in Managers, s \in Sockets : Connect(m, s) \/ ConnectWithToken(m, s)
       \/ Disconnect \/ Request
Unforced == \/ \E s \in Sockets : SyncBegins(s) \/ TokenFails(s) \/ Cut(s) \/ StepBegins(s)
                                 \/ Crash(s)
            \/ \E m \in Managers : SyncNext(m)
            \/ \E t \in Tokens : Expire(t)
            \/ Shutdown
\* What happens sooner or later at a socket, and to a manager.
SocketStep(s) ==
  \/ Opens(s) \/ TokenArrives(s) \/ HandleAuth(s) \/ SeesClose(s) \/ OnClose(s)
  \/ Accept(s) \/ Refused(s) \/ Authorize(s) \/ Unauthorized(s) \/ Ignore(s) \/ HangUp(s)
  \/ StepEnds(s)
ManagerStep(m) == SyncEnds(m) \/ \E s \in Sockets : Reconnect(m, s)
ProcessStep == Exit \/ Restart

Next == \/ Api \/ Unforced \/ ProcessStep
        \/ \E s \in Sockets : SocketStep(s)
        \/ \E m \in Managers : ManagerStep(m)

Init == \E bounds \in [Budgets -> Nat] : InitWith(bounds)
Spec == Init /\ [][Next]_vars

\* Events that are under way arrive, timers run, patches end, and a process
\* that is closed is replaced.
Fairness == /\ \A s \in Sockets : WF_vars(SocketStep(s))
            /\ \A m \in Managers : WF_vars(ManagerStep(m))
            /\ WF_vars(ProcessStep)
FairSpec == Spec /\ Fairness

-----------------------------------------------------------------------------
(* Properties *)

TypeOK ==
  /\ state \in {"DISCONNECTED", "CONNECTING", "CONNECTED", "SYNCING"}
  /\ manager \in Managers \cup {None} /\ pend \subseteq Managers
  /\ \A m \in Managers : mgr[m].socket \in Sockets \cup {None} /\ mgr[m].counter \in 0..(Attempts + 1)
  /\ \A s \in Sockets :
       /\ ws[s].owner \in Managers \cup {None}
       /\ ws[s].net \in {"none", "opening", "accepted", "open", "lost", "closing", "ending"}
       /\ cl[s].state \in {"CREATED", "CONNECTING", "LISTENING", "CLOSING"}
       /\ cl[s].id \in Tokens \cup {None}
  /\ table \subseteq Tokens /\ info \subseteq Tokens
  /\ busy \subseteq Sockets /\ awaited \subseteq Sockets
  /\ phase \in {"up", "closing", "closed", "gone"}

\* The browser has one session at most: messages of the server reach no other
\* manager than the API's, unless disconnect() came before its socket was open,
\* while the socket was closing or while a sync was under way.
OneSession ==
  \A s \in Sockets : (ws[s].net = "open" /\ ws[s].on = "run") => (ws[s].owner = manager \/ hasty)

\* A browser that says CONNECTED (or SYNCING) has a manager with a socket.  So
\* sync.request(), also when the timer of sync.auto() calls it, and
\* sync.onCompleted() throw nothing, and syncNext(), which goes on to the next
\* upload, throws only in a browser that says DISCONNECTED, because the
\* connection was lost before its sync had ended: under the same proviso.
ConnectedHasSocket ==
  hasty \/ ( /\ state \in {"CONNECTED", "SYNCING"} => manager # None /\ mgr[manager].socket # None
             /\ thrown \subseteq {[in |-> "syncNext", state |-> "DISCONNECTED"]} )

\* A browser that says DISCONNECTED but still has a manager refuses connect()
\* and disconnect().  With autoReconnect a way out is then always under way,
\* unless the attempts are used up, /api/sync gave no token or disconnect() was
\* hasty (the old manager then reports its end as the new one's): a timer, or a
\* socket that does not wait for a message that nobody sends.
UnderWay(s) ==
  \/ ws[s].net \notin {"none", "open"}
  \/ ws[s].net = "open" /\ (s \in asks \/ toServer[s] # <<>> \/ toBrowser[s] # <<>>)
NotLockedOut ==
  (state = "DISCONNECTED" /\ manager # None /\ autoReconnect) =>
    \/ hasty \/ stalled \/ mgr[manager].failed \/ mgr[manager].timer
    \/ \E s \in Sockets : ws[s].owner = manager /\ UnderWay(s)

\* A token admits one client, however often it is presented and whenever its
\* timer runs.
TokenAdmitsOnce == \A t \in Tokens : granted[t] <= 1

\* A client in session has its ClientInfo, unless somebody presented its token
\* again: the refusal removes the info of the client that was admitted with it.
SessionHasInfo ==
  \A s \in Sockets : cl[s].state = "LISTENING" => cl[s].id \in info \/ shown[cl[s].id] > 1

\* shutdown() calls back once, when no client that it has to wait for is left,
\* unless the process crashes first.
ShutdownOnce ==
  /\ calls <= 1
  /\ phase \in {"closed", "gone"} => awaited = {} /\ (calls = 1 \/ (phase = "gone" /\ crashed))

\* It does not wait for every client, though: the index passes over a client
\* when one before it closed at once.  Only such a client is cut off in a patch,
\* unless the process crashes.
CutOnlyBehindIdle == cut \subseteq behind \/ crashed

\* With autoReconnect and no limit, a browser whose application wants to be
\* connected gets there, through lost connections, expired tokens and restarts
\* of the server.
EventuallyConnected ==
  (autoReconnect /\ ~limited) =>
    <>[](state \in {"CONNECTED", "SYNCING"} \/ manager = None \/ hasty \/ stalled)

=============================================================================
