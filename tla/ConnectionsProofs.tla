--------------------------- MODULE ConnectionsProofs ---------------------------
(***************************************************************************)
(* Theorems about Connections, for every set of managers, sockets and      *)
(* tokens and every limit of the attempts: a token admits one client, and  *)
(* the browser has one session at most, in which its calls throw nothing.  *)
(***************************************************************************)
EXTENDS Connections, TLAPS

-----------------------------------------------------------------------------
(* The inductive invariant                                                 *)

States == {"DISCONNECTED", "CONNECTING", "CONNECTED", "SYNCING"}
Records == [owner : Managers \cup {None},
            net : {"none", "opening", "accepted", "open", "lost", "closing", "ending"},
            on : {"off", "auth", "run"}, onclose : {"off", "again", "plain", "forget"},
            again : BOOLEAN]
ManagerRecords == [socket : Sockets \cup {None}, counter : Nat, timer : BOOLEAN,
                   token : Tokens \cup {None}, failed : BOOLEAN]

BrowserType ==
  /\ autoReconnect \in BOOLEAN /\ limited \in BOOLEAN
  /\ state \in States
  /\ manager \in Managers \cup {None} /\ pend \subseteq Managers
  /\ mgr \in [Managers -> ManagerRecords]
  /\ ws \in [Sockets -> Records]
  /\ asks \subseteq Sockets
  /\ toServer \in [Sockets -> Seq(Tokens)] /\ toBrowser \in [Sockets -> Seq({"authz"})]
  /\ hasty \in BOOLEAN

Live(s) == ws[s].net # "none"

\* A live socket has an owner, who has no other and no timer; one that waits for
\* a token has one, too.
Owned ==
  /\ \A s \in asks : ws[s].owner \in Managers
  /\ \A s \in Sockets : Live(s) => ws[s].owner \in Managers
  /\ \A s, r \in Sockets : Live(s) /\ Live(r) /\ ws[s].owner = ws[r].owner => s = r
  /\ \A m \in Managers : mgr[m].timer =>
       mgr[m].socket = None /\ \A s \in Sockets : ws[s].owner = m => ~Live(s)

\* The socket of a manager is a live one of its own that has been open, and its
\* counter starts again then.
HasBeenOpen(s) == ws[s].net \in {"open", "lost", "closing", "ending"}
SocketOf ==
  \A m \in Managers : mgr[m].socket # None =>
    /\ ws[mgr[m].socket].owner = m /\ HasBeenOpen(mgr[m].socket)
    /\ mgr[m].counter = 0

\* A socket on which messages are under way has been open, and is its owner's
\* as long as it has handlers.
Carries(s) == ws[s].net = "open" \/ toServer[s] # <<>> \/ toBrowser[s] # <<>>
Attached ==
  \A s \in Sockets : Carries(s) =>
    HasBeenOpen(s) /\ (ws[s].on # "off" => mgr[ws[s].owner].socket = s)

\* What another manager than the API's has left.
NoneLeft ==
  /\ \A s \in Sockets : Live(s) /\ ws[s].owner # manager =>
       ws[s].on = "off" /\ ws[s].onclose = "forget"
  /\ \A s \in Sockets : Live(s) /\ ws[s].onclose = "forget" => ws[s].owner # manager
  /\ \A m \in Managers : mgr[m].timer => m = manager
  /\ \A m \in pend : m = manager

\* A sync does not begin before the browser is connected.
Session ==
  /\ state = "CONNECTING" => pend = {}
  /\ state \in {"CONNECTED", "SYNCING"} => manager # None /\ mgr[manager].socket # None
  /\ thrown \subseteq {[in |-> "syncNext", state |-> "DISCONNECTED"]}

Inv == BrowserType /\ Owned /\ SocketOf /\ Attached /\ (hasty \/ (NoneLeft /\ Session))

-----------------------------------------------------------------------------
(* A step of the server, or of the network, moves sockets towards their end *)
(* and leaves the rest of the browser alone.                               *)

NetMoves(n, k) ==
  \/ k = n
  \/ n = "opening" /\ k \in {"accepted", "ending"}
  \/ n \in {"accepted", "open"} /\ k = "lost"
  \/ n \in {"lost", "closing"} /\ k = "ending"

ServerMoves ==
  /\ UNCHANGED <<options, browser, asks, hasty, thrown>>
  /\ ws' \in [Sockets -> Records]
  /\ toServer' \in [Sockets -> Seq(Tokens)] /\ toBrowser' \in [Sockets -> Seq({"authz"})]
  /\ \A s \in Sockets :
       /\ ws'[s].owner = ws[s].owner /\ ws'[s].on = ws[s].on /\ ws'[s].onclose = ws[s].onclose
       /\ NetMoves(ws[s].net, ws'[s].net)
       /\ toServer'[s] # <<>> => toServer[s] # <<>>
       /\ toBrowser'[s] # <<>> => Carries(s)

LEMMA ServerKeeps == Inv /\ ServerMoves => Inv'
<1>. SUFFICES ASSUME Inv, ServerMoves
              PROVE  Inv'
  OBVIOUS
<1>. USE DEF Inv, ServerMoves, options, browser
<1>1. BrowserType'
  BY DEF BrowserType
<1>2. \A s \in Sockets : /\ Live(s)' => Live(s)
                         /\ Carries(s)' => Carries(s)
                         /\ HasBeenOpen(s) => HasBeenOpen(s)'
  BY DEF BrowserType, Records, NetMoves, Live, Carries, HasBeenOpen
<1>3. Owned'
  BY <1>2 DEF Owned, BrowserType
<1>4. SocketOf'
  BY <1>2 DEF SocketOf, BrowserType, ManagerRecords
<1>5. Attached'
  BY <1>2 DEF Attached, BrowserType
<1>6. NoneLeft => NoneLeft'
  BY <1>2 DEF NoneLeft, BrowserType
<1>7. Session => Session'
  BY DEF Session
<1>. QED
  BY <1>1, <1>3, <1>4, <1>5, <1>6, <1>7

\* Each step of the server, of the network and of the cluster master is one.
ServerStep(s) ==
  \/ SeesClose(s) \/ Accept(s) \/ Refused(s) \/ Authorize(s) \/ Unauthorized(s) \/ Ignore(s)
  \/ HangUp(s) \/ StepEnds(s) \/ Cut(s) \/ StepBegins(s) \/ Crash(s)

LEMMA DroppedMoves ==
  ASSUME Inv, NEW done, Dropped(done),
         UNCHANGED <<options, browser, toBrowser, asks, hasty, thrown>>
  PROVE  ServerMoves
<1>1. \A s \in Sockets : ws[s] \in Records /\ toServer[s] \in Seq(Tokens)
  BY DEF Inv, BrowserType
<1>2. \A s \in Sockets :
        /\ ws'[s] \in Records
        /\ ws'[s].owner = ws[s].owner /\ ws'[s].on = ws[s].on /\ ws'[s].onclose = ws[s].onclose
        /\ NetMoves(ws[s].net, ws'[s].net)
  BY <1>1 DEF Dropped, WsAfter, Records, NetMoves
<1>3. ws' \in [Sockets -> Records]
  BY <1>2 DEF Dropped, WsAfter
<1>4. toServer' \in [Sockets -> Seq(Tokens)]
  BY <1>1 DEF Dropped
<1>5. \A s \in Sockets : /\ toServer'[s] # <<>> => toServer[s] # <<>>
                         /\ toBrowser'[s] # <<>> => Carries(s)
  BY DEF Dropped, Carries
<1>. QED
  BY <1>2, <1>3, <1>4, <1>5 DEF ServerMoves, Inv, BrowserType

LEMMA StillMoves ==
  ASSUME Inv, UNCHANGED <<options, browser, ws, toServer, toBrowser, asks, hasty, thrown>>
  PROVE  ServerMoves
BY DEF Inv, BrowserType, ServerMoves, NetMoves, Carries

LEMMA CloseMoves ==
  ASSUME Inv, NEW s \in Sockets, Close(s),
         UNCHANGED <<options, browser, toBrowser, asks, hasty, thrown>>
  PROVE  ServerMoves
<1>1. CASE s \in busy
  BY <1>1, StillMoves DEF Close
<1>2. CASE s \notin busy
  BY <1>2, DroppedMoves DEF Close
<1>. QED
  BY <1>1, <1>2

LEMMA StepMoves == ASSUME Inv, NEW s \in Sockets, ServerStep(s) PROVE ServerMoves
<1>1. /\ ws \in [Sockets -> Records] /\ ws[s] \in Records
      /\ toServer \in [Sockets -> Seq(Tokens)] /\ toBrowser \in [Sockets -> Seq({"authz"})]
      /\ toServer[s] # <<>> => Head(toServer[s]) \in Tokens /\ Tail(toServer[s]) \in Seq(Tokens)
      /\ Append(toBrowser[s], "authz") \in Seq({"authz"})
  BY DEF Inv, BrowserType
<1>2. CASE SeesClose(s) \/ Accept(s) \/ Refused(s) \/ Cut(s)
  <2>1. /\ \E n \in {"ending", "accepted", "lost"} :
             ws' = [ws EXCEPT ![s].net = n] /\ NetMoves(ws[s].net, n)
        /\ \/ UNCHANGED <<toServer, toBrowser>>
           \/ /\ toServer' = [toServer EXCEPT ![s] = <<>>]
              /\ toBrowser' = [toBrowser EXCEPT ![s] = <<>>]
    BY <1>2 DEF SeesClose, Accept, Refused, Cut, NetMoves, wire
  <2>2. PICK n \in {"ending", "accepted", "lost"} :
          ws' = [ws EXCEPT ![s].net = n] /\ NetMoves(ws[s].net, n)
    BY <2>1
  <2>3. /\ ws' \in [Sockets -> Records]
        /\ \A r \in Sockets :
             /\ ws'[r].owner = ws[r].owner /\ ws'[r].on = ws[r].on
             /\ ws'[r].onclose = ws[r].onclose /\ NetMoves(ws[r].net, ws'[r].net)
    BY <1>1, <2>2 DEF Records, NetMoves
  <2>4. /\ toServer' \in [Sockets -> Seq(Tokens)] /\ toBrowser' \in [Sockets -> Seq({"authz"})]
        /\ \A r \in Sockets : /\ toServer'[r] # <<>> => toServer[r] # <<>>
                              /\ toBrowser'[r] # <<>> => Carries(r)
    <3>1. <<>> \in Seq(Tokens) /\ <<>> \in Seq({"authz"})
      OBVIOUS
    <3>2. CASE UNCHANGED <<toServer, toBrowser>>
      BY <1>1, <3>2 DEF Carries
    <3>3. CASE /\ toServer' = [toServer EXCEPT ![s] = <<>>]
               /\ toBrowser' = [toBrowser EXCEPT ![s] = <<>>]
      <4>1. /\ toServer' \in [Sockets -> Seq(Tokens)]
            /\ \A r \in Sockets : toServer'[r] # <<>> => toServer[r] # <<>>
        BY <1>1, <3>1, <3>3
      <4>2. /\ toBrowser' \in [Sockets -> Seq({"authz"})]
            /\ \A r \in Sockets : toBrowser'[r] # <<>> => toBrowser[r] # <<>>
        BY <1>1, <3>1, <3>3
      <4>. QED
        BY <4>1, <4>2 DEF Carries
    <3>. QED
      BY <2>1, <3>2, <3>3
  <2>5. UNCHANGED <<options, browser, asks, hasty, thrown>>
    BY <1>2 DEF SeesClose, Accept, Refused, Cut, wire
  <2>. QED
    BY <2>3, <2>4, <2>5 DEF ServerMoves
<1>3. CASE Authorize(s) \/ Ignore(s)
  <2>1. /\ UNCHANGED <<options, browser, asks, hasty, thrown, ws>>
        /\ toServer[s] # <<>> /\ toServer' = [toServer EXCEPT ![s] = Tail(@)]
        /\ \/ UNCHANGED toBrowser
           \/ toBrowser' = [toBrowser EXCEPT ![s] = Append(@, "authz")]
    BY <1>3 DEF Authorize, Ignore
  <2>2. /\ toServer' \in [Sockets -> Seq(Tokens)] /\ toBrowser' \in [Sockets -> Seq({"authz"})]
        /\ \A r \in Sockets : /\ toServer'[r] # <<>> => toServer[r] # <<>>
                              /\ toBrowser'[r] # <<>> => Carries(r)
    BY <1>1, <2>1 DEF Carries
  <2>. QED
    BY <1>1, <2>1, <2>2 DEF ServerMoves, NetMoves
<1>4. CASE Unauthorized(s) \/ HangUp(s)
  BY <1>4, CloseMoves DEF Unauthorized, HangUp
<1>5. CASE StepBegins(s)
  BY <1>5, StillMoves DEF StepBegins, wire
<1>6. CASE StepEnds(s)
  <2>1. CASE cl[s].state = "CLOSING"
    BY <1>6, <2>1, DroppedMoves DEF StepEnds
  <2>2. CASE cl[s].state # "CLOSING"
    BY <1>6, <2>2, StillMoves DEF StepEnds
  <2>. QED
    BY <2>1, <2>2
<1>7. CASE Crash(s)
  BY <1>7, DroppedMoves DEF Crash, Dies
<1>. QED
  BY <1>2, <1>3, <1>4, <1>5, <1>6, <1>7 DEF ServerStep

LEMMA ProcessMoves ==
  ASSUME Inv, Shutdown \/ Exit \/ Restart \/ \E t \in Tokens : Expire(t)
  PROVE  ServerMoves
<1>1. CASE Shutdown
  <2>1. /\ ws' = WsAfter(Walk.done)
        /\ toServer' = [s \in Sockets |-> IF s \in Walk.done THEN <<>> ELSE toServer[s]]
        /\ UNCHANGED <<options, browser, toBrowser, asks, hasty, thrown>>
    BY <1>1 DEF Shutdown
  <2>2. \A s \in Sockets : ws[s] \in Records /\ toServer[s] \in Seq(Tokens)
    BY DEF Inv, BrowserType
  <2>3. \A s \in Sockets :
          /\ ws'[s] \in Records
          /\ ws'[s].owner = ws[s].owner /\ ws'[s].on = ws[s].on /\ ws'[s].onclose = ws[s].onclose
          /\ NetMoves(ws[s].net, ws'[s].net)
    BY <2>1, <2>2 DEF WsAfter, Records, NetMoves
  <2>4. ws' \in [Sockets -> Records]
    BY <2>1, <2>3 DEF WsAfter
  <2>5. toServer' \in [Sockets -> Seq(Tokens)]
    BY <2>1, <2>2
  <2>. QED
    BY <2>1, <2>3, <2>4, <2>5 DEF ServerMoves, Inv, BrowserType, Carries
<1>2. CASE Exit
  BY <1>2, DroppedMoves DEF Exit, Dies
<1>3. CASE Restart \/ \E t \in Tokens : Expire(t)
  BY <1>3, StillMoves DEF Restart, Expire, wire
<1>. QED
  BY <1>1, <1>2, <1>3

-----------------------------------------------------------------------------
(* The steps of the browser *)

LEMMA InitHolds == Init => Inv
<1>. SUFFICES ASSUME NEW bounds \in [Budgets -> Nat], InitWith(bounds)
              PROVE  Inv
  BY DEF Init
<1>1. <<>> \in Seq(Tokens) /\ <<>> \in Seq({"authz"})
  OBVIOUS
<1>2. NoManager \in ManagerRecords /\ NoSocket \in Records
  BY DEF NoManager, NoSocket, ManagerRecords, Records
<1>3. /\ mgr \in [Managers -> ManagerRecords] /\ ws \in [Sockets -> Records]
      /\ toServer \in [Sockets -> Seq(Tokens)] /\ toBrowser \in [Sockets -> Seq({"authz"})]
      /\ autoReconnect \in BOOLEAN /\ limited \in BOOLEAN
  BY <1>1, <1>2 DEF InitWith
<1>4. BrowserType
  BY <1>3 DEF InitWith, BrowserType, States
<1>5. \A s \in Sockets : ~Live(s) /\ ~Carries(s)
  BY DEF InitWith, Live, Carries, NoSocket
<1>6. \A m \in Managers : mgr[m].socket = None /\ mgr[m].timer = FALSE
  BY DEF InitWith, NoManager
<1>7. Owned /\ SocketOf /\ Attached
  BY <1>5, <1>6 DEF Owned, SocketOf, Attached, InitWith
<1>8. NoneLeft /\ Session
  BY <1>5, <1>6 DEF NoneLeft, Session, InitWith
<1>. QED
  BY <1>4, <1>7, <1>8 DEF Inv

\* A new socket of m, which had none that is live.
LEMMA NewSocket ==
  ASSUME Inv, NEW m \in Managers, NEW s \in Sockets, NEW again \in BOOLEAN,
         Unused(s), \A r \in Sockets : ws[r].owner = m => ~Live(r),
         ws' = [ws EXCEPT ![s] = Opening(m, again)],
         mgr' \in [Managers -> ManagerRecords],
         \A n \in Managers : /\ mgr'[n].timer => mgr[n].timer /\ n # m
                             /\ mgr'[n].socket = mgr[n].socket
                             /\ n # m => mgr'[n].counter = mgr[n].counter,
         mgr'[m].socket = None,
         state' \in States, manager' \in Managers \cup {None},
         UNCHANGED <<options, pend, asks, toServer, toBrowser, hasty, thrown>>
  PROVE  /\ BrowserType' /\ Owned' /\ SocketOf' /\ Attached'
         /\ NoneLeft /\ manager' = m /\ (manager = None \/ manager = m) => NoneLeft'
<1>. DEFINE new == Opening(m, again)
<1>1. /\ new \in Records /\ new.owner = m /\ new.net = "opening" /\ new.onclose # "forget"
  BY DEF Opening, Records, Inv, BrowserType
<1>2. ws \in [Sockets -> Records] /\ ~Live(s) /\ ~Carries(s) /\ s \notin asks
  <2>1. ws \in [Sockets -> Records] /\ ws[s].net = "none" /\ ws[s].owner = None
    BY DEF Inv, BrowserType, Unused, NoSocket
  <2>2. s \notin asks
    BY <2>1, NoneAssumption DEF Inv, Owned
  <2>. QED
    BY <2>1, <2>2 DEF Inv, Attached, HasBeenOpen, Live
<1>. HIDE DEF new
<1>3. ws' \in [Sockets -> Records] /\ ws'[s] = new /\ \A r \in Sockets : r # s => ws'[r] = ws[r]
  BY <1>1, <1>2 DEF new
<1>4. BrowserType'
  BY <1>3 DEF Inv, BrowserType, options
<1>5. \A r \in Sockets : r # s => (Live(r)' <=> Live(r)) /\ (HasBeenOpen(r)' <=> HasBeenOpen(r))
  BY <1>3 DEF Live, HasBeenOpen
<1>6. \A r \in Sockets : Carries(r)' => r # s /\ Carries(r)
  BY <1>1, <1>2, <1>3 DEF Carries
<1>7. Owned'
  <2>1. \A r \in Sockets : Live(r)' => ws'[r].owner \in Managers
    BY <1>1, <1>3, <1>5 DEF Owned, Inv
  <2>2. \A r, q \in Sockets : Live(r)' /\ Live(q)' /\ ws'[r].owner = ws'[q].owner => r = q
    BY <1>1, <1>3, <1>5 DEF Owned, Inv
  <2>3. ASSUME NEW n \in Managers, mgr'[n].timer
        PROVE  mgr'[n].socket = None /\ \A r \in Sockets : ws'[r].owner = n => ~Live(r)'
    <3>1. n # m /\ mgr[n].timer /\ mgr'[n].socket = mgr[n].socket
      BY <2>3
    <3>2. mgr[n].socket = None /\ \A r \in Sockets : ws[r].owner = n => ~Live(r)
      BY <3>1 DEF Owned, Inv
    <3>. QED
      BY <1>1, <1>3, <1>5, <3>1, <3>2
  <2>4. \A r \in asks' : ws'[r].owner \in Managers
    BY <1>2, <1>3 DEF Owned, Inv, BrowserType
  <2>. QED
    BY <2>1, <2>2, <2>3, <2>4 DEF Owned
<1>8. SocketOf'
  <2>. SUFFICES ASSUME NEW n \in Managers, mgr'[n].socket # None
                PROVE  /\ ws'[mgr'[n].socket].owner = n /\ HasBeenOpen(mgr[n].socket)'
                       /\ mgr'[n].counter = 0
    BY DEF SocketOf
  <2>1. n # m /\ mgr'[n].socket = mgr[n].socket /\ mgr'[n].counter = mgr[n].counter
    OBVIOUS
  <2>2. mgr[n].socket \in Sockets
    BY <2>1 DEF Inv, BrowserType, ManagerRecords
  <2>3. ws[mgr[n].socket].owner = n /\ HasBeenOpen(mgr[n].socket) /\ mgr[n].counter = 0
    BY <2>1 DEF Inv, SocketOf
  <2>4. mgr[n].socket # s
    BY <2>3, <1>2 DEF HasBeenOpen, Live
  <2>. QED
    BY <1>3, <2>1, <2>2, <2>3, <2>4 DEF HasBeenOpen
<1>9. Attached'
  <2>. SUFFICES ASSUME NEW r \in Sockets, Carries(r)'
                PROVE  HasBeenOpen(r)' /\ (ws'[r].on # "off" => mgr'[ws'[r].owner].socket = r)
    BY DEF Attached
  <2>1. r # s /\ Carries(r)
    BY <1>6
  <2>2. HasBeenOpen(r) /\ (ws[r].on # "off" => mgr[ws[r].owner].socket = r)
    BY <2>1 DEF Inv, Attached
  <2>3. ws[r].owner \in Managers
    BY <2>2 DEF Inv, Owned, Live, HasBeenOpen
  <2>. QED
    BY <1>3, <1>5, <2>1, <2>2, <2>3
<1>10. ASSUME NoneLeft, manager' = m, manager = None \/ manager = m
       PROVE  NoneLeft'
  <2>1. \A r \in Sockets : r # s /\ Live(r) => ws[r].owner # None
    BY NoneAssumption DEF Inv, Owned
  <2>. QED
    BY <1>1, <1>3, <1>5, <1>10, <2>1, NoneAssumption DEF NoneLeft, Inv, BrowserType
<1>. QED
  BY <1>4, <1>7, <1>8, <1>9, <1>10

LEMMA ConnectKeeps ==
  ASSUME Inv, NEW m \in Managers, NEW s \in Sockets, NEW token \in Tokens \cup {None},
         NewManager(m, s, token)
  PROVE  Inv'
<1>1. /\ m # manager /\ m \notin pend /\ ~mgr[m].timer
      /\ \A r \in Sockets : ws[r].owner # m
  BY DEF NewManager, InUse
<1>2. mgr[m].socket = None
  BY <1>1 DEF Inv, SocketOf, BrowserType, ManagerRecords
<1>3. /\ mgr' = [mgr EXCEPT ![m] = [NoManager EXCEPT !.token = token]]
      /\ ws' = [ws EXCEPT ![s] = Opening(m, FALSE)] /\ Unused(s)
      /\ state = "DISCONNECTED" /\ manager = None
      /\ state' = "CONNECTING" /\ manager' = m
      /\ UNCHANGED <<options, pend, asks, toServer, toBrowser, hasty, thrown>>
  BY DEF NewManager, wire
<1>4. [NoManager EXCEPT !.token = token] \in ManagerRecords
  BY DEF NoManager, ManagerRecords
<1>5. mgr' \in [Managers -> ManagerRecords]
  BY <1>3, <1>4 DEF Inv, BrowserType
<1>6. mgr'[m].socket = None /\ mgr'[m].timer = FALSE
  BY <1>3 DEF Inv, BrowserType, NoManager
<1>7. \A n \in Managers : n # m => mgr'[n] = mgr[n]
  BY <1>3 DEF Inv, BrowserType
<1>8. /\ BrowserType' /\ Owned' /\ SocketOf' /\ Attached' /\ (NoneLeft => NoneLeft')
  <2>1. \A n \in Managers : /\ mgr'[n].timer => mgr[n].timer /\ n # m
                            /\ mgr'[n].socket = mgr[n].socket
                            /\ n # m => mgr'[n].counter = mgr[n].counter
    BY <1>2, <1>6, <1>7
  <2>2. state' \in States /\ manager' \in Managers \cup {None} /\ FALSE \in BOOLEAN
    BY <1>3 DEF States
  <2>. QED
    BY <1>1, <1>3, <1>5, <1>6, <2>1, <2>2, NewSocket
<1>9. NoneLeft => pend' = {}
  BY <1>3, NoneAssumption DEF Inv, BrowserType, NoneLeft
<1>. QED
  BY <1>3, <1>8, <1>9 DEF Inv, Session

LEMMA ReconnectKeeps ==
  ASSUME Inv, NEW m \in Managers, NEW s \in Sockets, Reconnect(m, s)
  PROVE  Inv'
<1>1. /\ mgr[m] \in ManagerRecords /\ mgr[m].timer /\ mgr[m].socket = None
      /\ \A r \in Sockets : ws[r].owner = m => ~Live(r)
  BY DEF Reconnect, Inv, Owned, BrowserType
<1>2. /\ ws' = [ws EXCEPT ![s] = Opening(m, TRUE)] /\ Unused(s)
      /\ UNCHANGED <<options, state, manager, pend, asks, toServer, toBrowser, hasty, thrown>>
  BY DEF Reconnect, wire
<1>3. PICK c \in Nat : mgr' = [mgr EXCEPT ![m].timer = FALSE, ![m].counter = c]
  <2>1. (IF mgr[m].counter > Attempts THEN mgr[m].counter ELSE mgr[m].counter + 1) \in Nat
    BY <1>1 DEF ManagerRecords
  <2>2. mgr' = [mgr EXCEPT ![m].timer = FALSE,
                           ![m].counter = IF mgr[m].counter > Attempts THEN mgr[m].counter
                                          ELSE mgr[m].counter + 1]
    BY DEF Reconnect, Inv, BrowserType
  <2>. QED
    BY <2>1, <2>2
<1>4. /\ mgr' \in [Managers -> ManagerRecords]
      /\ \A n \in Managers : /\ mgr'[n].timer => mgr[n].timer /\ n # m
                             /\ mgr'[n].socket = mgr[n].socket
                             /\ n # m => mgr'[n].counter = mgr[n].counter
  BY <1>3, ZenonT(30) DEF Inv, BrowserType, ManagerRecords
<1>5. /\ BrowserType' /\ Owned' /\ SocketOf' /\ Attached'
      /\ NoneLeft /\ manager' = m /\ (manager = None \/ manager = m) => NoneLeft'
  <2>1. /\ state' \in States /\ manager' \in Managers \cup {None} /\ TRUE \in BOOLEAN
        /\ mgr'[m].socket = None
    BY <1>1, <1>2, <1>4 DEF Inv, BrowserType
  <2>. QED
    BY <1>1, <1>2, <1>4, <2>1, NewSocket
<1>6. NoneLeft => manager = m
  BY <1>1 DEF NoneLeft
<1>7. Session => Session'
  BY <1>2, <1>4 DEF Session, Inv, BrowserType
<1>. QED
  BY <1>2, <1>5, <1>6, <1>7 DEF Inv

LEMMA DisconnectKeeps == ASSUME Inv, Disconnect PROVE Inv'
<1>1. /\ state' = "DISCONNECTED" /\ manager' = None
      /\ UNCHANGED <<options, pend, asks, toServer, toBrowser, thrown>>
  BY DEF Disconnect, wire
<1>2. CASE manager = None
  <2>1. UNCHANGED <<manager, ws, mgr, hasty>>
    BY <1>1, <1>2 DEF Disconnect
  <2>2. BrowserType' /\ Owned' /\ SocketOf' /\ Attached'
    BY <1>1, <2>1 DEF Inv, BrowserType, States, Owned, SocketOf, Attached, Live, Carries, HasBeenOpen,
                      options
  <2>3. NoneLeft /\ Session => NoneLeft' /\ Session'
    BY <1>1, <2>1 DEF NoneLeft, Session, Live
  <2>. QED
    BY <2>1, <2>2, <2>3 DEF Inv
<1>3. CASE manager # None
  <2>. DEFINE now == mgr[manager].socket
              open == now # None /\ ws[now].net = "open"
  <2>1. /\ manager \in Managers /\ now \in Sockets \cup {None} /\ mgr[manager] \in ManagerRecords
        /\ now # None => ws[now] \in Records
    BY <1>3 DEF Inv, BrowserType, ManagerRecords
  <2>2. /\ ws' = ClosedBy(manager, ws)
        /\ mgr' = [mgr EXCEPT ![manager].socket = IF open THEN now ELSE None]
        /\ hasty' = (hasty \/ manager \in pend \/ ~open)
    BY <1>3 DEF Disconnect
  <2>. HIDE DEF now, open
  <2>3. /\ mgr' \in [Managers -> ManagerRecords]
        /\ \A m \in Managers : /\ mgr'[m].timer = mgr[m].timer /\ mgr'[m].counter = mgr[m].counter
                               /\ mgr'[m].socket # None => mgr'[m].socket = mgr[m].socket
                               /\ m # manager => mgr'[m].socket = mgr[m].socket
        /\ open => mgr'[manager].socket = now
    BY <2>1, <2>2 DEF Inv, BrowserType, ManagerRecords, now
  <2>4. /\ ws' \in [Sockets -> Records]
        /\ \A s \in Sockets :
             /\ ws'[s].owner = ws[s].owner /\ (Live(s)' <=> Live(s))
             /\ HasBeenOpen(s)' <=> HasBeenOpen(s)
             /\ ws'[s].net = "open" => ws[s].net = "open"
             /\ ws'[s].on # "off" => ws'[s].on = ws[s].on /\ s # now
             /\ s # now => ws'[s] = ws[s]
        /\ open => ws'[now].on = "off" /\ ws'[now].onclose = "forget"
    <3>1. CASE now = None
      BY <2>1, <2>2, <3>1, NoneAssumption
         DEF ClosedBy, Inv, BrowserType, Live, HasBeenOpen, open, now
    <3>2. CASE open
      <4>1. ws' = [ws EXCEPT ![now].on = "off", ![now].onclose = "forget", ![now].net = "closing"]
        BY <2>2, <3>2 DEF ClosedBy, open, now
      <4>. QED
        BY <2>1, <3>2, <4>1 DEF Inv, BrowserType, Records, Live, HasBeenOpen, open
    <3>3. CASE now # None /\ ~open
      <4>1. ws' = [ws EXCEPT ![now].on = "off"]
        BY <2>2, <3>3 DEF ClosedBy, open, now
      <4>. QED
        BY <2>1, <3>3, <4>1 DEF Inv, BrowserType, Records, Live, HasBeenOpen
    <3>. QED
      BY <3>1, <3>2, <3>3
  <2>5. BrowserType'
    BY <1>1, <2>2, <2>3, <2>4 DEF Inv, BrowserType, States, options
  <2>6. Owned'
    <3>1. /\ \A s \in asks' : ws'[s].owner \in Managers
          /\ \A s \in Sockets : Live(s)' => ws'[s].owner \in Managers
      BY <1>1, <2>4 DEF Inv, Owned, BrowserType
    <3>2. \A s, r \in Sockets : Live(s)' /\ Live(r)' /\ ws'[s].owner = ws'[r].owner => s = r
      BY <2>4 DEF Inv, Owned
    <3>3. \A m \in Managers : mgr'[m].timer =>
            mgr'[m].socket = None /\ \A s \in Sockets : ws'[s].owner = m => ~Live(s)'
      BY <2>3, <2>4 DEF Inv, Owned
    <3>. QED
      BY <3>1, <3>2, <3>3 DEF Owned
  <2>7. SocketOf'
    <3>. SUFFICES ASSUME NEW m \in Managers, mgr'[m].socket # None
                  PROVE  /\ ws'[mgr'[m].socket].owner = m /\ HasBeenOpen(mgr[m].socket)'
                         /\ mgr'[m].counter = 0 /\ mgr'[m].socket = mgr[m].socket
      BY DEF SocketOf, HasBeenOpen
    <3>1. mgr'[m].socket = mgr[m].socket /\ mgr[m].socket \in Sockets
      BY <2>3 DEF Inv, BrowserType, ManagerRecords
    <3>. QED
      BY <2>3, <2>4, <3>1 DEF Inv, SocketOf, HasBeenOpen
  <2>8. Attached'
    <3>. SUFFICES ASSUME NEW s \in Sockets, Carries(s)'
                  PROVE  HasBeenOpen(s)' /\ (ws'[s].on # "off" => mgr'[ws'[s].owner].socket = s)
      BY DEF Attached
    <3>1. HasBeenOpen(s) /\ (ws[s].on # "off" => mgr[ws[s].owner].socket = s)
      BY <1>1, <2>4 DEF Inv, Attached, Carries
    <3>2. ws[s].owner \in Managers
      BY <3>1 DEF Inv, Owned, Live, HasBeenOpen
    <3>3. ASSUME ws'[s].on # "off" PROVE mgr'[ws'[s].owner].socket = s
      <4>1. s # now /\ mgr[ws[s].owner].socket = s
        BY <2>4, <3>1, <3>3
      <4>2. ws[s].owner # manager
        BY <4>1 DEF now
      <4>. QED
        BY <2>3, <2>4, <3>2, <4>1, <4>2
    <3>. QED
      BY <2>4, <3>1, <3>3
  <2>9. ASSUME ~hasty', NoneLeft PROVE NoneLeft'
    <3>1. manager \notin pend /\ open
      BY <2>2, <2>9 DEF Inv, BrowserType
    <3>2. now \in Sockets /\ ws[now].owner = manager /\ Live(now)
      BY <2>1, <3>1 DEF Inv, SocketOf, open, now, HasBeenOpen, Live
    <3>3. \A s \in Sockets : Live(s) /\ s # now => ws[s].owner \in Managers /\ ws[s].owner # manager
      BY <3>2 DEF Inv, Owned
    <3>4. \A s \in Sockets : Live(s)' => /\ ws'[s].on = "off" /\ ws'[s].onclose = "forget"
                                       /\ ws'[s].owner # manager'
      BY <1>1, <2>4, <2>9, <3>1, <3>2, <3>3, NoneAssumption DEF NoneLeft, Inv, Owned
    <3>5. \A m \in Managers : ~mgr'[m].timer
      BY <2>1, <2>3, <2>9, <3>1 DEF NoneLeft, Inv, Owned, open, now
    <3>6. pend' = {}
      BY <1>1, <2>9, <3>1 DEF NoneLeft
    <3>. QED
      BY <3>4, <3>5, <3>6 DEF NoneLeft
  <2>10. Session => Session'
    BY <1>1 DEF Session
  <2>. QED
    BY <2>2, <2>5, <2>6, <2>7, <2>8, <2>9, <2>10 DEF Inv
<1>. QED
  BY <1>2, <1>3

\* Steps that leave the managers and the sockets as they are.
LEMMA CallsKeep ==
  ASSUME Inv, \/ Request \/ (\E s \in Sockets : SyncBegins(s))
              \/ \E m \in Managers : SyncNext(m) \/ SyncEnds(m)
  PROVE  Inv'
<1>1. UNCHANGED <<options, manager, mgr, ws, asks, toServer, toBrowser, hasty>>
  BY DEF Request, SyncBegins, SyncNext, SyncEnds, browser, wire
<1>2. Owned' /\ SocketOf' /\ Attached'
  BY <1>1 DEF Inv, Owned, SocketOf, Attached, Live, HasBeenOpen, Carries
<1>3. CASE Request
  <2>1. /\ UNCHANGED <<state, pend>> /\ state \in {"CONNECTED", "SYNCING"}
        /\ manager # None /\ mgr[manager].socket # None => thrown' = thrown
    BY <1>3 DEF Request, browser
  <2>2. BrowserType'
    BY <1>1, <2>1 DEF Inv, BrowserType, options
  <2>3. NoneLeft /\ Session => NoneLeft' /\ Session'
    BY <1>1, <2>1 DEF NoneLeft, Session, Live
  <2>. QED
    BY <1>1, <1>2, <2>2, <2>3 DEF Inv
<1>4. ASSUME NEW s \in Sockets, SyncBegins(s) PROVE Inv'
  <2>1. /\ ws[s].net = "open" /\ ws[s].on = "run" /\ state' = "SYNCING"
        /\ pend' = pend \cup {ws[s].owner} /\ UNCHANGED thrown
    BY <1>4 DEF SyncBegins
  <2>2. Live(s) /\ ws[s].owner \in Managers /\ mgr[ws[s].owner].socket = s
    BY <2>1 DEF Inv, Owned, Attached, Live, Carries
  <2>3. BrowserType'
    BY <1>1, <2>1, <2>2 DEF Inv, BrowserType, States, options
  <2>4. ASSUME NoneLeft, Session PROVE NoneLeft' /\ Session'
    <3>1. ws[s].owner = manager /\ manager # None /\ mgr[manager].socket # None
      BY <2>1, <2>2, <2>4, NoneAssumption DEF NoneLeft
    <3>. QED
      BY <1>1, <2>1, <2>4, <3>1 DEF NoneLeft, Session, Live
  <2>. QED
    BY <1>1, <1>2, <2>3, <2>4 DEF Inv
<1>5. ASSUME NEW m \in Managers, SyncEnds(m) PROVE Inv'
  <2>1. /\ m \in pend /\ pend' = pend \ {m} /\ (manager # None => thrown' = thrown)
        /\ state' = IF state = "DISCONNECTED" \/ manager = None THEN state ELSE "CONNECTED"
    BY <1>5 DEF SyncEnds
  <2>2. BrowserType'
    BY <1>1, <2>1 DEF Inv, BrowserType, States, options
  <2>3. ASSUME NoneLeft, Session PROVE NoneLeft' /\ Session'
    <3>1. manager = m /\ manager # None
      BY <2>1, <2>3, NoneAssumption DEF NoneLeft
    <3>2. state # "CONNECTING"
      BY <2>1, <2>3 DEF Session
    <3>3. state \in States
      BY DEF Inv, BrowserType
    <3>4. NoneLeft'
      BY <1>1, <2>1, <2>3 DEF NoneLeft, Live
    <3>5. Session'
      BY <1>1, <2>1, <2>3, <3>1, <3>2, <3>3 DEF Session, States
    <3>. QED
      BY <3>4, <3>5
  <2>. QED
    BY <1>1, <1>2, <2>2, <2>3 DEF Inv
<1>6. ASSUME NEW m \in Managers, SyncNext(m) PROVE Inv'
  <2>1. m \in pend /\ UNCHANGED <<state, pend>>
    BY <1>6 DEF SyncNext, browser
  <2>2. \/ manager = None
        \/ thrown' = thrown
        \/ mgr[m].socket = None /\ thrown' = thrown \cup {[in |-> "syncNext", state |-> state]}
    BY <1>6 DEF SyncNext, Throws
  <2>3. BrowserType'
    BY <1>1, <2>1 DEF Inv, BrowserType, options
  <2>4. NoneLeft => NoneLeft'
    BY <1>1, <2>1 DEF NoneLeft, Live
  <2>5. ASSUME NoneLeft, Session PROVE Session'
    <3>1. manager = m /\ manager # None
      BY <2>1, <2>5, NoneAssumption DEF NoneLeft
    <3>2. mgr[m].socket = None => state = "DISCONNECTED"
      BY <2>1, <2>5, <3>1 DEF Session, Inv, BrowserType, States
    <3>3. thrown' \subseteq {[in |-> "syncNext", state |-> "DISCONNECTED"]}
      BY <2>2, <2>5, <3>1, <3>2 DEF Session
    <3>. QED
      BY <1>1, <2>1, <2>5, <3>3 DEF Session
  <2>. QED
    BY <1>1, <1>2, <2>3, <2>4, <2>5 DEF Inv
<1>. QED
  BY <1>3, <1>4, <1>5, <1>6

LEMMA OpensKeeps == ASSUME Inv, NEW s \in Sockets, Opens(s) PROVE Inv'
<1>. DEFINE m == ws[s].owner
<1>1. /\ ws[s].net = "accepted"
      /\ ws' = [ws EXCEPT ![s].net = "open"]
      /\ mgr' = [mgr EXCEPT ![m].socket = s, ![m].counter = 0]
      /\ UNCHANGED <<options, state, manager, pend, toBrowser, hasty, thrown>>
  BY DEF Opens
<1>2. Live(s) /\ m \in Managers /\ mgr[m] \in ManagerRecords /\ ws[s] \in Records
  BY <1>1 DEF Live, Inv, Owned, BrowserType
<1>3. /\ asks' \in SUBSET (asks \cup {s})
      /\ toServer' \in [Sockets -> Seq(Tokens)]
      /\ \A r \in Sockets : r # s => toServer'[r] = toServer[r]
  <2>1. CASE ~ws[s].again /\ mgr[m].token # None
    <3>1. mgr[m].token \in Tokens
      BY <1>2, <2>1 DEF ManagerRecords
    <3>2. toServer' = [toServer EXCEPT ![s] = Append(toServer[s], mgr[m].token)] /\ asks' = asks
      BY <2>1 DEF Opens
    <3>3. toServer \in [Sockets -> Seq(Tokens)] /\ Append(toServer[s], mgr[m].token) \in Seq(Tokens)
      BY <3>1 DEF Inv, BrowserType
    <3>. QED
      BY <3>2, <3>3
  <2>2. CASE ~(~ws[s].again /\ mgr[m].token # None)
    BY <2>2 DEF Opens, Inv, BrowserType
  <2>. QED
    BY <2>1, <2>2
<1>. HIDE DEF m
<1>4. /\ ws' \in [Sockets -> Records]
      /\ ws'[s].net = "open" /\ ws'[s].owner = m
      /\ \A r \in Sockets :
           /\ ws'[r].owner = ws[r].owner /\ ws'[r].on = ws[r].on /\ ws'[r].onclose = ws[r].onclose
           /\ (Live(r)' <=> Live(r)) /\ (HasBeenOpen(r) => HasBeenOpen(r)')
           /\ r # s => ws'[r] = ws[r]
  BY <1>1, <1>2 DEF m, Inv, BrowserType, Records, Live, HasBeenOpen
<1>5. /\ mgr' \in [Managers -> ManagerRecords]
      /\ mgr'[m].socket = s /\ mgr'[m].counter = 0
      /\ \A n \in Managers : mgr'[n].timer = mgr[n].timer /\ (n # m => mgr'[n] = mgr[n])
  BY <1>1, <1>2 DEF Inv, BrowserType, ManagerRecords
<1>6. BrowserType'
  BY <1>1, <1>3, <1>4, <1>5 DEF Inv, BrowserType, options
<1>7. ~mgr[m].timer
  BY <1>2 DEF Inv, Owned, m
<1>8. Owned'
  <2>1. /\ \A r \in asks' : ws'[r].owner \in Managers
        /\ \A r \in Sockets : Live(r)' => ws'[r].owner \in Managers
    BY <1>2, <1>3, <1>4 DEF Inv, Owned, BrowserType
  <2>2. \A q, r \in Sockets : Live(q)' /\ Live(r)' /\ ws'[q].owner = ws'[r].owner => q = r
    BY <1>4 DEF Inv, Owned
  <2>3. \A n \in Managers : mgr'[n].timer =>
          mgr'[n].socket = None /\ \A r \in Sockets : ws'[r].owner = n => ~Live(r)'
    BY <1>4, <1>5, <1>7 DEF Inv, Owned
  <2>. QED
    BY <2>1, <2>2, <2>3 DEF Owned
<1>9. SocketOf'
  <2>. SUFFICES ASSUME NEW n \in Managers, mgr'[n].socket # None
                PROVE  /\ mgr'[n].socket \in Sockets /\ mgr'[n].counter = 0
                       /\ \A r \in Sockets : r = mgr'[n].socket => ws'[r].owner = n /\ HasBeenOpen(r)'
    BY DEF SocketOf, HasBeenOpen
  <2>1. CASE n = m
    BY <1>4, <1>5, <2>1 DEF HasBeenOpen
  <2>2. CASE n # m
    <3>1. mgr'[n] = mgr[n] /\ mgr[n].socket \in Sockets
      BY <1>5, <2>2 DEF Inv, BrowserType, ManagerRecords
    <3>. QED
      BY <1>4, <3>1 DEF Inv, SocketOf
  <2>. QED
    BY <2>1, <2>2
<1>10. Attached'
  <2>. SUFFICES ASSUME NEW r \in Sockets, Carries(r)', r # s
                PROVE  HasBeenOpen(r)' /\ (ws'[r].on # "off" => mgr'[ws'[r].owner].socket = r)
    BY <1>4, <1>5 DEF Attached, HasBeenOpen
  <2>1. Carries(r)
    BY <1>1, <1>3, <1>4 DEF Carries
  <2>2. HasBeenOpen(r) /\ (ws[r].on # "off" => mgr[ws[r].owner].socket = r)
    BY <2>1 DEF Inv, Attached
  <2>3. ws[r].owner \in Managers /\ ws[r].owner # m
    BY <1>2, <2>2 DEF Inv, Owned, Live, HasBeenOpen, m
  <2>. QED
    BY <1>4, <1>5, <2>2, <2>3
<1>11. NoneLeft => NoneLeft'
  BY <1>1, <1>4, <1>5 DEF NoneLeft, Inv, BrowserType
<1>12. ASSUME Session PROVE Session'
  <2>1. manager # None => manager \in Managers /\ (mgr[manager].socket # None => mgr'[manager].socket # None)
    BY <1>5, NoneAssumption DEF Inv, BrowserType
  <2>. QED
    BY <1>1, <1>12, <2>1 DEF Session
<1>. QED
  BY <1>1, <1>6, <1>8, <1>9, <1>10, <1>11, <1>12 DEF Inv

\* A socket that is no longer live is forgotten when its token has come.
LEMMA ReleasedKeeps ==
  ASSUME Inv, NEW s \in asks, asks' = asks \ {s}, ws' = Released(s),
         toServer' \in [Sockets -> Seq(Tokens)],
         \A r \in Sockets : toServer'[r] # toServer[r] => ws[r].net = "open",
         UNCHANGED <<options, browser, toBrowser, hasty, thrown>>
  PROVE  Inv'
<1>1. /\ ws' \in [Sockets -> Records]
      /\ \A r \in Sockets :
           /\ (Live(r)' <=> Live(r)) /\ (HasBeenOpen(r)' <=> HasBeenOpen(r))
           /\ Live(r) \/ r # s => ws'[r] = ws[r]
           /\ ws'[r].net = "open" => ws[r].net = "open"
           /\ ~Live(r) => ~Live(r)'
  <2>1. NoSocket \in Records /\ NoSocket.net = "none"
    BY DEF NoSocket, Records
  <2>2. s \in Sockets /\ ws \in [Sockets -> Records]
    BY DEF Inv, BrowserType
  <2>. QED
    BY <2>1, <2>2 DEF Released, Live, HasBeenOpen
<1>2. BrowserType'
  BY <1>1 DEF Inv, BrowserType, options, browser
<1>3. Owned'
  <2>1. /\ \A r \in asks' : ws'[r].owner \in Managers
        /\ \A r \in Sockets : Live(r)' => ws'[r].owner \in Managers
    BY <1>1 DEF Inv, Owned, BrowserType
  <2>2. \A q, r \in Sockets : Live(q)' /\ Live(r)' /\ ws'[q].owner = ws'[r].owner => q = r
    BY <1>1 DEF Inv, Owned
  <2>3. \A n \in Managers : mgr'[n].timer =>
          mgr'[n].socket = None /\ \A r \in Sockets : ws'[r].owner = n => ~Live(r)'
    <3>1. ASSUME NEW n \in Managers, mgr[n].timer, NEW r \in Sockets, Live(r)'
          PROVE  ws'[r].owner # n
      BY <1>1, <3>1 DEF Inv, Owned
    <3>. QED
      BY <3>1 DEF Inv, Owned, browser
  <2>. QED
    BY <2>1, <2>2, <2>3 DEF Owned
<1>4. SocketOf'
  <2>. SUFFICES ASSUME NEW n \in Managers, mgr[n].socket # None
                PROVE  /\ ws'[mgr[n].socket].owner = n /\ HasBeenOpen(mgr[n].socket)'
                       /\ mgr[n].counter = 0
    BY DEF SocketOf, browser, HasBeenOpen
  <2>1. /\ mgr[n].socket \in Sockets /\ ws[mgr[n].socket].owner = n /\ HasBeenOpen(mgr[n].socket)
        /\ mgr[n].counter = 0
    BY DEF Inv, SocketOf, BrowserType, ManagerRecords
  <2>2. Live(mgr[n].socket)
    BY <2>1 DEF Live, HasBeenOpen
  <2>. QED
    BY <1>1, <2>1, <2>2 DEF HasBeenOpen, browser
<1>5. Attached'
  <2>. SUFFICES ASSUME NEW r \in Sockets, Carries(r)'
                PROVE  HasBeenOpen(r)' /\ (ws'[r].on # "off" => mgr'[ws'[r].owner].socket = r)
    BY DEF Attached
  <2>1. Carries(r)
    BY <1>1 DEF Carries
  <2>2. HasBeenOpen(r) /\ (ws[r].on # "off" => mgr[ws[r].owner].socket = r)
    BY <2>1 DEF Inv, Attached
  <2>3. ws'[r] = ws[r]
    BY <1>1, <2>2 DEF Live, HasBeenOpen
  <2>. QED
    BY <1>1, <2>2, <2>3 DEF browser
<1>6. NoneLeft => NoneLeft'
  BY <1>1 DEF NoneLeft, browser, Inv, BrowserType
<1>7. Session => Session'
  BY DEF Session, browser
<1>. QED
  BY <1>2, <1>3, <1>4, <1>5, <1>6, <1>7 DEF Inv

LEMMA TokenKeeps ==
  ASSUME Inv, NEW s \in Sockets, TokenArrives(s) \/ TokenFails(s)
  PROVE  Inv'
<1>1. /\ s \in asks /\ asks' = asks \ {s} /\ ws' = Released(s)
      /\ UNCHANGED <<options, browser, toBrowser, hasty, thrown>>
  BY DEF TokenArrives, TokenFails
<1>2. /\ toServer' \in [Sockets -> Seq(Tokens)]
      /\ \A r \in Sockets : toServer'[r] # toServer[r] => ws[r].net = "open"
  <2>1. CASE TokenFails(s)
    BY <2>1 DEF TokenFails, Inv, BrowserType
  <2>2. CASE TokenArrives(s)
    <3>. DEFINE m == ws[s].owner  now == mgr[m].socket
    <3>1. PICK t \in Tokens :
            toServer' = IF now = None THEN toServer ELSE [toServer EXCEPT ![now] = Send(m, now, t)]
      BY <2>2 DEF TokenArrives
    <3>2. toServer \in [Sockets -> Seq(Tokens)]
      BY DEF Inv, BrowserType
    <3>3. now \in Sockets \cup {None}
      BY <1>1 DEF Inv, Owned, BrowserType, ManagerRecords
    <3>. HIDE DEF now
    <3>4. CASE now # None /\ ws[now].net = "open"
      <4>1. Append(toServer[now], t) \in Seq(Tokens)
        BY <3>2, <3>3, <3>4
      <4>2. toServer' = [toServer EXCEPT ![now] = Append(toServer[now], t)]
        BY <3>1, <3>4 DEF Send
      <4>. QED
        BY <3>2, <3>3, <3>4, <4>1, <4>2
    <3>5. CASE ~(now # None /\ ws[now].net = "open")
      BY <3>1, <3>2, <3>3, <3>5 DEF Send
    <3>. QED
      BY <3>4, <3>5
  <2>. QED
    BY <2>1, <2>2
<1>. QED
  BY <1>1, <1>2, ReleasedKeeps

LEMMA HandleAuthKeeps == ASSUME Inv, NEW s \in Sockets, HandleAuth(s) PROVE Inv'
<1>1. /\ toBrowser[s] # <<>> /\ toBrowser' = [toBrowser EXCEPT ![s] = Tail(@)]
      /\ UNCHANGED <<options, manager, mgr, pend, toServer, asks, hasty, thrown>>
  BY DEF HandleAuth
<1>2. Carries(s) /\ HasBeenOpen(s) /\ Live(s) /\ ws[s].owner \in Managers /\ ws[s] \in Records
  BY <1>1 DEF Inv, Attached, Owned, BrowserType, Carries, HasBeenOpen, Live
<1>3. ws' = [ws EXCEPT ![s].on = "run"] \/ ws' = ws
  BY DEF HandleAuth
<1>4. /\ ws' \in [Sockets -> Records]
      /\ \A r \in Sockets :
           /\ ws'[r].owner = ws[r].owner /\ ws'[r].net = ws[r].net /\ ws'[r].onclose = ws[r].onclose
           /\ r # s => ws'[r].on = ws[r].on
  <2>1. ws \in [Sockets -> Records]
    BY DEF Inv, BrowserType
  <2>2. CASE ws' = ws
    BY <2>1, <2>2
  <2>3. CASE ws' = [ws EXCEPT ![s].on = "run"]
    BY <1>2, <2>1, <2>3 DEF Records
  <2>. QED
    BY <1>3, <2>2, <2>3
<1>5. (state' = state /\ ws' = ws) \/ (ws[s].on = "auth" /\ state' \in {"CONNECTED", "SYNCING"})
  BY DEF HandleAuth
<1>6. ws[s].on = "off" => ws' = ws
  BY DEF HandleAuth
<1>7. toBrowser' \in [Sockets -> Seq({"authz"})] /\ \A r \in Sockets : r # s => toBrowser'[r] = toBrowser[r]
  <2>1. toBrowser \in [Sockets -> Seq({"authz"})] /\ Tail(toBrowser[s]) \in Seq({"authz"})
    BY <1>1 DEF Inv, BrowserType
  <2>. QED
    BY <1>1, <2>1
<1>8. BrowserType'
  BY <1>1, <1>4, <1>5, <1>7 DEF Inv, BrowserType, States, options
<1>9. Owned' /\ SocketOf'
  <2>1. Owned'
    <3>1. \A r \in Sockets : ws'[r].owner = ws[r].owner /\ (Live(r)' <=> Live(r))
      BY <1>4 DEF Live
    <3>. QED
      BY <1>1, <3>1 DEF Inv, Owned, BrowserType
  <2>2. \A n \in Managers : mgr[n].socket \in Sockets \cup {None}
    BY DEF Inv, BrowserType, ManagerRecords
  <2>3. SocketOf'
    BY <1>1, <1>4, <2>2 DEF Inv, SocketOf, HasBeenOpen
  <2>. QED
    BY <2>1, <2>3
<1>10. Attached'
  <2>. SUFFICES ASSUME NEW r \in Sockets, Carries(r)'
                PROVE  HasBeenOpen(r)' /\ (ws'[r].on # "off" => mgr'[ws'[r].owner].socket = r)
    BY DEF Attached
  <2>1. Carries(r)
    BY <1>1, <1>2, <1>4, <1>7 DEF Carries
  <2>2. HasBeenOpen(r) /\ (ws[r].on # "off" => mgr[ws[r].owner].socket = r)
    BY <2>1 DEF Inv, Attached
  <2>3. ws'[r].on # "off" => ws[r].on # "off"
    BY <1>4, <1>6
  <2>. QED
    BY <1>1, <1>4, <2>2, <2>3 DEF HasBeenOpen
<1>11. ASSUME NoneLeft, Session PROVE NoneLeft' /\ Session'
  <2>1. ws[s].on # "off" => /\ ws[s].owner = manager /\ manager # None
                            /\ mgr[manager].socket # None
    BY <1>2, <1>11, NoneAssumption DEF NoneLeft, Inv, Attached
  <2>2. NoneLeft'
    BY <1>1, <1>4, <1>6, <1>11, <2>1 DEF NoneLeft, Live
  <2>3. Session'
    BY <1>1, <1>5, <1>11, <2>1 DEF Session
  <2>. QED
    BY <2>2, <2>3
<1>. QED
  BY <1>1, <1>8, <1>9, <1>10, <1>11 DEF Inv

LEMMA OnCloseKeeps == ASSUME Inv, NEW s \in Sockets, OnClose(s) PROVE Inv'
<1>. DEFINE m == ws[s].owner
<1>1. /\ ws[s].net = "ending"
      /\ ws' = [ws EXCEPT ![s] = [NoSocket EXCEPT !.owner = IF s \in asks THEN m ELSE None]]
      /\ toServer' = [toServer EXCEPT ![s] = <<>>] /\ toBrowser' = [toBrowser EXCEPT ![s] = <<>>]
      /\ UNCHANGED <<options, manager, pend, asks, hasty, thrown>>
  BY DEF OnClose
<1>2. Live(s) /\ m \in Managers /\ mgr[m] \in ManagerRecords
  BY <1>1 DEF Live, Inv, Owned, BrowserType
<1>. HIDE DEF m
<1>3. /\ mgr' \in [Managers -> ManagerRecords] /\ mgr'[m].socket = None
      /\ \A n \in Managers : n # m => mgr'[n] = mgr[n]
  <2>1. mgr \in [Managers -> ManagerRecords]
    BY DEF Inv, BrowserType
  <2>2. CASE TryAgain(s)
    <3>1. PICK timer \in BOOLEAN, failed \in BOOLEAN :
            mgr' = [mgr EXCEPT ![m].socket = None, ![m].timer = timer, ![m].failed = failed]
      BY <2>2 DEF TryAgain, m
    <3>. QED
      BY <1>2, <2>1, <3>1 DEF ManagerRecords
  <2>3. CASE HandleClose(s) \/ Forget(s)
    <3>1. mgr' = [mgr EXCEPT ![m].socket = None]
      BY <2>3 DEF HandleClose, Forget, m
    <3>. QED
      BY <1>2, <2>1, <3>1 DEF ManagerRecords
  <2>. QED
    BY <2>2, <2>3 DEF OnClose
<1>4. /\ state' \in States /\ (state' = state \/ state' = "DISCONNECTED")
      /\ \/ ws[s].onclose = "again" /\ (mgr[m].counter = 0 => state' = "DISCONNECTED")
         \/ ws[s].onclose = "plain" /\ state' = "DISCONNECTED" /\ mgr'[m].timer = mgr[m].timer
         \/ ws[s].onclose = "forget" /\ state' = state /\ mgr'[m].timer = mgr[m].timer
  BY <1>2 DEF OnClose, TryAgain, HandleClose, Forget, m, Inv, BrowserType, ManagerRecords, States
<1>5. /\ ws' \in [Sockets -> Records]
      /\ \A r \in Sockets : r # s => ws'[r] = ws[r]
      /\ ~Live(s)' /\ (s \in asks => ws'[s].owner = m)
  <2>1. /\ ws \in [Sockets -> Records]
        /\ [NoSocket EXCEPT !.owner = IF s \in asks THEN m ELSE None] \in Records
    BY <1>2 DEF NoSocket, Records, Inv, BrowserType
  <2>. QED
    BY <1>1, <2>1 DEF NoSocket, Live
<1>6. /\ toServer' \in [Sockets -> Seq(Tokens)]
      /\ \A r \in Sockets : r # s => toServer'[r] = toServer[r]
      /\ toServer'[s] = <<>>
  <2>1. toServer \in [Sockets -> Seq(Tokens)] /\ <<>> \in Seq(Tokens)
    BY DEF Inv, BrowserType
  <2>. QED
    BY <1>1, <2>1
<1>7. /\ toBrowser' \in [Sockets -> Seq({"authz"})]
      /\ \A r \in Sockets : r # s => toBrowser'[r] = toBrowser[r]
      /\ toBrowser'[s] = <<>>
  <2>1. toBrowser \in [Sockets -> Seq({"authz"})] /\ <<>> \in Seq({"authz"})
    BY DEF Inv, BrowserType
  <2>. QED
    BY <1>1, <2>1
<1>8. BrowserType'
  BY <1>1, <1>3, <1>4, <1>5, <1>6, <1>7 DEF Inv, BrowserType, options
<1>9. \A r \in Sockets : Live(r)' => r # s /\ Live(r) /\ ws[r].owner \in Managers /\ ws[r].owner # m
  BY <1>2, <1>5 DEF Inv, Owned, Live, m
<1>10. Owned'
  <2>1. /\ \A r \in asks' : ws'[r].owner \in Managers
        /\ \A r \in Sockets : Live(r)' => ws'[r].owner \in Managers
    BY <1>1, <1>2, <1>5, <1>9 DEF Inv, Owned, BrowserType
  <2>2. \A q, r \in Sockets : Live(q)' /\ Live(r)' /\ ws'[q].owner = ws'[r].owner => q = r
    BY <1>5, <1>9 DEF Inv, Owned
  <2>3. \A n \in Managers : mgr'[n].timer =>
          mgr'[n].socket = None /\ \A r \in Sockets : ws'[r].owner = n => ~Live(r)'
    BY <1>3, <1>5, <1>9 DEF Inv, Owned
  <2>. QED
    BY <2>1, <2>2, <2>3 DEF Owned
<1>11. SocketOf'
  <2>. SUFFICES ASSUME NEW n \in Managers, mgr'[n].socket # None
                PROVE  /\ mgr'[n].socket \in Sockets /\ mgr'[n].counter = 0
                       /\ \A r \in Sockets : r = mgr'[n].socket => ws'[r].owner = n /\ HasBeenOpen(r)'
    BY DEF SocketOf, HasBeenOpen
  <2>1. n # m /\ mgr'[n] = mgr[n] /\ mgr[n].socket \in Sockets
    BY <1>3 DEF Inv, BrowserType, ManagerRecords
  <2>2. ws[mgr[n].socket].owner = n /\ HasBeenOpen(mgr[n].socket) /\ mgr[n].counter = 0
    BY <2>1 DEF Inv, SocketOf
  <2>3. mgr[n].socket # s
    BY <2>1, <2>2 DEF m
  <2>. QED
    BY <1>5, <2>1, <2>2, <2>3 DEF HasBeenOpen
<1>12. Attached'
  <2>. SUFFICES ASSUME NEW r \in Sockets, Carries(r)'
                PROVE  HasBeenOpen(r)' /\ (ws'[r].on # "off" => mgr'[ws'[r].owner].socket = r)
    BY DEF Attached
  <2>1. r # s /\ Carries(r)
    BY <1>5, <1>6, <1>7 DEF Carries, Live
  <2>2. HasBeenOpen(r) /\ (ws[r].on # "off" => mgr[ws[r].owner].socket = r)
    BY <2>1 DEF Inv, Attached
  <2>3. ws'[r] = ws[r] /\ Live(r)'
    BY <1>5, <2>1, <2>2 DEF HasBeenOpen, Live
  <2>. QED
    BY <1>3, <1>9, <2>2, <2>3 DEF HasBeenOpen
<1>13. ASSUME NoneLeft, Session PROVE NoneLeft' /\ Session'
  <2>1. ws[s].onclose # "forget" => m = manager
    BY <1>2, <1>13 DEF NoneLeft, m
  <2>2. ws[s].onclose = "forget" => m # manager
    BY <1>2, <1>13 DEF NoneLeft, m
  <2>3. \A n \in Managers : mgr'[n].timer => n = manager
    BY <1>3, <1>4, <1>13, <2>1 DEF NoneLeft
  <2>4. NoneLeft'
    BY <1>1, <1>5, <1>9, <1>13, <2>3 DEF NoneLeft, Inv, BrowserType
  <2>5. Session'
    <3>1. CASE state' = "DISCONNECTED"
      BY <1>1, <1>13, <3>1 DEF Session
    <3>2. CASE state' # "DISCONNECTED"
      <4>1. state' = state
        BY <1>4, <3>2
      <4>2. state \in {"CONNECTED", "SYNCING"} =>
              manager \in Managers /\ mgr[manager].socket # None /\ mgr[manager].counter = 0
        BY <1>13, NoneAssumption DEF Session, Inv, SocketOf, BrowserType
      <4>3. state \in {"CONNECTED", "SYNCING"} => m # manager
        BY <1>4, <2>1, <2>2, <3>2, <4>2
      <4>. QED
        BY <1>1, <1>3, <1>13, <4>1, <4>2, <4>3 DEF Session
    <3>. QED
      BY <3>1, <3>2
  <2>. QED
    BY <2>4, <2>5
<1>. QED
  BY <1>1, <1>8, <1>10, <1>11, <1>12, <1>13 DEF Inv

-----------------------------------------------------------------------------
(* The theorems about the browser's session *)

LEMMA NextKeeps == Inv /\ [Next]_vars => Inv'
<1>. SUFFICES ASSUME Inv, [Next]_vars PROVE Inv'
  OBVIOUS
<1>1. CASE Api
  <2>1. ASSUME NEW m \in Managers, NEW s \in Sockets, Connect(m, s) PROVE Inv'
    BY <2>1, ConnectKeeps DEF Connect
  <2>2. ASSUME NEW m \in Managers, NEW s \in Sockets, ConnectWithToken(m, s) PROVE Inv'
    BY <2>2, ConnectKeeps DEF ConnectWithToken
  <2>. QED
    BY <1>1, <2>1, <2>2, DisconnectKeeps, CallsKeep DEF Api
<1>2. CASE Unforced
  <2>1. ASSUME NEW s \in Sockets, Cut(s) \/ StepBegins(s) \/ Crash(s) PROVE Inv'
    BY <2>1, StepMoves, ServerKeeps DEF ServerStep
  <2>2. ASSUME NEW s \in Sockets, SyncBegins(s) \/ TokenFails(s) PROVE Inv'
    BY <2>2, CallsKeep, TokenKeeps
  <2>3. ASSUME Shutdown \/ \E t \in Tokens : Expire(t) PROVE Inv'
    BY <2>3, ProcessMoves, ServerKeeps
  <2>4. ASSUME NEW m \in Managers, SyncNext(m) PROVE Inv'
    BY <2>4, CallsKeep
  <2>. QED
    BY <1>2, <2>1, <2>2, <2>3, <2>4 DEF Unforced
<1>3. CASE ProcessStep
  BY <1>3, ProcessMoves, ServerKeeps DEF ProcessStep
<1>4. ASSUME NEW s \in Sockets, SocketStep(s) PROVE Inv'
  <2>1. CASE ServerStep(s)
    BY <2>1, StepMoves, ServerKeeps
  <2>2. CASE Opens(s) \/ TokenArrives(s) \/ HandleAuth(s) \/ OnClose(s)
    BY <2>2, OpensKeeps, TokenKeeps, HandleAuthKeeps, OnCloseKeeps
  <2>. QED
    BY <1>4, <2>1, <2>2 DEF SocketStep, ServerStep
<1>5. ASSUME NEW m \in Managers, ManagerStep(m) PROVE Inv'
  BY <1>5, CallsKeep, ReconnectKeeps DEF ManagerStep
<1>6. CASE UNCHANGED vars
  <2>1. ServerMoves
    BY <1>6, StillMoves DEF vars, wire
  <2>. QED
    BY <2>1, ServerKeeps
<1>. QED
  BY <1>1, <1>2, <1>3, <1>4, <1>5, <1>6 DEF Next

\* The invariant holds in every state.
THEOREM InvHolds == Spec => []Inv
<1>. QED
  BY InitHolds, NextKeeps, PTL DEF Spec

\* The browser has one session at most: what disconnect() leaves behind gets no
\* message through, unless it came before the socket was open, while it was
\* closing or during a sync.
THEOREM OneSessionHolds == Spec => []OneSession
<1>1. Inv => OneSession
  BY DEF Inv, NoneLeft, OneSession, Live, BrowserType
<1>. QED
  BY <1>1, InvHolds, PTL

\* A browser that says it is connected has a manager with a socket, so that
\* sync.request() and onCompleted() throw nothing, and syncNext() only in a
\* browser that says DISCONNECTED: under the same proviso.
THEOREM ConnectedHasSocketHolds == Spec => []ConnectedHasSocket
<1>1. Inv => ConnectedHasSocket
  BY DEF Inv, Session, ConnectedHasSocket, BrowserType
<1>. QED
  BY <1>1, InvHolds, PTL

-----------------------------------------------------------------------------
(* A token admits one client: one that can still be used has admitted none. *)

TokenInv ==
  /\ table \subseteq Tokens
  /\ granted \in [Tokens -> 0..2]
  /\ \A t \in Tokens : granted[t] <= 1 /\ (t \in table => granted[t] = 0)

LEMMA IssueKeeps == ASSUME TokenInv, NEW t \in Tokens, Issue(t) PROVE TokenInv'
BY DEF TokenInv, Issue

LEMMA TokenNext == TokenInv /\ [Next]_vars => TokenInv'
<1>. SUFFICES ASSUME TokenInv, [Next]_vars PROVE TokenInv'
  OBVIOUS
<1>1. ASSUME table' \subseteq table, UNCHANGED granted PROVE TokenInv'
  BY <1>1 DEF TokenInv
<1>2. CASE Api
  <2>1. ASSUME NEW m \in Managers, NEW s \in Sockets, ConnectWithToken(m, s) PROVE TokenInv'
    <3>1. (\E t \in Tokens : Issue(t)) \/ UNCHANGED <<table, granted>>
      BY <2>1 DEF ConnectWithToken, auth
    <3>. QED
      BY <1>1, <3>1, IssueKeeps
  <2>2. ASSUME \/ Disconnect \/ Request
               \/ \E m \in Managers, s \in Sockets : Connect(m, s)
        PROVE  UNCHANGED <<table, granted>>
    BY <2>2 DEF Disconnect, Request, Connect, auth
  <2>. QED
    BY <1>1, <1>2, <2>1, <2>2 DEF Api
<1>3. CASE Unforced
  <2>1. table' \subseteq table /\ UNCHANGED granted
    BY <1>3 DEF Unforced, SyncBegins, SyncNext, TokenFails, Cut, StepBegins, Crash, Dies, Expire,
                Shutdown, auth
  <2>. QED
    BY <1>1, <2>1
<1>4. CASE ProcessStep
  <2>1. table' \subseteq table /\ UNCHANGED granted
    BY <1>4 DEF ProcessStep, Exit, Dies, Restart, auth
  <2>. QED
    BY <1>1, <2>1
<1>5. ASSUME NEW s \in Sockets, SocketStep(s) PROVE TokenInv'
  <2>1. CASE TokenArrives(s)
    BY <2>1, IssueKeeps DEF TokenArrives
  <2>2. CASE Authorize(s)
    <3>. DEFINE t == Head(toServer[s])
    <3>1. /\ t \in table /\ table' = table \ {t}
          /\ granted' = [granted EXCEPT ![t] = Again(@)]
      BY <2>2 DEF Authorize
    <3>. HIDE DEF t
    <3>2. t \in Tokens /\ granted[t] = 0
      BY <3>1 DEF TokenInv
    <3>3. granted' = [granted EXCEPT ![t] = 1]
      BY <3>1, <3>2 DEF Again
    <3>. QED
      BY <3>1, <3>2, <3>3 DEF TokenInv
  <2>3. CASE \/ Opens(s) \/ HandleAuth(s) \/ SeesClose(s) \/ OnClose(s) \/ Accept(s) \/ Refused(s)
             \/ Unauthorized(s) \/ Ignore(s) \/ HangUp(s) \/ StepEnds(s)
    <3>1. UNCHANGED <<table, granted>>
      BY <2>3 DEF Opens, HandleAuth, SeesClose, OnClose, Accept, Refused, Unauthorized, Ignore,
                  HangUp, StepEnds, auth
    <3>. QED
      BY <1>1, <3>1
  <2>. QED
    BY <1>5, <2>1, <2>2, <2>3 DEF SocketStep
<1>6. ASSUME NEW m \in Managers, ManagerStep(m) PROVE TokenInv'
  <2>1. UNCHANGED <<table, granted>>
    BY <1>6 DEF ManagerStep, SyncEnds, Reconnect, auth
  <2>. QED
    BY <1>1, <2>1
<1>7. CASE UNCHANGED vars
  BY <1>1, <1>7 DEF vars, auth
<1>. QED
  BY <1>2, <1>3, <1>4, <1>5, <1>6, <1>7 DEF Next

\* A token admits one client, however often it is presented and whenever its
\* timer runs.
THEOREM TokenAdmitsOnceHolds == Spec => []TokenAdmitsOnce
<1>1. Init => TokenInv
  BY DEF Init, InitWith, TokenInv
<1>2. TokenInv => TokenAdmitsOnce
  BY DEF TokenInv, TokenAdmitsOnce
<1>. QED
  BY <1>1, <1>2, TokenNext, PTL DEF Spec
=============================================================================
