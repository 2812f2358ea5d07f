----------------------- MODULE ConnectionsServerProofs -----------------------
(***************************************************************************)
(* Theorems about Connections that rest on the server's side: its client   *)
(* objects and their tokens, the loop of shutdown() and what it counts, and *)
(* the way out of DISCONNECTED, which needs both sides.                     *)
(***************************************************************************)
EXTENDS ConnectionsProofs, ListProofs, FiniteSetTheorems

-----------------------------------------------------------------------------
(* The loop of shutdown().  What the i-th turn leaves: the clients that it    *)
(* has come by are waited for, or have an idle one before them; the others    *)
(* are still in their order.                                                  *)

IdleBefore(list, k) == \E i \in 1..(k - 1) : list[i] \notin busy
Behind(list) == {list[k] : k \in {j \in DOMAIN list : IdleBefore(list, j)}}

WalkRecords == [list : Seq(Sockets), n : Nat, awaits : SUBSET Sockets, done : SUBSET Sockets]

Passed(w, i) ==
  /\ w \in WalkRecords
  /\ IsFiniteSet(w.awaits) /\ w.n + Cardinality(w.awaits) <= i
  /\ w.awaits \subseteq busy /\ w.done \cap busy = {}
  /\ Len(w.list) <= Len(clients)
  /\ \A k \in 1..Len(w.list) :
       IF k <= i THEN w.list[k] \in w.awaits \cup Behind(clients)
       ELSE w.list[k] = clients[k + (Len(clients) - Len(w.list))]
  /\ \A c \in DOMAIN clients : clients[c] \in w.done \/ \E k \in DOMAIN w.list : w.list[k] = clients[c]

Start == [list |-> clients, n |-> 0, awaits |-> {}, done |-> {}]

\* The recursive function that Walk is made of exists, up to every index.
Turns(f, n) == f = [i \in 0..n |-> IF i = 0 THEN Start ELSE Turn(f[i - 1], i)]

LEMMA TurnsExist ==
  ASSUME NEW n \in Nat
  PROVE  \E f : Turns(f, n)
<1>. DEFINE held == {k \in 0..n : \E f : Turns(f, k)}
<1>1. 0 \in held
  <2>1. Turns([i \in 0..0 |-> Start], 0)
    BY DEF Turns
  <2>. QED BY <2>1
<1>2. ASSUME NEW k \in 1..n, k - 1 \in held PROVE k \in held
  <2>1. PICK f : Turns(f, k - 1)
    BY <1>2
  <2>. DEFINE g == [i \in 0..k |-> IF i = k THEN Turn(f[k - 1], k) ELSE f[i]]
  <2>2. /\ k \in Int /\ k >= 1 /\ k # 0
        /\ \A i \in 0..k : i # k => i \in 0..(k - 1)
        /\ \A i \in 0..k : i # 0 => i - 1 \in 0..k /\ i - 1 # k /\ i - 1 \in 0..(k - 1)
    OBVIOUS
  <2>3. \A i \in 0..(k - 1) : f[i] = IF i = 0 THEN Start ELSE Turn(f[i - 1], i)
    BY <2>1 DEF Turns
  <2>4. ASSUME NEW i \in 0..k PROVE g[i] = IF i = 0 THEN Start ELSE Turn(g[i - 1], i)
    <3>1. CASE i = k
      <4>1. g[i] = Turn(f[k - 1], k) /\ g[i - 1] = f[k - 1]
        BY <2>2, <3>1
      <4>. QED BY <2>2, <3>1, <4>1
    <3>2. CASE i # k
      <4>1. g[i] = f[i] /\ (i # 0 => g[i - 1] = f[i - 1])
        BY <2>2, <3>2
      <4>. QED BY <2>2, <2>3, <3>2, <4>1
    <3>. QED BY <3>1, <3>2
  <2>5. DOMAIN g = 0..k /\ g = [i \in 0..k |-> g[i]]
    OBVIOUS
  <2>. HIDE DEF g
  <2>6. Turns(g, k)
    BY <2>4, <2>5 DEF Turns
  <2>. QED BY <2>6
<1>. HIDE DEF held
<1>3. \A i \in 0..n : i \in held
  BY <1>1, <1>2, UpTo
<1>. QED BY <1>3 DEF held

LEMMA WalkIsTurns ==
  ASSUME clients \in Seq(Sockets)
  PROVE  \E f : Turns(f, Len(clients)) /\ Walk = f[Len(clients)]
<1>. DEFINE step == CHOOSE f : f = [i \in 0..Len(clients) |-> IF i = 0 THEN Start ELSE Turn(f[i - 1], i)]
<1>1. Walk = step[Len(clients)]
  BY DEF Walk, Start
<1>2. \E f : f = [i \in 0..Len(clients) |-> IF i = 0 THEN Start ELSE Turn(f[i - 1], i)]
  <2>1. Len(clients) \in Nat
    OBVIOUS
  <2>. QED BY <2>1, TurnsExist DEF Turns
<1>3. step = [i \in 0..Len(clients) |-> IF i = 0 THEN Start ELSE Turn(step[i - 1], i)]
  BY <1>2, Zenon
<1>. HIDE DEF step
<1>4. Turns(step, Len(clients))
  BY <1>3 DEF Turns
<1>. QED BY <1>1, <1>4

LEMMA TurnPasses ==
  ASSUME clients \in Seq(Sockets), NEW i \in 1..Len(clients), NEW w, Passed(w, i - 1)
  PROVE  Passed(Turn(w, i), i)
<1>. DEFINE list == w.list
            d == Len(clients) - Len(list)
<1>1. /\ w \in WalkRecords /\ list \in Seq(Sockets) /\ w.n \in Nat
      /\ w.awaits \subseteq Sockets /\ w.done \subseteq Sockets
      /\ Len(list) \in Nat /\ Len(clients) \in Nat /\ Len(list) <= Len(clients)
      /\ DOMAIN list = 1..Len(list) /\ DOMAIN clients = 1..Len(clients)
      /\ i \in Nat /\ i >= 1 /\ i - 1 \in Nat
  BY DEF Passed, WalkRecords
<1>2. /\ IsFiniteSet(w.awaits) /\ w.n + Cardinality(w.awaits) <= i - 1
      /\ w.awaits \subseteq busy /\ w.done \cap busy = {}
      /\ Cardinality(w.awaits) \in Nat
  BY FS_CardinalityType DEF Passed
<1>3. /\ d \in Nat
      /\ \A k \in 1..Len(list) : k < i => list[k] \in w.awaits \cup Behind(clients)
      /\ \A k \in 1..Len(list) : k >= i => list[k] = clients[k + d]
  <2>1. \A k \in 1..Len(list) : IF k <= i - 1 THEN list[k] \in w.awaits \cup Behind(clients)
                                ELSE list[k] = clients[k + d]
    BY DEF Passed
  <2>2. d \in Nat
    BY <1>1
  <2>. HIDE DEF list, d
  <2>3. \A k \in 1..Len(list) : (k < i <=> k <= i - 1) /\ (k >= i <=> ~(k <= i - 1))
    BY <1>1
  <2>. QED BY <2>1, <2>2, <2>3
<1>4. \A c \in DOMAIN clients : clients[c] \in w.done \/ \E k \in DOMAIN list : list[k] = clients[c]
  BY DEF Passed
<1>8. d = Len(clients) - Len(list)
  OBVIOUS
<1>9. list = w.list
  OBVIOUS
<1>. HIDE DEF d, list
<1>5. CASE i > Len(list)
  <2>1. Turn(w, i) = [w EXCEPT !.n = @ + 1]
    BY <1>5, <1>9 DEF Turn
  <2>. DEFINE v == Turn(w, i)
  <2>2. /\ v \in WalkRecords /\ v.list = list /\ v.awaits = w.awaits /\ v.done = w.done
        /\ v.n = w.n + 1
    BY <1>1, <1>9, <2>1, SMTT(30) DEF WalkRecords
  <2>3. \A k \in 1..Len(list) : k <= i /\ k < i
    BY <1>1, <1>5
  <2>. HIDE DEF v
  <2>4. v.n + Cardinality(v.awaits) <= i
    BY <1>1, <1>2, <2>2
  <2>. QED BY <1>1, <1>2, <1>3, <1>4, <2>2, <2>3, <2>4 DEF Passed, v
<1>6. CASE i <= Len(list) /\ list[i] \in busy
  <2>1. Turn(w, i) = [w EXCEPT !.awaits = @ \cup {list[i]}]
    BY <1>1, <1>6, <1>9 DEF Turn
  <2>. DEFINE v == Turn(w, i)
  <2>2. list[i] \in Sockets
    BY <1>1, <1>6
  <2>3. /\ v \in WalkRecords /\ v.list = list /\ v.awaits = w.awaits \cup {list[i]}
        /\ v.done = w.done /\ v.n = w.n
    BY <1>1, <1>9, <2>1, <2>2 DEF WalkRecords
  <2>. HIDE DEF v
  <2>4. /\ IsFiniteSet(v.awaits) /\ Cardinality(v.awaits) <= Cardinality(w.awaits) + 1
        /\ Cardinality(v.awaits) \in Nat
    <3>1. /\ IsFiniteSet(w.awaits \cup {list[i]})
          /\ \/ Cardinality(w.awaits \cup {list[i]}) = Cardinality(w.awaits)
             \/ Cardinality(w.awaits \cup {list[i]}) = Cardinality(w.awaits) + 1
      BY <1>2, FS_AddElement
    <3>. QED BY <1>2, <2>3, <3>1
  <2>5. v.n + Cardinality(v.awaits) <= i
    BY <1>1, <1>2, <2>3, <2>4
  <2>6. \A k \in 1..Len(list) : IF k <= i THEN list[k] \in v.awaits \cup Behind(clients)
                                ELSE list[k] = clients[k + d]
    BY <1>1, <1>3, <2>3
  <2>7. v.awaits \subseteq busy /\ v.done \cap busy = {}
    BY <1>2, <1>6, <2>3
  <2>8. \A c \in DOMAIN clients :
          clients[c] \in v.done \/ \E k \in DOMAIN v.list : v.list[k] = clients[c]
    BY <1>4, <2>3
  <2>9. \A k \in 1..Len(v.list) : IF k <= i THEN v.list[k] \in v.awaits \cup Behind(clients)
                                  ELSE v.list[k] = clients[k + (Len(clients) - Len(v.list))]
    BY <1>8, <2>3, <2>6
  <2>10. Passed(v, i)
    BY <1>1, <2>3, <2>4, <2>5, <2>7, <2>8, <2>9 DEF Passed
  <2>. QED BY <2>10 DEF v
<1>7. CASE i <= Len(list) /\ list[i] \notin busy
  <2>. DEFINE v == Turn(w, i)
              rest == RemoveAt(list, i)
  <2>1. v = [w EXCEPT !.list = rest, !.n = @ + 1, !.done = @ \cup {list[i]}]
    BY <1>1, <1>7, <1>9 DEF Turn
  <2>2. list[i] \in Sockets /\ i \in 1..Len(list)
    BY <1>1, <1>7
  <2>3. /\ rest \in Seq(Sockets) /\ Len(rest) = Len(list) - 1 /\ DOMAIN rest = 1..(Len(list) - 1)
        /\ \A k \in 1..(Len(list) - 1) : rest[k] = IF k < i THEN list[k] ELSE list[k + 1]
    BY <1>1, <2>2, RemoveAtFacts
  <2>. HIDE DEF rest
  <2>4. /\ v \in WalkRecords /\ v.list = rest /\ v.awaits = w.awaits
        /\ v.done = w.done \cup {list[i]} /\ v.n = w.n + 1
    <3>1. w.done \cup {list[i]} \in SUBSET Sockets /\ w.n + 1 \in Nat
      BY <1>1, <2>2
    <3>. QED BY <1>1, <2>1, <2>3, <3>1 DEF WalkRecords
  <2>. HIDE DEF v
  <2>5. v.n + Cardinality(v.awaits) <= i
    BY <1>1, <1>2, <2>4
  <2>6. clients[i + d] \notin busy /\ i + d \in 1..Len(clients)
    <3>1. list[i] = clients[i + d]
      BY <1>1, <1>3, <2>2
    <3>. QED BY <1>1, <1>3, <1>7, <1>8, <3>1
  <2>7. \A k \in 1..(Len(list) - 1) : IF k <= i THEN rest[k] \in v.awaits \cup Behind(clients)
                                      ELSE rest[k] = clients[k + (d + 1)]
    <3>. SUFFICES ASSUME NEW k \in 1..(Len(list) - 1)
                  PROVE  IF k <= i THEN rest[k] \in v.awaits \cup Behind(clients)
                         ELSE rest[k] = clients[k + (d + 1)]
      OBVIOUS
    <3>1. k \in 1..Len(list) /\ k + 1 \in 1..Len(list) /\ (k + 1) + d = k + (d + 1)
      BY <1>1, <1>3
    <3>5. rest[k] = IF k < i THEN list[k] ELSE list[k + 1]
      BY <2>3
    <3>2. CASE k < i
      <4>1. rest[k] = list[k] /\ list[k] \in w.awaits \cup Behind(clients)
        BY <1>3, <3>1, <3>2, <3>5
      <4>. QED BY <1>1, <2>4, <3>2, <4>1
    <3>3. CASE k = i
      <4>1. rest[k] = clients[i + 1 + d] /\ i + 1 + d \in 1..Len(clients)
        <5>1. k + 1 >= i /\ i + 1 + d = (k + 1) + d
          BY <1>1, <1>3, <3>3
        <5>2. rest[k] = list[k + 1] /\ list[k + 1] = clients[(k + 1) + d]
          BY <1>1, <1>3, <3>1, <3>3, <3>5, <5>1
        <5>3. i + 1 + d \in 1..Len(clients)
          BY <1>1, <1>3, <1>8, <3>1, <3>3
        <5>. QED BY <5>1, <5>2, <5>3
      <4>2. IdleBefore(clients, i + 1 + d)
        BY <1>1, <1>3, <2>6 DEF IdleBefore
      <4>3. clients[i + 1 + d] \in Behind(clients)
        BY <1>1, <4>1, <4>2 DEF Behind
      <4>4. k <= i
        BY <1>1, <3>3
      <4>. QED BY <4>1, <4>3, <4>4
    <3>4. CASE k > i
      <4>1. ~(k < i) /\ ~(k <= i) /\ k + 1 >= i
        BY <1>1, <3>4
      <4>2. rest[k] = list[k + 1] /\ list[k + 1] = clients[(k + 1) + d]
        BY <1>3, <3>1, <3>5, <4>1
      <4>. QED BY <3>1, <4>1, <4>2
    <3>6. k < i \/ k = i \/ k > i
      BY <1>1
    <3>. QED BY <3>2, <3>3, <3>4, <3>6
  <2>8. \A c \in DOMAIN clients :
          clients[c] \in v.done \/ \E k \in DOMAIN rest : rest[k] = clients[c]
    <3>. SUFFICES ASSUME NEW c \in DOMAIN clients, NEW k \in DOMAIN list, list[k] = clients[c], k # i
                  PROVE  \E j \in DOMAIN rest : rest[j] = clients[c]
      BY <1>4, <2>4
    <3>1. CASE k < i
      <4>1. k \in DOMAIN rest /\ rest[k] = list[k]
        <5>1. k \in 1..(Len(list) - 1)
          BY <1>1, <1>7, <3>1
        <5>. QED BY <2>3, <3>1, <5>1
      <4>. QED BY <4>1
    <3>2. CASE k > i
      <4>1. k - 1 \in DOMAIN rest /\ rest[k - 1] = list[(k - 1) + 1] /\ (k - 1) + 1 = k
        <5>1. k - 1 \in 1..(Len(list) - 1) /\ ~(k - 1 < i) /\ (k - 1) + 1 = k
          BY <1>1, <1>7, <3>2
        <5>. QED BY <2>3, <5>1
      <4>. QED BY <4>1
    <3>. QED BY <1>1, <3>1, <3>2
  <2>9. Len(clients) - Len(rest) = d + 1 /\ Len(rest) <= Len(clients)
    BY <1>1, <1>8, <2>3
  <2>10. v.done \cap busy = {}
    BY <1>2, <1>7, <2>4
  <2>11. Passed(v, i)
    BY <1>2, <2>3, <2>4, <2>5, <2>7, <2>8, <2>9, <2>10 DEF Passed
  <2>. QED BY <2>11 DEF v
<1>. QED BY <1>1, <1>5, <1>6, <1>7

LEMMA WalkPasses ==
  ASSUME clients \in Seq(Sockets)
  PROVE  Passed(Walk, Len(clients))
<1>. DEFINE n == Len(clients)
<1>1. n \in Nat /\ DOMAIN clients = 1..n
  OBVIOUS
<1>2. PICK f : Turns(f, n) /\ Walk = f[n]
  BY WalkIsTurns
<1>3. f[0] = Start /\ \A i \in 1..n : f[i] = Turn(f[i - 1], i)
  BY <1>1, <1>2 DEF Turns
<1>. DEFINE held == {i \in 0..n : Passed(f[i], i)}
<1>4. Passed(Start, 0)
  BY <1>1, FS_EmptySet DEF Start, Passed, WalkRecords
<1>5. 0 \in held
  BY <1>3, <1>4
<1>6. ASSUME NEW i \in 1..n, i - 1 \in held PROVE i \in held
  <2>1. Passed(f[i - 1], i - 1)
    BY <1>6
  <2>2. Passed(Turn(f[i - 1], i), i)
    BY <2>1, TurnPasses
  <2>. QED BY <1>3, <2>2
<1>. HIDE DEF n, held
<1>7. \A i \in 0..n : i \in held
  BY <1>1, <1>5, <1>6, UpTo
<1>. QED BY <1>1, <1>2, <1>7 DEF held, n
-----------------------------------------------------------------------------
(* The invariant of the server                                             *)

ClientRecords == [state : {"CREATED", "CONNECTING", "LISTENING", "CLOSING"}, id : Tokens \cup {None}]

ServerType ==
  /\ cl \in [Sockets -> ClientRecords]
  /\ clients \in Seq(Sockets)
  /\ table \subseteq Tokens /\ info \subseteq Tokens
  /\ shown \in [Tokens -> 0..2] /\ granted \in [Tokens -> 0..2]
  /\ busy \subseteq Sockets /\ awaited \subseteq Sockets
  /\ phase \in {"up", "closing", "closed", "gone"}
  /\ counted \in Nat /\ connected \in Nat

\* A client object is made when its socket is accepted, and a socket is not used
\* again before its client object has gone.
Served ==
  \A s \in Sockets :
    /\ ws[s].net = "opening" => cl[s] = NoClient
    /\ ws[s].net = "accepted" => cl[s].state = "CONNECTING"
    /\ ws[s].net = "open" => cl[s].state # "CREATED"

\* A client is named by the token that admitted it, and no other is.
Named ==
  /\ \A s \in Sockets : cl[s].state \in {"CREATED", "CONNECTING"} <=> cl[s].id = None
  /\ \A s \in Sockets : cl[s].id # None => granted[cl[s].id] # 0 /\ shown[cl[s].id] # 0
  /\ \A s, r \in Sockets : cl[s].id # None /\ cl[s].id = cl[r].id => s = r
  /\ \A s \in busy : cl[s].id # None

\* A token that can still be used has its info, and so has a client in session
\* whose token was presented once.
InfoKept ==
  /\ table \subseteq info
  /\ \A s \in Sockets : cl[s].state = "LISTENING" => cl[s].id \in info \/ shown[cl[s].id] = 2

\* The server that is up has each of its clients on its list, and the process
\* that is gone has none.
Listed ==
  /\ phase = "up" => \A s \in Sockets :
       cl[s].state # "CREATED" => \E i \in DOMAIN clients : clients[i] = s
  /\ phase = "gone" => \A s \in Sockets : cl[s].state = "CREATED"

\* While shutdown() waits, those that it has counted and those that it waits for
\* are no more than there were; the last one calls back.
Counting ==
  /\ IsFiniteSet(awaited)
  /\ phase = "up" => awaited = {} /\ calls = 0
  /\ phase = "closing" => counted + Cardinality(awaited) <= connected /\ counted < connected /\ calls = 0
  /\ phase = "closed" => awaited = {} /\ calls = 1
  /\ phase = "gone" => awaited = {} /\ (calls = 1 \/ (calls = 0 /\ crashed))

\* The clients that shutdown() has left are waited for, or were behind an idle
\* one; a crash waits for nobody.
PassedOver ==
  /\ phase \in {"closing", "closed"} => \A s \in Sockets :
       cl[s].state # "CREATED" => s \in awaited \cup behind
  /\ phase # "gone" => cut = {}
  /\ cut \subseteq behind \/ crashed

ServerInv == ServerType /\ Served /\ Named /\ InfoKept /\ Listed /\ Counting /\ PassedOver

\* What the network may do to the sockets without the server.
Connecting ==
  \A s \in Sockets :
    /\ ws'[s].net = "opening" => ws[s].net = "opening" \/ cl[s] = NoClient
    /\ ws'[s].net = "accepted" => ws[s].net = "accepted"
    /\ ws'[s].net = "open" => ws[s].net \in {"accepted", "open"}

-----------------------------------------------------------------------------
(* Its steps *)

LEMMA ServerInit == Init => ServerInv
<1>. SUFFICES ASSUME NEW bounds \in [Budgets -> Nat], InitWith(bounds)
              PROVE  ServerInv
  BY DEF Init
<1>1. \A s \in Sockets : cl[s] = NoClient /\ ws[s].net = "none"
  BY DEF InitWith, NoSocket
<1>2. NoClient \in ClientRecords /\ NoClient.state = "CREATED" /\ NoClient.id = None
  BY DEF NoClient, ClientRecords
<1>3. ServerType
  BY <1>2 DEF InitWith, ServerType
<1>4. Served /\ Named /\ InfoKept /\ Listed
  BY <1>1, <1>2 DEF Served, Named, InfoKept, Listed, InitWith
<1>5. Counting /\ PassedOver
  BY FS_EmptySet DEF Counting, PassedOver, InitWith
<1>. QED BY <1>3, <1>4, <1>5 DEF ServerInv

\* A step of the browser or of the network.
LEMMA QuietKeeps ==
  ASSUME ServerInv, Connecting, UNCHANGED <<auth, closing, server>>
  PROVE  ServerInv'
<1>1. /\ UNCHANGED <<table, info, shown, granted>>
      /\ UNCHANGED <<phase, counted, connected, awaited, calls, behind, cut, crashed>>
      /\ UNCHANGED <<cl, clients, busy>>
  BY DEF auth, closing, server
<1>2. Served'
  BY <1>1, Zenon DEF ServerInv, Served, Connecting
<1>3. ServerType' /\ Named' /\ InfoKept' /\ Listed'
  BY <1>1 DEF ServerInv, ServerType, Named, InfoKept, Listed
<1>4. Counting' /\ PassedOver'
  BY <1>1 DEF ServerInv, Counting, PassedOver
<1>. QED BY <1>2, <1>3, <1>4 DEF ServerInv

\* A step that issues a token: a fresh one, which names nobody.
LEMMA IssuingKeeps ==
  ASSUME ServerInv, NEW t \in Tokens, Issue(t), Connecting, UNCHANGED <<closing, server>>
  PROVE  ServerInv'
<1>1. /\ UNCHANGED <<phase, counted, connected, awaited, calls, behind, cut, crashed>>
      /\ UNCHANGED <<cl, clients, busy>>
  BY DEF closing, server
<1>2. /\ table' = table \cup {t} /\ info' = info \cup {t}
      /\ shown' = [shown EXCEPT ![t] = 0] /\ granted' = [granted EXCEPT ![t] = 0]
      /\ \A s \in Sockets : t # cl[s].id
  BY DEF Issue, FreshToken
<1>3. ServerType'
  BY <1>1, <1>2 DEF ServerInv, ServerType
<1>4. Served'
  BY <1>1, Zenon DEF ServerInv, Served, Connecting
<1>5. \A s \in Sockets : cl[s].id # None =>
        /\ cl[s].id \in Tokens /\ cl[s].id # t
        /\ shown'[cl[s].id] = shown[cl[s].id] /\ granted'[cl[s].id] = granted[cl[s].id]
  <2>1. \A s \in Sockets : cl[s].id \in Tokens \cup {None}
    BY DEF ServerInv, ServerType, ClientRecords
  <2>. QED BY <1>2, <2>1 DEF ServerInv, ServerType
<1>6. Named'
  BY <1>1, <1>5 DEF ServerInv, Named
<1>7. InfoKept'
  <2>1. \A s \in Sockets : cl[s].state = "LISTENING" => cl[s].id # None
    BY DEF ServerInv, Named
  <2>. QED BY <1>1, <1>2, <1>5, <2>1 DEF ServerInv, InfoKept
<1>8. Listed' /\ Counting' /\ PassedOver'
  BY <1>1 DEF ServerInv, Listed, Counting, PassedOver
<1>. QED BY <1>3, <1>4, <1>6, <1>7, <1>8 DEF ServerInv

LEMMA AcceptKeeps ==
  ASSUME Inv, ServerInv, NEW s \in Sockets, Accept(s)
  PROVE  ServerInv'
<1>1. /\ ws[s].net = "opening" /\ phase = "up"
      /\ ws' = [ws EXCEPT ![s].net = "accepted"]
      /\ cl' = [cl EXCEPT ![s].state = "CONNECTING"]
      /\ clients' = Append(clients, s)
      /\ UNCHANGED <<table, info, shown, granted, busy>>
      /\ UNCHANGED <<phase, counted, connected, awaited, calls, behind, cut, crashed>>
  BY DEF Accept, auth, closing
<1>2. cl[s] = NoClient /\ cl[s].id = None
  BY <1>1 DEF ServerInv, Served, NoClient
<1>3. /\ cl' \in [Sockets -> ClientRecords]
      /\ cl'[s].state = "CONNECTING" /\ cl'[s].id = None
      /\ \A r \in Sockets : r # s => cl'[r] = cl[r]
      /\ \A r \in Sockets : cl'[r].id = cl[r].id
  BY <1>1, <1>2 DEF ServerInv, ServerType, ClientRecords
<1>4. /\ clients' \in Seq(Sockets)
      /\ \A i \in DOMAIN clients : i \in DOMAIN clients' /\ clients'[i] = clients[i]
      /\ \E i \in DOMAIN clients' : clients'[i] = s
  BY <1>1, AppendFacts DEF ServerInv, ServerType
<1>5. ServerType'
  BY <1>1, <1>3, <1>4 DEF ServerInv, ServerType
<1>6. Served'
  <2>1. \A r \in Sockets : ws'[r].net = IF r = s THEN "accepted" ELSE ws[r].net
    BY <1>1 DEF Inv, BrowserType, Records
  <2>. QED BY <1>3, <2>1 DEF ServerInv, Served
<1>7. Named'
  BY <1>1, <1>2, <1>3 DEF ServerInv, Named
<1>8. InfoKept'
  BY <1>1, <1>3 DEF ServerInv, InfoKept
<1>9. Listed'
  BY <1>1, <1>3, <1>4 DEF ServerInv, Listed
<1>10. Counting' /\ PassedOver'
  BY <1>1 DEF ServerInv, Counting, PassedOver
<1>. QED BY <1>5, <1>6, <1>7, <1>8, <1>9, <1>10 DEF ServerInv

LEMMA AuthorizeKeeps ==
  ASSUME Inv, TokenInv, ServerInv, NEW s \in Sockets, Authorize(s)
  PROVE  ServerInv'
<1>. DEFINE t == Head(toServer[s])
<1>1. /\ cl[s].state = "CONNECTING"
      /\ t \in table /\ table' = table \ {t}
      /\ shown' = [shown EXCEPT ![t] = Again(@)] /\ granted' = [granted EXCEPT ![t] = Again(@)]
      /\ cl' = [cl EXCEPT ![s] = [state |-> "LISTENING", id |-> t]]
      /\ UNCHANGED <<ws, info, clients, busy>>
      /\ UNCHANGED <<phase, counted, connected, awaited, calls, behind, cut, crashed>>
  BY DEF Authorize, closing
<1>. HIDE DEF t
<1>2. /\ t \in Tokens /\ t \in info /\ t # None /\ granted[t] = 0
      /\ \A r \in Sockets : cl[r].id # t
  BY <1>1, NoneAssumption DEF TokenInv, ServerInv, ServerType, InfoKept, Named
<1>3. /\ cl' \in [Sockets -> ClientRecords]
      /\ cl'[s].state = "LISTENING" /\ cl'[s].id = t
      /\ \A r \in Sockets : r # s => cl'[r] = cl[r]
  BY <1>1, <1>2 DEF ServerInv, ServerType, ClientRecords
<1>4. /\ shown' \in [Tokens -> 0..2] /\ granted' \in [Tokens -> 0..2]
      /\ shown'[t] # 0 /\ granted'[t] # 0
      /\ \A u \in Tokens : u # t => shown'[u] = shown[u] /\ granted'[u] = granted[u]
  BY <1>1, <1>2 DEF ServerInv, ServerType, Again
<1>5. ServerType'
  BY <1>1, <1>3, <1>4 DEF ServerInv, ServerType
<1>6. Served'
  <2>1. ws[s].net # "accepted"
    <3>1. toServer[s] # <<>>
      BY DEF Authorize
    <3>. QED BY <3>1 DEF Inv, Attached, Carries, HasBeenOpen
  <2>2. ws[s].net # "opening"
    BY <1>1 DEF ServerInv, Served, NoClient
  <2>. QED BY <1>1, <1>3, <2>1, <2>2 DEF ServerInv, Served
<1>7. \A r \in Sockets : r # s /\ cl[r].id # None => cl[r].id \in Tokens /\ cl[r].id # t
  BY <1>2 DEF ServerInv, ServerType, ClientRecords
<1>8. Named'
  BY <1>1, <1>2, <1>3, <1>4, <1>7 DEF ServerInv, Named
<1>9. InfoKept'
  BY <1>1, <1>2, <1>3, <1>4, <1>7 DEF ServerInv, InfoKept, Named
<1>10. Listed' /\ Counting' /\ PassedOver'
  BY <1>1, <1>3 DEF ServerInv, Listed, Counting, PassedOver
<1>. QED BY <1>5, <1>6, <1>8, <1>9, <1>10 DEF ServerInv
-----------------------------------------------------------------------------
(* The ends of a session: the clients in `done` go, those in `awaits` are     *)
(* waited for.                                                                *)

Leaving(done, awaits) ==
  /\ done \subseteq Sockets /\ awaits \subseteq busy
  /\ busy' \subseteq busy /\ done \cap busy' = {}
  /\ cl' = [s \in Sockets |-> IF s \in done THEN NoClient
                              ELSE IF s \in awaits THEN [cl[s] EXCEPT !.state = "CLOSING"]
                              ELSE cl[s]]
  /\ \A s \in Sockets :
       /\ ws'[s].net \in {"opening", "accepted", "open"} => ws'[s].net = ws[s].net
       /\ s \in done => ws'[s].net \notin {"accepted", "open"}
  /\ table' \subseteq table /\ granted' = granted
  /\ shown' \in [Tokens -> 0..2]
  /\ \A t \in Tokens : (shown[t] # 0 => shown'[t] # 0) /\ (shown[t] = 2 => shown'[t] = 2)
  /\ info' \subseteq info
  /\ \A t \in info : \/ t \in info' \/ (shown[t] # 0 => shown'[t] = 2)
                     \/ t \in {cl[s].id : s \in done}
  /\ \A t \in table' : t \in info \ info' => t \in {cl[s].id : s \in done}

LEMMA LeavingKeeps ==
  ASSUME TokenInv, ServerInv, NEW done, NEW awaits, Leaving(done, awaits)
  PROVE  /\ cl' \in [Sockets -> ClientRecords]
         /\ table' \subseteq Tokens /\ info' \subseteq Tokens
         /\ shown' \in [Tokens -> 0..2] /\ granted' \in [Tokens -> 0..2]
         /\ busy' \subseteq Sockets
         /\ Served' /\ Named' /\ InfoKept'
         /\ \A s \in Sockets : cl'[s].state # "CREATED" => s \notin done /\ cl[s].state # "CREATED"
<1>1. /\ cl \in [Sockets -> ClientRecords] /\ NoClient \in ClientRecords
      /\ NoClient.state = "CREATED" /\ NoClient.id = None
      /\ \A s \in Sockets : [cl[s] EXCEPT !.state = "CLOSING"] \in ClientRecords
      /\ granted \in [Tokens -> 0..2]
      /\ table \subseteq Tokens /\ info \subseteq Tokens /\ busy \subseteq Sockets
  BY DEF ServerInv, ServerType, ClientRecords, NoClient
<1>2. \A s \in busy : cl[s].id # None /\ cl[s].state \in {"LISTENING", "CLOSING"}
  BY <1>1 DEF ServerInv, Named, ClientRecords
<1>3. \A s \in Sockets :
        /\ cl'[s] \in ClientRecords
        /\ s \in done => cl'[s] = NoClient
        /\ s \notin done => cl'[s].id = cl[s].id
        /\ s \notin done => \/ cl'[s] = cl[s]
                            \/ s \in busy /\ cl'[s].state = "CLOSING"
  <2>1. cl' = [s \in Sockets |-> IF s \in done THEN NoClient
                              ELSE IF s \in awaits THEN [cl[s] EXCEPT !.state = "CLOSING"]
                              ELSE cl[s]]
        /\ awaits \subseteq busy
    BY DEF Leaving
  <2>2. \A s \in Sockets : /\ [cl[s] EXCEPT !.state = "CLOSING"].id = cl[s].id
                           /\ [cl[s] EXCEPT !.state = "CLOSING"].state = "CLOSING"
    BY <1>1 DEF ClientRecords
  <2>. QED BY <1>1, <2>1, <2>2
<1>4. cl' \in [Sockets -> ClientRecords]
  <2>1. cl' = [s \in Sockets |-> cl'[s]]
    BY DEF Leaving
  <2>. QED BY <1>3, <2>1
<1>5. \A s \in Sockets : cl'[s].state # "CREATED" => s \notin done /\ cl[s].state # "CREATED"
  BY <1>1, <1>2, <1>3
<1>6. Served'
  <2>. SUFFICES ASSUME NEW s \in Sockets
                PROVE  /\ ws'[s].net = "opening" => cl'[s] = NoClient
                       /\ ws'[s].net = "accepted" => cl'[s].state = "CONNECTING"
                       /\ ws'[s].net = "open" => cl'[s].state # "CREATED"
    BY DEF Served
  <2>1. /\ ws'[s].net \in {"opening", "accepted", "open"} => ws'[s].net = ws[s].net
        /\ s \in done => ws'[s].net \notin {"accepted", "open"}
    BY DEF Leaving
  <2>2. /\ ws[s].net = "opening" => cl[s] = NoClient
        /\ ws[s].net = "accepted" => cl[s].state = "CONNECTING"
        /\ ws[s].net = "open" => cl[s].state # "CREATED"
    BY DEF ServerInv, Served
  <2>3. s \in busy => cl[s].state \notin {"CREATED", "CONNECTING"}
    BY <1>2
  <2>4. ws'[s].net = "opening" => cl'[s] = NoClient
    BY <1>1, <1>3, <2>1, <2>2, <2>3
  <2>5. ws'[s].net = "accepted" => cl'[s].state = "CONNECTING"
    BY <1>3, <2>1, <2>2, <2>3
  <2>6. ws'[s].net = "open" => cl'[s].state # "CREATED"
    BY <1>3, <2>1, <2>2
  <2>. QED BY <2>4, <2>5, <2>6
<1>7. Named'
  <2>1. \A s \in Sockets : cl'[s].state \in {"CREATED", "CONNECTING"} <=> cl'[s].id = None
    BY <1>1, <1>2, <1>3 DEF ServerInv, Named
  <2>2. \A s \in Sockets : cl'[s].id # None =>
          granted'[cl'[s].id] # 0 /\ shown'[cl'[s].id] # 0
    <3>1. \A t \in Tokens : shown[t] # 0 => shown'[t] # 0
      BY DEF Leaving
    <3>2. granted' = granted
      BY DEF Leaving
    <3>3. \A s \in Sockets : cl[s].id # None => cl[s].id \in Tokens /\ granted[cl[s].id] # 0
                                                /\ shown[cl[s].id] # 0
      BY <1>1 DEF ServerInv, Named, ClientRecords
    <3>. QED BY <1>1, <1>3, <3>1, <3>2, <3>3
  <2>3. \A s, r \in Sockets : cl'[s].id # None /\ cl'[s].id = cl'[r].id => s = r
    BY <1>1, <1>3 DEF ServerInv, Named
  <2>4. \A s \in busy' : cl'[s].id # None
    <3>1. busy' \subseteq busy /\ done \cap busy' = {}
      BY DEF Leaving
    <3>. QED BY <1>1, <1>2, <1>3, <3>1
  <2>. QED BY <2>1, <2>2, <2>3, <2>4 DEF Named
<1>8. InfoKept'
  <2>1. \A t \in table : \A s \in Sockets : t # cl[s].id
    BY <1>1, NoneAssumption DEF ServerInv, Named, TokenInv
  <2>2. table' \subseteq info'
    <3>1. table' \subseteq table /\ \A t \in table' : t \in info \ info' => t \in {cl[s].id : s \in done}
      BY DEF Leaving
    <3>2. table \subseteq info /\ done \subseteq Sockets
      BY DEF ServerInv, InfoKept, Leaving
    <3>. QED BY <2>1, <3>1, <3>2
  <2>3. ASSUME NEW s \in Sockets, cl'[s].state = "LISTENING"
        PROVE  cl'[s].id \in info' \/ shown'[cl'[s].id] = 2
    <3>1. s \notin done /\ cl'[s] = cl[s] /\ cl[s].state = "LISTENING"
      BY <1>1, <1>3, <2>3
    <3>2. /\ cl[s].id \in info \/ shown[cl[s].id] = 2
          /\ cl[s].id # None /\ cl[s].id \in Tokens /\ shown[cl[s].id] # 0
          /\ \A r \in Sockets : r # s => cl[r].id # cl[s].id
      BY <1>1, <3>1 DEF ServerInv, InfoKept, Named, ClientRecords
    <3>3. CASE shown[cl[s].id] = 2
      BY <3>1, <3>2, <3>3 DEF Leaving
    <3>4. CASE cl[s].id \in info
      <4>1. \/ cl[s].id \in info' \/ shown'[cl[s].id] = 2
            \/ cl[s].id \in {cl[r].id : r \in done}
        BY <3>2, <3>4 DEF Leaving
      <4>2. done \subseteq Sockets
        BY DEF Leaving
      <4>. QED BY <3>1, <3>2, <4>1, <4>2
    <3>. QED BY <3>2, <3>3, <3>4
  <2>. QED BY <2>2, <2>3 DEF InfoKept
<1>9. /\ table' \subseteq Tokens /\ info' \subseteq Tokens /\ busy' \subseteq Sockets
      /\ shown' \in [Tokens -> 0..2] /\ granted' \in [Tokens -> 0..2]
  BY <1>1 DEF Leaving
<1>. QED BY <1>4, <1>5, <1>6, <1>7, <1>8, <1>9

\* maybeFinished(), once for a client that was waited for.
LEMMA CountsOne ==
  ASSUME ServerInv, Count(1)
  PROVE  /\ counted' = counted + 1
         /\ counted + 1 >= connected => calls' = calls + 1 /\ phase' = "closed"
         /\ counted + 1 < connected => calls' = calls /\ phase' = phase
<1>. DEFINE now == {k \in (counted + 1)..(counted + 1) : k >= connected}
<1>1. /\ counted \in Nat /\ connected \in Nat
      /\ counted' = counted + 1 /\ calls' = calls + Cardinality(now)
      /\ phase' = IF calls' > calls THEN "closed" ELSE phase
  BY DEF ServerInv, ServerType, Count
<1>2. calls \in Nat
  BY DEF ServerInv, ServerType, Counting
<1>3. counted + 1 >= connected => now = {counted + 1}
  BY <1>1
<1>4. counted + 1 < connected => now = {}
  BY <1>1
<1>. HIDE DEF now
<1>5. counted + 1 >= connected => Cardinality(now) = 1
  BY <1>3, FS_Singleton
<1>6. counted + 1 < connected => Cardinality(now) = 0
  BY <1>4, FS_EmptySet
<1>. QED BY <1>1, <1>2, <1>5, <1>6

\* A client goes: it leaves the list, and shutdown() may be waiting for it.
LEMMA GoneKeeps ==
  ASSUME TokenInv, ServerInv, NEW s \in Sockets, Leaving({s}, {}),
         clients' = RemoveFirst(clients, s), awaited' = awaited \ {s},
         IF s \in awaited THEN Count(1) ELSE UNCHANGED <<counted, calls, phase>>,
         UNCHANGED <<connected, behind, cut, crashed>>
  PROVE  ServerInv'
<1>1. /\ cl' \in [Sockets -> ClientRecords]
      /\ table' \subseteq Tokens /\ info' \subseteq Tokens
      /\ shown' \in [Tokens -> 0..2] /\ granted' \in [Tokens -> 0..2]
      /\ busy' \subseteq Sockets
      /\ Served' /\ Named' /\ InfoKept'
      /\ \A r \in Sockets : cl'[r].state # "CREATED" => r \notin {s} /\ cl[r].state # "CREATED"
  BY LeavingKeeps
<1>2. /\ clients' \in Seq(Sockets)
      /\ \A i \in DOMAIN clients : clients[i] # s =>
           \E j \in DOMAIN clients' : clients'[j] = clients[i]
  <2>1. clients \in Seq(Sockets)
    BY DEF ServerInv, ServerType
  <2>. QED BY <2>1, RemoveFirstFacts
<1>3. /\ IsFiniteSet(awaited') /\ Cardinality(awaited) \in Nat
      /\ s \in awaited => Cardinality(awaited') = Cardinality(awaited) - 1
      /\ s \notin awaited => awaited' = awaited
      /\ Cardinality(awaited') \in Nat /\ (Cardinality(awaited') = 0 => awaited' = {})
  <2>1. IsFiniteSet(awaited)
    BY DEF ServerInv, Counting
  <2>2. IsFiniteSet(awaited') /\ (s \in awaited => Cardinality(awaited') = Cardinality(awaited) - 1)
    BY <2>1, FS_RemoveElement
  <2>. QED BY <2>1, <2>2, FS_CardinalityType, FS_EmptySet
<1>4. /\ counted \in Nat /\ connected \in Nat
      /\ phase \in {"up", "closing", "closed", "gone"} /\ awaited \subseteq Sockets
  BY DEF ServerInv, ServerType
<1>5. CASE s \notin awaited
  <2>1. UNCHANGED <<counted, calls, phase, connected, behind, cut, crashed, awaited>>
    BY <1>3, <1>5
  <2>2. ServerType'
    BY <1>1, <1>2, <1>4, <2>1 DEF ServerType
  <2>3. Listed'
    BY <1>1, <1>2, <2>1 DEF ServerInv, Listed
  <2>4. Counting'
    BY <2>1 DEF ServerInv, Counting
  <2>5. PassedOver'
    BY <1>1, <2>1 DEF ServerInv, PassedOver
  <2>. QED BY <1>1, <2>2, <2>3, <2>4, <2>5 DEF ServerInv
<1>6. CASE s \in awaited
  <2>1. /\ phase = "closing" /\ calls = 0
        /\ counted + Cardinality(awaited) <= connected
    BY <1>4, <1>6 DEF ServerInv, Counting
  <2>2. /\ counted' = counted + 1
        /\ counted + 1 >= connected => calls' = 1 /\ phase' = "closed"
        /\ counted + 1 < connected => calls' = 0 /\ phase' = "closing"
    BY <1>6, <2>1, CountsOne
  <2>3. phase' \in {"closing", "closed"}
    BY <1>4, <2>2
  <2>4. ServerType'
    BY <1>1, <1>2, <1>4, <2>2, <2>3 DEF ServerType
  <2>5. Listed'
    BY <2>3 DEF Listed
  <2>6. Counting'
    <3>1. CASE counted + 1 >= connected
      <4>1. Cardinality(awaited') = 0
        BY <1>3, <1>4, <1>6, <2>1, <3>1
      <4>. QED BY <1>3, <2>2, <3>1, <4>1 DEF Counting
    <3>2. CASE counted + 1 < connected
      <4>1. counted' + Cardinality(awaited') <= connected' /\ counted' < connected'
        BY <1>3, <1>4, <1>6, <2>1, <2>2, <3>2
      <4>. QED BY <1>3, <2>2, <3>2, <4>1 DEF Counting
    <3>. QED BY <1>4, <3>1, <3>2
  <2>7. PassedOver'
    <3>1. \A r \in Sockets : cl'[r].state # "CREATED" => r \in awaited' \cup behind'
      BY <1>1, <2>1 DEF ServerInv, PassedOver
    <3>. QED BY <2>1, <2>3, <3>1 DEF ServerInv, PassedOver
  <2>. QED BY <1>1, <2>4, <2>5, <2>6, <2>7 DEF ServerInv
<1>. QED BY <1>5, <1>6
\* What Dropped({s}) does to the sockets and to the client objects.
LEMMA DroppedLeaves ==
  ASSUME Inv, ServerInv, TokenInv, NEW s \in Sockets, Dropped({s}),
         busy' \subseteq busy, s \notin busy',
         UNCHANGED <<table, granted>>,
         \/ info' = InfoAfter({s}) /\ shown' = shown
         \/ \E t \in Tokens : /\ t \notin table /\ info' = info \ {t}
                              /\ shown' = [shown EXCEPT ![t] = Again(@)]
  PROVE  Leaving({s}, {})
<1>1. /\ cl' = [r \in Sockets |-> IF r \in {s} THEN NoClient
                                  ELSE IF r \in {} THEN [cl[r] EXCEPT !.state = "CLOSING"]
                                  ELSE cl[r]]
      /\ {s} \subseteq Sockets /\ {} \subseteq busy /\ {s} \cap busy' = {}
  BY DEF Dropped
<1>2. \A r \in Sockets :
        /\ ws'[r].net \in {"opening", "accepted", "open"} => ws'[r].net = ws[r].net
        /\ r \in {s} => ws'[r].net \notin {"accepted", "open"}
  <2>1. \A r \in Sockets : ws[r] \in Records
    BY DEF Inv, BrowserType
  <2>. QED BY <2>1 DEF Dropped, WsAfter, Records
<1>3. /\ info \subseteq Tokens /\ table \subseteq info /\ shown \in [Tokens -> 0..2]
  BY DEF ServerInv, ServerType, InfoKept
<1>4. CASE info' = InfoAfter({s}) /\ shown' = shown
  <2>1. info' = info \ {cl[r].id : r \in {s}}
    BY <1>4 DEF InfoAfter
  <2>. QED BY <1>1, <1>2, <1>3, <1>4, <2>1 DEF Leaving
<1>5. ASSUME NEW t \in Tokens, t \notin table, info' = info \ {t},
             shown' = [shown EXCEPT ![t] = Again(@)]
      PROVE  Leaving({s}, {})
  <2>1. /\ shown' \in [Tokens -> 0..2]
        /\ \A u \in Tokens : (shown[u] # 0 => shown'[u] # 0) /\ (shown[u] = 2 => shown'[u] = 2)
        /\ shown[t] # 0 => shown'[t] = 2
    BY <1>3, <1>5 DEF Again
  <2>2. /\ info' \subseteq info
        /\ \A u \in info : \/ u \in info' \/ (shown[u] # 0 => shown'[u] = 2)
                           \/ u \in {cl[r].id : r \in {s}}
        /\ \A u \in table : u \notin info \ info'
    BY <1>5, <2>1
  <2>. QED BY <1>1, <1>2, <2>1, <2>2 DEF Leaving
<1>. QED BY <1>4, <1>5

\* A client in such a step is waited for: it is CLOSING, and stays on the list.
LEMMA AwaitedKeeps ==
  ASSUME TokenInv, ServerInv, NEW s \in busy, Leaving({}, {s}),
         UNCHANGED <<clients, busy, phase, counted, connected, calls, awaited, behind, cut,
                     crashed>>
  PROVE  ServerInv'
<1>1. /\ cl' \in [Sockets -> ClientRecords]
      /\ table' \subseteq Tokens /\ info' \subseteq Tokens
      /\ shown' \in [Tokens -> 0..2] /\ granted' \in [Tokens -> 0..2]
      /\ Served' /\ Named' /\ InfoKept'
      /\ \A r \in Sockets : cl'[r].state # "CREATED" => cl[r].state # "CREATED"
  BY LeavingKeeps
<1>2. \A r \in Sockets : cl[r].state = "CREATED" => cl'[r].state = "CREATED"
  BY <1>1 DEF ServerInv, ServerType, ClientRecords
<1>3. ServerType' /\ Listed' /\ Counting' /\ PassedOver'
  BY <1>1, <1>2 DEF ServerInv, ServerType, Listed, Counting, PassedOver
<1>. QED BY <1>1, <1>3 DEF ServerInv

LEMMA CloseKeeps ==
  ASSUME Inv, TokenInv, ServerInv, NEW s \in Sockets, Unauthorized(s) \/ HangUp(s)
  PROVE  ServerInv'
<1>1. /\ Close(s) /\ UNCHANGED <<table, granted, busy, connected, behind, cut, crashed>>
      /\ \/ HangUp(s) /\ shown' = shown /\ info' = IF s \in busy THEN info ELSE InfoAfter({s})
         \/ /\ cl[s].state = "CONNECTING"
            /\ \E t \in Tokens : /\ t \notin table /\ info' = info \ {t}
                                 /\ shown' = [shown EXCEPT ![t] = Again(@)]
  <2>1. CASE HangUp(s)
    BY <2>1 DEF HangUp
  <2>2. CASE Unauthorized(s)
    <3>1. toServer[s] # <<>> => Head(toServer[s]) \in Tokens
      <4>1. toServer[s] \in Seq(Tokens)
        BY DEF Inv, BrowserType
      <4>. QED BY <4>1, SeqFacts
    <3>. QED BY <2>2, <3>1 DEF Unauthorized
  <2>. QED BY <2>1, <2>2
<1>2. CASE s \in busy
  <2>1. HangUp(s) /\ shown' = shown /\ info' = info
    BY <1>1, <1>2 DEF ServerInv, Named
  <2>2. /\ cl' = [cl EXCEPT ![s].state = "CLOSING"]
        /\ UNCHANGED <<ws, clients, toServer, phase, counted, calls, awaited>>
    BY <1>1, <1>2 DEF Close
  <2>3. cl' = [r \in Sockets |-> IF r \in {} THEN NoClient
                                 ELSE IF r \in {s} THEN [cl[r] EXCEPT !.state = "CLOSING"]
                                 ELSE cl[r]]
    <3>1. cl \in [Sockets -> ClientRecords]
      BY DEF ServerInv, ServerType
    <3>. QED BY <2>2, <3>1
  <2>4. shown \in [Tokens -> 0..2]
    BY DEF ServerInv, ServerType
  <2>5. Leaving({}, {s})
    BY <1>1, <1>2, <2>1, <2>2, <2>3, <2>4 DEF Leaving
  <2>. QED BY <1>1, <1>2, <2>2, <2>5, AwaitedKeeps
<1>3. CASE s \notin busy
  <2>1. /\ Dropped({s}) /\ clients' = RemoveFirst(clients, s) /\ awaited' = awaited \ {s}
        /\ IF s \in awaited THEN Count(1) ELSE UNCHANGED <<counted, calls, phase>>
    BY <1>1, <1>3 DEF Close
  <2>2. \/ info' = InfoAfter({s}) /\ shown' = shown
        \/ \E t \in Tokens : /\ t \notin table /\ info' = info \ {t}
                             /\ shown' = [shown EXCEPT ![t] = Again(@)]
    BY <1>1, <1>3
  <2>3. Leaving({s}, {})
    BY <1>1, <1>3, <2>1, <2>2, DroppedLeaves
  <2>. QED BY <1>1, <2>1, <2>3, GoneKeeps
<1>. QED BY <1>2, <1>3

LEMMA StepEndsKeeps ==
  ASSUME Inv, TokenInv, ServerInv, NEW s \in Sockets, StepEnds(s)
  PROVE  ServerInv'
<1>1. /\ s \in busy /\ busy' = busy \ {s}
      /\ UNCHANGED <<table, shown, granted, connected, behind, cut, crashed>>
  BY DEF StepEnds
<1>2. CASE cl[s].state = "CLOSING"
  <2>1. /\ Dropped({s}) /\ clients' = RemoveFirst(clients, s) /\ awaited' = awaited \ {s}
        /\ info' = InfoAfter({s})
        /\ IF s \in awaited THEN Count(1) ELSE UNCHANGED <<counted, calls, phase>>
    BY <1>2 DEF StepEnds
  <2>2. Leaving({s}, {})
    BY <1>1, <2>1, DroppedLeaves
  <2>. QED BY <1>1, <2>1, <2>2, GoneKeeps
<1>3. CASE cl[s].state # "CLOSING"
  <2>1. UNCHANGED <<ws, cl, clients, info, awaited, counted, calls, phase>>
    BY <1>3 DEF StepEnds
  <2>2. ServerType' /\ Served' /\ Named' /\ InfoKept'
    BY <1>1, <2>1 DEF ServerInv, ServerType, Served, Named, InfoKept
  <2>3. Listed' /\ Counting' /\ PassedOver'
    BY <1>1, <2>1 DEF ServerInv, Listed, Counting, PassedOver
  <2>. QED BY <2>2, <2>3 DEF ServerInv
<1>. QED BY <1>2, <1>3

LEMMA StepBeginsKeeps ==
  ASSUME ServerInv, NEW s \in Sockets, StepBegins(s)
  PROVE  ServerInv'
<1>1. /\ cl[s].state = "LISTENING" /\ busy' = busy \cup {s}
      /\ UNCHANGED <<ws, table, info, shown, granted>>
      /\ UNCHANGED <<cl, clients, phase, counted, connected, awaited, calls, behind, cut, crashed>>
  BY DEF StepBegins, auth, closing
<1>2. ServerType' /\ Served' /\ Named' /\ InfoKept'
  BY <1>1 DEF ServerInv, ServerType, Served, Named, InfoKept
<1>3. Listed' /\ Counting' /\ PassedOver'
  BY <1>1 DEF ServerInv, Listed, Counting, PassedOver
<1>. QED BY <1>2, <1>3 DEF ServerInv

LEMMA ExpireKeeps ==
  ASSUME ServerInv, NEW t \in Tokens, Expire(t)
  PROVE  ServerInv'
<1>1. /\ table' = table \ {t}
      /\ UNCHANGED <<ws, info, shown, granted>>
      /\ UNCHANGED <<phase, counted, connected, awaited, calls, behind, cut, crashed>>
      /\ UNCHANGED <<cl, clients, busy>>
  BY DEF Expire, closing, server
<1>2. ServerType' /\ Served' /\ Named' /\ InfoKept'
  BY <1>1 DEF ServerInv, ServerType, Served, Named, InfoKept
<1>3. Listed' /\ Counting' /\ PassedOver'
  BY <1>1 DEF ServerInv, Listed, Counting, PassedOver
<1>. QED BY <1>2, <1>3 DEF ServerInv

LEMMA ShutdownKeeps ==
  ASSUME Inv, TokenInv, ServerInv, Shutdown
  PROVE  ServerInv'
<1>. DEFINE done == Walk.done
            awaits == Walk.awaits
            n == Len(clients)
            turns == IF clients = <<>> THEN 1 ELSE Walk.n
<1>1. /\ phase = "up" /\ connected' = n /\ counted' = turns
      /\ calls' = (IF turns >= n THEN 1 ELSE 0)
      /\ phase' = (IF turns >= n THEN "closed" ELSE "closing")
      /\ awaited' = awaits /\ ws' = WsAfter(done) /\ clients' = Walk.list
      /\ cl' = [s \in Sockets |-> IF s \in done THEN NoClient
                                  ELSE IF s \in awaits THEN [cl[s] EXCEPT !.state = "CLOSING"]
                                  ELSE cl[s]]
      /\ info' = InfoAfter(done)
      /\ behind' = {clients[j] : j \in {k \in DOMAIN clients :
                                         \E i \in 1..(k - 1) : clients[i] \notin busy}}
      /\ UNCHANGED <<table, shown, granted, busy, cut, crashed>>
  BY DEF Shutdown
<1>2. clients \in Seq(Sockets) /\ n \in Nat /\ DOMAIN clients = 1..n
  BY DEF ServerInv, ServerType
<1>3. Passed(Walk, n)
  BY <1>2, WalkPasses
<1>4. /\ Walk.list \in Seq(Sockets) /\ Walk.n \in Nat
      /\ awaits \subseteq Sockets /\ done \subseteq Sockets
      /\ IsFiniteSet(awaits) /\ Walk.n + Cardinality(awaits) <= n /\ Cardinality(awaits) \in Nat
      /\ awaits \subseteq busy /\ done \cap busy = {}
      /\ Len(Walk.list) <= n /\ Len(Walk.list) \in Nat /\ DOMAIN Walk.list = 1..Len(Walk.list)
  BY <1>3, FS_CardinalityType DEF Passed, WalkRecords
<1>5. behind' = Behind(clients)
  BY <1>1 DEF Behind, IdleBefore
<1>6. \A k \in DOMAIN Walk.list : Walk.list[k] \in awaits \cup Behind(clients)
  <2>1. \A k \in 1..Len(Walk.list) : k <= n
    BY <1>2, <1>4
  <2>. QED BY <1>3, <1>4, <2>1 DEF Passed
<1>7. \A c \in DOMAIN clients : clients[c] \in done \/ \E k \in DOMAIN Walk.list : Walk.list[k] = clients[c]
  BY <1>3 DEF Passed
<1>. HIDE DEF done, awaits
<1>8. Leaving(done, awaits)
  <2>1. \A r \in Sockets :
          /\ ws'[r].net \in {"opening", "accepted", "open"} => ws'[r].net = ws[r].net
          /\ r \in done => ws'[r].net \notin {"accepted", "open"}
    <3>1. \A r \in Sockets : ws[r] \in Records
      BY DEF Inv, BrowserType
    <3>. QED BY <1>1, <3>1 DEF WsAfter, Records
  <2>2. info' = info \ {cl[s].id : s \in done}
    BY <1>1 DEF InfoAfter
  <2>3. shown \in [Tokens -> 0..2] /\ table \subseteq info
    BY DEF ServerInv, ServerType, InfoKept
  <2>. QED BY <1>1, <1>4, <2>1, <2>2, <2>3 DEF Leaving
<1>9. /\ cl' \in [Sockets -> ClientRecords]
      /\ table' \subseteq Tokens /\ info' \subseteq Tokens
      /\ shown' \in [Tokens -> 0..2] /\ granted' \in [Tokens -> 0..2]
      /\ busy' \subseteq Sockets
      /\ Served' /\ Named' /\ InfoKept'
      /\ \A s \in Sockets : cl'[s].state # "CREATED" => s \notin done /\ cl[s].state # "CREATED"
  BY <1>8, LeavingKeeps
<1>10. /\ turns \in Nat /\ (clients = <<>> => n = 0)
       /\ clients # <<>> => turns = Walk.n
       /\ turns >= n => calls' = 1 /\ phase' = "closed"
       /\ turns < n => calls' = 0 /\ phase' = "closing"
  BY <1>1, <1>2, <1>4
<1>11. turns + Cardinality(awaits) <= n \/ (n = 0 /\ Cardinality(awaits) = 0 /\ turns = 1)
  BY <1>2, <1>4, <1>10
<1>. HIDE DEF turns, n
<1>12. phase' \in {"closing", "closed"}
  BY <1>2, <1>10
<1>13. ServerType'
  BY <1>1, <1>2, <1>4, <1>9, <1>10, <1>12 DEF ServerType
<1>14. Listed'
  BY <1>12 DEF Listed
<1>15. Counting'
  <2>1. CASE turns >= n
    <3>1. Cardinality(awaits) = 0
      BY <1>2, <1>4, <1>10, <1>11, <2>1
    <3>2. awaits = {}
      BY <1>4, <3>1, FS_EmptySet
    <3>. QED BY <1>1, <1>4, <1>10, <2>1, <3>2 DEF Counting
  <2>2. CASE turns < n
    <3>1. turns + Cardinality(awaits) <= n
      BY <1>2, <1>4, <1>10, <1>11, <2>2
    <3>. QED BY <1>1, <1>4, <1>10, <2>2, <3>1 DEF Counting
  <2>. QED BY <1>2, <1>10, <2>1, <2>2
<1>16. PassedOver'
  <2>1. ASSUME NEW s \in Sockets, cl'[s].state # "CREATED" PROVE s \in awaited' \cup behind'
    <3>1. s \notin done /\ \E i \in DOMAIN clients : clients[i] = s
      BY <1>1, <1>9, <2>1 DEF ServerInv, Listed
    <3>. QED BY <1>1, <1>5, <1>6, <1>7, <3>1
  <2>2. cut' = {}
    BY <1>1 DEF ServerInv, PassedOver
  <2>. QED BY <2>1, <2>2 DEF PassedOver
<1>. QED BY <1>9, <1>13, <1>14, <1>15, <1>16 DEF ServerInv

\* The process ends: after shutdown() has called back, or in a crash.
LEMMA DiesKeeps ==
  ASSUME Inv, TokenInv, ServerInv, NEW patched, Dies(patched), phase # "gone",
         (phase = "closed" /\ crashed' = crashed) \/ crashed'
  PROVE  ServerInv'
<1>1. /\ phase' = "gone" /\ cut' \subseteq busy /\ busy' = {}
      /\ Dropped(Sockets) /\ clients' = <<>> /\ table' = {} /\ info' = {} /\ awaited' = {}
      /\ UNCHANGED <<shown, granted, counted, connected, calls, behind>>
  BY DEF Dies
<1>2. \A s \in Sockets : cl'[s] = NoClient
  BY <1>1 DEF Dropped
<1>3. NoClient \in ClientRecords /\ NoClient.state = "CREATED" /\ NoClient.id = None
  BY DEF NoClient, ClientRecords
<1>4. cl' \in [Sockets -> ClientRecords]
  BY <1>1, <1>2, <1>3 DEF Dropped
<1>5. ServerType'
  BY <1>1, <1>4 DEF ServerInv, ServerType
<1>6. Served'
  <2>1. \A s \in Sockets : ws[s] \in Records
    BY DEF Inv, BrowserType
  <2>2. \A s \in Sockets : ws'[s].net \notin {"accepted", "open"}
    BY <1>1, <2>1 DEF Dropped, WsAfter, Records
  <2>. QED BY <1>2, <2>2 DEF Served
<1>7. Named' /\ InfoKept' /\ Listed'
  BY <1>1, <1>2, <1>3 DEF Named, InfoKept, Listed
<1>8. calls = 1 \/ calls = 0
  BY DEF ServerInv, ServerType, Counting
<1>9. phase = "closed" => calls = 1 /\ busy \subseteq behind
  <2>1. \A s \in busy : s \in Sockets /\ cl[s].state # "CREATED"
    BY DEF ServerInv, ServerType, Named
  <2>. QED BY <2>1 DEF ServerInv, Counting, PassedOver
<1>10. Counting'
  BY <1>1, <1>8, <1>9, FS_EmptySet DEF Counting
<1>11. PassedOver'
  BY <1>1, <1>9 DEF PassedOver
<1>. QED BY <1>5, <1>6, <1>7, <1>10, <1>11 DEF ServerInv

LEMMA CrashKeeps ==
  ASSUME Inv, TokenInv, ServerInv, NEW s \in Sockets, Crash(s)
  PROVE  ServerInv'
<1>1. crashed' /\ \E patched : Dies(patched)
  BY DEF Crash
<1>2. phase # "gone"
  <2>1. cl[s].state # "CREATED"
    BY DEF Crash
  <2>. QED BY <2>1 DEF ServerInv, Listed
<1>. QED BY <1>1, <1>2, DiesKeeps

LEMMA ProcessKeeps ==
  ASSUME Inv, TokenInv, ServerInv, Exit \/ Restart
  PROVE  ServerInv'
<1>1. CASE Exit
  BY <1>1, DiesKeeps DEF Exit
<1>2. CASE Restart
  <2>1. /\ phase = "gone" /\ phase' = "up"
        /\ counted' = 0 /\ connected' = 0 /\ calls' = 0 /\ behind' = {} /\ cut' = {}
        /\ UNCHANGED <<ws, table, info, shown, granted>> /\ UNCHANGED <<cl, clients, busy, awaited>>
    BY <1>2 DEF Restart, auth, server
  <2>2. ServerType' /\ Served' /\ Named' /\ InfoKept'
    BY <2>1 DEF ServerInv, ServerType, Served, Named, InfoKept
  <2>3. Listed' /\ Counting' /\ PassedOver'
    BY <2>1 DEF ServerInv, Listed, Counting, PassedOver
  <2>. QED BY <2>2, <2>3 DEF ServerInv
<1>. QED BY <1>1, <1>2

\* The steps of the browser and of the network.
LEMMA OpeningConnects ==
  ASSUME Inv, NEW m \in Managers, NEW s \in Sockets, NEW again \in BOOLEAN,
         Unused(s), ws' = [ws EXCEPT ![s] = Opening(m, again)]
  PROVE  Connecting
<1>1. \A r \in Sockets : ws'[r].net = IF r = s THEN "opening" ELSE ws[r].net
  BY DEF Inv, BrowserType, Opening
<1>2. cl[s] = NoClient
  BY DEF Unused
<1>. QED BY <1>1, <1>2 DEF Connecting

LEMMA SocketConnects ==
  ASSUME Inv, NEW s \in Sockets,
         \/ Opens(s) \/ HandleAuth(s) \/ SeesClose(s) \/ OnClose(s) \/ Refused(s) \/ Cut(s)
         \/ TokenArrives(s) \/ TokenFails(s)
  PROVE  Connecting
<1>1. /\ ws \in [Sockets -> Records]
      /\ \A r \in Sockets : ws[r].net \in {"none", "opening", "accepted", "open", "lost", "closing", "ending"}
  BY DEF Inv, BrowserType, Records
<1>2. CASE Opens(s)
  BY <1>1, <1>2 DEF Opens, Connecting
<1>3. CASE HandleAuth(s)
  <2>1. ws' = ws \/ ws' = [ws EXCEPT ![s].on = "run"]
    BY <1>3 DEF HandleAuth
  <2>2. \A r \in Sockets : ws'[r].net = ws[r].net
    BY <1>1, <2>1 DEF Records
  <2>. QED BY <2>2 DEF Connecting
<1>4. CASE SeesClose(s) \/ Refused(s)
  <2>1. ws' = [ws EXCEPT ![s].net = "ending"]
    BY <1>4 DEF SeesClose, Refused
  <2>2. \A r \in Sockets : ws'[r].net = ws[r].net \/ ws'[r].net = "ending"
    BY <1>1, <2>1 DEF Records
  <2>. QED BY <2>2 DEF Connecting
<1>5. CASE OnClose(s)
  <2>1. /\ ws' = [ws EXCEPT ![s] = [NoSocket EXCEPT !.owner = IF s \in asks THEN ws[s].owner ELSE None]]
        /\ [NoSocket EXCEPT !.owner = IF s \in asks THEN ws[s].owner ELSE None].net = "none"
    BY <1>5 DEF OnClose, NoSocket
  <2>. QED BY <1>1, <2>1 DEF Connecting
<1>6. CASE Cut(s)
  BY <1>1, <1>6 DEF Cut, Connecting
<1>7. CASE TokenArrives(s) \/ TokenFails(s)
  <2>1. ws' = ws \/ (ws[s].net = "none" /\ ws' = [ws EXCEPT ![s] = NoSocket])
    BY <1>7 DEF TokenArrives, TokenFails, Released
  <2>. QED BY <1>1, <2>1 DEF Connecting, NoSocket
<1>. QED BY <1>2, <1>3, <1>4, <1>5, <1>6, <1>7

LEMMA CallsConnect ==
  ASSUME Inv, Disconnect \/ Request \/ (\E s \in Sockets : SyncBegins(s) \/ Ignore(s))
              \/ (\E m \in Managers : SyncNext(m) \/ SyncEnds(m)) \/ UNCHANGED vars
  PROVE  Connecting
<1>1. /\ ws \in [Sockets -> Records]
      /\ \A r \in Sockets : ws[r].net \in {"none", "opening", "accepted", "open", "lost", "closing", "ending"}
  BY DEF Inv, BrowserType, Records
<1>2. CASE UNCHANGED ws
  BY <1>2 DEF Connecting
<1>3. CASE Disconnect /\ ws' # ws
  <2>1. /\ manager # None /\ ws' = ClosedBy(manager, ws)
    BY <1>3 DEF Disconnect
  <2>. DEFINE now == mgr[manager].socket
  <2>2. /\ now \in Sockets
        /\ \/ ws' = [ws EXCEPT ![now].on = "off", ![now].onclose = "forget", ![now].net = "closing"]
           \/ ws' = [ws EXCEPT ![now].on = "off"]
    <3>1. now \in Sockets \cup {None}
      BY <2>1 DEF Inv, BrowserType, ManagerRecords
    <3>. QED BY <1>3, <2>1, <3>1 DEF ClosedBy
  <2>. HIDE DEF now
  <2>3. \A r \in Sockets : ws'[r].net = ws[r].net \/ ws'[r].net = "closing"
    <3>1. CASE ws' = [ws EXCEPT ![now].on = "off"]
      BY <1>1, <2>2, <3>1 DEF Records
    <3>2. CASE ws' = [ws EXCEPT ![now].on = "off", ![now].onclose = "forget", ![now].net = "closing"]
      BY <1>1, <2>2, <3>2 DEF Records
    <3>. QED BY <2>2, <3>1, <3>2
  <2>. QED BY <2>3 DEF Connecting
<1>. QED BY <1>2, <1>3 DEF Request, SyncBegins, Ignore, SyncNext, SyncEnds, vars

LEMMA ServerNext ==
  ASSUME Inv, TokenInv, ServerInv, [Next]_vars
  PROVE  ServerInv'
<1>1. CASE Api
  <2>1. ASSUME NEW m \in Managers, NEW s \in Sockets, NEW token, NewManager(m, s, token)
        PROVE  Connecting /\ UNCHANGED <<closing, server>>
    <3>1. /\ Unused(s) /\ ws' = [ws EXCEPT ![s] = Opening(m, FALSE)] /\ FALSE \in BOOLEAN
          /\ UNCHANGED <<closing, server>>
      BY <2>1 DEF NewManager
    <3>. QED BY <3>1, OpeningConnects
  <2>2. ASSUME NEW m \in Managers, NEW s \in Sockets, Connect(m, s) PROVE ServerInv'
    BY <2>1, <2>2, QuietKeeps DEF Connect
  <2>3. ASSUME NEW m \in Managers, NEW s \in Sockets, ConnectWithToken(m, s) PROVE ServerInv'
    <3>1. PICK t \in Tokens : NewManager(m, s, t) /\ (Issue(t) \/ UNCHANGED auth)
      BY <2>3 DEF ConnectWithToken
    <3>2. Connecting /\ UNCHANGED <<closing, server>>
      BY <2>1, <3>1
    <3>. QED BY <3>1, <3>2, QuietKeeps, IssuingKeeps
  <2>4. CASE Disconnect \/ Request
    <3>1. UNCHANGED <<auth, closing, server>>
      BY <2>4 DEF Disconnect, Request
    <3>. QED BY <2>4, <3>1, CallsConnect, QuietKeeps
  <2>. QED BY <1>1, <2>2, <2>3, <2>4 DEF Api
<1>2. CASE Unforced
  <2>1. ASSUME NEW s \in Sockets, SyncBegins(s) PROVE ServerInv'
    <3>1. UNCHANGED <<auth, closing, server>>
      BY <2>1 DEF SyncBegins
    <3>. QED BY <2>1, <3>1, CallsConnect, QuietKeeps
  <2>2. ASSUME NEW s \in Sockets, TokenFails(s) \/ Cut(s) PROVE ServerInv'
    <3>1. UNCHANGED <<auth, closing, server>>
      BY <2>2 DEF TokenFails, Cut
    <3>. QED BY <2>2, <3>1, SocketConnects, QuietKeeps
  <2>3. ASSUME NEW m \in Managers, SyncNext(m) PROVE ServerInv'
    <3>1. UNCHANGED <<auth, closing, server>>
      BY <2>3 DEF SyncNext
    <3>. QED BY <2>3, <3>1, CallsConnect, QuietKeeps
  <2>. QED BY <1>2, <2>1, <2>2, <2>3, StepBeginsKeeps, CrashKeeps, ExpireKeeps, ShutdownKeeps
           DEF Unforced
<1>3. ASSUME NEW s \in Sockets, SocketStep(s) PROVE ServerInv'
  <2>1. CASE Opens(s) \/ HandleAuth(s) \/ SeesClose(s) \/ OnClose(s) \/ Refused(s)
    <3>1. UNCHANGED <<auth, closing, server>>
      BY <2>1 DEF Opens, HandleAuth, SeesClose, OnClose, Refused
    <3>. QED BY <2>1, <3>1, SocketConnects, QuietKeeps
  <2>2. CASE TokenArrives(s)
    <3>1. PICK t \in Tokens : Issue(t) /\ UNCHANGED <<closing, server>>
      BY <2>2 DEF TokenArrives
    <3>. QED BY <2>2, <3>1, SocketConnects, IssuingKeeps
  <2>3. CASE Ignore(s)
    <3>1. UNCHANGED <<auth, closing, server>>
      BY <2>3 DEF Ignore
    <3>. QED BY <2>3, <3>1, CallsConnect, QuietKeeps
  <2>. QED BY <1>3, <2>1, <2>2, <2>3, AcceptKeeps, AuthorizeKeeps, CloseKeeps, StepEndsKeeps
           DEF SocketStep
<1>4. ASSUME NEW m \in Managers, ManagerStep(m) PROVE ServerInv'
  <2>1. CASE SyncEnds(m)
    <3>1. UNCHANGED <<auth, closing, server>>
      BY <2>1 DEF SyncEnds
    <3>. QED BY <2>1, <3>1, CallsConnect, QuietKeeps
  <2>2. ASSUME NEW s \in Sockets, Reconnect(m, s) PROVE ServerInv'
    <3>1. /\ Unused(s) /\ ws' = [ws EXCEPT ![s] = Opening(m, TRUE)] /\ TRUE \in BOOLEAN
          /\ UNCHANGED <<auth, closing, server>>
      BY <2>2 DEF Reconnect
    <3>. QED BY <3>1, OpeningConnects, QuietKeeps
  <2>. QED BY <1>4, <2>1, <2>2 DEF ManagerStep
<1>5. CASE UNCHANGED vars
  <2>1. UNCHANGED <<auth, closing, server>>
    BY <1>5 DEF vars
  <2>. QED BY <1>5, <2>1, CallsConnect, QuietKeeps
<1>. QED BY <1>1, <1>2, <1>3, <1>4, <1>5, ProcessKeeps DEF Next, ProcessStep

LEMMA TokenInit == Init => TokenInv
BY DEF Init, InitWith, TokenInv

\* The three invariants hold in every state.
THEOREM ServerInvHolds == Spec => [](Inv /\ TokenInv /\ ServerInv)
<1>1. Inv /\ TokenInv /\ ServerInv /\ [Next]_vars => (Inv /\ TokenInv /\ ServerInv)'
  BY NextKeeps, TokenNext, ServerNext
<1>. QED BY <1>1, InitHolds, TokenInit, ServerInit, PTL DEF Spec

\* A client in session has its ClientInfo, unless its token was presented again.
THEOREM SessionHasInfoHolds == Spec => []SessionHasInfo
<1>1. ServerInv => SessionHasInfo
  <2>. SUFFICES ASSUME ServerInv, NEW s \in Sockets, cl[s].state = "LISTENING"
                PROVE  cl[s].id \in info \/ shown[cl[s].id] > 1
    BY DEF SessionHasInfo
  <2>. QED BY DEF ServerInv, InfoKept
<1>. QED BY <1>1, ServerInvHolds, PTL

\* shutdown() calls back once, when no client that it has to wait for is left,
\* unless the process crashes first.
THEOREM ShutdownOnceHolds == Spec => []ShutdownOnce
<1>1. ServerInv => ShutdownOnce
  <2>. SUFFICES ASSUME ServerInv PROVE ShutdownOnce
    OBVIOUS
  <2>1. calls = 0 \/ calls = 1
    BY DEF ServerInv, ServerType, Counting
  <2>. QED BY <2>1 DEF ServerInv, Counting, ShutdownOnce
<1>. QED BY <1>1, ServerInvHolds, PTL

\* A client that is cut off in a step stood behind one that closed at once, or
\* the process crashed.
THEOREM CutOnlyBehindIdleHolds == Spec => []CutOnlyBehindIdle
<1>1. ServerInv => CutOnlyBehindIdle
  BY DEF ServerInv, PassedOver, CutOnlyBehindIdle
<1>. QED BY <1>1, ServerInvHolds, PTL
-----------------------------------------------------------------------------
(* Types, and the counter of the attempts                                  *)

Counters == \A m \in Managers : mgr[m].counter <= Attempts + 1

LEMMA CountersKept ==
  ASSUME Inv, Counters, [Next]_vars
  PROVE  Counters'
<1>1. /\ mgr \in [Managers -> ManagerRecords] /\ Attempts \in Nat
      /\ \A m \in Managers : mgr[m].counter \in Nat
  BY AttemptsAssumption DEF Inv, BrowserType, ManagerRecords
<1>2. CASE UNCHANGED mgr
  BY <1>2 DEF Counters
<1>3. ASSUME NEW m \in Managers, NEW s \in Sockets, NEW token, NewManager(m, s, token)
      PROVE  Counters'
  <2>1. mgr' = [mgr EXCEPT ![m] = [NoManager EXCEPT !.token = token]]
    BY <1>3 DEF NewManager
  <2>2. [NoManager EXCEPT !.token = token].counter = 0
    BY DEF NoManager
  <2>. QED BY <1>1, <2>1, <2>2 DEF Counters
<1>4. CASE Disconnect
  <2>1. manager \in Managers \cup {None}
    BY DEF Inv, BrowserType
  <2>2. mgr' = mgr \/ (manager \in Managers /\ \E k : mgr' = [mgr EXCEPT ![manager].socket = k])
    BY <1>4, <2>1 DEF Disconnect
  <2>. QED BY <1>1, <1>2, <2>2 DEF Counters, ManagerRecords
<1>5. ASSUME NEW s \in Sockets, Opens(s) PROVE Counters'
  <2>. DEFINE m == ws[s].owner
  <2>1. mgr' = [mgr EXCEPT ![m].socket = s, ![m].counter = 0]
    BY <1>5 DEF Opens
  <2>. HIDE DEF m
  <2>2. \A n \in Managers : mgr'[n].counter = 0 \/ mgr'[n].counter = mgr[n].counter
    BY <1>1, <2>1 DEF ManagerRecords
  <2>. QED BY <1>1, <2>2 DEF Counters
<1>6. ASSUME NEW s \in Sockets, OnClose(s) PROVE Counters'
  <2>. DEFINE m == ws[s].owner
  <2>1. \/ \E k, l : mgr' = [mgr EXCEPT ![m].socket = None, ![m].timer = k, ![m].failed = l]
        \/ mgr' = [mgr EXCEPT ![m].socket = None]
    BY <1>6 DEF OnClose, TryAgain, HandleClose, Forget
  <2>. HIDE DEF m
  <2>2. \A n \in Managers : mgr'[n].counter = mgr[n].counter
    <3>1. CASE mgr' = [mgr EXCEPT ![m].socket = None]
      BY <1>1, <3>1 DEF ManagerRecords
    <3>2. ASSUME NEW k, NEW l, mgr' = [mgr EXCEPT ![m].socket = None, ![m].timer = k, ![m].failed = l]
          PROVE  \A n \in Managers : mgr'[n].counter = mgr[n].counter
      BY <1>1, <3>2 DEF ManagerRecords
    <3>. QED BY <2>1, <3>1, <3>2
  <2>. QED BY <2>2 DEF Counters
<1>7. ASSUME NEW m \in Managers, NEW s \in Sockets, Reconnect(m, s) PROVE Counters'
  <2>. DEFINE old == mgr[m].counter
              new == IF old > Attempts THEN old ELSE old + 1
  <2>1. mgr' = [mgr EXCEPT ![m].timer = FALSE, ![m].counter = new]
    BY <1>1, <1>7 DEF Reconnect
  <2>2. old <= Attempts + 1 /\ old \in Nat
    BY <1>1 DEF Counters
  <2>3. new <= Attempts + 1
    BY <1>1, <2>2
  <2>. HIDE DEF new, old
  <2>4. \A n \in Managers : mgr'[n].counter = new \/ mgr'[n].counter = mgr[n].counter
    BY <1>1, <2>1 DEF ManagerRecords
  <2>. QED BY <2>3, <2>4 DEF Counters
<1>8. CASE Api
  BY <1>2, <1>3, <1>4, <1>8 DEF Api, Connect, ConnectWithToken, Request, browser
<1>9. CASE Unforced
  BY <1>2, <1>9 DEF Unforced, SyncBegins, SyncNext, TokenFails, Cut, StepBegins, Crash, Dies,
                    Expire, Shutdown, browser
<1>10. CASE ProcessStep
  BY <1>2, <1>10 DEF ProcessStep, Exit, Dies, Restart, browser
<1>11. ASSUME NEW s \in Sockets, SocketStep(s) PROVE Counters'
  <2>1. CASE \/ TokenArrives(s) \/ HandleAuth(s) \/ SeesClose(s) \/ Accept(s) \/ Refused(s)
             \/ Authorize(s) \/ Unauthorized(s) \/ Ignore(s) \/ HangUp(s) \/ StepEnds(s)
    BY <1>2, <2>1 DEF TokenArrives, HandleAuth, SeesClose, Accept, Refused, Authorize, Unauthorized,
                      Ignore, HangUp, StepEnds, browser
  <2>. QED BY <1>5, <1>6, <1>11, <2>1 DEF SocketStep
<1>12. ASSUME NEW m \in Managers, ManagerStep(m) PROVE Counters'
  BY <1>2, <1>7, <1>12 DEF ManagerStep, SyncEnds
<1>13. CASE UNCHANGED vars
  BY <1>2, <1>13 DEF vars, browser
<1>. QED BY <1>8, <1>9, <1>10, <1>11, <1>12, <1>13 DEF Next

\* The types of the variables, and the counter of the attempts goes one past
\* their limit at most.
THEOREM TypeCorrect == Spec => []TypeOK
<1>1. Init => Counters
  BY AttemptsAssumption DEF Init, InitWith, NoManager, Counters
<1>2. Inv /\ TokenInv /\ ServerInv /\ Counters /\ [Next]_vars =>
        (Inv /\ TokenInv /\ ServerInv /\ Counters)'
  BY NextKeeps, TokenNext, ServerNext, CountersKept
<1>3. Inv /\ ServerInv /\ Counters => TypeOK
  <2>. SUFFICES ASSUME Inv, ServerInv, Counters PROVE TypeOK
    OBVIOUS
  <2>1. /\ state \in {"DISCONNECTED", "CONNECTING", "CONNECTED", "SYNCING"}
        /\ manager \in Managers \cup {None} /\ pend \subseteq Managers
    BY DEF Inv, BrowserType, States
  <2>2. \A m \in Managers : mgr[m].socket \in Sockets \cup {None}
                            /\ mgr[m].counter \in 0..(Attempts + 1)
    BY AttemptsAssumption DEF Inv, BrowserType, ManagerRecords, Counters
  <2>3. \A s \in Sockets :
          /\ ws[s].owner \in Managers \cup {None}
          /\ ws[s].net \in {"none", "opening", "accepted", "open", "lost", "closing", "ending"}
          /\ cl[s].state \in {"CREATED", "CONNECTING", "LISTENING", "CLOSING"}
          /\ cl[s].id \in Tokens \cup {None}
    BY DEF Inv, BrowserType, Records, ServerInv, ServerType, ClientRecords
  <2>4. /\ table \subseteq Tokens /\ info \subseteq Tokens
        /\ busy \subseteq Sockets /\ awaited \subseteq Sockets
        /\ phase \in {"up", "closing", "closed", "gone"}
    BY DEF ServerInv, ServerType
  <2>. QED BY <2>1, <2>2, <2>3, <2>4 DEF TypeOK
<1>. QED BY <1>1, <1>2, <1>3, InitHolds, TokenInit, ServerInit, PTL DEF Spec

-----------------------------------------------------------------------------
(* The way out of DISCONNECTED.  A socket of the API's manager reconnects when *)
(* it is lost, and until the browser has been told that it is connected, its   *)
(* token or the answer to it is under way.                                     *)

Told(s) ==
  /\ ws[s].on # "off" /\ ws[s].onclose = "again"
  /\ ws[s].net \in {"opening", "accepted"} => ws[s].on = "auth"
  /\ ws[s].net = "open" =>
       /\ cl[s].state = "CONNECTING" => s \in asks \/ toServer[s] # <<>>
       /\ cl[s].state # "CONNECTING" => ws[s].on = "run" \/ toBrowser[s] # <<>>
       /\ ws[s].on = "run" => state # "DISCONNECTED"
Wanted == autoReconnect /\ ~hasty /\ ~stalled /\ manager # None
WayOut ==
  Wanted =>
    /\ mgr[manager].failed \/ mgr[manager].timer \/ \E s \in Sockets : Live(s) /\ ws[s].owner = manager
    /\ \A s \in Sockets : Live(s) /\ ws[s].owner = manager => Told(s)

\* A step of the server or of the network.
LEMMA TellingKeeps ==
  ASSUME Inv, WayOut, ServerMoves, stalled' = stalled,
         \A s \in Sockets : ws'[s].net = "open" =>
           \/ cl'[s].state = cl[s].state /\ UNCHANGED <<toServer[s], toBrowser[s]>>
           \/ cl'[s].state # "CONNECTING" /\ toBrowser'[s] # <<>>
           \/ /\ cl[s].state # "CONNECTING" /\ cl'[s].state # "CONNECTING"
              /\ UNCHANGED toBrowser[s]
  PROVE  WayOut'
<1>. SUFFICES ASSUME Wanted'
              PROVE  /\ \/ mgr'[manager'].failed \/ mgr'[manager'].timer
                        \/ \E s \in Sockets : Live(s)' /\ ws'[s].owner = manager'
                     /\ \A s \in Sockets : Live(s)' /\ ws'[s].owner = manager' => Told(s)'
  BY DEF WayOut
<1>1. /\ UNCHANGED <<autoReconnect, state, manager, mgr, asks, hasty>>
      /\ \A s \in Sockets :
           /\ ws'[s].owner = ws[s].owner /\ ws'[s].on = ws[s].on /\ ws'[s].onclose = ws[s].onclose
           /\ NetMoves(ws[s].net, ws'[s].net)
  BY DEF ServerMoves, options, browser
<1>2. Wanted
  BY <1>1 DEF Wanted
<1>3. \A s \in Sockets :
        /\ ws'[s].owner = ws[s].owner /\ ws'[s].on = ws[s].on /\ ws'[s].onclose = ws[s].onclose
        /\ Live(s)' <=> Live(s)
        /\ ws'[s].net \in {"opening", "accepted"} => ws[s].net \in {"opening", "accepted"}
        /\ ws'[s].net = "open" => ws[s].net = "open"
  BY <1>1 DEF NetMoves, Live
<1>4. ASSUME NEW s \in Sockets, Live(s)', ws'[s].owner = manager' PROVE Told(s)'
  <2>1. Told(s)
    BY <1>1, <1>2, <1>3, <1>4 DEF WayOut
  <2>. QED BY <1>1, <1>3, <2>1 DEF Told
<1>. QED BY <1>1, <1>2, <1>3, <1>4 DEF WayOut
LEMMA ServerTells ==
  ASSUME Inv, TokenInv, ServerInv, WayOut, NEW s \in Sockets,
         \/ Accept(s) \/ Refused(s) \/ SeesClose(s) \/ Cut(s) \/ StepBegins(s)
         \/ Authorize(s) \/ Ignore(s) \/ Unauthorized(s) \/ HangUp(s) \/ StepEnds(s)
         \/ Crash(s)
  PROVE  WayOut'
<1>1. ServerMoves /\ stalled' = stalled
  <2>1. ServerStep(s)
    BY DEF ServerStep
  <2>2. stalled' = stalled
    BY DEF Accept, Refused, SeesClose, Cut, StepBegins, Authorize, Ignore, Unauthorized, HangUp,
           StepEnds, Crash, Dies
  <2>. QED BY <2>1, <2>2, StepMoves
<1>2. /\ ws \in [Sockets -> Records] /\ cl \in [Sockets -> ClientRecords]
      /\ toServer \in [Sockets -> Seq(Tokens)] /\ toBrowser \in [Sockets -> Seq({"authz"})]
  BY DEF Inv, BrowserType, ServerInv, ServerType
<1>. DEFINE Alike(r) ==
              ws'[r].net = "open" =>
                \/ cl'[r].state = cl[r].state /\ UNCHANGED <<toServer[r], toBrowser[r]>>
                \/ cl'[r].state # "CONNECTING" /\ toBrowser'[r] # <<>>
                \/ /\ cl[r].state # "CONNECTING" /\ cl'[r].state # "CONNECTING"
                   /\ UNCHANGED toBrowser[r]
<1>3. CASE Accept(s)
  <2>1. /\ ws'[s].net # "open"
        /\ \A r \in Sockets : r # s => cl'[r] = cl[r]
        /\ UNCHANGED <<toServer, toBrowser>>
    BY <1>2, <1>3 DEF Accept, Records, wire
  <2>2. \A r \in Sockets : Alike(r)
    BY <2>1
  <2>. QED BY <1>1, <2>2, TellingKeeps
<1>4. CASE Refused(s) \/ SeesClose(s) \/ StepBegins(s)
  <2>1. UNCHANGED <<cl, toServer, toBrowser>>
    BY <1>4 DEF Refused, SeesClose, StepBegins, wire, server
  <2>2. \A r \in Sockets : Alike(r)
    BY <2>1
  <2>. QED BY <1>1, <2>2, TellingKeeps
<1>5. CASE Cut(s)
  <2>1. /\ ws'[s].net # "open" /\ cl' = cl
        /\ \A r \in Sockets : r # s => UNCHANGED <<toServer[r], toBrowser[r]>>
    BY <1>2, <1>5 DEF Cut, Records, server
  <2>2. \A r \in Sockets : Alike(r)
    BY <2>1
  <2>. QED BY <1>1, <2>2, TellingKeeps
<1>6. CASE Authorize(s)
  <2>. DEFINE t == Head(toServer[s])
  <2>1. /\ cl' = [cl EXCEPT ![s] = [state |-> "LISTENING", id |-> t]]
        /\ toServer' = [toServer EXCEPT ![s] = Tail(@)]
        /\ toBrowser' = [toBrowser EXCEPT ![s] = Append(@, "authz")]
    BY <1>6 DEF Authorize
  <2>. HIDE DEF t
  <2>2. cl'[s].state = "LISTENING" /\ \A r \in Sockets : r # s => cl'[r] = cl[r]
    BY <1>2, <2>1
  <2>3. /\ toBrowser'[s] # <<>>
        /\ \A r \in Sockets : r # s => UNCHANGED <<toServer[r], toBrowser[r]>>
    <3>1. toBrowser'[s] = Append(toBrowser[s], "authz") /\ toBrowser[s] \in Seq({"authz"})
      BY <1>2, <2>1
    <3>2. toBrowser[s] \in Seq({"authz"}) /\ "authz" \in {"authz"}
      BY <3>1
    <3>3. Append(toBrowser[s], "authz") # <<>>
      BY <3>2, AppendFacts
    <3>. QED BY <1>2, <2>1, <3>1, <3>3
  <2>4. \A r \in Sockets : Alike(r)
    BY <2>2, <2>3
  <2>. QED BY <1>1, <2>4, TellingKeeps
<1>7. CASE Ignore(s)
  <2>1. /\ cl[s].state \in {"LISTENING", "CLOSING"} /\ UNCHANGED <<cl, toBrowser>>
        /\ \A r \in Sockets : r # s => toServer'[r] = toServer[r]
    BY <1>2, <1>7 DEF Ignore, server
  <2>2. \A r \in Sockets : Alike(r)
    BY <2>1
  <2>. QED BY <1>1, <2>2, TellingKeeps
<1>8. ASSUME Dropped({s}), toBrowser' = toBrowser PROVE WayOut'
  <2>1. /\ ws'[s].net # "open"
        /\ \A r \in Sockets : r # s => cl'[r] = cl[r] /\ toServer'[r] = toServer[r]
    BY <1>2, <1>8 DEF Dropped, WsAfter, Records
  <2>2. \A r \in Sockets : Alike(r)
    BY <1>8, <2>1
  <2>. QED BY <1>1, <2>2, TellingKeeps
<1>9. CASE Unauthorized(s) \/ HangUp(s)
  <2>1. Close(s) /\ toBrowser' = toBrowser
    BY <1>9 DEF Unauthorized, HangUp
  <2>2. CASE s \in busy
    <3>1. cl' = [cl EXCEPT ![s].state = "CLOSING"] /\ UNCHANGED <<ws, toServer>>
      BY <2>1, <2>2 DEF Close
    <3>2. cl[s].state # "CONNECTING" /\ cl'[s].state # "CONNECTING"
          /\ \A r \in Sockets : r # s => cl'[r] = cl[r]
      BY <1>2, <2>2, <3>1 DEF ServerInv, Named, ClientRecords
    <3>3. \A r \in Sockets : Alike(r)
      BY <2>1, <3>1, <3>2
    <3>. QED BY <1>1, <3>3, TellingKeeps
  <2>3. CASE s \notin busy
    BY <1>8, <2>1, <2>3 DEF Close
  <2>. QED BY <2>2, <2>3
<1>10. CASE StepEnds(s)
  <2>1. CASE cl[s].state = "CLOSING"
    BY <1>8, <1>10, <2>1 DEF StepEnds
  <2>2. CASE cl[s].state # "CLOSING"
    <3>1. UNCHANGED <<cl, toServer, toBrowser>>
      BY <1>10, <2>2 DEF StepEnds
    <3>2. \A r \in Sockets : Alike(r)
      BY <3>1
    <3>. QED BY <1>1, <3>2, TellingKeeps
  <2>. QED BY <2>1, <2>2
<1>11. CASE Crash(s)
  <2>1. Dropped(Sockets)
    BY <1>11 DEF Crash, Dies
  <2>2. \A r \in Sockets : ws'[r].net # "open"
    BY <1>2, <2>1 DEF Dropped, WsAfter, Records
  <2>. QED BY <1>1, <2>2, TellingKeeps
<1>. QED BY <1>3, <1>4, <1>5, <1>6, <1>7, <1>9, <1>10, <1>11

LEMMA ProcessTells ==
  ASSUME Inv, TokenInv, ServerInv, WayOut,
         Shutdown \/ Exit \/ Restart \/ \E t \in Tokens : Expire(t)
  PROVE  WayOut'
<1>1. ServerMoves /\ stalled' = stalled
  BY ProcessMoves DEF Shutdown, Exit, Dies, Restart, Expire
<1>2. ws \in [Sockets -> Records] /\ cl \in [Sockets -> ClientRecords]
  BY DEF Inv, BrowserType, ServerInv, ServerType
<1>. DEFINE Alike(r) ==
              ws'[r].net = "open" =>
                \/ cl'[r].state = cl[r].state /\ UNCHANGED <<toServer[r], toBrowser[r]>>
                \/ cl'[r].state # "CONNECTING" /\ toBrowser'[r] # <<>>
                \/ /\ cl[r].state # "CONNECTING" /\ cl'[r].state # "CONNECTING"
                   /\ UNCHANGED toBrowser[r]
<1>3. CASE Shutdown
  <2>. DEFINE done == Walk.done
              awaits == Walk.awaits
  <2>1. /\ ws' = WsAfter(done)
        /\ cl' = [s \in Sockets |-> IF s \in done THEN NoClient
                                    ELSE IF s \in awaits THEN [cl[s] EXCEPT !.state = "CLOSING"]
                                    ELSE cl[s]]
        /\ toServer' = [s \in Sockets |-> IF s \in done THEN <<>> ELSE toServer[s]]
        /\ toBrowser' = toBrowser
    BY <1>3 DEF Shutdown
  <2>2. awaits \subseteq busy
    <3>1. clients \in Seq(Sockets)
      BY DEF ServerInv, ServerType
    <3>. QED BY <3>1, WalkPasses DEF Passed
  <2>. HIDE DEF done, awaits
  <2>3. \A r \in Sockets :
          /\ r \in done => ws'[r].net # "open"
          /\ r \notin done /\ r \in awaits => cl[r].state # "CONNECTING" /\ cl'[r].state = "CLOSING"
          /\ r \notin done /\ r \notin awaits => cl'[r] = cl[r] /\ toServer'[r] = toServer[r]
    <3>1. \A r \in Sockets : r \in done => ws'[r].net # "open"
      BY <1>2, <2>1 DEF WsAfter, Records
    <3>2. \A r \in awaits : cl[r].state # "CONNECTING"
      BY <2>2 DEF ServerInv, ServerType, Named
    <3>. QED BY <1>2, <2>1, <3>1, <3>2 DEF ClientRecords
  <2>4. \A r \in Sockets : Alike(r)
    BY <2>1, <2>3
  <2>. QED BY <1>1, <2>4, TellingKeeps
<1>4. CASE Exit
  <2>1. \A r \in Sockets : ws'[r].net # "open"
    BY <1>2, <1>4 DEF Exit, Dies, Dropped, WsAfter, Records
  <2>. QED BY <1>1, <2>1, TellingKeeps
<1>5. CASE Restart \/ \E t \in Tokens : Expire(t)
  <2>1. UNCHANGED <<cl, toServer, toBrowser>>
    BY <1>5 DEF Restart, Expire, wire, server
  <2>2. \A r \in Sockets : Alike(r)
    BY <2>1
  <2>. QED BY <1>1, <2>2, TellingKeeps
<1>. QED BY <1>3, <1>4, <1>5

\* A new socket of the API's manager.
LEMMA OpeningTells ==
  ASSUME Inv, WayOut, NEW m \in Managers, NEW s \in Sockets, NEW again \in BOOLEAN,
         \A r \in Sockets : ws[r].owner = m => ~Live(r),
         ws' = [ws EXCEPT ![s] = Opening(m, again)],
         UNCHANGED <<autoReconnect, hasty, stalled>>,
         ~hasty => manager' = m
  PROVE  WayOut'
<1>. SUFFICES ASSUME Wanted'
              PROVE  /\ \/ mgr'[manager'].failed \/ mgr'[manager'].timer
                        \/ \E r \in Sockets : Live(r)' /\ ws'[r].owner = manager'
                     /\ \A r \in Sockets : Live(r)' /\ ws'[r].owner = manager' => Told(r)'
  BY DEF WayOut
<1>1. manager' = m /\ autoReconnect
  BY DEF Wanted
<1>2. /\ ws'[s].owner = m /\ ws'[s].net = "opening" /\ ws'[s].on = "auth"
      /\ ws'[s].onclose = "again"
      /\ \A r \in Sockets : r # s => ws'[r] = ws[r]
  BY <1>1 DEF Inv, BrowserType, Opening
<1>3. \A r \in Sockets : Live(r)' /\ ws'[r].owner = m => r = s
  BY <1>2 DEF Live
<1>4. Live(s)' /\ Told(s)'
  BY <1>2 DEF Live, Told
<1>. QED BY <1>1, <1>2, <1>3, <1>4
LEMMA OpensTells ==
  ASSUME Inv, ServerInv, WayOut, NEW s \in Sockets, Opens(s)
  PROVE  WayOut'
<1>. SUFFICES ASSUME Wanted'
              PROVE  /\ \/ mgr'[manager'].failed \/ mgr'[manager'].timer
                        \/ \E r \in Sockets : Live(r)' /\ ws'[r].owner = manager'
                     /\ \A r \in Sockets : Live(r)' /\ ws'[r].owner = manager' => Told(r)'
  BY DEF WayOut
<1>. DEFINE m == ws[s].owner
<1>1. /\ ws[s].net = "accepted" /\ ws' = [ws EXCEPT ![s].net = "open"]
      /\ mgr' = [mgr EXCEPT ![m].socket = s, ![m].counter = 0]
      /\ UNCHANGED <<autoReconnect, state, manager, toBrowser, hasty, stalled>> /\ cl' = cl
  BY DEF Opens, options, server
<1>2. \/ /\ mgr[m].token # None /\ UNCHANGED asks
         /\ toServer' = [toServer EXCEPT ![s] = Append(@, mgr[m].token)]
      \/ asks' = asks \cup {s} /\ UNCHANGED toServer
  BY DEF Opens
<1>3. /\ ws \in [Sockets -> Records] /\ mgr \in [Managers -> ManagerRecords]
      /\ m \in Managers /\ toServer \in [Sockets -> Seq(Tokens)]
      /\ manager \in Managers \cup {None}
  BY <1>1 DEF Inv, BrowserType, Owned, Live
<1>. HIDE DEF m
<1>4. Wanted /\ manager \in Managers
  BY <1>1, <1>3 DEF Wanted
<1>5. /\ mgr'[manager].timer = mgr[manager].timer /\ mgr'[manager].failed = mgr[manager].failed
  BY <1>1, <1>3, <1>4 DEF ManagerRecords
<1>6. /\ \A r \in Sockets : r # s => ws'[r] = ws[r]
      /\ ws'[s].net = "open" /\ ws'[s].on = ws[s].on /\ ws'[s].owner = ws[s].owner
      /\ ws'[s].onclose = ws[s].onclose
      /\ \A r \in Sockets : ws'[r].owner = ws[r].owner /\ (Live(r)' <=> Live(r))
  BY <1>1, <1>3 DEF Records, Live
<1>7. \A r \in Sockets : r # s => (r \in asks => r \in asks') /\ toServer'[r] = toServer[r]
  BY <1>2, <1>3
<1>8. s \in asks' \/ toServer'[s] # <<>>
  <2>1. ASSUME mgr[m].token # None, toServer' = [toServer EXCEPT ![s] = Append(@, mgr[m].token)]
        PROVE  toServer'[s] # <<>>
    <3>1. mgr[m].token \in Tokens /\ toServer[s] \in Seq(Tokens)
      BY <1>3, <2>1 DEF ManagerRecords
    <3>2. toServer'[s] = Append(toServer[s], mgr[m].token)
      BY <1>3, <2>1
    <3>. QED BY <3>1, <3>2, AppendFacts
  <2>. QED BY <1>2, <2>1
<1>9. ASSUME NEW r \in Sockets, Live(r)', ws'[r].owner = manager PROVE Told(r)'
  <2>1. Told(r)
    BY <1>4, <1>6, <1>9 DEF WayOut
  <2>2. CASE r = s
    <3>1. ws[s].on = "auth" /\ cl[s].state = "CONNECTING"
      BY <1>1, <2>1, <2>2 DEF Told, ServerInv, Served
    <3>. QED BY <1>1, <1>6, <1>8, <2>1, <2>2, <3>1 DEF Told
  <2>3. CASE r # s
    BY <1>1, <1>6, <1>7, <2>1, <2>3 DEF Told
  <2>. QED BY <2>2, <2>3
<1>. QED BY <1>1, <1>4, <1>5, <1>6, <1>9 DEF WayOut

LEMMA TokenTells ==
  ASSUME Inv, ServerInv, WayOut, NEW s \in Sockets, TokenArrives(s)
  PROVE  WayOut'
<1>. SUFFICES ASSUME Wanted'
              PROVE  /\ \/ mgr'[manager'].failed \/ mgr'[manager'].timer
                        \/ \E r \in Sockets : Live(r)' /\ ws'[r].owner = manager'
                     /\ \A r \in Sockets : Live(r)' /\ ws'[r].owner = manager' => Told(r)'
  BY DEF WayOut
<1>. DEFINE m == ws[s].owner
            now == mgr[m].socket
<1>1. PICK t \in Tokens :
        toServer' = IF now = None THEN toServer ELSE [toServer EXCEPT ![now] = Send(m, now, t)]
  BY DEF TokenArrives
<1>2. /\ asks' = asks \ {s} /\ s \in asks /\ ws' = Released(s)
      /\ UNCHANGED <<autoReconnect, state, manager, mgr, toBrowser, hasty, stalled>> /\ cl' = cl
  BY DEF TokenArrives, options, browser, server
<1>3. /\ ws \in [Sockets -> Records] /\ mgr \in [Managers -> ManagerRecords]
      /\ m \in Managers /\ toServer \in [Sockets -> Seq(Tokens)]
      /\ now \in Sockets \cup {None}
  BY <1>2 DEF Inv, BrowserType, Owned, ManagerRecords
<1>4. \A r \in Sockets : Live(r)' <=> Live(r)
  BY <1>2, <1>3 DEF Released, Live, NoSocket
<1>5. \A r \in Sockets : Live(r) => ws'[r] = ws[r]
  BY <1>2, <1>3 DEF Released, Live
<1>. HIDE DEF m, now
<1>6. \A r \in Sockets : toServer[r] # <<>> => toServer'[r] # <<>>
  <2>1. CASE toServer' = toServer
    BY <2>1
  <2>2. CASE now \in Sockets /\ toServer' = [toServer EXCEPT ![now] = Append(toServer[now], t)]
    <3>1. Append(toServer[now], t) # <<>>
      BY <1>3, <2>2, AppendFacts
    <3>. QED BY <1>3, <2>2, <3>1
  <2>. QED BY <1>1, <1>3, <2>1, <2>2 DEF Send
<1>7. Wanted
  BY <1>2 DEF Wanted
<1>8. ASSUME NEW r \in Sockets, Live(r), ws[r].owner = manager PROVE Told(r)'
  <2>1. Told(r) /\ ws'[r] = ws[r]
    BY <1>5, <1>7, <1>8 DEF WayOut
  <2>2. r # s => (r \in asks' <=> r \in asks)
    BY <1>2
  <2>3. ASSUME r = s, ws[s].net = "open" PROVE toServer'[s] # <<>>
    <3>1. ws[s].on # "off"
      BY <2>1, <2>3 DEF Told
    <3>2. now = s
      BY <2>3, <3>1 DEF Inv, Attached, Carries, m, now
    <3>3. toServer' = [toServer EXCEPT ![s] = Append(toServer[s], t)]
      BY <1>1, <2>3, <3>2, NoneAssumption DEF Send
    <3>4. Append(toServer[s], t) # <<>>
      BY <1>3, AppendFacts
    <3>. QED BY <1>3, <3>3, <3>4
  <2>. QED BY <1>2, <1>6, <2>1, <2>2, <2>3 DEF Told
<1>. QED BY <1>2, <1>4, <1>5, <1>7, <1>8 DEF WayOut

LEMMA HandleAuthTells ==
  ASSUME Inv, ServerInv, WayOut, NEW s \in Sockets, HandleAuth(s)
  PROVE  WayOut'
<1>. SUFFICES ASSUME Wanted'
              PROVE  /\ \/ mgr'[manager'].failed \/ mgr'[manager'].timer
                        \/ \E r \in Sockets : Live(r)' /\ ws'[r].owner = manager'
                     /\ \A r \in Sockets : Live(r)' /\ ws'[r].owner = manager' => Told(r)'
  BY DEF WayOut
<1>1. /\ toBrowser[s] # <<>> /\ toBrowser' = [toBrowser EXCEPT ![s] = Tail(@)]
      /\ UNCHANGED <<autoReconnect, manager, mgr, toServer, asks, hasty, stalled>> /\ cl' = cl
      /\ \/ ws' = [ws EXCEPT ![s].on = "run"] /\ state' # "DISCONNECTED"
         \/ ws[s].on # "auth" /\ ws' = ws /\ state' = state
  BY DEF HandleAuth, options, server
<1>2. /\ ws \in [Sockets -> Records] /\ toBrowser \in [Sockets -> Seq({"authz"})]
  BY DEF Inv, BrowserType
<1>3. HasBeenOpen(s) /\ Wanted
  BY <1>1 DEF Inv, Attached, Carries, Wanted
<1>4. /\ \A r \in Sockets : /\ ws'[r].owner = ws[r].owner /\ ws'[r].net = ws[r].net
                            /\ ws'[r].onclose = ws[r].onclose /\ (Live(r)' <=> Live(r))
                            /\ r # s => ws'[r].on = ws[r].on /\ toBrowser'[r] = toBrowser[r]
      /\ ws'[s].on = "run" \/ (ws'[s].on = ws[s].on /\ ws[s].on # "auth")
  <2>1. \A r \in Sockets : r # s => toBrowser'[r] = toBrowser[r]
    BY <1>1, <1>2
  <2>2. CASE ws[s].on # "auth" /\ ws' = ws
    BY <2>1, <2>2 DEF Live
  <2>3. CASE ws' = [ws EXCEPT ![s].on = "run"]
    <3>1. \A r \in Sockets : /\ ws'[r].owner = ws[r].owner /\ ws'[r].net = ws[r].net
                             /\ ws'[r].onclose = ws[r].onclose
                             /\ r # s => ws'[r].on = ws[r].on
      BY <1>2, <2>3 DEF Records
    <3>2. ws'[s].on = "run"
      BY <1>2, <2>3 DEF Records
    <3>. QED BY <2>1, <3>1, <3>2 DEF Live
  <2>. QED BY <1>1, <2>2, <2>3
<1>5. state' = "DISCONNECTED" => state = "DISCONNECTED" /\ ws' = ws
  BY <1>1
<1>6. ASSUME NEW r \in Sockets, Live(r), ws[r].owner = manager PROVE Told(r)'
  <2>1. Told(r)
    BY <1>3, <1>6 DEF WayOut
  <2>2. CASE r = s
    <3>1. ws'[s].on = "run"
      BY <1>2, <1>4, <2>1, <2>2 DEF Told, Records
    <3>. QED BY <1>1, <1>3, <1>4, <1>5, <2>1, <2>2, <3>1 DEF Told, HasBeenOpen
  <2>3. CASE r # s
    BY <1>1, <1>4, <1>5, <2>1, <2>3 DEF Told
  <2>. QED BY <2>2, <2>3
<1>. QED BY <1>1, <1>3, <1>4, <1>6 DEF WayOut

LEMMA OnCloseTells ==
  ASSUME Inv, ServerInv, WayOut, NEW s \in Sockets, OnClose(s)
  PROVE  WayOut'
<1>. SUFFICES ASSUME Wanted'
              PROVE  /\ \/ mgr'[manager'].failed \/ mgr'[manager'].timer
                        \/ \E r \in Sockets : Live(r)' /\ ws'[r].owner = manager'
                     /\ \A r \in Sockets : Live(r)' /\ ws'[r].owner = manager' => Told(r)'
  BY DEF WayOut
<1>. DEFINE m == ws[s].owner
<1>1. /\ ws[s].net = "ending"
      /\ ws' = [ws EXCEPT ![s] = [NoSocket EXCEPT !.owner = IF s \in asks THEN m ELSE None]]
      /\ toServer' = [toServer EXCEPT ![s] = <<>>] /\ toBrowser' = [toBrowser EXCEPT ![s] = <<>>]
      /\ UNCHANGED <<autoReconnect, manager, asks, hasty, stalled>> /\ cl' = cl
      /\ TryAgain(s) \/ HandleClose(s) \/ Forget(s)
  BY DEF OnClose, options, server
<1>2. /\ ws \in [Sockets -> Records] /\ mgr \in [Managers -> ManagerRecords]
      /\ toServer \in [Sockets -> Seq(Tokens)] /\ toBrowser \in [Sockets -> Seq({"authz"})]
      /\ m \in Managers /\ manager \in Managers \cup {None}
  BY <1>1 DEF Inv, BrowserType, Owned, Live
<1>3. /\ Live(s) /\ ~Live(s)'
      /\ \A r \in Sockets : r # s => /\ ws'[r] = ws[r] /\ toServer'[r] = toServer[r]
                                     /\ toBrowser'[r] = toBrowser[r]
  BY <1>1, <1>2 DEF Live, NoSocket
<1>4. Wanted /\ manager \in Managers /\ NoneLeft
  BY <1>1, <1>2 DEF Wanted, Inv
<1>5. CASE m = manager
  <2>1. ws[s].onclose = "again"
    BY <1>3, <1>4, <1>5 DEF WayOut, Told, m
  <2>2. TryAgain(s)
    BY <1>1, <2>1 DEF HandleClose, Forget
  <2>3. PICK giveUp \in BOOLEAN :
          mgr' = [mgr EXCEPT ![m].socket = None, ![m].timer = ~giveUp, ![m].failed = giveUp]
    <3>1. /\ (limited /\ Attempts < mgr[m].counter) \in BOOLEAN
          /\ mgr' = [mgr EXCEPT ![m].socket = None,
                                ![m].timer = ~(limited /\ Attempts < mgr[m].counter),
                                ![m].failed = (limited /\ Attempts < mgr[m].counter)]
      BY <2>2 DEF TryAgain, m
    <3>. QED BY <3>1
  <2>4. mgr'[manager].timer \/ mgr'[manager].failed
    BY <1>2, <1>5, <2>3 DEF ManagerRecords
  <2>5. \A r \in Sockets : ~(Live(r)' /\ ws'[r].owner = manager)
    BY <1>3, <1>5 DEF Inv, Owned, Live, m
  <2>. QED BY <1>1, <2>4, <2>5
<1>6. CASE m # manager
  <2>1. ws[s].onclose = "forget"
    BY <1>3, <1>4, <1>6 DEF NoneLeft, m
  <2>2. Forget(s)
    BY <1>1, <2>1 DEF TryAgain, HandleClose
  <2>3. mgr' = [mgr EXCEPT ![m].socket = None] /\ state' = state
    BY <2>2 DEF Forget, m
  <2>. HIDE DEF m
  <2>4. mgr'[manager] = mgr[manager]
    BY <1>2, <1>4, <1>6, <2>3
  <2>5. \A r \in Sockets : Live(r)' => r # s /\ Live(r)
    BY <1>3 DEF Live
  <2>6. \A r \in Sockets : Live(r) /\ ws[r].owner = manager => r # s /\ Live(r)'
    BY <1>3, <1>6 DEF Live, m
  <2>7. ASSUME NEW r \in Sockets, Live(r)', ws'[r].owner = manager PROVE Told(r)'
    <3>1. r # s /\ Told(r)
      BY <1>3, <1>4, <2>5, <2>7 DEF WayOut
    <3>. QED BY <1>1, <1>3, <2>3, <3>1 DEF Told
  <2>8. \/ mgr[manager].failed \/ mgr[manager].timer
        \/ \E r \in Sockets : Live(r) /\ ws[r].owner = manager
    BY <1>4 DEF WayOut
  <2>. QED BY <1>1, <1>3, <2>4, <2>6, <2>7, <2>8
<1>. QED BY <1>5, <1>6

\* A step that leaves the sockets, their messages and the managers as they are.
LEMMA CallsTell ==
  ASSUME Inv, WayOut, UNCHANGED <<autoReconnect, manager, mgr, ws, toServer, toBrowser, asks, hasty>>,
         stalled' = stalled, cl' = cl,
         state' = "DISCONNECTED" => state = "DISCONNECTED"
  PROVE  WayOut'
<1>1. /\ Wanted' => Wanted
      /\ \A r \in Sockets : (Live(r)' <=> Live(r)) /\ (Told(r) => Told(r)')
  BY DEF Wanted, Live, Told
<1>. QED BY <1>1 DEF WayOut

LEMMA WayOutNext ==
  ASSUME Inv, TokenInv, ServerInv, WayOut, [Next]_vars
  PROVE  WayOut'
<1>1. CASE Api
  <2>1. ASSUME NEW m \in Managers, NEW s \in Sockets, NEW token, NewManager(m, s, token)
        PROVE  WayOut'
    <3>1. /\ \A r \in Sockets : ws[r].owner # m
          /\ ws' = [ws EXCEPT ![s] = Opening(m, FALSE)] /\ FALSE \in BOOLEAN
          /\ UNCHANGED <<autoReconnect, hasty, stalled>> /\ manager' = m
      BY <2>1 DEF NewManager, InUse, options
    <3>. QED BY <3>1, OpeningTells
  <2>2. CASE Disconnect
    BY <2>2 DEF Disconnect, WayOut, Wanted
  <2>3. CASE Request
    <3>1. /\ UNCHANGED <<autoReconnect, manager, mgr, ws, toServer, toBrowser, asks, hasty>>
          /\ stalled' = stalled /\ cl' = cl /\ state' = state
      BY <2>3 DEF Request, options, browser, wire, server
    <3>. QED BY <3>1, CallsTell
  <2>. QED BY <1>1, <2>1, <2>2, <2>3 DEF Api, Connect, ConnectWithToken
<1>2. CASE Unforced
  <2>1. ASSUME NEW s \in Sockets, SyncBegins(s) PROVE WayOut'
    <3>1. /\ UNCHANGED <<autoReconnect, manager, mgr, ws, toServer, toBrowser, asks, hasty>>
          /\ stalled' = stalled /\ cl' = cl /\ state' = "SYNCING"
      BY <2>1 DEF SyncBegins, options, wire, server
    <3>. QED BY <3>1, CallsTell
  <2>2. ASSUME NEW s \in Sockets, TokenFails(s) PROVE WayOut'
    BY <2>2 DEF TokenFails, WayOut, Wanted
  <2>3. ASSUME NEW m \in Managers, SyncNext(m) PROVE WayOut'
    <3>1. /\ UNCHANGED <<autoReconnect, manager, mgr, ws, toServer, toBrowser, asks, hasty>>
          /\ stalled' = stalled /\ cl' = cl /\ state' = state
      BY <2>3 DEF SyncNext, options, browser, wire, server
    <3>. QED BY <3>1, CallsTell
  <2>. QED BY <1>2, <2>1, <2>2, <2>3, ServerTells, ProcessTells DEF Unforced
<1>3. ASSUME NEW s \in Sockets, SocketStep(s) PROVE WayOut'
  BY <1>3, OpensTells, TokenTells, HandleAuthTells, OnCloseTells, ServerTells DEF SocketStep
<1>4. ASSUME NEW m \in Managers, ManagerStep(m) PROVE WayOut'
  <2>1. CASE SyncEnds(m)
    <3>1. /\ UNCHANGED <<autoReconnect, manager, mgr, ws, toServer, toBrowser, asks, hasty>>
          /\ stalled' = stalled /\ cl' = cl /\ (state' = "DISCONNECTED" => state = "DISCONNECTED")
      BY <2>1 DEF SyncEnds, options, wire, server
    <3>. QED BY <3>1, CallsTell
  <2>2. ASSUME NEW s \in Sockets, Reconnect(m, s) PROVE WayOut'
    <3>1. /\ \A r \in Sockets : ws[r].owner = m => ~Live(r)
          /\ ws' = [ws EXCEPT ![s] = Opening(m, TRUE)] /\ TRUE \in BOOLEAN
          /\ UNCHANGED <<autoReconnect, hasty, stalled>> /\ manager' = manager
          /\ ~hasty => manager = m
      BY <2>2 DEF Reconnect, Inv, Owned, NoneLeft, options
    <3>. QED BY <3>1, OpeningTells
  <2>. QED BY <1>4, <2>1, <2>2 DEF ManagerStep
<1>5. CASE UNCHANGED vars
  <2>1. /\ UNCHANGED <<autoReconnect, manager, mgr, ws, toServer, toBrowser, asks, hasty>>
        /\ stalled' = stalled /\ cl' = cl /\ state' = state
    BY <1>5 DEF vars, options, browser, wire, server
  <2>. QED BY <2>1, CallsTell
<1>. QED BY <1>1, <1>2, <1>3, <1>4, <1>5, ProcessTells DEF Next, ProcessStep

\* A browser that is DISCONNECTED but keeps its manager, with autoReconnect, has
\* a way out under way: a timer, or a socket that does not wait for a message
\* that nobody sends.
THEOREM NotLockedOutHolds == Spec => []NotLockedOut
<1>1. Init => WayOut
  BY DEF Init, InitWith, WayOut, Wanted
<1>2. Inv /\ TokenInv /\ ServerInv /\ WayOut /\ [Next]_vars =>
        (Inv /\ TokenInv /\ ServerInv /\ WayOut)'
  BY NextKeeps, TokenNext, ServerNext, WayOutNext
<1>3. Inv /\ WayOut => NotLockedOut
  <2>. SUFFICES ASSUME Inv, WayOut, state = "DISCONNECTED", manager # None, autoReconnect,
                       ~hasty, ~stalled, ~mgr[manager].failed, ~mgr[manager].timer
                PROVE  \E s \in Sockets : ws[s].owner = manager /\ UnderWay(s)
    BY DEF NotLockedOut
  <2>1. PICK s \in Sockets : Live(s) /\ ws[s].owner = manager /\ Told(s)
    BY DEF WayOut, Wanted
  <2>2. UnderWay(s)
    BY <2>1 DEF Live, Told, UnderWay
  <2>. QED BY <2>1, <2>2
<1>. QED BY <1>1, <1>2, <1>3, InitHolds, TokenInit, ServerInit, PTL DEF Spec
===============================================================================
