--------------------------- MODULE StartupProofs ---------------------------
(***************************************************************************)
(* That the threads find each other (Wired) and that net_io's pool is what *)
(* the other modules start from (StartsAsAssumed, RouterFirst), for any    *)
(* number of clients and game threads and any order of their steps.        *)
(***************************************************************************)
EXTENDS Startup, FiniteSetTheorems, TLAPS

USE StartAssumption, NamesAssumption

(***************************************************************************)
(* The inductive invariant.  net_io: what its pool holds at each label,    *)
(* and that net_logic waits in the backlog at most once, between its       *)
(* connect and net_io's accept.  net_logic: a game thread is in the        *)
(* backlog or has its socket stored, once, and accept_num counts these.    *)
(***************************************************************************)
PoolBefore ==
  /\ pc[NetIo] \in {"none", "start", "ended"} =>
       alloc_id = 0 /\ \A s \in Slots : socket_pool[s] = Empty
  /\ pc[NetIo] = "accept" =>
       /\ alloc_id = 1 /\ socket_pool[1] = [type |-> "LISTEN_NOTADD", peer |-> NoOne]
       /\ \A s \in Slots : s # 1 => socket_pool[s] = Empty
  /\ pc[NetIo] = "add" =>
       /\ alloc_id = 2 /\ socket_pool[1] = [type |-> "LISTEN_NOTADD", peer |-> NoOne]
       /\ socket_pool[2] = [type |-> "NETLOGIC", peer |-> NetLogic]
       /\ \A s \in Slots : s > 2 => socket_pool[s] = Empty

PoolRunning ==
  pc[NetIo] = "running" =>
    /\ alloc_id >= 2 /\ socket_pool[1] = [type |-> "LISTEN_ADD", peer |-> NoOne]
    /\ socket_pool[2] = [type |-> "NETLOGIC", peer |-> NetLogic]
    /\ \A s \in Slots : s > 2 =>
         IF s <= alloc_id THEN socket_pool[s].type = "CONNECT_ADD" /\ socket_pool[s].peer \in Clients
                          ELSE socket_pool[s] = Empty

Pool == pc[NetIo] # "connect" /\ PoolBefore /\ PoolRunning

Before == pc[NetLogic] \in {"none", "start", "connect", "ended"}
After == pc[NetIo] \in {"add", "running"}

RouterOnce ==
  /\ Before => ~After
  /\ Before \/ After => \A i \in 1 .. Len(io_backlog) : io_backlog[i] # NetLogic
  /\ \A i, j \in 1 .. Len(io_backlog) :
       io_backlog[i] = NetLogic /\ io_backlog[j] = NetLogic => i = j

Stored == {i \in Services : gamelog_socket[i] # NoOne}

Sockets ==
  /\ \A i \in Services : gamelog_socket[i] \in {NoOne, i}
  /\ accept_num = Cardinality(Stored)
  /\ pc[NetLogic] = "running" => Stored = Services /\ service_pool = gamelog_socket

GamesOnce ==
  /\ \A k \in 1 .. Len(router_backlog) : router_backlog[k] \in Services =>
       pc[router_backlog[k]] = "running" /\ gamelog_socket[router_backlog[k]] = NoOne
  /\ \A k, l \in 1 .. Len(router_backlog) :
       router_backlog[k] \in Services /\ router_backlog[k] = router_backlog[l] => k = l
  /\ \A g \in Services : pc[g] # "running" => gamelog_socket[g] = NoOne

IInv == TypeOK /\ Pool /\ RouterOnce /\ Sockets /\ GamesOnce

-----------------------------------------------------------------------------
(* Ports, sequences and counting.                                          *)

LEMMA OwnPort ==
    ASSUME NEW g \in Services
    PROVE  ServiceOfPort(service_port(g)) = g /\ service_que(g) = que_2_gamelogic(g)
BY DEF ServiceOfPort, service_port, service_que, que_2_gamelogic, game_service_id, ServiceOf,
       Services, PORT_GAME_LOGIC_SERVICE_FIRST, SERVICE_ID_GAME_FIRST,
       QUE_ID_NETLOGIC_2_GAME_FIRST

LEMMA Names ==
    /\ NetIo \in Threads /\ NetLogic \in Threads /\ NetIo # NetLogic
    /\ \A g \in Services : g \in Threads /\ g # NetIo /\ g # NetLogic /\ g # NoOne
    /\ \A c \in Clients : c # NetLogic /\ c # NoOne /\ c \notin Services
    /\ NoOne # NetLogic
BY DEF Threads

LEMMA AppendFacts ==
    ASSUME NEW S, NEW s \in Seq(S), NEW e \in S
    PROVE  /\ Append(s, e) \in Seq(S)
           /\ Len(Append(s, e)) = Len(s) + 1
           /\ \A i \in 1 .. Len(s) : Append(s, e)[i] = s[i]
           /\ Append(s, e)[Len(s) + 1] = e
OBVIOUS

LEMMA TailFacts ==
    ASSUME NEW S, NEW s \in Seq(S), s # <<>>
    PROVE  /\ Tail(s) \in Seq(S) /\ Head(s) = s[1] /\ Head(s) \in S
           /\ Len(s) \in Nat /\ Len(s) > 0
           /\ Len(Tail(s)) = Len(s) - 1
           /\ \A i \in 1 .. Len(Tail(s)) : Tail(s)[i] = s[i + 1]
OBVIOUS

LEMMA StoredFinite ==
    /\ IsFiniteSet(Services) /\ Cardinality(Services) = GAME_LOGIC_SERVICE_NUM
    /\ \A T \in SUBSET Services :
         /\ IsFiniteSet(T) /\ Cardinality(T) \in Nat
         /\ Cardinality(T) <= GAME_LOGIC_SERVICE_NUM
         /\ Cardinality(T) = GAME_LOGIC_SERVICE_NUM => T = Services
<1>1. IsFiniteSet(Services) /\ Cardinality(Services) = GAME_LOGIC_SERVICE_NUM
  BY FS_Interval, SMT DEF Services
<1>2. ASSUME NEW T \in SUBSET Services
      PROVE  /\ IsFiniteSet(T) /\ Cardinality(T) \in Nat
             /\ Cardinality(T) <= GAME_LOGIC_SERVICE_NUM
             /\ Cardinality(T) = GAME_LOGIC_SERVICE_NUM => T = Services
  BY <1>1, FS_Subset, FS_CardinalityType
<1> QED BY <1>1, <1>2

-----------------------------------------------------------------------------
LEMMA InitIInv == Init => IInv
<1> SUFFICES ASSUME Init PROVE IInv
  OBVIOUS
<1>1. TypeOK
  BY Names DEF Init, TypeOK, Empty, Slots
<1>2. Pool /\ RouterOnce
  BY Names DEF Init, Pool, PoolBefore, PoolRunning, RouterOnce, Before, After
<1>3. Stored = {}
  BY DEF Init, Stored
<1>4. Sockets
  BY <1>3, FS_EmptySet, Names DEF Init, Sockets
<1>5. GamesOnce
  BY DEF Init, GamesOnce
<1> QED BY <1>1, <1>2, <1>4, <1>5 DEF IInv

-----------------------------------------------------------------------------
(* net_io's pool.                                                          *)

\* The thread that is accepted next has no socket stored yet.
LEMMA RoomToStore ==
    ASSUME TypeOK, Sockets, GamesOnce, router_backlog # <<>>,
           Head(router_backlog) \in Services
    PROVE  /\ accept_num \in Nat /\ accept_num + 1 \in 0 .. GAME_LOGIC_SERVICE_NUM
           /\ gamelog_socket[Head(router_backlog)] = NoOne
<1>1. /\ Head(router_backlog) \in Services /\ Head(router_backlog) = router_backlog[1]
      /\ 1 \in 1 .. Len(router_backlog)
  BY TailFacts DEF TypeOK
<1>2. gamelog_socket[Head(router_backlog)] = NoOne
  BY <1>1 DEF GamesOnce
<1>3. Stored # Services /\ Stored \in SUBSET Services
  BY <1>1, <1>2 DEF Stored
<1>4. accept_num = Cardinality(Stored)
  BY DEF Sockets
<1>5. accept_num \in Nat /\ accept_num <= GAME_LOGIC_SERVICE_NUM /\ accept_num # GAME_LOGIC_SERVICE_NUM
  BY <1>3, <1>4, StoredFinite
<1> QED BY <1>1, <1>2, <1>5

LEMMA TypeStep == IInv /\ [Next]_vars => TypeOK'
<1> SUFFICES ASSUME TypeOK, Pool, Sockets, GamesOnce, [Next]_vars PROVE TypeOK'
  BY DEF IInv
<1> USE Names
<1>1. CASE PthreadCreate
  <2>1. CreationOrder(created) \in Threads
    BY <1>1 DEF PthreadCreate, CreationOrder, TypeOK, Threads, Services
  <2> QED BY <1>1, <2>1 DEF PthreadCreate, TypeOK, Goes, netio, router
<1>2. ASSUME NEW t \in Threads, Fail(t) PROVE TypeOK'
  BY <1>2 DEF Fail, TypeOK, Goes, netio, router
<1>3. CASE NetioListen
  <2>1. alloc_id = 0 /\ 1 \in Slots
    BY <1>3 DEF NetioListen, Goes, Pool, PoolBefore, Slots
  <2> QED BY <1>3, <2>1 DEF NetioListen, TakeSlot, apply_id, TypeOK, Goes, router, Slots
<1>4. CASE NetioAcceptsRouter
  <2>1. alloc_id = 1 /\ 2 \in Slots
    BY <1>4 DEF NetioAcceptsRouter, Goes, Pool, PoolBefore, Slots
  <2>2. io_backlog' \in Seq(Clients \cup {NetLogic}) /\ Len(io_backlog') <= Backlog
    BY <1>4, TailFacts DEF NetioAcceptsRouter, TypeOK
  <2> QED BY <1>4, <2>1, <2>2 DEF NetioAcceptsRouter, TakeSlot, apply_id, TypeOK, Goes, router, Slots
<1>5. CASE NetioRejects
  <2>1. io_backlog' \in Seq(Clients \cup {NetLogic}) /\ Len(io_backlog') <= Backlog
    BY <1>5, TailFacts DEF NetioRejects, TypeOK
  <2> QED BY <1>5, <2>1 DEF NetioRejects, TypeOK, netio, router
<1>6. CASE NetioStarts
  <2>1. socket_pool' = [socket_pool EXCEPT ![1].type = "LISTEN_ADD"] /\ 1 \in Slots
    BY <1>6 DEF NetioStarts, Slots
  <2> DEFINE Slot == [type : {"INVALID", "LISTEN_NOTADD", "LISTEN_ADD", "NETLOGIC", "CONNECT_ADD"},
                      peer : Clients \cup {NetLogic, NoOne}]
  <2>2. socket_pool' \in [Slots -> Slot]
    <3>1. socket_pool \in [Slots -> Slot] /\ socket_pool[1] \in Slot
      BY <2>1 DEF TypeOK
    <3>2. [socket_pool[1] EXCEPT !.type = "LISTEN_ADD"] \in Slot
      BY <3>1
    <3> HIDE DEF Slot
    <3> QED BY <2>1, <3>1, <3>2
  <2> QED BY <1>6, <2>2 DEF NetioStarts, TypeOK, Goes, router
<1>7. CASE NetioAdmits
  <2>1. /\ io_backlog' \in Seq(Clients \cup {NetLogic}) /\ Len(io_backlog') <= Backlog
        /\ Head(io_backlog) \in Clients \cup {NetLogic}
    BY <1>7, TailFacts DEF NetioAdmits, TypeOK
  <2>2. alloc_id' \in 0 .. MaxSocket - 1
    BY <1>7 DEF NetioAdmits, TakeSlot, apply_id, TypeOK, Slots
  <2> QED BY <1>7, <2>1, <2>2 DEF NetioAdmits, TakeSlot, TypeOK, router
<1>8. CASE NetlogicListen
  BY <1>8 DEF NetlogicListen, TypeOK, Goes, netio, router
<1>9. CASE ConnectNetioService
  <2>1. io_backlog' \in Seq(Clients \cup {NetLogic}) /\ Len(io_backlog') <= Backlog
    BY <1>9, AppendFacts DEF ConnectNetioService, Room, TypeOK
  <2> QED BY <1>9, <2>1 DEF ConnectNetioService, TypeOK, Goes, netio, router
<1>10. CASE AcceptGamelogService
  <2> DEFINE g == Head(router_backlog)
  <2>1. /\ router_backlog' \in Seq(Services \cup Clients) /\ Len(router_backlog') <= Backlog
        /\ g \in Services
    BY <1>10, TailFacts DEF AcceptGamelogService, TypeOK
  <2>2. ServiceOfPort(service_port(g)) = g
    BY <2>1, OwnPort
  <2>3. gamelog_socket' = [gamelog_socket EXCEPT ![g] = g]
    BY <1>10, <2>2 DEF AcceptGamelogService
  <2>4. gamelog_socket' \in [Services -> Services \cup {NoOne}]
    BY <2>1, <2>3 DEF TypeOK
  <2>5. /\ service_pool' \in {service_pool, gamelog_socket'}
        /\ pc' \in {pc, [pc EXCEPT ![NetLogic] = "running"]}
    BY <1>10 DEF AcceptGamelogService
  <2>6. accept_num \in Nat /\ accept_num + 1 \in 0 .. GAME_LOGIC_SERVICE_NUM
    BY <1>10, RoomToStore DEF AcceptGamelogService
  <2>7. accept_num' = accept_num + 1
    BY <1>10 DEF AcceptGamelogService
  <2> QED BY <1>10, <2>1, <2>4, <2>5, <2>6, <2>7 DEF AcceptGamelogService, TypeOK, netio
<1>11. ASSUME NEW g \in Services, ConnectNetlogicService(g) PROVE TypeOK'
  <2>1. router_backlog' \in Seq(Services \cup Clients) /\ Len(router_backlog') <= Backlog
    BY <1>11, AppendFacts DEF ConnectNetlogicService, Room, TypeOK
  <2> QED BY <1>11, <2>1 DEF ConnectNetlogicService, TypeOK, Goes, netio, router
<1>12. ASSUME NEW c \in Clients, ClientConnects(c) PROVE TypeOK'
  <2>1. io_backlog' \in Seq(Clients \cup {NetLogic}) /\ Len(io_backlog') <= Backlog
    BY <1>12, AppendFacts DEF ClientConnects, Room, TypeOK
  <2> QED BY <1>12, <2>1 DEF ClientConnects, TypeOK, netio, router
<1>13. CASE RouterRejects
  <2>1. router_backlog' \in Seq(Services \cup Clients) /\ Len(router_backlog') <= Backlog
    BY <1>13, TailFacts DEF RouterRejects, TypeOK
  <2> QED BY <1>13, <2>1 DEF RouterRejects, TypeOK, netio, router
<1>14. ASSUME NEW c \in Clients, StrayConnects(c) PROVE TypeOK'
  <2>1. router_backlog' \in Seq(Services \cup Clients) /\ Len(router_backlog') <= Backlog
    BY <1>14, AppendFacts DEF StrayConnects, Room, TypeOK
  <2> QED BY <1>14, <2>1 DEF StrayConnects, TypeOK, netio, router
<1>15. CASE UNCHANGED vars
  BY <1>15 DEF vars, netio, router, TypeOK
<1> QED
  BY <1>1, <1>2, <1>3, <1>4, <1>5, <1>6, <1>7, <1>8, <1>9, <1>10, <1>11, <1>12, <1>13, <1>14,
     <1>15 DEF Next, Netio, Router, RouterAccepts

LEMMA PoolStep == IInv /\ [Next]_vars => Pool'
<1> SUFFICES ASSUME TypeOK, Pool, RouterOnce, [Next]_vars PROVE Pool'
  BY DEF IInv
<1> USE Names
<1>1. ASSUME UNCHANGED netio,
             \/ pc'[NetIo] = pc[NetIo]
             \/ pc[NetIo] = "none" /\ pc'[NetIo] = "start"
             \/ pc[NetIo] = "start" /\ pc'[NetIo] = "ended"
      PROVE  Pool'
  BY <1>1 DEF Pool, PoolBefore, PoolRunning, netio
<1>2. CASE PthreadCreate
  <2>1. CreationOrder(created) \in Threads
    BY <1>2 DEF PthreadCreate, CreationOrder, TypeOK, Threads, Services
  <2>2. UNCHANGED netio
    BY <1>2 DEF PthreadCreate
  <2>3. pc'[NetIo] = pc[NetIo] \/ (pc[NetIo] = "none" /\ pc'[NetIo] = "start")
    BY <1>2, <2>1 DEF PthreadCreate, Goes, TypeOK
  <2> QED BY <1>1, <2>2, <2>3
<1>3. ASSUME NEW t \in Threads, Fail(t) PROVE Pool'
  <2>1. UNCHANGED netio
    BY <1>3 DEF Fail
  <2>2. pc'[NetIo] = pc[NetIo] \/ (pc[NetIo] = "start" /\ pc'[NetIo] = "ended")
    BY <1>3 DEF Fail, Goes, TypeOK
  <2> QED BY <1>1, <2>1, <2>2
<1>4. CASE NetioListen
  <2>1. alloc_id = 0 /\ 1 \in Slots /\ \A s \in Slots : socket_pool[s] = Empty
    BY <1>4 DEF NetioListen, Goes, Pool, PoolBefore, Slots
  <2>2. alloc_id' = 1 /\ pc'[NetIo] = "accept"
        /\ socket_pool' = [socket_pool EXCEPT ![1] = [type |-> "LISTEN_NOTADD", peer |-> NoOne]]
    BY <1>4, <2>1 DEF NetioListen, TakeSlot, apply_id, Goes, TypeOK
  <2> QED BY <2>1, <2>2 DEF Pool, PoolBefore, PoolRunning, TypeOK
<1>5. CASE NetioAcceptsRouter
  <2>1. /\ alloc_id = 1 /\ 2 \in Slots /\ 1 \in Slots
        /\ socket_pool[1] = [type |-> "LISTEN_NOTADD", peer |-> NoOne]
        /\ \A s \in Slots : s # 1 => socket_pool[s] = Empty
    BY <1>5 DEF NetioAcceptsRouter, Goes, Pool, PoolBefore, Slots
  <2>2. /\ alloc_id' = 2 /\ pc'[NetIo] = "add"
        /\ socket_pool' = [socket_pool EXCEPT ![2] = [type |-> "NETLOGIC", peer |-> NetLogic]]
    BY <1>5, <2>1 DEF NetioAcceptsRouter, TakeSlot, apply_id, Goes, TypeOK
  <2> QED BY <2>1, <2>2 DEF Pool, PoolBefore, PoolRunning, TypeOK, Slots
<1>6. CASE NetioStarts
  <2>1. /\ alloc_id = 2 /\ 2 \in Slots /\ 1 \in Slots
        /\ socket_pool[1] = [type |-> "LISTEN_NOTADD", peer |-> NoOne]
        /\ socket_pool[2] = [type |-> "NETLOGIC", peer |-> NetLogic]
        /\ \A s \in Slots : s > 2 => socket_pool[s] = Empty
    BY <1>6 DEF NetioStarts, Goes, Pool, PoolBefore, Slots
  <2>2. /\ alloc_id' = 2 /\ pc'[NetIo] = "running"
        /\ socket_pool' = [socket_pool EXCEPT ![1].type = "LISTEN_ADD"]
    BY <1>6, <2>1 DEF NetioStarts, Goes, TypeOK
  <2>3. /\ socket_pool'[1] = [type |-> "LISTEN_ADD", peer |-> NoOne]
        /\ \A s \in Slots : s # 1 => socket_pool'[s] = socket_pool[s]
    BY <2>1, <2>2 DEF TypeOK
  <2> QED BY <2>1, <2>2, <2>3 DEF Pool, PoolBefore, PoolRunning, Slots
<1>7. CASE NetioAdmits
  <2>1. /\ alloc_id \in Nat /\ alloc_id >= 2 /\ pc[NetIo] = "running"
        /\ socket_pool[1] = [type |-> "LISTEN_ADD", peer |-> NoOne]
        /\ socket_pool[2] = [type |-> "NETLOGIC", peer |-> NetLogic]
        /\ \A s \in Slots : s > 2 =>
              IF s <= alloc_id THEN socket_pool[s].type = "CONNECT_ADD" /\ socket_pool[s].peer \in Clients
                               ELSE socket_pool[s] = Empty
    BY <1>7 DEF NetioAdmits, Pool, PoolRunning, TypeOK
  <2>2. io_backlog # <<>> /\ Head(io_backlog) \in Clients
    BY <1>7, <2>1, TailFacts DEF NetioAdmits, TypeOK, RouterOnce, After
  <2>3. /\ alloc_id' = alloc_id + 1 /\ alloc_id + 1 \in Slots
        /\ pc' = pc
        /\ socket_pool' = [socket_pool EXCEPT ![alloc_id + 1] =
                             [type |-> "CONNECT_ADD", peer |-> Head(io_backlog)]]
    BY <1>7 DEF NetioAdmits, TakeSlot, apply_id
  <2>4. /\ 1 \in Slots /\ 2 \in Slots /\ alloc_id' >= 2
        /\ socket_pool'[1] = socket_pool[1] /\ socket_pool'[2] = socket_pool[2]
    BY <2>1, <2>3 DEF TypeOK, Slots
  <2>5. ASSUME NEW s \in Slots, s > 2
        PROVE  IF s <= alloc_id' THEN socket_pool'[s].type = "CONNECT_ADD" /\ socket_pool'[s].peer \in Clients
                                 ELSE socket_pool'[s] = Empty
    <3>1. CASE s = alloc_id + 1
      BY <2>1, <2>2, <2>3, <3>1 DEF TypeOK
    <3>2. CASE s # alloc_id + 1
      <4>1. socket_pool'[s] = socket_pool[s]
        BY <2>3, <3>2 DEF TypeOK
      <4>2. s <= alloc_id' <=> s <= alloc_id
        BY <2>1, <2>3, <3>2 DEF Slots
      <4> QED BY <2>1, <2>5, <4>1, <4>2
    <3> QED BY <3>1, <3>2
  <2> QED BY <2>1, <2>3, <2>4, <2>5 DEF Pool, PoolBefore, PoolRunning
<1>8. ASSUME UNCHANGED <<netio, pc>> PROVE Pool'
  BY <1>1, <1>8
<1>9. CASE NetlogicListen \/ ConnectNetioService
  <2>1. UNCHANGED netio /\ pc'[NetIo] = pc[NetIo]
    BY <1>9 DEF NetlogicListen, ConnectNetioService, Goes, TypeOK
  <2> QED BY <1>1, <2>1
<1>10. CASE AcceptGamelogService
  <2>1. UNCHANGED netio /\ pc'[NetIo] = pc[NetIo]
    BY <1>10 DEF AcceptGamelogService, TypeOK
  <2> QED BY <1>1, <2>1
<1>11. ASSUME NEW g \in Services, ConnectNetlogicService(g) PROVE Pool'
  <2>1. UNCHANGED netio /\ pc'[NetIo] = pc[NetIo]
    BY <1>11 DEF ConnectNetlogicService, Goes, TypeOK
  <2> QED BY <1>1, <2>1
<1> QED
  BY <1>2, <1>3, <1>4, <1>5, <1>6, <1>7, <1>8, <1>9, <1>10, <1>11
     DEF Next, Netio, Router, RouterAccepts, RouterRejects, NetioRejects, ClientConnects,
         StrayConnects, vars

-----------------------------------------------------------------------------
(* net_logic in net_io's backlog.                                          *)

LEMMA RouterOnceStep == IInv /\ [Next]_vars => RouterOnce'
<1> SUFFICES ASSUME TypeOK, Pool, RouterOnce, [Next]_vars PROVE RouterOnce'
  BY DEF IInv
<1> USE Names
<1>1. ASSUME UNCHANGED io_backlog, Before' => Before, After' = After, Before => Before'
      PROVE  RouterOnce'
  BY <1>1 DEF RouterOnce
<1>2. CASE PthreadCreate
  <2>1. CreationOrder(created) \in Threads
    BY <1>2 DEF PthreadCreate, CreationOrder, TypeOK, Threads, Services
  <2>2. \A t \in Threads : pc'[t] = pc[t] \/ (pc[t] = "none" /\ pc'[t] = "start")
    BY <1>2, <2>1 DEF PthreadCreate, Goes, TypeOK
  <2> QED BY <1>1, <1>2, <2>2 DEF PthreadCreate, Before, After
<1>3. ASSUME NEW t \in Threads, Fail(t) PROVE RouterOnce'
  <2>1. \A u \in Threads :
          \/ pc'[u] = pc[u]
          \/ pc[u] = "start" /\ pc'[u] = "ended"
          \/ u = NetLogic /\ pc[u] = "connect" /\ pc'[u] = "ended"
    BY <1>3 DEF Fail, Goes, TypeOK
  <2> QED BY <1>1, <1>3, <2>1 DEF Fail, Before, After
<1>4. CASE NetioListen
  BY <1>1, <1>4 DEF NetioListen, Goes, TypeOK, Before, After
<1>5. ASSUME io_backlog # <<>>, io_backlog' = Tail(io_backlog), Before' = Before
      PROVE  /\ After' = After => RouterOnce'
             /\ Head(io_backlog) = NetLogic => RouterOnce'
  <2>1. /\ Len(io_backlog) \in Nat /\ Len(io_backlog) > 0
        /\ Len(io_backlog') = Len(io_backlog) - 1 /\ Head(io_backlog) = io_backlog[1]
        /\ \A i \in 1 .. Len(io_backlog') : io_backlog'[i] = io_backlog[i + 1]
    BY <1>5, TailFacts DEF TypeOK
  <2>2. \A i, j \in 1 .. Len(io_backlog') :
          io_backlog'[i] = NetLogic /\ io_backlog'[j] = NetLogic => i = j
    BY <2>1 DEF RouterOnce
  <2>3. ASSUME Before \/ After
        PROVE  \A i \in 1 .. Len(io_backlog') : io_backlog'[i] # NetLogic
    BY <2>1, <2>3 DEF RouterOnce
  <2>4. ASSUME Head(io_backlog) = NetLogic
        PROVE  ~Before /\ \A i \in 1 .. Len(io_backlog') : io_backlog'[i] # NetLogic
    BY <2>1, <2>4 DEF RouterOnce
  <2>5. ASSUME After' = After PROVE RouterOnce'
    BY <1>5, <2>2, <2>3, <2>5 DEF RouterOnce
  <2>6. ASSUME Head(io_backlog) = NetLogic PROVE RouterOnce'
    BY <1>5, <2>2, <2>4, <2>6 DEF RouterOnce
  <2> QED BY <2>5, <2>6
<1>6. CASE NetioAcceptsRouter
  BY <1>5, <1>6 DEF NetioAcceptsRouter, Goes, TypeOK, Before
<1>7. CASE NetioRejects \/ NetioAdmits
  BY <1>5, <1>7 DEF NetioRejects, NetioAdmits, Before, After
<1>8. CASE NetioStarts
  BY <1>1, <1>8 DEF NetioStarts, Goes, TypeOK, Before, After
<1>9. CASE NetlogicListen
  BY <1>1, <1>9 DEF NetlogicListen, Goes, TypeOK, Before, After
<1>10. ASSUME NEW e \in Clients \cup {NetLogic}, io_backlog' = Append(io_backlog, e)
       PROVE  /\ Len(io_backlog) \in Nat /\ Len(io_backlog') = Len(io_backlog) + 1
              /\ \A i \in 1 .. Len(io_backlog) : io_backlog'[i] = io_backlog[i]
              /\ io_backlog'[Len(io_backlog) + 1] = e
  BY <1>10, AppendFacts DEF TypeOK
<1>11. CASE ConnectNetioService
  <2>1. /\ Len(io_backlog) \in Nat /\ Len(io_backlog') = Len(io_backlog) + 1
        /\ \A i \in 1 .. Len(io_backlog) : io_backlog'[i] = io_backlog[i]
        /\ io_backlog'[Len(io_backlog) + 1] = NetLogic
    BY <1>10, <1>11 DEF ConnectNetioService
  <2>2. Before /\ ~Before' /\ ~After /\ ~After'
    BY <1>11 DEF ConnectNetioService, Goes, TypeOK, Before, After, RouterOnce
  <2>3. \A i \in 1 .. Len(io_backlog) : io_backlog[i] # NetLogic
    BY <2>2 DEF RouterOnce
  <2>4. ASSUME NEW i \in 1 .. Len(io_backlog'), io_backlog'[i] = NetLogic
        PROVE  i = Len(io_backlog) + 1
    BY <2>1, <2>3, <2>4
  <2>5. \A i, j \in 1 .. Len(io_backlog') :
          io_backlog'[i] = NetLogic /\ io_backlog'[j] = NetLogic => i = j
    BY <2>4
  <2> QED BY <2>2, <2>5 DEF RouterOnce
<1>12. CASE AcceptGamelogService
  BY <1>1, <1>12 DEF AcceptGamelogService, TypeOK, Before, After
<1>13. ASSUME NEW g \in Services, ConnectNetlogicService(g) PROVE RouterOnce'
  BY <1>1, <1>13 DEF ConnectNetlogicService, Goes, TypeOK, Before, After
<1>14. ASSUME NEW c \in Clients, ClientConnects(c) PROVE RouterOnce'
  <2>1. /\ Len(io_backlog) \in Nat /\ Len(io_backlog') = Len(io_backlog) + 1
        /\ \A i \in 1 .. Len(io_backlog) : io_backlog'[i] = io_backlog[i]
        /\ io_backlog'[Len(io_backlog) + 1] = c
    BY <1>10, <1>14 DEF ClientConnects
  <2>2. Before' = Before /\ After' = After
    BY <1>14 DEF ClientConnects, Before, After
  <2>3. ASSUME NEW i \in 1 .. Len(io_backlog'), io_backlog'[i] = NetLogic
        PROVE  i \in 1 .. Len(io_backlog) /\ io_backlog[i] = NetLogic
    BY <2>1, <2>3
  <2>4. \A i, j \in 1 .. Len(io_backlog') :
          io_backlog'[i] = NetLogic /\ io_backlog'[j] = NetLogic => i = j
    BY <2>3 DEF RouterOnce
  <2>5. Before \/ After => \A i \in 1 .. Len(io_backlog') : io_backlog'[i] # NetLogic
    BY <2>3 DEF RouterOnce
  <2> QED BY <2>2, <2>4, <2>5 DEF RouterOnce
<1>15. CASE RouterRejects
  BY <1>1, <1>15 DEF RouterRejects, Before, After
<1>16. ASSUME NEW c \in Clients, StrayConnects(c) PROVE RouterOnce'
  BY <1>1, <1>16 DEF StrayConnects, Before, After
<1>17. CASE UNCHANGED vars
  BY <1>1, <1>17 DEF vars, Before, After
<1> QED
  BY <1>2, <1>3, <1>4, <1>6, <1>7, <1>8, <1>9, <1>11, <1>12, <1>13, <1>14, <1>15, <1>16, <1>17
     DEF Next, Netio, Router, RouterAccepts

-----------------------------------------------------------------------------
(* The game threads.                                                       *)

LEMMA GamesFrame ==
    ASSUME TypeOK, Sockets, GamesOnce, UNCHANGED <<router, router_backlog>>,
           pc'[NetLogic] = "running" => pc[NetLogic] = "running",
           \A g \in Services : pc[g] = "running" <=> pc'[g] = "running"
    PROVE  Sockets' /\ GamesOnce'
<1>1. Stored' = Stored
  BY DEF Stored, router
<1>2. Sockets'
  BY <1>1 DEF Sockets, router
<1>3. GamesOnce'
  BY DEF GamesOnce, router
<1> QED BY <1>2, <1>3

LEMMA GamesStep == IInv /\ [Next]_vars => Sockets' /\ GamesOnce'
<1> SUFFICES ASSUME TypeOK, Sockets, GamesOnce, [Next]_vars PROVE Sockets' /\ GamesOnce'
  BY DEF IInv
<1> USE Names
<1>1. CASE PthreadCreate
  <2>1. CreationOrder(created) \in Threads
    BY <1>1 DEF PthreadCreate, CreationOrder, TypeOK, Threads, Services
  <2>2. \A t \in Threads : pc'[t] = pc[t] \/ (pc[t] = "none" /\ pc'[t] = "start")
    BY <1>1, <2>1 DEF PthreadCreate, Goes, TypeOK
  <2>3. UNCHANGED <<router, router_backlog>>
    BY <1>1 DEF PthreadCreate
  <2>4. /\ pc'[NetLogic] = "running" => pc[NetLogic] = "running"
        /\ \A g \in Services : pc[g] = "running" <=> pc'[g] = "running"
    BY <2>2
  <2> QED BY <2>3, <2>4, GamesFrame
<1>2. ASSUME NEW t \in Threads, Fail(t) PROVE Sockets' /\ GamesOnce'
  <2>1. \A u \in Threads :
          \/ pc'[u] = pc[u]
          \/ pc[u] = "start" /\ pc'[u] = "ended"
          \/ u = NetLogic /\ pc[u] = "connect" /\ pc'[u] = "ended"
    BY <1>2 DEF Fail, Goes, TypeOK
  <2>2. UNCHANGED <<router, router_backlog>>
    BY <1>2 DEF Fail
  <2>3. /\ pc'[NetLogic] = "running" => pc[NetLogic] = "running"
        /\ \A g \in Services : pc[g] = "running" <=> pc'[g] = "running"
    BY <2>1
  <2> QED BY <2>2, <2>3, GamesFrame
<1>3. ASSUME Netio \/ NetlogicListen \/ ConnectNetioService \/ (\E c \in Clients : ClientConnects(c))
      PROVE  Sockets' /\ GamesOnce'
  <2>1. UNCHANGED <<router, router_backlog>>
    BY <1>3 DEF Netio, NetioListen, NetioAcceptsRouter, NetioRejects, NetioStarts, NetioAdmits,
                NetlogicListen, ConnectNetioService, ClientConnects
  <2>2. /\ pc'[NetLogic] = "running" => pc[NetLogic] = "running"
        /\ \A g \in Services : pc'[g] = pc[g]
    BY <1>3 DEF Netio, NetioListen, NetioAcceptsRouter, NetioRejects, NetioStarts, NetioAdmits,
                NetlogicListen, ConnectNetioService, ClientConnects, Goes, TypeOK
  <2> QED BY <2>1, <2>2, GamesFrame
<1>4. CASE AcceptGamelogService
  <2> DEFINE g == Head(router_backlog)
  <2>1. /\ g \in Services /\ gamelog_socket[g] = NoOne /\ g = router_backlog[1]
        /\ Len(router_backlog) \in Nat /\ Len(router_backlog) > 0
        /\ router_backlog' = Tail(router_backlog)
        /\ Len(router_backlog') = Len(router_backlog) - 1
        /\ \A k \in 1 .. Len(router_backlog') : router_backlog'[k] = router_backlog[k + 1]
    BY <1>4, RoomToStore, TailFacts DEF AcceptGamelogService, TypeOK
  <2>2. gamelog_socket' = [gamelog_socket EXCEPT ![g] = g]
    BY <1>4, <2>1, OwnPort DEF AcceptGamelogService
  <2>3. /\ gamelog_socket'[g] = g
        /\ \A i \in Services : i # g => gamelog_socket'[i] = gamelog_socket[i]
    BY <2>1, <2>2 DEF TypeOK
  <2>4. Stored' = Stored \cup {g} /\ g \notin Stored /\ Stored \in SUBSET Services
    BY <2>1, <2>3 DEF Stored
  <2>5. Cardinality(Stored') = Cardinality(Stored) + 1
    BY <2>4, StoredFinite, FS_AddElement
  <2>6. /\ accept_num' = accept_num + 1
        /\ IF accept_num' = GAME_LOGIC_SERVICE_NUM
           THEN pc' = [pc EXCEPT ![NetLogic] = "running"] /\ service_pool' = gamelog_socket'
           ELSE pc' = pc
        /\ pc[NetLogic] = "accept"
    BY <1>4 DEF AcceptGamelogService
  <2>7. Stored' \in SUBSET Services /\ accept_num' = Cardinality(Stored')
    BY <2>1, <2>4, <2>5, <2>6 DEF Sockets
  <2>8. pc'[NetLogic] = "running" => Stored' = Services /\ service_pool' = gamelog_socket'
    BY <2>6, <2>7, StoredFinite DEF TypeOK
  <2>9. \A i \in Services : gamelog_socket'[i] \in {NoOne, i}
    BY <2>3 DEF Sockets
  <2>10. Sockets'
    BY <2>7, <2>8, <2>9 DEF Sockets
  <2>11. \A h \in Services : pc'[h] = pc[h]
    BY <2>6 DEF TypeOK
  <2>12. pc[g] = "running"
    BY <2>1 DEF GamesOnce
  <2>13. ASSUME NEW k \in 1 .. Len(router_backlog'), router_backlog'[k] \in Services
         PROVE  /\ pc'[router_backlog'[k]] = "running"
                /\ gamelog_socket'[router_backlog'[k]] = NoOne
    <3>1. /\ k + 1 \in 1 .. Len(router_backlog) /\ 1 \in 1 .. Len(router_backlog) /\ k + 1 # 1
          /\ router_backlog'[k] = router_backlog[k + 1]
      BY <2>1
    <3>2. router_backlog[k + 1] \in Services /\ router_backlog[k + 1] # g
      BY <2>1, <2>13, <3>1 DEF GamesOnce
    <3> QED BY <2>3, <2>11, <3>1, <3>2 DEF GamesOnce
  <2>14. \A k, l \in 1 .. Len(router_backlog') :
            router_backlog'[k] \in Services /\ router_backlog'[k] = router_backlog'[l] => k = l
    BY <2>1 DEF GamesOnce
  <2>15. \A h \in Services : pc'[h] # "running" => gamelog_socket'[h] = NoOne
    BY <2>3, <2>11, <2>12 DEF GamesOnce
  <2> QED BY <2>10, <2>13, <2>14, <2>15 DEF GamesOnce
<1>5. ASSUME NEW g \in Services, ConnectNetlogicService(g) PROVE Sockets' /\ GamesOnce'
  <2>1. /\ Len(router_backlog) \in Nat /\ Len(router_backlog') = Len(router_backlog) + 1
        /\ \A k \in 1 .. Len(router_backlog) : router_backlog'[k] = router_backlog[k]
        /\ router_backlog'[Len(router_backlog) + 1] = g
    BY <1>5, AppendFacts DEF ConnectNetlogicService, TypeOK
  <2>2. /\ UNCHANGED router /\ pc[g] = "start" /\ pc'[g] = "running"
        /\ \A t \in Threads : t # g => pc'[t] = pc[t]
    BY <1>5 DEF ConnectNetlogicService, Goes, TypeOK
  <2>3. Stored' = Stored
    BY <2>2 DEF Stored, router
  <2>4. Sockets'
    BY <2>2, <2>3 DEF Sockets, router
  <2>5. gamelog_socket' = gamelog_socket /\ gamelog_socket[g] = NoOne
    BY <2>2 DEF GamesOnce, router
  <2>6. ASSUME NEW k \in 1 .. Len(router_backlog) PROVE router_backlog[k] # g
    BY <2>2 DEF GamesOnce
  <2>7. ASSUME NEW k \in 1 .. Len(router_backlog'), router_backlog'[k] \in Services
        PROVE  /\ pc'[router_backlog'[k]] = "running"
               /\ gamelog_socket'[router_backlog'[k]] = NoOne
    <3>1. CASE k = Len(router_backlog) + 1
      BY <2>1, <2>2, <2>5, <3>1
    <3>2. CASE k \in 1 .. Len(router_backlog)
      BY <2>1, <2>2, <2>5, <2>6, <2>7, <3>2 DEF GamesOnce
    <3> QED BY <2>1, <3>1, <3>2
  <2>8. \A k, l \in 1 .. Len(router_backlog') :
          router_backlog'[k] \in Services /\ router_backlog'[k] = router_backlog'[l] => k = l
    BY <2>1, <2>6 DEF GamesOnce
  <2>9. \A h \in Services : pc'[h] # "running" => gamelog_socket'[h] = NoOne
    BY <2>2, <2>5 DEF GamesOnce
  <2> QED BY <2>4, <2>7, <2>8, <2>9 DEF GamesOnce
<1>6. CASE RouterRejects
  <2>1. /\ UNCHANGED <<pc, router>> /\ router_backlog # <<>>
        /\ Len(router_backlog) \in Nat /\ Len(router_backlog) > 0
        /\ Len(router_backlog') = Len(router_backlog) - 1
        /\ \A k \in 1 .. Len(router_backlog') : router_backlog'[k] = router_backlog[k + 1]
    BY <1>6, TailFacts DEF RouterRejects, TypeOK
  <2>2. Stored' = Stored
    BY <2>1 DEF Stored, router
  <2>3. Sockets'
    BY <2>1, <2>2 DEF Sockets, router
  <2>4. \A k \in 1 .. Len(router_backlog') : k + 1 \in 1 .. Len(router_backlog)
    BY <2>1
  <2>5. GamesOnce'
    BY <2>1, <2>4 DEF GamesOnce, router
  <2> QED BY <2>3, <2>5
<1>7. ASSUME NEW c \in Clients, StrayConnects(c) PROVE Sockets' /\ GamesOnce'
  <2>1. /\ UNCHANGED <<pc, router>>
        /\ Len(router_backlog) \in Nat /\ Len(router_backlog') = Len(router_backlog) + 1
        /\ \A k \in 1 .. Len(router_backlog) : router_backlog'[k] = router_backlog[k]
        /\ router_backlog'[Len(router_backlog) + 1] = c
    BY <1>7, AppendFacts DEF StrayConnects, TypeOK
  <2>2. Stored' = Stored
    BY <2>1 DEF Stored, router
  <2>3. Sockets'
    BY <2>1, <2>2 DEF Sockets, router
  <2>4. ASSUME NEW k \in 1 .. Len(router_backlog'), router_backlog'[k] \in Services
        PROVE  k \in 1 .. Len(router_backlog) /\ router_backlog'[k] = router_backlog[k]
    BY <2>1, <2>4
  <2>5. GamesOnce'
    BY <2>1, <2>4 DEF GamesOnce, router
  <2> QED BY <2>3, <2>5
<1>8. CASE UNCHANGED vars
  BY <1>8, GamesFrame DEF vars
<1> QED
  BY <1>1, <1>2, <1>3, <1>4, <1>5, <1>6, <1>7, <1>8 DEF Next, Router, RouterAccepts

LEMMA Inductive == Spec => []IInv
<1>1. IInv /\ [Next]_vars => IInv'
  BY TypeStep, PoolStep, RouterOnceStep, GamesStep DEF IInv
<1> QED BY InitIInv, <1>1, PTL DEF Spec

-----------------------------------------------------------------------------
(***************************************************************************)
(* Every variable keeps its type; the backlogs keep their limits.          *)
(***************************************************************************)
THEOREM TypeCorrect == Spec => []TypeOK
BY Inductive, PTL DEF IInv

(***************************************************************************)
(* net_io's loop starts from the listening socket under id 1 and net_logic *)
(* under id 2, whoever connected before, and no client gets a slot before  *)
(* net_logic has its own (socket_server.c:865-890).                        *)
(***************************************************************************)
THEOREM PoolIsReady == Spec => []PoolReady
<1>1. TypeOK /\ Pool => StartsAsAssumed
  <2> SUFFICES ASSUME TypeOK, Pool, pc[NetIo] = "running" PROVE StartsAsAssumed
    BY DEF StartsAsAssumed
  <2>1. PoolRunning
    BY DEF Pool
  <2>2. \A s \in 3 .. MaxSocket - 1 : s \in Slots /\ s > 2
    BY DEF Slots
  <2> QED BY <2>1, <2>2 DEF PoolRunning, StartsAsAssumed
<1>2. TypeOK /\ Pool => RouterFirst
  <2> SUFFICES ASSUME TypeOK, Pool, NEW s \in Slots, socket_pool[s].peer \in Clients
               PROVE  s > 2 /\ socket_pool[2].peer = NetLogic
    BY DEF RouterFirst
  <2>1. NoOne \notin Clients /\ NetLogic \notin Clients /\ 2 \in Slots /\ 1 \in Slots
    BY DEF Slots
  <2>2. pc[NetIo] \in {"none", "start", "accept", "add", "running", "ended"}
    BY Names DEF TypeOK, Pool
  <2>3. pc[NetIo] \notin {"none", "start", "ended", "accept"}
    BY <2>1 DEF Pool, PoolBefore, Empty
  <2>4. socket_pool[2] = [type |-> "NETLOGIC", peer |-> NetLogic] /\ socket_pool[1].peer = NoOne
    BY <2>2, <2>3 DEF Pool, PoolBefore, PoolRunning
  <2>5. s # 1 /\ s # 2
    BY <2>1, <2>4
  <2> QED BY <2>4, <2>5 DEF Slots
<1>3. TypeOK /\ Pool => PoolReady
  BY <1>1, <1>2 DEF PoolReady
<1> QED BY Inductive, <1>3, PTL DEF IInv

(***************************************************************************)
(* In whatever order the game threads connect, net_logic wakes for each    *)
(* service the thread that reads the queue of that service.                *)
(***************************************************************************)
THEOREM ServicesAreWired == Spec => []Wired
<1>1. TypeOK /\ Sockets => Wired
  <2> SUFFICES ASSUME TypeOK, Sockets, pc[NetLogic] = "running", NEW i \in Services
               PROVE  /\ gamelog_socket[i] \in Services
                      /\ service_que(gamelog_socket[i]) = que_2_gamelogic(i)
                      /\ service_pool[i] = gamelog_socket[i]
    BY DEF Wired
  <2>1. gamelog_socket[i] = i /\ service_pool = gamelog_socket
    BY DEF Sockets, Stored
  <2> QED BY <2>1, OwnPort
<1> QED BY Inductive, <1>1, PTL DEF IInv
=============================================================================
