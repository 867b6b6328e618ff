--------------------------- MODULE NetLogicProofs ---------------------------
(* Theorems about the router, for any number of clients and services.      *)
EXTENDS NetLogic, FiniteSetTheorems, WellFoundedInduction, TLAPS

\* Where a search for the first free entry stops.
LEMMA LeastNatural ==
    ASSUME NEW T, T \subseteq Nat, T # {}
    PROVE  \E x \in T : \A y \in T : ~(y < x)
<1> DEFINE R == OpToRel(<, Nat)
<1>1. IsWellFoundedOn(R, Nat)
  BY NatLessThanWellFounded DEF OpToRel
<1>2. \A x, y \in Nat : <<y, x>> \in R <=> y < x
  BY DEF OpToRel
<1> HIDE DEF R
<1>3. PICK x \in T : \A y \in T : ~(<<y, x>> \in R)
  BY <1>1, WFMin, Zenon
<1> QED BY <1>2, <1>3

-----------------------------------------------------------------------------
(* Conversions to 8 bits.                                                  *)

LEMMA ByteRemainder ==
    \A n \in Int : /\ n % 256 \in 0 .. 255
                   /\ n \div 256 \in Int
                   /\ n = 256 * (n \div 256) + (n % 256)
OBVIOUS

LEMMA ByteOfMinusOne == (-1) % 256 = 255
<1>1. -1 \in Int
  OBVIOUS
<1>2. \A q, r \in Int : -1 = 256 * q + r /\ r \in 0 .. 255 => r = 255
  OBVIOUS
<1>3. /\ (-1) % 256 \in 0 .. 255
      /\ (-1) \div 256 \in Int
      /\ -1 = 256 * ((-1) \div 256) + ((-1) % 256)
  BY <1>1, ByteRemainder
<1> QED BY <1>2, <1>3

-----------------------------------------------------------------------------
(* The id that route_distribute_gamelogic returns.                         *)

LEMMA ServiceIds ==
    /\ 255 \notin Services
    /\ INVALID \notin Services
    /\ \A g \in Services : Uint8(g) = g /\ Char(g) = g
    /\ Uint8(-1) = 255
    /\ Char(255) = INVALID
<1>1. \A n \in 0 .. 126 : n % 256 = n
  OBVIOUS
<1>2. (-1) % 256 = 255 /\ 255 % 256 = 255
  BY ByteOfMinusOne
<1>3. Services \subseteq 0 .. 126
  BY NumServicesAssumption DEF Services
<1>4. \A g \in Services : Uint8(g) = g /\ Char(g) = g
  BY <1>1, <1>3 DEF Uint8, Char
<1> QED BY <1>2, <1>3, <1>4 DEF Uint8, Char, INVALID

(* Either a service with room, or 255 when every service is full.          *)
LEMMA DistributeResult ==
    LET id == route_distribute_gamelogic IN
    \/ id \in Services /\ HasRoom(id)
    \/ id = 255 /\ \A g \in Services : ~HasRoom(g)
<1> DEFINE T == {g \in Services : HasRoom(g)}
           First(g) == HasRoom(g) /\ \A h \in Services : h < g => ~HasRoom(h)
<1>1. CASE \E g \in Services : HasRoom(g)
  <2>1. PICK x \in T : \A y \in T : ~(y < x)
    <3>1. T \subseteq Nat /\ T # {}
      BY <1>1, NumServicesAssumption DEF Services
    <3> HIDE DEF T
    <3> QED BY <3>1, LeastNatural
  <2>2. x \in Services /\ First(x)
    BY <2>1
  <2> DEFINE c == CHOOSE g \in Services : First(g)
  <2>3. c \in Services /\ First(c)
    BY <2>2
  <2>4. route_distribute_gamelogic = Uint8(c)
    BY <1>1 DEF route_distribute_gamelogic
  <2> QED BY <2>3, <2>4, ServiceIds
<1>2. CASE ~(\E g \in Services : HasRoom(g))
  BY <1>2, ServiceIds DEF route_distribute_gamelogic
<1> QED BY <1>1, <1>2

-----------------------------------------------------------------------------
(* Type correctness.                                                       *)

LEMMA TypeInit == Init => TypeOK
<1> SUFFICES ASSUME Init PROVE TypeOK
  OBVIOUS
<1>1. \A S : <<>> \in Seq(S)
  OBVIOUS
<1>2. que_2_gamelogic \in [Services -> Seq(IoMsgs)]
  BY <1>1 DEF Init
<1>3. sock_id2game_logic \in [Uids -> Services \cup {INVALID}]
  BY DEF Init, RouterInit
<1>4. online_player \in [Services -> Int]
  BY DEF Init, RouterInit
<1> QED BY <1>1, <1>2, <1>3, <1>4 DEF Init, RouterInit, TypeOK, Faults

(* A popped message is one of net_io's.                                    *)
LEMMA PoppedMessage ==
    ASSUME TypeOK, NEW t, PopNetIo(t)
    PROVE  LET m == Head(io2netlogic_que) IN
           /\ m \in IoMsgs
           /\ m.uid \in Uids
           /\ m.type = t
           /\ io2netlogic_que' \in Seq(IoMsgs)
<1>1. Head(io2netlogic_que) \in IoMsgs /\ io2netlogic_que' \in Seq(IoMsgs)
  BY DEF TypeOK, PopNetIo
<1>2. \A m \in IoMsgs : m.uid \in Uids
  BY IoMsgsAssumption DEF UserMsgs
<1> QED BY <1>1, <1>2 DEF PopNetIo

(* What the forwarding leaves behind.                                      *)
LEMMA SendType ==
    ASSUME TypeOK, NEW m \in IoMsgs, m.uid \in Uids, SendToGameLogic(m)
    PROVE  /\ que_2_gamelogic' \in [Services -> Seq(IoMsgs)]
           /\ game_service_id' \in Services \cup {INVALID, 255}
           /\ Routed(m.uid) => /\ game_service_id' = sock_id2game_logic[m.uid]
                               /\ game_service_id' \in Services
<1>1. CASE Routed(m.uid)
  <2>1. sock_id2game_logic[m.uid] \in Services
    BY <1>1 DEF TypeOK, Routed
  <2>2. /\ game_service_id' = sock_id2game_logic[m.uid]
        /\ que_2_gamelogic' = [que_2_gamelogic EXCEPT
                 ![sock_id2game_logic[m.uid]] = Append(@, m)]
    BY <1>1 DEF SendToGameLogic
  <2> QED BY <2>1, <2>2 DEF TypeOK
<1>2. CASE ~Routed(m.uid)
  BY <1>2 DEF SendToGameLogic, TypeOK
<1> QED BY <1>1, <1>2

LEMMA TypeStep == TypeOK /\ [Next]_vars => TypeOK'
<1> SUFFICES ASSUME TypeOK, [Next]_vars PROVE TypeOK'
  OBVIOUS
<1>1. ASSUME NEW q \in {"io", "game"}, NetLogicWake(q) PROVE TypeOK'
  BY <1>1 DEF NetLogicWake, TypeOK, queues, router
<1>2. CASE QueueNull
  BY <1>2 DEF QueueNull, TypeOK, queues, router
<1>3. CASE NewClient
  <2> DEFINE m == Head(io2netlogic_que)
             id == route_distribute_gamelogic
  <2>1. PopNetIo("S") /\ UNCHANGED <<que_2_net_logic, current_que, fault>>
    BY <1>3 DEF NewClient
  <2>2. m \in IoMsgs /\ m.uid \in Uids /\ io2netlogic_que' \in Seq(IoMsgs)
    BY <2>1, PoppedMessage
  <2>3. CASE AssignService(m, id)
    <3>1. id \in Services \cup {255} /\ Char(id) \in Services \cup {INVALID}
      BY DistributeResult, ServiceIds
    <3> HIDE DEF m, id
    <3>2. /\ sock_id2game_logic' \in [Uids -> Services \cup {INVALID}]
          /\ game_service_id' \in Services \cup {INVALID, 255}
          /\ netlogic2io_que' = netlogic2io_que
      BY <2>2, <2>3, <3>1 DEF AssignService, TypeOK
    <3>3. CASE id \in Services
      <4>1. /\ online_player' = [online_player EXCEPT ![id] = @ + 1]
            /\ que_2_gamelogic' = [que_2_gamelogic EXCEPT ![id] = Append(@, m)]
            /\ stray_write' = stray_write
        BY <2>3, <3>3 DEF AssignService
      <4> QED BY <2>1, <2>2, <3>2, <3>3, <4>1 DEF TypeOK
    <3>4. CASE id \notin Services
      <4>1. /\ UNCHANGED <<online_player, que_2_gamelogic>>
            /\ stray_write' = TRUE
        BY <2>3, <3>4 DEF AssignService
      <4> QED BY <2>1, <2>2, <3>2, <4>1 DEF TypeOK
    <3> QED BY <3>3, <3>4
  <2>4. CASE ReportServiceFull(m.uid)
    <3> HIDE DEF m
    <3>1. netlogic2io_que' \in Seq([event : {"NULL"}, msg : GameMsgs]
                                   \cup [event : {"F"}, uid : Uids])
      BY <2>2, <2>4 DEF ReportServiceFull, ServiceFull, TypeOK
    <3> QED BY <2>1, <2>2, <2>4, <3>1 DEF ReportServiceFull, TypeOK
  <2> QED BY <1>3, <2>3, <2>4 DEF NewClient
<1>4. CASE ForwardData
  <2>1. /\ PopNetIo("D")
        /\ UNCHANGED <<netlogic2io_que, que_2_net_logic, sock_id2game_logic,
                       online_player, current_que, stray_write>>
    BY <1>4 DEF ForwardData
  <2>2. CASE Head(io2netlogic_que).req = "BAD_LOG_REQ"
    <3>1. UNCHANGED <<game_service_id, que_2_gamelogic>> /\ fault' \in Faults
      BY <1>4, <2>2 DEF ForwardData, Faults
    <3> QED BY <2>1, <3>1, PoppedMessage DEF TypeOK
  <2>3. CASE Head(io2netlogic_que).req # "BAD_LOG_REQ"
    <3>1. SendToGameLogic(Head(io2netlogic_que)) /\ UNCHANGED fault
      BY <1>4, <2>3 DEF ForwardData
    <3> QED BY <2>1, <3>1, PoppedMessage, SendType DEF TypeOK
  <2> QED BY <2>2, <2>3
<1>5. CASE ForwardClose
  <2> DEFINE m == Head(io2netlogic_que)
  <2>1. /\ PopNetIo("C")
        /\ SendToGameLogic(m)
        /\ UNCHANGED <<netlogic2io_que, que_2_net_logic, current_que, stray_write, fault>>
    BY <1>5 DEF ForwardClose
  <2>2. m \in IoMsgs /\ m.uid \in Uids /\ io2netlogic_que' \in Seq(IoMsgs)
    BY <2>1, PoppedMessage
  <2>3. Routed(m.uid) => game_service_id' \in Services
    BY <2>1, <2>2, SendType
  <2>4. /\ sock_id2game_logic' \in [Uids -> Services \cup {INVALID}]
        /\ online_player' \in [Services -> Int]
    <3>1. CASE Routed(m.uid)
      <4>1. /\ sock_id2game_logic' = [sock_id2game_logic EXCEPT ![m.uid] = INVALID]
            /\ online_player' = [online_player EXCEPT ![game_service_id'] = @ - 1]
        BY <1>5, <3>1 DEF ForwardClose
      <4> HIDE DEF m
      <4> QED BY <2>2, <2>3, <3>1, <4>1 DEF TypeOK
    <3>2. CASE ~Routed(m.uid)
      BY <1>5, <3>2 DEF ForwardClose, TypeOK
    <3> QED BY <3>1, <3>2
  <2> QED BY <2>1, <2>2, <2>4, SendType DEF TypeOK
<1>6. CASE ForwardBroadcast
  <2>1. Head(que_2_net_logic) \in GameMsgs /\ que_2_net_logic' \in Seq(GameMsgs)
    BY <1>6 DEF ForwardBroadcast, TypeOK
  <2>2. netlogic2io_que' \in Seq([event : {"NULL"}, msg : GameMsgs]
                                 \cup [event : {"F"}, uid : Uids])
    BY <1>6, <2>1 DEF ForwardBroadcast, ToNetIo, TypeOK
  <2> QED BY <1>6, <2>1, <2>2 DEF ForwardBroadcast, router, TypeOK
<1>7. ASSUME NEW m \in IoMsgs, NetIoPush(m) PROVE TypeOK'
  BY <1>7 DEF NetIoPush, router, TypeOK
<1>8. CASE NetIoPop
  BY <1>8 DEF NetIoPop, router, TypeOK
<1>9. ASSUME NEW g \in Services, GameLogicPop(g) PROVE TypeOK'
  BY <1>9 DEF GameLogicPop, router, TypeOK
<1>10. ASSUME NEW m \in GameMsgs, GameLogicPush(m) PROVE TypeOK'
  BY <1>10 DEF GameLogicPush, router, TypeOK
<1>11. CASE UNCHANGED vars
  BY <1>11 DEF vars, queues, router, TypeOK
<1> QED
  BY <1>1, <1>2, <1>3, <1>4, <1>5, <1>6, <1>7, <1>8, <1>9, <1>10, <1>11
  DEF Next, NetLogicStep, Environment

(***************************************************************************)
(* Every state of the router is well typed: in particular the table holds  *)
(* only real services and INVALID, despite the uint8_t and char conversions*)
(* between route_distribute_gamelogic and the table (net_logic.c:140-163). *)
(***************************************************************************)
THEOREM TypeCorrect == Spec => []TypeOK
BY TypeInit, TypeStep, PTL DEF Spec

-----------------------------------------------------------------------------
(* The counters and the table.                                             *)

LEMMA ClientsFinite ==
    ASSUME NEW g
    PROVE  /\ IsFiniteSet(ClientsAt(g))
           /\ Cardinality(ClientsAt(g)) \in Nat
           /\ IsFiniteSet(ClientsAt(g)')
<1>1. ClientsAt(g) \subseteq Uids /\ ClientsAt(g)' \subseteq Uids
  BY DEF ClientsAt
<1> QED BY <1>1, UidsAssumption, FS_Subset, FS_CardinalityType

(* A client without a service is given service g.                          *)
LEMMA RouteSet ==
    ASSUME TypeOK, OnlineMatchesRoute, NEW u \in Uids, ~Routed(u),
           NEW g \in Services,
           sock_id2game_logic' = [sock_id2game_logic EXCEPT ![u] = g],
           online_player' = [online_player EXCEPT ![g] = @ + 1]
    PROVE  OnlineMatchesRoute'
<1> SUFFICES ASSUME NEW h \in Services
             PROVE  online_player'[h] = Cardinality(ClientsAt(h)')
  BY DEF OnlineMatchesRoute
<1>1. u \notin ClientsAt(h)
  BY ServiceIds DEF ClientsAt, Routed
<1>2. CASE h = g
  <2>1. ClientsAt(h)' = ClientsAt(h) \cup {u}
    BY <1>2 DEF ClientsAt, TypeOK
  <2>2. online_player'[h] = online_player[h] + 1
    BY <1>2 DEF TypeOK
  <2> QED BY <1>1, <2>1, <2>2, ClientsFinite, FS_AddElement DEF OnlineMatchesRoute
<1>3. CASE h # g
  <2>1. ClientsAt(h)' = ClientsAt(h)
    BY <1>1, <1>3 DEF ClientsAt, TypeOK
  <2>2. online_player'[h] = online_player[h]
    BY <1>3 DEF TypeOK
  <2> QED BY <2>1, <2>2 DEF OnlineMatchesRoute
<1> QED BY <1>2, <1>3

(* A client of service g is taken out of the table.                        *)
LEMMA RouteCleared ==
    ASSUME TypeOK, OnlineMatchesRoute, NEW u \in Uids, NEW g \in Services,
           sock_id2game_logic[u] = g,
           sock_id2game_logic' = [sock_id2game_logic EXCEPT ![u] = INVALID],
           online_player' = [online_player EXCEPT ![g] = @ - 1]
    PROVE  OnlineMatchesRoute'
<1> SUFFICES ASSUME NEW h \in Services
             PROVE  online_player'[h] = Cardinality(ClientsAt(h)')
  BY DEF OnlineMatchesRoute
<1>1. CASE h = g
  <2>1. ClientsAt(h)' = ClientsAt(h) \ {u} /\ u \in ClientsAt(h)
    BY <1>1, ServiceIds DEF ClientsAt, TypeOK
  <2>2. online_player'[h] = online_player[h] - 1
    BY <1>1 DEF TypeOK
  <2> QED BY <2>1, <2>2, ClientsFinite, FS_RemoveElement DEF OnlineMatchesRoute
<1>2. CASE h # g
  <2>1. ClientsAt(h)' = ClientsAt(h)
    BY <1>2, ServiceIds DEF ClientsAt, TypeOK
  <2>2. online_player'[h] = online_player[h]
    BY <1>2 DEF TypeOK
  <2> QED BY <2>1, <2>2 DEF OnlineMatchesRoute
<1> QED BY <1>1, <1>2

(* The steps of the router on the table, in the three forms they take: a   *)
(* client gets a service with room, a client leaves its service, or the    *)
(* table and the counters stay.                                            *)
Joins(u, g) ==
    /\ ~Routed(u)
    /\ HasRoom(g)
    /\ sock_id2game_logic' = [sock_id2game_logic EXCEPT ![u] = g]
    /\ online_player' = [online_player EXCEPT ![g] = @ + 1]

Leaves(u, g) ==
    /\ sock_id2game_logic[u] = g
    /\ sock_id2game_logic' = [sock_id2game_logic EXCEPT ![u] = INVALID]
    /\ online_player' = [online_player EXCEPT ![g] = @ - 1]

LEMMA RouterSteps ==
    ASSUME TypeOK, [Next]_vars
    PROVE  \/ \E u \in Uids, g \in Services : Joins(u, g) \/ Leaves(u, g)
           \/ UNCHANGED <<sock_id2game_logic, online_player>>
<1> DEFINE Goal == \/ \E u \in Uids, g \in Services : Joins(u, g) \/ Leaves(u, g)
                   \/ UNCHANGED <<sock_id2game_logic, online_player>>
           m == Head(io2netlogic_que)
<1>1. CASE NewClient
  <2> DEFINE id == route_distribute_gamelogic
  <2>1. PopNetIo("S") /\ m.uid \in Uids
    BY <1>1, PoppedMessage DEF NewClient
  <2>2. CASE ~Routed(m.uid) /\ id \in Services
    <3>1. AssignService(m, id)
      BY <1>1, <2>2, ServiceIds DEF NewClient, INVALID
    <3>2. HasRoom(id) /\ Char(id) = id
      BY <2>2, DistributeResult, ServiceIds
    <3>3. Joins(m.uid, id)
      BY <2>2, <3>1, <3>2 DEF AssignService, Joins
    <3> QED BY <2>1, <2>2, <3>3
  <2>3. CASE ~Routed(m.uid) /\ id = 255
    <3>1. AssignService(m, id)
      BY <1>1, <2>3 DEF NewClient
    <3>2. /\ sock_id2game_logic' = [sock_id2game_logic EXCEPT ![m.uid] = INVALID]
          /\ online_player' = online_player
      BY <2>3, <3>1, ServiceIds DEF AssignService
    <3>3. sock_id2game_logic' = sock_id2game_logic
      BY <2>1, <2>3, <3>2 DEF Routed, TypeOK
    <3> QED BY <3>2, <3>3
  <2>4. CASE ReportServiceFull(m.uid)
    BY <2>4 DEF ReportServiceFull
  <2> QED BY <1>1, <2>2, <2>3, <2>4, DistributeResult DEF NewClient
<1>2. CASE ForwardClose
  <2>1. PopNetIo("C") /\ SendToGameLogic(m)
    BY <1>2 DEF ForwardClose
  <2>2. m \in IoMsgs /\ m.uid \in Uids
    BY <2>1, PoppedMessage
  <2>3. CASE Routed(m.uid)
    <3>1. /\ game_service_id' = sock_id2game_logic[m.uid]
          /\ game_service_id' \in Services
      BY <2>1, <2>2, <2>3, SendType
    <3>2. Leaves(m.uid, sock_id2game_logic[m.uid])
      BY <1>2, <2>3, <3>1 DEF ForwardClose, Leaves
    <3> QED BY <2>2, <3>1, <3>2
  <2>4. CASE ~Routed(m.uid)
    BY <1>2, <2>4 DEF ForwardClose
  <2> QED BY <2>3, <2>4
<1>3. CASE ForwardData \/ ForwardBroadcast \/ QueueNull \/ NetIoPop
  BY <1>3 DEF ForwardData, ForwardBroadcast, QueueNull, NetIoPop, router
<1>4. ASSUME \/ \E q \in {"io", "game"} : NetLogicWake(q)
             \/ \E i \in IoMsgs : NetIoPush(i)
             \/ \E g \in Services : GameLogicPop(g)
             \/ \E b \in GameMsgs : GameLogicPush(b)
      PROVE  Goal
  BY <1>4 DEF NetLogicWake, NetIoPush, GameLogicPop, GameLogicPush, router
<1>5. CASE UNCHANGED vars
  BY <1>5 DEF vars, router
<1> QED BY <1>1, <1>2, <1>3, <1>4, <1>5 DEF Next, NetLogicStep, Environment

(***************************************************************************)
(* The inductive invariant: types, the counters, and the cap on them.      *)
(***************************************************************************)
IInv == TypeOK /\ OnlineMatchesRoute /\ CapRespected

LEMMA IInvInit == Init => IInv
<1> SUFFICES ASSUME Init PROVE IInv
  OBVIOUS
<1>1. ASSUME NEW g \in Services PROVE ClientsAt(g) = {} /\ online_player[g] = 0
  BY ServiceIds DEF Init, RouterInit, ClientsAt
<1>2. OnlineMatchesRoute /\ CapRespected
  BY <1>1, FS_EmptySet, MaxPlayersAssumption DEF OnlineMatchesRoute, CapRespected
<1> QED BY <1>2, TypeInit DEF IInv

LEMMA IInvStep == IInv /\ [Next]_vars => IInv'
<1> SUFFICES ASSUME IInv, [Next]_vars PROVE OnlineMatchesRoute' /\ CapRespected'
  BY TypeStep DEF IInv
<1> USE DEF IInv
<1>1. ASSUME NEW u \in Uids, NEW g \in Services, Joins(u, g)
      PROVE  OnlineMatchesRoute' /\ CapRespected'
  <2>1. OnlineMatchesRoute'
    BY <1>1, RouteSet DEF Joins
  <2>2. ASSUME NEW h \in Services PROVE online_player'[h] <= MaxPlayers
    BY <1>1, MaxPlayersAssumption
    DEF Joins, HasRoom, TypeOK, CapRespected, OnlineMatchesRoute
  <2> QED BY <2>1, <2>2 DEF OnlineMatchesRoute, CapRespected
<1>2. ASSUME NEW u \in Uids, NEW g \in Services, Leaves(u, g)
      PROVE  OnlineMatchesRoute' /\ CapRespected'
  <2>1. OnlineMatchesRoute'
    BY <1>2, RouteCleared DEF Leaves
  <2>2. ASSUME NEW h \in Services PROVE online_player'[h] <= MaxPlayers
    BY <1>2, MaxPlayersAssumption
    DEF Leaves, TypeOK, CapRespected, OnlineMatchesRoute
  <2> QED BY <2>1, <2>2 DEF OnlineMatchesRoute, CapRespected
<1>3. CASE UNCHANGED <<sock_id2game_logic, online_player>>
  BY <1>3 DEF OnlineMatchesRoute, CapRespected, ClientsAt
<1> QED BY <1>1, <1>2, <1>3, RouterSteps

(***************************************************************************)
(* online_player[g] is always the number of clients routed to g            *)
(* (net_logic.c:151-194).                                                  *)
(***************************************************************************)
THEOREM OnlineCorrect == Spec => []OnlineMatchesRoute
BY IInvInit, IInvStep, PTL DEF Spec, IInv

(***************************************************************************)
(* No service is routed more clients than MAX_GAME_SERVICE_PLAYER_NUM.     *)
(***************************************************************************)
THEOREM CapCorrect == Spec => []CapRespected
BY IInvInit, IInvStep, PTL DEF Spec, IInv

-----------------------------------------------------------------------------
(* The refinement of the session table.                                    *)

LEMMA TableStep == IInv /\ [Next]_vars => [Table!Next]_sock_id2game_logic
<1> SUFFICES ASSUME IInv, [Next]_vars PROVE [Table!Next]_sock_id2game_logic
  OBVIOUS
<1> USE DEF IInv
<1>1. ASSUME NEW u \in Uids, NEW g \in Services, Joins(u, g)
      PROVE  Table!Join(u, g)
  <2>1. Cardinality(Table!At(g)) < MaxPlayers
    BY <1>1 DEF Joins, HasRoom, OnlineMatchesRoute, ClientsAt, Table!At
  <2>2. Table!Cardinality(Table!At(g)) = Cardinality(Table!At(g))
    BY DEF Cardinality, Table!Cardinality
  <2> QED BY <1>1, <2>1, <2>2 DEF Joins, Routed, Table!Join
<1>2. ASSUME NEW u \in Uids, NEW g \in Services, Leaves(u, g)
      PROVE  Table!Leave(u)
  BY <1>2, ServiceIds DEF Leaves, Table!Leave
<1> QED BY <1>1, <1>2, RouterSteps DEF Table!Next

(***************************************************************************)
(* The router implements the session table for any number of clients,      *)
(* services and places: a client moves between services only by leaving    *)
(* (net_logic.c:154-194).                                                  *)
(***************************************************************************)
THEOREM RefinesSessionTable == Spec => ImplementsSessionTable
<1>1. Init => Table!Init
  BY DEF Init, RouterInit, Table!Init
<1> QED
  BY <1>1, IInvInit, IInvStep, TableStep, PTL
  DEF Spec, ImplementsSessionTable, Table!Spec

-----------------------------------------------------------------------------
(* The queues to the game services and the table.                          *)

(* Position i of que is backed: its client is at g, or is closed later on. *)
Backed(route, que, g, i) ==
    \/ route[que[i].uid] = g
    \/ \E j \in i .. Len(que) : que[j] = Closed(que[i].uid)

LEMMA QueuedUnderRouteBacked ==
    /\ QueuedUnderRoute <=>
          \A g \in Services : \A i \in DOMAIN que_2_gamelogic[g] :
              Backed(sock_id2game_logic, que_2_gamelogic[g], g, i)
    /\ QueuedUnderRoute' <=>
          \A g \in Services : \A i \in DOMAIN que_2_gamelogic'[g] :
              Backed(sock_id2game_logic', que_2_gamelogic'[g], g, i)
BY DEF QueuedUnderRoute, Backed

(* An append keeps the positions before it backed.                         *)
LEMMA BackedAppend ==
    ASSUME NEW route, NEW S, NEW que \in Seq(S), NEW m \in S, NEW g,
           NEW i \in DOMAIN que, Backed(route, que, g, i)
    PROVE  Backed(route, Append(que, m), g, i)
<1>1. Append(que, m)[i] = que[i]
  OBVIOUS
<1>2. CASE \E j \in i .. Len(que) : que[j] = Closed(que[i].uid)
  <2>1. PICK j \in i .. Len(que) : que[j] = Closed(que[i].uid)
    BY <1>2
  <2>2. j \in i .. Len(Append(que, m)) /\ Append(que, m)[j] = que[j]
    BY <2>1
  <2> QED BY <1>1, <2>1, <2>2 DEF Backed
<1> QED BY <1>1, <1>2 DEF Backed

(* A pop keeps the positions after it backed.                              *)
LEMMA BackedTail ==
    ASSUME NEW route, NEW S, NEW que \in Seq(S), que # <<>>, NEW g,
           NEW i \in DOMAIN Tail(que), Backed(route, que, g, i + 1)
    PROVE  Backed(route, Tail(que), g, i)
<1>1. i \in Nat /\ Tail(que)[i] = que[i + 1]
  OBVIOUS
<1>2. CASE \E j \in i + 1 .. Len(que) : que[j] = Closed(que[i + 1].uid)
  <2>1. PICK j \in i + 1 .. Len(que) : que[j] = Closed(que[i + 1].uid)
    BY <1>2
  <2>2. j - 1 \in i .. Len(Tail(que)) /\ Tail(que)[j - 1] = que[j]
    BY <1>1, <2>1
  <2> QED BY <1>1, <2>1, <2>2 DEF Backed
<1> QED BY <1>1, <1>2 DEF Backed

(* A change of the route of u keeps a position backed that is not u's, or  *)
(* that a close of u follows.                                              *)
LEMMA BackedReroute ==
    ASSUME NEW route, NEW route2, NEW que, NEW g, NEW i,
           Backed(route, que, g, i),
           \/ route2[que[i].uid] = route[que[i].uid]
           \/ route[que[i].uid] # g
    PROVE  Backed(route2, que, g, i)
BY DEF Backed

LEMMA QueuedStep == TypeOK /\ QueuedUnderRoute /\ [Next]_vars => QueuedUnderRoute'
<1> SUFFICES ASSUME TypeOK, QueuedUnderRoute, [Next]_vars,
                    NEW h \in Services, NEW i \in DOMAIN que_2_gamelogic'[h]
             PROVE  Backed(sock_id2game_logic', que_2_gamelogic'[h], h, i)
  BY QueuedUnderRouteBacked
<1> DEFINE Que == que_2_gamelogic[h]
           Goal == Backed(sock_id2game_logic', que_2_gamelogic'[h], h, i)
           m == Head(io2netlogic_que)
<1>1. /\ Que \in Seq(IoMsgs)
      /\ \A k \in DOMAIN Que : Que[k].uid \in Uids
      /\ \A k \in DOMAIN Que : Backed(sock_id2game_logic, Que, h, k)
  BY QueuedUnderRouteBacked, IoMsgsAssumption DEF TypeOK, UserMsgs
<1>2. CASE NewClient
  <2> DEFINE id == route_distribute_gamelogic
  <2>1. PopNetIo("S")
    BY <1>2 DEF NewClient
  <2>2. m \in IoMsgs /\ m.uid \in Uids
    BY <2>1, PoppedMessage
  <2>3. CASE ~Routed(m.uid) /\ AssignService(m, id)
    <3>1. sock_id2game_logic' = [sock_id2game_logic EXCEPT ![m.uid] = Char(id)]
      BY <2>3 DEF AssignService
    <3>2. ASSUME NEW k \in DOMAIN Que PROVE Backed(sock_id2game_logic', Que, h, k)
      <4>1. CASE Que[k].uid = m.uid
        <5>1. sock_id2game_logic[Que[k].uid] # h
          BY <2>3, <4>1, ServiceIds DEF Routed
        <5> QED BY <5>1, <1>1, BackedReroute
      <4>2. CASE Que[k].uid # m.uid
        <5>1. sock_id2game_logic'[Que[k].uid] = sock_id2game_logic[Que[k].uid]
          BY <1>1, <3>1, <4>2 DEF TypeOK
        <5> QED BY <5>1, <1>1, BackedReroute
      <4> QED BY <4>1, <4>2
    <3>3. CASE id \in Services /\ h = id
      <4>1. que_2_gamelogic'[h] = Append(Que, m)
        BY <2>3, <3>3 DEF AssignService, TypeOK
      <4>2. CASE i \in DOMAIN Que
        BY <1>1, <2>2, <3>2, <4>1, <4>2, BackedAppend
      <4>3. CASE i \notin DOMAIN Que
        <5>1. i = Len(Que) + 1
          BY <1>1, <2>2, <4>1, <4>3
        <5>2. que_2_gamelogic'[h][i] = m
          BY <1>1, <2>2, <4>1, <5>1
        <5>3. sock_id2game_logic'[m.uid] = h
          BY <2>2, <3>1, <3>3, ServiceIds DEF TypeOK
        <5> QED BY <5>2, <5>3 DEF Backed
      <4> QED BY <4>2, <4>3
    <3>4. CASE ~(id \in Services /\ h = id)
      <4>1. que_2_gamelogic'[h] = Que
        BY <2>3, <3>4 DEF AssignService, TypeOK
      <4> QED BY <3>2, <4>1
    <3> QED BY <3>3, <3>4
  <2>4. CASE ReportServiceFull(m.uid)
    BY <1>1, <2>4 DEF ReportServiceFull
  <2> QED BY <1>2, <2>3, <2>4 DEF NewClient
<1>3. CASE ForwardData
  <2>1. /\ PopNetIo("D")
        /\ SendToGameLogic(m) \/ que_2_gamelogic' = que_2_gamelogic
        /\ sock_id2game_logic' = sock_id2game_logic
    BY <1>3 DEF ForwardData
  <2>2. m \in IoMsgs /\ m.uid \in Uids
    BY <2>1, PoppedMessage
  <2>3. CASE SendToGameLogic(m) /\ Routed(m.uid) /\ h = sock_id2game_logic[m.uid]
    <3>1. que_2_gamelogic'[h] = Append(Que, m)
      BY <2>1, <2>3 DEF SendToGameLogic, TypeOK
    <3>2. CASE i \in DOMAIN Que
      BY <1>1, <2>1, <2>2, <3>1, <3>2, BackedAppend
    <3>3. CASE i \notin DOMAIN Que
      <4>1. i = Len(Que) + 1
        BY <1>1, <2>2, <3>1, <3>3
      <4>2. que_2_gamelogic'[h][i] = m
        BY <1>1, <2>2, <3>1, <4>1
      <4> QED BY <2>1, <2>3, <4>2 DEF Backed
    <3> QED BY <3>2, <3>3
  <2>4. CASE ~(SendToGameLogic(m) /\ Routed(m.uid) /\ h = sock_id2game_logic[m.uid])
    <3>1. que_2_gamelogic'[h] = Que
      BY <2>1, <2>4 DEF SendToGameLogic, TypeOK
    <3> QED BY <1>1, <2>1, <3>1
  <2> QED BY <2>3, <2>4
<1>4. CASE ForwardClose
  <2>1. PopNetIo("C") /\ SendToGameLogic(m)
    BY <1>4 DEF ForwardClose
  <2>2. m \in IoMsgs /\ m.uid \in Uids /\ m = Closed(m.uid)
    BY <2>1, PoppedMessage, IoMsgsAssumption DEF UserMsgs, Closed
  <2>3. CASE ~Routed(m.uid)
    <3>1. UNCHANGED <<sock_id2game_logic, que_2_gamelogic>>
      BY <1>4, <2>1, <2>3 DEF ForwardClose, SendToGameLogic
    <3> QED BY <1>1, <3>1
  <2>4. CASE Routed(m.uid)
    <3>1. sock_id2game_logic' = [sock_id2game_logic EXCEPT ![m.uid] = INVALID]
      BY <1>4, <2>4 DEF ForwardClose
    <3>2. ASSUME NEW k \in DOMAIN Que,
                 \/ Que[k].uid # m.uid
                 \/ h # sock_id2game_logic[m.uid]
          PROVE  Backed(sock_id2game_logic', Que, h, k)
      <4>1. CASE Que[k].uid # m.uid
        <5>1. sock_id2game_logic'[Que[k].uid] = sock_id2game_logic[Que[k].uid]
          BY <1>1, <3>1, <4>1 DEF TypeOK
        <5> QED BY <5>1, <1>1, BackedReroute
      <4>2. CASE Que[k].uid = m.uid
        BY <1>1, <3>2, <4>2, BackedReroute
      <4> QED BY <4>1, <4>2
    <3>3. CASE h = sock_id2game_logic[m.uid]
      <4>1. que_2_gamelogic'[h] = Append(Que, m)
        BY <2>1, <2>4, <3>3 DEF SendToGameLogic, TypeOK
      <4>2. i \in 1 .. Len(Que) + 1 /\ Append(Que, m)[Len(Que) + 1] = m
        BY <1>1, <2>2, <4>1
      <4>3. CASE Append(Que, m)[i].uid = m.uid
        <5>1. /\ Len(Que) + 1 \in i .. Len(Append(Que, m))
              /\ Append(Que, m)[Len(Que) + 1] = Closed(Append(Que, m)[i].uid)
          BY <1>1, <2>2, <4>2, <4>3
        <5> QED BY <4>1, <5>1 DEF Backed
      <4>4. CASE Append(Que, m)[i].uid # m.uid
        <5>1. i \in DOMAIN Que /\ Append(Que, m)[i] = Que[i]
          BY <1>1, <2>2, <4>2, <4>4
        <5> QED BY <1>1, <2>2, <3>2, <4>1, <4>4, <5>1, BackedAppend
      <4> QED BY <4>3, <4>4
    <3>4. CASE h # sock_id2game_logic[m.uid]
      <4>1. que_2_gamelogic'[h] = Que
        BY <2>1, <2>4, <3>4 DEF SendToGameLogic, TypeOK
      <4> QED BY <3>2, <3>4, <4>1
    <3> QED BY <3>3, <3>4
  <2> QED BY <2>3, <2>4
<1>5. ASSUME NEW g \in Services, GameLogicPop(g) PROVE Goal
  <2>1. sock_id2game_logic' = sock_id2game_logic
    BY <1>5 DEF GameLogicPop, router
  <2>2. CASE h = g
    <3>1. Que # <<>> /\ que_2_gamelogic'[h] = Tail(Que)
      BY <1>5, <2>2 DEF GameLogicPop, TypeOK
    <3>2. i \in DOMAIN Tail(Que) /\ i + 1 \in DOMAIN Que
      BY <1>1, <3>1
    <3> QED BY <1>1, <2>1, <3>1, <3>2, BackedTail
  <2>3. CASE h # g
    <3>1. que_2_gamelogic'[h] = Que
      BY <1>5, <2>3 DEF GameLogicPop, TypeOK
    <3> QED BY <1>1, <2>1, <3>1
  <2> QED BY <2>2, <2>3
<1>6. ASSUME UNCHANGED <<sock_id2game_logic, que_2_gamelogic>> PROVE Goal
  BY <1>1, <1>6
<1>7. CASE QueueNull \/ ForwardBroadcast \/ NetIoPop \/ UNCHANGED vars
  BY <1>6, <1>7
  DEF QueueNull, ForwardBroadcast, NetIoPop, vars, queues, router
<1>8. ASSUME \/ \E q \in {"io", "game"} : NetLogicWake(q)
             \/ \E b \in IoMsgs : NetIoPush(b)
             \/ \E b \in GameMsgs : GameLogicPush(b)
      PROVE  Goal
  BY <1>6, <1>8 DEF NetLogicWake, NetIoPush, GameLogicPush, queues, router
<1> QED
  BY <1>2, <1>3, <1>4, <1>5, <1>7, <1>8 DEF Next, NetLogicStep, Environment

(***************************************************************************)
(* Whatever the game queues hold about a client, the client is routed to   *)
(* that service or its close follows in the same queue, for any messages   *)
(* of net_io (net_logic.c:447-467).                                        *)
(***************************************************************************)
THEOREM QueuedCorrect == Spec => []QueuedUnderRoute
<1>1. Init => QueuedUnderRoute
  BY DEF Init, QueuedUnderRoute
<1> QED BY <1>1, TypeInit, TypeStep, QueuedStep, PTL DEF Spec
=============================================================================
