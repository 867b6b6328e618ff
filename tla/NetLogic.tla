------------------------------ MODULE NetLogic ------------------------------
(***************************************************************************)
(* The net_logic thread (net_logic.c): the router between net_io and the   *)
(* game_logic threads.  It gives each new client a game service, forwards  *)
(* the client's messages to that service's queue, and passes the game      *)
(* threads' broadcasts on to net_io.                                       *)
(*                                                                         *)
(* The router is state of this thread alone, so one pop and its handler    *)
(* are one action; the queues are shared, and what the other threads do    *)
(* with them between two handlers is given by the environment actions.     *)
(***************************************************************************)
EXTENDS Proto, FiniteSets, Functions

CONSTANTS
    Uids,          \* the socket ids in use, out of 0 .. MAX_SOCKET-1
    NumServices,   \* GAME_LOGIC_SERVICE_NUM
    MaxPlayers,    \* MAX_GAME_SERVICE_PLAYER_NUM
    IoMsgs,        \* what net_io sends
    GameMsgs,      \* what the game threads broadcast
    QueueBound     \* the environment pushes below this many messages in all

ASSUME UidsAssumption == IsFiniteSet(Uids)
ASSUME IoMsgsAssumption == IoMsgs \subseteq UserMsgs(Uids)
ASSUME NumServicesAssumption == NumServices \in 1 .. 127
ASSUME MaxPlayersAssumption == MaxPlayers \in Nat \ {0}

Services == 0 .. NumServices - 1

VARIABLES
    io2netlogic_que,      \* QUE_ID_NETIO_2_NETLOGIC
    netlogic2io_que,      \* QUE_ID_NETLOGIC_2_NETIO (nl->network_que)
    que_2_gamelogic,      \* one queue to each game service
    que_2_net_logic,      \* QUE_ID_GAMELOGIC_2_NETLOGIC, shared by them all
    sock_id2game_logic,   \* the service of each client, INVALID if none
    online_player,        \* how many clients each service has
    game_service_id,      \* the service found by the last route lookup
    current_que,          \* the queue being drained; "none": check_que false
    stray_write,          \* online_player was written outside its bounds
    fault                 \* how the process died, "none" while it lives

queues == <<io2netlogic_que, netlogic2io_que, que_2_gamelogic, que_2_net_logic>>
router == <<sock_id2game_logic, online_player, game_service_id>>
vars   == <<queues, router, current_que, stray_write, fault>>

RouterInit ==
    /\ sock_id2game_logic = [u \in Uids |-> INVALID]
    /\ online_player = [g \in Services |-> 0]
    /\ game_service_id = INVALID   \* unset memory; written before each use
    /\ current_que = "none"
    /\ stray_write = FALSE

Init ==
    /\ io2netlogic_que = <<>>
    /\ netlogic2io_que = <<>>
    /\ que_2_gamelogic = [g \in Services |-> <<>>]
    /\ que_2_net_logic = <<>>
    /\ RouterInit
    /\ fault = "none"

-----------------------------------------------------------------------------
(* The routing table.                                                      *)

HasRoom(g) == online_player[g] < MaxPlayers

\* The first service with room.  The function returns uint8_t, so the -1 it
\* returns when every service is full reaches the caller as 255.
route_distribute_gamelogic ==
    Uint8(IF \E g \in Services : HasRoom(g)
          THEN CHOOSE g \in Services :
                 HasRoom(g) /\ \A h \in Services : h < g => ~HasRoom(h)
          ELSE -1)

Routed(u) == sock_id2game_logic[u] # INVALID

-----------------------------------------------------------------------------
(* The event loop: a readable socket selects the queue to drain.           *)

QueueOf(q) == IF q = "io" THEN io2netlogic_que ELSE que_2_net_logic

\* A wake-up byte follows every push.  A byte left over from messages that an
\* earlier drain took wakes the thread to an empty queue: that round pops
\* NULL and changes nothing, and the guard leaves it out.
NetLogicWake(q) ==
    /\ fault = "none" /\ current_que = "none"
    /\ QueueOf(q) # <<>>
    /\ current_que' = q
    /\ UNCHANGED <<queues, router, stray_write, fault>>

\* queue_pop returned NULL: back to epoll_wait.
QueueNull ==
    /\ fault = "none" /\ current_que # "none"
    /\ QueueOf(current_que) = <<>>
    /\ current_que' = "none"
    /\ UNCHANGED <<queues, router, stray_write, fault>>

PopNetIo(type) ==
    /\ fault = "none" /\ current_que = "io"
    /\ io2netlogic_que # <<>>
    /\ Head(io2netlogic_que).type = type
    /\ io2netlogic_que' = Tail(io2netlogic_que)

\* send_msg_2_game_logic: look the client's service up, leaving it in
\* game_service_id, and push; a client without a service loses the message.
SendToGameLogic(m) ==
    IF Routed(m.uid)
    THEN /\ game_service_id' = sock_id2game_logic[m.uid]
         /\ que_2_gamelogic' = [que_2_gamelogic EXCEPT ![game_service_id'] =
                                  Append(@, m)]
    ELSE UNCHANGED <<game_service_id, que_2_gamelogic>>

\* unpack_user_data reads the name of a login without asking whether there
\* is one; what else it cannot unpack is forwarded all the same.
ForwardData ==
    LET m == Head(io2netlogic_que) IN
    /\ PopNetIo("D")
    /\ IF m.req = "BAD_LOG_REQ"
       THEN /\ fault' = "null_login"
            /\ UNCHANGED <<game_service_id, que_2_gamelogic>>
       ELSE SendToGameLogic(m) /\ UNCHANGED fault
    /\ UNCHANGED <<netlogic2io_que, que_2_net_logic, sock_id2game_logic,
                   online_player, current_que, stray_write>>

\* A slip: the route is cleared first, so the close finds no queue.
ForwardClose_ClearedFirst ==
    LET m == Head(io2netlogic_que) IN
    /\ PopNetIo("C")
    /\ IF Routed(m.uid)
       THEN /\ sock_id2game_logic' = [sock_id2game_logic EXCEPT ![m.uid] = INVALID]
            /\ online_player' = [online_player EXCEPT ![sock_id2game_logic[m.uid]] = @ - 1]
       ELSE UNCHANGED <<sock_id2game_logic, online_player>>
    /\ UNCHANGED <<netlogic2io_que, que_2_gamelogic, que_2_net_logic,
                   game_service_id, current_que, stray_write, fault>>

\* A slip: the decrement uses the service id before the lookup refreshed it.
ForwardClose_StaleService ==
    LET m == Head(io2netlogic_que) IN
    /\ PopNetIo("C")
    /\ SendToGameLogic(m)
    /\ IF Routed(m.uid)
       THEN /\ sock_id2game_logic' = [sock_id2game_logic EXCEPT ![m.uid] = INVALID]
            /\ online_player' = [online_player EXCEPT ![game_service_id] = @ - 1]
       ELSE UNCHANGED <<sock_id2game_logic, online_player>>
    /\ UNCHANGED <<netlogic2io_que, que_2_net_logic, current_que, stray_write, fault>>

\* The close is forwarded before the route is cleared; the decrement uses the
\* service id that the forwarding looked up.
ForwardClose ==
    LET m == Head(io2netlogic_que) IN
    /\ PopNetIo("C")
    /\ SendToGameLogic(m)
    /\ IF Routed(m.uid)
       THEN /\ sock_id2game_logic' = [sock_id2game_logic EXCEPT ![m.uid] = INVALID]
            /\ online_player' = [online_player EXCEPT ![game_service_id'] = @ - 1]
       ELSE UNCHANGED <<sock_id2game_logic, online_player>>
    /\ UNCHANGED <<netlogic2io_que, que_2_net_logic, current_que, stray_write, fault>>

\* The refusal of a client: the thread tells net_io to drop it.
ReportServiceFull(u) ==
    /\ netlogic2io_que' = Append(netlogic2io_que, ServiceFull(u))
    /\ UNCHANGED <<que_2_gamelogic, sock_id2game_logic, online_player,
                   game_service_id, stray_write>>

\* A slip: the id is stored without the conversion to char.
AssignService_Unconverted(m, id) ==
    /\ sock_id2game_logic' = [sock_id2game_logic EXCEPT ![m.uid] = id]
    /\ game_service_id' = id
    /\ IF id \in Services
       THEN /\ online_player' = [online_player EXCEPT ![id] = @ + 1]
            /\ que_2_gamelogic' = [que_2_gamelogic EXCEPT ![id] = Append(@, m)]
            /\ UNCHANGED stray_write
       ELSE /\ stray_write' = TRUE
            /\ UNCHANGED <<online_player, que_2_gamelogic>>
    /\ UNCHANGED netlogic2io_que

\* route_set_gamelogic_id and the forwarding of the 'S'.  With id = 255 the
\* table entry becomes (char)255 = INVALID, the counter written lies outside
\* online_player, and the lookup that follows finds no queue.
AssignService(m, id) ==
    /\ sock_id2game_logic' = [sock_id2game_logic EXCEPT ![m.uid] = Char(id)]
    /\ game_service_id' = id
    /\ IF id \in Services
       THEN /\ online_player' = [online_player EXCEPT ![id] = @ + 1]
            /\ que_2_gamelogic' = [que_2_gamelogic EXCEPT ![id] = Append(@, m)]
            /\ UNCHANGED stray_write
       ELSE /\ stray_write' = TRUE
            /\ UNCHANGED <<online_player, que_2_gamelogic>>
    /\ UNCHANGED netlogic2io_que

\* A slip: a client that has a service is given another one.
NewClient_Reassigns ==
    LET m  == Head(io2netlogic_que)
        id == route_distribute_gamelogic
    IN
    /\ PopNetIo("S")
    /\ IF id # -1 THEN AssignService(m, id) ELSE ReportServiceFull(m.uid)
    /\ UNCHANGED <<que_2_net_logic, current_que, fault>>

NewClient ==
    LET m  == Head(io2netlogic_que)
        id == route_distribute_gamelogic
    IN
    /\ PopNetIo("S")
    /\ IF ~Routed(m.uid) /\ id # -1
       THEN AssignService(m, id)
       ELSE ReportServiceFull(m.uid)
    /\ UNCHANGED <<que_2_net_logic, current_que, fault>>

\* dispose_game_service_que: pack a broadcast and hand it to net_io.
ForwardBroadcast ==
    /\ fault = "none" /\ current_que = "game"
    /\ que_2_net_logic # <<>>
    /\ que_2_net_logic' = Tail(que_2_net_logic)
    /\ netlogic2io_que' = Append(netlogic2io_que, ToNetIo(Head(que_2_net_logic)))
    /\ UNCHANGED <<io2netlogic_que, que_2_gamelogic, router, current_que,
                   stray_write, fault>>

NetLogicStep ==
    \/ \E q \in {"io", "game"} : NetLogicWake(q)
    \/ QueueNull
    \/ NewClient
    \/ ForwardData
    \/ ForwardClose
    \/ ForwardBroadcast

-----------------------------------------------------------------------------
(* The other ends of the queues: net_io and the game threads, free to push *)
(* any message and to pop at any time while the process lives.             *)

\* Every message in some queue.
InFlight == Len(io2netlogic_que) + Len(netlogic2io_que) + Len(que_2_net_logic)
              + SumFunction([g \in Services |-> Len(que_2_gamelogic[g])])

NetIoPush(m) ==
    /\ InFlight < QueueBound
    /\ io2netlogic_que' = Append(io2netlogic_que, m)
    /\ UNCHANGED <<netlogic2io_que, que_2_gamelogic, que_2_net_logic, router,
                   current_que, stray_write, fault>>

NetIoPop ==
    /\ netlogic2io_que # <<>>
    /\ netlogic2io_que' = Tail(netlogic2io_que)
    /\ UNCHANGED <<io2netlogic_que, que_2_gamelogic, que_2_net_logic, router,
                   current_que, stray_write, fault>>

GameLogicPop(g) ==
    /\ que_2_gamelogic[g] # <<>>
    /\ que_2_gamelogic' = [que_2_gamelogic EXCEPT ![g] = Tail(@)]
    /\ UNCHANGED <<io2netlogic_que, netlogic2io_que, que_2_net_logic, router,
                   current_que, stray_write, fault>>

GameLogicPush(m) ==
    /\ InFlight < QueueBound
    /\ que_2_net_logic' = Append(que_2_net_logic, m)
    /\ UNCHANGED <<io2netlogic_que, netlogic2io_que, que_2_gamelogic, router,
                   current_que, stray_write, fault>>

Environment ==
    /\ fault = "none"
    /\ \/ \E m \in IoMsgs : NetIoPush(m)
       \/ NetIoPop
       \/ \E g \in Services : GameLogicPop(g)
       \/ \E m \in GameMsgs : GameLogicPush(m)

Next == NetLogicStep \/ Environment

Spec == Init /\ [][Next]_vars

-----------------------------------------------------------------------------
(* Properties.                                                             *)

TypeOK ==
    /\ io2netlogic_que \in Seq(IoMsgs)
    /\ netlogic2io_que \in Seq([event : {"NULL"}, msg : GameMsgs]
                                 \cup [event : {"F"}, uid : Uids])
    /\ que_2_gamelogic \in [Services -> Seq(IoMsgs)]
    /\ que_2_net_logic \in Seq(GameMsgs)
    /\ sock_id2game_logic \in [Uids -> Services \cup {INVALID}]
    /\ online_player \in [Services -> Int]
    /\ game_service_id \in Services \cup {INVALID, 255}
    /\ current_que \in {"none", "io", "game"}
    /\ stray_write \in BOOLEAN
    /\ fault \in Faults

ClientsAt(g) == {u \in Uids : sock_id2game_logic[u] = g}

(***************************************************************************)
(* The counter the load balancing reads is the number of clients routed to *)
(* the service, although the decrement of route_clear_gamelogic_id goes    *)
(* through game_service_id, a field that other handlers overwrite          *)
(* (net_logic.c:191).                                                      *)
(***************************************************************************)
OnlineMatchesRoute == \A g \in Services : online_player[g] = Cardinality(ClientsAt(g))

(***************************************************************************)
(* No service ever has more clients routed to it than it supports          *)
(* (net_logic.h:41, net_logic.c:147), whatever order clients come and go.  *)
(***************************************************************************)
CapRespected == \A g \in Services : Cardinality(ClientsAt(g)) <= MaxPlayers

(***************************************************************************)
(* What waits in a game queue about a client is backed by the route: the   *)
(* client is still routed there, or its close follows in the same queue.   *)
(* So a game thread that drains its queue never keeps a client net_logic   *)
(* has forgotten (net_logic.c:451-452).                                    *)
(***************************************************************************)
QueuedUnderRoute ==
    \A g \in Services : \A i \in DOMAIN que_2_gamelogic[g] :
        LET u == que_2_gamelogic[g][i].uid IN
        \/ sock_id2game_logic[u] = g
        \/ \E j \in i .. Len(que_2_gamelogic[g]) : que_2_gamelogic[g][j] = Closed(u)

(***************************************************************************)
(* The router implements the abstract session table: a client is at one    *)
(* service at a time, joins one that has room, and moves only by leaving.  *)
(***************************************************************************)
Table == INSTANCE SessionTable WITH
            Clients <- Uids, Homes <- Services, None <- INVALID,
            Room <- MaxPlayers, home <- sock_id2game_logic

ImplementsSessionTable == Table!Spec
=============================================================================
