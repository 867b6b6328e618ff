----------------------------- MODULE GameServer -----------------------------
(***************************************************************************)
(* The whole process (main.c): the net_io thread, the net_logic thread and *)
(* the game_logic threads, joined by their queues, and the clients.  Every *)
(* action is an action of one thread's module; the variables of the other  *)
(* threads stay as they are.  A fault of one thread ends them all.         *)
(***************************************************************************)
EXTENDS Proto, FiniteSets

CONSTANTS
    Clients, MaxSocket, MaxEvent, MaxRequests,   \* see SocketServer
    NumServices, MaxMap, PlayersPerMap,          \* see GameLogic
    Asked        \* the requests that the clients send, of those there are

ASSUME AskedAssumption == Asked \subseteq Requests
ASSUME ClientsAssumption == IsFiniteSet(Clients)
ASSUME LimitsAssumption ==
    /\ MaxSocket \in Nat /\ MaxSocket > 3
    /\ MaxEvent \in Nat \ {0} /\ MaxRequests \in Nat
ASSUME SizesAssumption ==
    /\ NumServices \in 1 .. 127
    /\ MaxMap \in Nat \ {0} /\ PlayersPerMap \in Nat \ {0}

VARIABLES
    io2netlogic_que, netlogic2io_que, que_2_gamelogic, que_2_net_logic,
    socket_pool, alloc_id, events, que_check, sending,             \* net_io
    sock_id2game_logic, online_player, game_service_id,            \* net_logic
    current_que, stray_write,
    uid_2_playid, player_num, map_player_num,                      \* game_logic
    map_player_socket_uid, player_state, player_uid, map_uid_list,
    list_underflow, started, miscount,
    fault,                                                         \* process
    conn, backlog, inbox, half, requests,                          \* kernel
    uid_of, told,                                                  \* history
    was_reset,       \* history: the clients that reset their connection
    stage            \* history: net_logic forwarded the client's 'S', its 'C'

netioVars    == <<socket_pool, alloc_id, events, que_check, sending, uid_of, told>>
kernelVars   == <<conn, backlog, inbox, half, requests>>
netlogicVars == <<sock_id2game_logic, online_player, game_service_id,
                  current_que, stray_write>>
gameVars     == <<uid_2_playid, player_num, map_player_num,
                  map_player_socket_uid, player_state, player_uid,
                  map_uid_list, list_underflow, started, miscount>>
vars == <<io2netlogic_que, netlogic2io_que, que_2_gamelogic, que_2_net_logic,
          netioVars, kernelVars, netlogicVars, gameVars, fault, was_reset, stage>>

SS == INSTANCE SocketServer WITH EpollAddFails <- FALSE

Uids == SS!Uids

\* GAME_LOGIC_SERVICE_NUM services of MAX_GAME_SERVICE_PLAYER_NUM players.
NL == INSTANCE NetLogic WITH
         Uids <- Uids \cup {0},
         MaxPlayers <- MaxMap * PlayersPerMap,
         IoMsgs <- {}, GameMsgs <- {}, QueueBound <- 0

GL == INSTANCE GameLogic WITH
         Orderly <- FALSE, QueueBound <- 0

Init ==
    /\ SS!ServerInit
    /\ NL!RouterInit
    /\ GL!TablesInit
    /\ io2netlogic_que = <<>>
    /\ netlogic2io_que = <<>>
    /\ que_2_gamelogic = [g \in NL!Services |-> <<>>]
    /\ que_2_net_logic = <<>>
    /\ was_reset = {}
    /\ stage = [u \in Uids |-> [at |-> INVALID, sent |-> "NONE"]]

-----------------------------------------------------------------------------
(* The threads.                                                            *)

NetIo ==
    /\ SS!NetIoStep
    /\ UNCHANGED <<que_2_gamelogic, que_2_net_logic, netlogicVars, gameVars,
                   was_reset, stage>>

\* What is recorded of a message that net_logic forwards.
Noted(m) ==
    IF m.type = "D" THEN stage
    ELSE [stage EXCEPT ![m.uid] = [at |-> game_service_id', sent |-> m.type]]

NetLogic ==
    /\ NL!NetLogicStep
    /\ stage' = IF que_2_gamelogic' = que_2_gamelogic THEN stage
                ELSE Noted(Head(io2netlogic_que))
    /\ UNCHANGED <<netioVars, kernelVars, gameVars, was_reset>>

GameLogic(g) ==
    /\ GL!GameLogicStep(g)
    /\ UNCHANGED <<io2netlogic_que, netlogic2io_que, netioVars, kernelVars,
                   netlogicVars, was_reset>>

-----------------------------------------------------------------------------
(* The clients.  They send requests in any order, and end or reset the     *)
(* connection at any time; requests arrive whole.                          *)

Connect(c) ==
    /\ SS!ClientConnects(c)
    /\ UNCHANGED <<que_2_gamelogic, que_2_net_logic, netlogicVars, gameVars,
                   was_reset, stage>>

Request(c, r) ==
    /\ conn[c] = "open" /\ requests > 0
    /\ inbox' = [inbox EXCEPT ![c] = Append(@, r)]
    /\ requests' = requests - 1
    /\ UNCHANGED <<conn, backlog, half, io2netlogic_que, netlogic2io_que,
                   que_2_gamelogic, que_2_net_logic, netioVars, netlogicVars,
                   gameVars, fault, was_reset, stage>>

Leave(c) ==
    /\ \/ SS!ClientCloses(c) /\ UNCHANGED was_reset
       \/ SS!ClientResets(c) /\ was_reset' = was_reset \cup {c}
    /\ UNCHANGED <<que_2_gamelogic, que_2_net_logic, netlogicVars, gameVars, stage>>

ClientStep(c) ==
    \/ Connect(c)
    \/ \E r \in Asked : Request(c, r)
    \/ Leave(c)

Next ==
    \/ NetIo
    \/ NetLogic
    \/ \E g \in NL!Services : GameLogic(g)
    \/ \E c \in Clients : ClientStep(c)

Spec == Init /\ [][Next]_vars

(***************************************************************************)
(* Each thread is scheduled, and wakes for what is in its queues; clients  *)
(* owe nothing.                                                            *)
(***************************************************************************)
Fairness ==
    /\ WF_vars(NetIo)
    /\ WF_vars(NetLogic)
    /\ \A g \in NL!Services : WF_vars(GameLogic(g))

LiveSpec == Spec /\ Fairness

-----------------------------------------------------------------------------
(* Properties.                                                             *)

SeatedAt(u, g) == u \in UNION {GL!Occupants(g, m) : m \in GL!Maps}
Waiting(q, m)  == \E i \in DOMAIN q : q[i] = m

(***************************************************************************)
(* A client seated by a game service is one net_logic routes there, or one *)
(* whose close waits in that service's queue; so no client is ever seated  *)
(* by two services (net_logic.c:447-467, game_logic.c:803-812).            *)
(***************************************************************************)
SeatedIsRouted ==
    \A u \in Uids, g \in NL!Services :
        SeatedAt(u, g) => \/ sock_id2game_logic[u] = g
                          \/ Waiting(que_2_gamelogic[g], Closed(u))

(***************************************************************************)
(* The router and the game services count the clients of a service on      *)
(* their own, and agree so far that every client the router lets through   *)
(* finds a place, but for the two cases of GL!TurnedAwayByLobby: a map     *)
(* full with a lobby, and a count of started players that is off           *)
(* (net_logic.c:145-148, game_logic.c:270-299).                            *)
(***************************************************************************)
TurnedAwayByLobby == GL!TurnedAwayByLobby

(***************************************************************************)
(* The thread with the sockets, the router and the game services agree     *)
(* once nothing is in flight.  A client in epoll is one net_logic routes,  *)
(* unless it came when every service was full.  A client that is routed or *)
(* seated is one in epoll, unless it reset its connection: of a reset that *)
(* a write meets they never hear (socket_server.c:359-366, 470,            *)
(* net_logic.c:447-467, game_logic.c:803-812).                             *)
(***************************************************************************)
Quiet ==
    /\ SS!Running
    /\ io2netlogic_que = <<>>
    /\ \A g \in NL!Services : que_2_gamelogic[g] = <<>>

NoGhosts ==
    Quiet => \A c \in Clients : uid_of[c] # 0 =>
        LET u == uid_of[c]
            routed == sock_id2game_logic[u] # INVALID
            inGame == \E g \in NL!Services : SeatedAt(u, g)
        IN  /\ SS!Added(u) => routed \/ (stage[u].sent = "NONE" /\ stray_write)
            /\ routed \/ inGame => SS!Added(u) \/ c \in was_reset

(***************************************************************************)
(* Every client that a message on its way to net_io is sent to has been    *)
(* accepted: however starts, repeated starts and closes from the lobby     *)
(* move the count of a map, its broadcast list is never read where it was  *)
(* never written.  One answer is sent to nobody: that to a leave request   *)
(* from a place in which no login has stored a uid yet                     *)
(* (game_logic.c:529-578, 627-644, socket_server.c:494-517).               *)
(***************************************************************************)
Recipients(m) ==
    {m.to[k] : k \in DOMAIN m.to} \ (IF m.proto = "LEAVE_RSP" THEN {GL!Unset} ELSE {})

RecipientsKnown ==
    LET Known == {u \in Uids : told[u] # "nothing"} IN
    /\ \A i \in DOMAIN que_2_net_logic : Recipients(que_2_net_logic[i]) \subseteq Known
    /\ \A i \in DOMAIN netlogic2io_que : netlogic2io_que[i].event = "NULL" =>
          Recipients(netlogic2io_que[i].msg) \subseteq Known

(***************************************************************************)
(* A client that ends its stream or resets is noticed: its connection is   *)
(* closed unless the process dies first, whichever of the read and write   *)
(* paths meets the end (socket_server.c:336-367, 402-491).                 *)
(***************************************************************************)
EndNoticed ==
    \A c \in Clients :
        conn[c] \in {"fin", "rst", "finrst"} ~> (conn[c] = "closed" \/ ~SS!Running)

(***************************************************************************)
(* A client that ends its stream leaves the game: some time later its uid  *)
(* has no place, unless the process dies (socket_server.c:359-366,         *)
(* net_logic.c:447-454, game_logic.c:803-812).  After a reset this fails:  *)
(* the close that a write finds is reported for id 0 (socket_server.c:470).*)
(***************************************************************************)
LeaverUnseated ==
    \A c \in Clients :
        conn[c] \in {"fin", "finrst"} ~>
            (~SS!Running \/ (conn[c] = "closed"
                              /\ \A g \in NL!Services : ~SeatedAt(uid_of[c], g)))

(***************************************************************************)
(* The assertion of send_data (socket_server.c:454): data is only sent to  *)
(* a socket that epoll manages.                                            *)
(***************************************************************************)
SendAssertion == fault # "assertion"
=============================================================================
