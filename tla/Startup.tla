------------------------------ MODULE Startup ------------------------------
(***************************************************************************)
(* From main to the loops of the threads (main.c, and the connect and      *)
(* accept functions of socket_server.c, net_logic.c and game_logic.c).     *)
(* net_logic connects to the port the clients use, and net_io closes what  *)
(* comes before it; the game threads connect to net_logic in any order,    *)
(* and net_logic closes what comes from another port than theirs.  Each    *)
(* tells itself apart by the port it is bound to.  A connect to a thread   *)
(* that does not listen yet is tried again after a second.                 *)
(*                                                                         *)
(* The other modules of the threads start where this one ends.             *)
(***************************************************************************)
EXTENDS Integers, Sequences

CONSTANTS
    NetIo, NetLogic, NoOne,
    Clients,        \* connections made from outside
    GAME_LOGIC_SERVICE_NUM,
    Backlog,        \* connections a listening socket holds before accept
    MaxSocket,      \* MAX_SOCKET
    MayFail         \* a port may be taken, so that bind fails

Services == 0 .. GAME_LOGIC_SERVICE_NUM - 1
Threads == {NetIo, NetLogic} \cup Services

ASSUME StartAssumption ==
  /\ GAME_LOGIC_SERVICE_NUM \in Nat \ {0} /\ Backlog \in Nat \ {0}
  /\ MaxSocket \in Nat /\ MaxSocket > 3
  /\ MayFail \in BOOLEAN
ASSUME NamesAssumption ==
  /\ NetIo # NetLogic /\ NoOne \notin Threads \cup Clients
  /\ {NetIo, NetLogic} \cap (Services \cup Clients) = {}
  /\ Clients \cap Services = {}

PORT_NETROUTE_2_NETIO_SERVICE == 8002
PORT_GAME_LOGIC_SERVICE_FIRST == 8003
SERVICE_ID_GAME_FIRST == 4
QUE_ID_NETLOGIC_2_GAME_FIRST == 2

Slots == 1 .. MaxSocket - 1
Empty == [type |-> "INVALID", peer |-> NoOne]

VARIABLES
    created,        \* threads main has created, in its order
    pc,             \* where each thread is
    listening,      \* the threads whose socket listens
    io_backlog,     \* connections net_io has not accepted, oldest first
    router_backlog, \* connections net_logic has not accepted
    socket_pool,    \* slot -> its type and who is at the other end
    alloc_id,       \* the last id handed out
    gamelog_socket, \* net_logic: service -> the thread at the other end
    accept_num,     \* net_logic: game threads accepted
    service_pool,   \* net_logic: service id -> the thread epoll watches
    client          \* "out", "waiting" at net_io, "stray" at net_logic,
                    \* "closed" or "admitted"

netio == <<socket_pool, alloc_id>>
router == <<gamelog_socket, accept_num, service_pool>>
vars == <<created, pc, listening, io_backlog, router_backlog, netio, router, client>>

Init ==
  /\ created = 0
  /\ pc = [t \in Threads |-> "none"]
  /\ listening = {}
  /\ io_backlog = <<>> /\ router_backlog = <<>>
  /\ socket_pool = [s \in Slots |-> Empty] /\ alloc_id = 0
  /\ gamelog_socket = [i \in Services |-> NoOne] /\ accept_num = 0
  /\ service_pool = [i \in Services |-> NoOne]
  /\ client = [c \in Clients |-> "out"]

Goes(t, from, to) == pc[t] = from /\ pc' = [pc EXCEPT ![t] = to]

\* A full backlog lets connect wait.
Room(backlog) == Len(backlog) < Backlog

-----------------------------------------------------------------------------
(* main: net_io, net_logic, then the game threads.  Thread g of the latter *)
(* is started with SERVICE_ID_GAME_FIRST + g.                              *)
CreationOrder(n) == CASE n = 0 -> NetIo [] n = 1 -> NetLogic [] OTHER -> n - 2

PthreadCreate ==
  /\ created < GAME_LOGIC_SERVICE_NUM + 2
  /\ created' = created + 1
  /\ Goes(CreationOrder(created), "none", "start")
  /\ UNCHANGED <<listening, io_backlog, router_backlog, netio, router, client>>

\* game_logic_start_creat and distribute_game_service_que.
ServiceOf(g) == SERVICE_ID_GAME_FIRST + g
game_service_id(g) == ServiceOf(g) - SERVICE_ID_GAME_FIRST
service_port(g) == PORT_GAME_LOGIC_SERVICE_FIRST + game_service_id(g)
service_que(g) == QUE_ID_NETLOGIC_2_GAME_FIRST + game_service_id(g)

\* do_listen, netlogic_lisen_creat or bind finds the port taken: the thread
\* returns and the others go on.  net_logic binds the port it connects from
\* when it already listens, and leaves that socket behind it.
Fail(t) ==
  /\ MayFail
  /\ \/ Goes(t, "start", "ended")
     \/ t = NetLogic /\ Goes(t, "connect", "ended")
  /\ UNCHANGED <<created, listening, io_backlog, router_backlog, netio, router, client>>

-----------------------------------------------------------------------------
(* net_io.                                                                 *)

apply_id == alloc_id + 1

TakeSlot(type, peer) ==
  /\ alloc_id' = apply_id
  /\ socket_pool' = [socket_pool EXCEPT ![apply_id] = [type |-> type, peer |-> peer]]

\* socket_server_listen.
NetioListen ==
  /\ Goes(NetIo, "start", "accept")
  /\ listening' = listening \cup {NetIo}
  /\ TakeSlot("LISTEN_NOTADD", NoOne)
  /\ UNCHANGED <<created, io_backlog, router_backlog, router, client>>

\* A slip: the first to connect is taken to be net_logic.
NetioAcceptsRouter_Slip ==
  /\ io_backlog # <<>>
  /\ io_backlog' = Tail(io_backlog)
  /\ Goes(NetIo, "accept", "add")
  /\ TakeSlot("NETLOGIC", Head(io_backlog))
  /\ UNCHANGED <<created, listening, router_backlog, router, client>>

\* wait_netlogic_service_connect meets a connection from its port.
NetioAcceptsRouter ==
  /\ io_backlog # <<>> /\ Head(io_backlog) = NetLogic
  /\ io_backlog' = Tail(io_backlog)
  /\ Goes(NetIo, "accept", "add")
  /\ TakeSlot("NETLOGIC", NetLogic)
  /\ UNCHANGED <<created, listening, router_backlog, router, client>>

\* ... and one from another port.
NetioRejects ==
  /\ pc[NetIo] = "accept"
  /\ io_backlog # <<>> /\ Head(io_backlog) \in Clients
  /\ io_backlog' = Tail(io_backlog)
  /\ client' = [client EXCEPT ![Head(io_backlog)] = "closed"]
  /\ UNCHANGED <<created, pc, listening, router_backlog, netio, router>>

\* A slip: the listening socket is not added to epoll.
NetioStarts_Slip ==
  /\ Goes(NetIo, "add", "running")
  /\ UNCHANGED <<created, listening, io_backlog, router_backlog, netio, router, client>>

\* socket_server_start of the listening socket; the loop begins.
NetioStarts ==
  /\ Goes(NetIo, "add", "running")
  /\ socket_pool' = [socket_pool EXCEPT ![1].type = "LISTEN_ADD"]
  /\ UNCHANGED <<created, listening, io_backlog, router_backlog, alloc_id, router, client>>

\* dispose_accept and socket_server_start of a client.  What happens when the
\* ids run out is in SocketServer.
NetioAdmits ==
  /\ pc[NetIo] = "running" /\ socket_pool[1].type = "LISTEN_ADD"
  /\ io_backlog # <<>> /\ apply_id \in Slots
  /\ io_backlog' = Tail(io_backlog)
  /\ TakeSlot("CONNECT_ADD", Head(io_backlog))
  /\ client' = [c \in Clients |-> IF c = Head(io_backlog) THEN "admitted" ELSE client[c]]
  /\ UNCHANGED <<created, pc, listening, router_backlog, router>>

Netio ==
  NetioListen \/ NetioAcceptsRouter \/ NetioRejects \/ NetioStarts \/ NetioAdmits

-----------------------------------------------------------------------------
(* net_logic.                                                              *)

NetlogicListen ==
  /\ Goes(NetLogic, "start", "connect")
  /\ listening' = listening \cup {NetLogic}
  /\ UNCHANGED <<created, io_backlog, router_backlog, netio, router, client>>

\* A slip: a connect that fails is taken for one that did not.
ConnectNetioService_Slip ==
  /\ Goes(NetLogic, "connect", "accept")
  /\ IF NetIo \in listening
     THEN Room(io_backlog) /\ io_backlog' = Append(io_backlog, NetLogic)
     ELSE UNCHANGED io_backlog
  /\ UNCHANGED <<created, listening, router_backlog, netio, router, client>>

\* Until net_io listens connect fails and is tried again.
ConnectNetioService ==
  /\ NetIo \in listening /\ Room(io_backlog)
  /\ Goes(NetLogic, "connect", "accept")
  /\ io_backlog' = Append(io_backlog, NetLogic)
  /\ UNCHANGED <<created, listening, router_backlog, netio, router, client>>

\* The queue net_logic pushes to for the i-th service.
que_2_gamelogic(i) == QUE_ID_NETLOGIC_2_GAME_FIRST + i

\* The switch over the ports of the game threads.
ServiceOfPort(port) == port - PORT_GAME_LOGIC_SERVICE_FIRST

\* A slip: the default branch counts, too.
RouterRejects_Slip ==
  /\ pc[NetLogic] = "accept"
  /\ router_backlog # <<>> /\ Head(router_backlog) \in Clients
  /\ router_backlog' = Tail(router_backlog)
  /\ client' = [client EXCEPT ![Head(router_backlog)] = "closed"]
  /\ accept_num' = accept_num + 1
  /\ IF accept_num' = GAME_LOGIC_SERVICE_NUM
     THEN pc' = [pc EXCEPT ![NetLogic] = "running"] /\ service_pool' = gamelog_socket
     ELSE UNCHANGED <<pc, service_pool>>
  /\ UNCHANGED <<created, listening, io_backlog, netio, gamelog_socket>>

\* The default branch of that switch: a connection from another port.
RouterRejects ==
  /\ pc[NetLogic] = "accept"
  /\ router_backlog # <<>> /\ Head(router_backlog) \in Clients
  /\ router_backlog' = Tail(router_backlog)
  /\ client' = [client EXCEPT ![Head(router_backlog)] = "closed"]
  /\ UNCHANGED <<created, pc, listening, io_backlog, netio, router>>

\* accept_gamelog_service_connect; behind the last one all are watched.
AcceptGamelogService ==
  /\ pc[NetLogic] = "accept"
  /\ router_backlog # <<>> /\ Head(router_backlog) \in Services
  /\ LET g == Head(router_backlog)
         sockets == [gamelog_socket EXCEPT ![ServiceOfPort(service_port(g))] = g]
     IN
     /\ gamelog_socket' = sockets
     /\ accept_num' = accept_num + 1
     /\ IF accept_num' = GAME_LOGIC_SERVICE_NUM
        THEN /\ pc' = [pc EXCEPT ![NetLogic] = "running"]
             /\ service_pool' = sockets
        ELSE UNCHANGED <<pc, service_pool>>
  /\ router_backlog' = Tail(router_backlog)
  /\ UNCHANGED <<created, listening, io_backlog, netio, client>>

RouterAccepts == AcceptGamelogService \/ RouterRejects

Router == NetlogicListen \/ ConnectNetioService \/ RouterAccepts

-----------------------------------------------------------------------------
\* connect_netlogic_service of a game thread; its loop begins.
ConnectNetlogicService(g) ==
  /\ NetLogic \in listening /\ Room(router_backlog)
  /\ Goes(g, "start", "running")
  /\ router_backlog' = Append(router_backlog, g)
  /\ UNCHANGED <<created, listening, io_backlog, netio, router, client>>

\* A client connects to the service port.
ClientConnects(c) ==
  /\ client[c] = "out" /\ NetIo \in listening /\ Room(io_backlog)
  /\ client' = [client EXCEPT ![c] = "waiting"]
  /\ io_backlog' = Append(io_backlog, c)
  /\ UNCHANGED <<created, pc, listening, router_backlog, netio, router>>

\* Somebody who is no game thread connects to net_logic's port, and has no
\* answer any more once net_logic routes.
StrayConnects(c) ==
  /\ client[c] = "out" /\ NetLogic \in listening /\ Room(router_backlog)
  /\ client' = [client EXCEPT ![c] = "stray"]
  /\ router_backlog' = Append(router_backlog, c)
  /\ UNCHANGED <<created, pc, listening, io_backlog, netio, router>>

Next ==
  \/ PthreadCreate \/ Netio \/ Router
  \/ \E g \in Services : ConnectNetlogicService(g)
  \/ \E c \in Clients : ClientConnects(c) \/ StrayConnects(c)
  \/ \E t \in Threads : Fail(t)

(* Kernel threads; a connect gets its place in the backlog although others *)
(* compete for it.                                                         *)
Fairness ==
  /\ WF_vars(PthreadCreate) /\ WF_vars(Netio)
  /\ WF_vars(NetlogicListen) /\ WF_vars(RouterAccepts)
  /\ SF_vars(ConnectNetioService)
  /\ \A g \in Services : SF_vars(ConnectNetlogicService(g))

Spec == Init /\ [][Next]_vars
FairSpec == Spec /\ Fairness

-----------------------------------------------------------------------------
(* Properties.                                                             *)

TypeOK ==
  /\ created \in 0 .. GAME_LOGIC_SERVICE_NUM + 2
  /\ pc \in [Threads -> {"none", "start", "connect", "accept", "add", "running", "ended"}]
  /\ listening \subseteq {NetIo, NetLogic}
  /\ io_backlog \in Seq(Clients \cup {NetLogic}) /\ Len(io_backlog) <= Backlog
  /\ router_backlog \in Seq(Services \cup Clients) /\ Len(router_backlog) <= Backlog
  /\ socket_pool \in [Slots -> [type : {"INVALID", "LISTEN_NOTADD", "LISTEN_ADD", "NETLOGIC",
                                        "CONNECT_ADD"},
                                peer : Clients \cup {NetLogic, NoOne}]]
  /\ alloc_id \in 0 .. MaxSocket - 1
  /\ gamelog_socket \in [Services -> Services \cup {NoOne}]
  /\ service_pool \in [Services -> Services \cup {NoOne}]
  /\ accept_num \in 0 .. GAME_LOGIC_SERVICE_NUM
  /\ client \in [Clients -> {"out", "waiting", "stray", "closed", "admitted"}]

(***************************************************************************)
(* When net_io's loop runs, the pool is what SocketServer starts from,     *)
(* whoever connected first: the listening socket has id 1, net_logic has   *)
(* id 2, and clients have the ids behind them (socket_server.c:604,        *)
(* 865-876, 888).                                                          *)
(***************************************************************************)
StartsAsAssumed ==
  pc[NetIo] = "running" =>
    /\ socket_pool[1].type = "LISTEN_ADD"
    /\ socket_pool[2] = [type |-> "NETLOGIC", peer |-> NetLogic]
    /\ alloc_id >= 2
    /\ \A s \in 3 .. MaxSocket - 1 :
         IF s <= alloc_id THEN socket_pool[s].type = "CONNECT_ADD" /\ socket_pool[s].peer \in Clients
                          ELSE socket_pool[s] = Empty

(***************************************************************************)
(* Nobody but net_logic has a slot before net_logic has one.               *)
(***************************************************************************)
RouterFirst ==
  \A s \in Slots : socket_pool[s].peer \in Clients =>
     s > 2 /\ socket_pool[2].peer = NetLogic

(***************************************************************************)
(* Together: whoever connects during the start-up and in whatever order,   *)
(* net_io never takes a client before its router, and ends with the pool   *)
(* its loop relies on (socket_server.c:604, 865-876, 888).                 *)
(***************************************************************************)
PoolReady == StartsAsAssumed /\ RouterFirst

(***************************************************************************)
(* Once net_logic routes, the socket it wakes for a service leads to the   *)
(* thread that reads the queue of that service, in whatever order the      *)
(* threads connected and whoever else did (net_logic.c:310-313, 933-968,   *)
(* game_logic.c:167-220).                                                  *)
(***************************************************************************)
Wired ==
  pc[NetLogic] = "running" =>
    \A i \in Services :
      /\ gamelog_socket[i] \in Services
      /\ service_que(gamelog_socket[i]) = que_2_gamelogic(i)
      /\ service_pool[i] = gamelog_socket[i]

(***************************************************************************)
(* The threads find each other however slowly they start and whoever is    *)
(* in the backlogs before them; nothing but a port that is taken keeps one *)
(* of them waiting (the retries at net_logic.c:884-890 and                 *)
(* game_logic.c:953-958).                                                  *)
(***************************************************************************)
AllRunning == <>(\A t \in Threads : pc[t] = "running") \/ <>(\E t \in Threads : pc[t] = "ended")

(***************************************************************************)
(* A client that connects to net_io, also during the start-up, is admitted *)
(* or sent away, also when another thread failed to start                  *)
(* (socket_server.c:853-892 and 736-741).                                  *)
(***************************************************************************)
ClientAnswered == \A c \in Clients : client[c] = "waiting" ~> client[c] \in {"closed", "admitted"}
=============================================================================
