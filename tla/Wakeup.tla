------------------------------- MODULE Wakeup -------------------------------
(***************************************************************************)
(* How the threads wake one another (socket_server.c, net_logic.c,         *)
(* game_logic.c).  A thread that pushes a message then writes a byte to a  *)
(* socket of the reader; the reader sleeps in epoll_wait or select, reads  *)
(* what bytes there are and drains the queue.  Messages and bytes are      *)
(* counted here and have no contents: the other modules say what a message *)
(* does, and take it that a queue with messages wakes its reader.          *)
(*                                                                         *)
(* Each pair of threads has a socket connection with room for SockBuf      *)
(* bytes each way.  net_io's ends are non-blocking, those of net_logic and *)
(* of the game threads are not: their writes wait for room.                *)
(***************************************************************************)
EXTENDS Integers

CONSTANTS
    Games,          \* the game threads
    SockBuf,        \* bytes a socket holds in one direction
    NetioRead,      \* sizeof(buf) in net_io
    ServiceRead,    \* sizeof(buf) in net_logic and the game threads
    MaxPush,        \* messages pushed for one message
    MaxMessages     \* messages net_io pushes in all

NetIo == "net_io"
NetLogic == "net_logic"

ASSUME ThreadsAssumption == NetIo \notin Games /\ NetLogic \notin Games
ASSUME SizesAssumption ==
  /\ SockBuf \in Nat \ {0} /\ NetioRead \in Nat \ {0} /\ ServiceRead \in Nat \ {0}
  /\ MaxPush \in Nat /\ MaxMessages \in Nat

Peers == {NetIo} \cup Games             \* those net_logic is connected to
Threads == Peers \cup {NetLogic}

\* The queue a peer pushes to: the game threads share one.
QueGames == "game_logic_2_net_logic"
UpQueue(p) == IF p = NetIo THEN NetIo ELSE QueGames
UpQueues == {NetIo, QueGames}

VARIABLES
    up,             \* messages in the queues to net_logic
    down,           \* messages in the queue from net_logic to each peer
    to_router,      \* bytes from each peer that net_logic has not read
    to_service,     \* bytes from net_logic that the peer has not read
    pc,             \* "loop"; "push" in a handler; "wake" behind the push
    todo,           \* pushes the handler still makes
    check_que,      \* the thread drains its queue
    events,         \* net_logic: the rest of the batch of epoll_wait
    current_serice, \* net_logic: the peer whose queue is drained
    dest,           \* net_logic: the peer a message goes to
    arrived         \* messages net_io has pushed or is about to

vars == <<up, down, to_router, to_service, pc, todo, check_que, events,
          current_serice, dest, arrived>>

Smaller(a, b) == IF a < b THEN a ELSE b

Init ==
  /\ up = [q \in UpQueues |-> 0] /\ down = [p \in Peers |-> 0]
  /\ to_router = [p \in Peers |-> 0] /\ to_service = [p \in Peers |-> 0]
  /\ pc = [t \in Threads |-> "loop"]
  /\ todo = [t \in Threads |-> 0]
  /\ check_que = [t \in Threads |-> FALSE]
  /\ events = {} /\ current_serice = NetIo /\ dest = NetIo
  /\ arrived = 0

\* Nothing is left of the last event: the thread looks at its sockets.
Waiting(t) == pc[t] = "loop" /\ ~check_que[t]
Draining(t) == pc[t] = "loop" /\ check_que[t]

\* The handler of t runs and pushes n messages.
Handle(t, n) ==
  /\ pc' = [pc EXCEPT ![t] = IF n = 0 THEN "loop" ELSE "push"]
  /\ todo' = [todo EXCEPT ![t] = n]

\* send_msg2_service is done.
Sent(t) ==
  /\ pc' = [pc EXCEPT ![t] = IF todo[t] = 0 THEN "loop" ELSE "push"]
  /\ UNCHANGED todo

-----------------------------------------------------------------------------
(* net_io and the game threads.                                            *)

\* A client connects, sends or leaves, and net_io tells net_logic.
ClientEvent ==
  /\ Waiting(NetIo) /\ arrived < MaxMessages
  /\ arrived' = arrived + 1
  /\ Handle(NetIo, 1)
  /\ UNCHANGED <<up, down, to_router, to_service, check_que, events, current_serice, dest>>

\* epoll_wait or select reports the socket of net_logic.
PeerWakes(p, size) ==
  /\ Waiting(p) /\ to_service[p] > 0
  /\ to_service' = [to_service EXCEPT ![p] = @ - Smaller(@, size)]
  /\ check_que' = [check_que EXCEPT ![p] = TRUE]
  /\ UNCHANGED <<up, down, to_router, pc, todo, events, current_serice, dest, arrived>>

NetioWakes == PeerWakes(NetIo, NetioRead)
GameWakes(g) == PeerWakes(g, ServiceRead)

PeerQueueNull(p) ==
  /\ Draining(p) /\ down[p] = 0
  /\ check_que' = [check_que EXCEPT ![p] = FALSE]
  /\ UNCHANGED <<up, down, to_router, to_service, pc, todo, events, current_serice, dest, arrived>>

(* A message from net_logic: net_io reports the recipients it cannot write *)
(* to, a game thread broadcasts.                                           *)
PeerPops(p, n) ==
  /\ Draining(p) /\ down[p] > 0
  /\ down' = [down EXCEPT ![p] = @ - 1]
  /\ Handle(p, n)
  /\ UNCHANGED <<up, to_router, to_service, check_que, events, current_serice, dest>>

NetioPops(n) == arrived + n <= MaxMessages /\ arrived' = arrived + n /\ PeerPops(NetIo, n)
GamePops(g, n) == UNCHANGED arrived /\ PeerPops(g, n)

PeerPushes(p) ==
  /\ pc[p] = "push"
  /\ up' = [up EXCEPT ![UpQueue(p)] = @ + 1]
  /\ pc' = [pc EXCEPT ![p] = "wake"]
  /\ todo' = [todo EXCEPT ![p] = @ - 1]
  /\ UNCHANGED <<down, to_router, to_service, check_que, events, current_serice, dest, arrived>>

\* EAGAIN of net_io's socket: the byte is dropped.
NetioSends ==
  /\ pc[NetIo] = "wake"
  /\ to_router' = [to_router EXCEPT ![NetIo] = Smaller(@ + 1, SockBuf)]
  /\ Sent(NetIo)
  /\ UNCHANGED <<up, down, to_service, check_que, events, current_serice, dest, arrived>>

\* A game thread's write waits for room.
GameSends(g) ==
  /\ pc[g] = "wake" /\ to_router[g] < SockBuf
  /\ to_router' = [to_router EXCEPT ![g] = @ + 1]
  /\ Sent(g)
  /\ UNCHANGED <<up, down, to_service, check_que, events, current_serice, dest, arrived>>

Netio ==
  \/ NetioWakes \/ PeerQueueNull(NetIo) \/ PeerPushes(NetIo) \/ NetioSends
  \/ \E n \in 0 .. MaxPush : NetioPops(n)

Game(g) ==
  \/ GameWakes(g) \/ PeerQueueNull(g) \/ PeerPushes(g) \/ GameSends(g)
  \/ \E n \in 0 .. MaxPush : GamePops(g, n)

-----------------------------------------------------------------------------
(* net_logic.                                                              *)

EpollWait ==
  /\ Waiting(NetLogic) /\ events = {}
  /\ \E p \in Peers : to_router[p] > 0
  /\ events' = {p \in Peers : to_router[p] > 0}
  /\ UNCHANGED <<up, down, to_router, to_service, pc, todo, check_que, current_serice,
                 dest, arrived>>

\* A slip: event_index is not moved on.
RouterWakes_Slip(p) ==
  /\ Waiting(NetLogic) /\ p \in events
  /\ current_serice' = p
  /\ to_router' = [to_router EXCEPT ![p] = @ - Smaller(@, ServiceRead)]
  /\ check_que' = [check_que EXCEPT ![NetLogic] = TRUE]
  /\ UNCHANGED <<up, down, to_service, pc, todo, events, dest, arrived>>

RouterWakes(p) ==
  /\ Waiting(NetLogic) /\ p \in events
  /\ events' = events \ {p}
  /\ current_serice' = p
  /\ to_router' = [to_router EXCEPT ![p] = @ - Smaller(@, ServiceRead)]
  /\ check_que' = [check_que EXCEPT ![NetLogic] = TRUE]
  /\ UNCHANGED <<up, down, to_service, pc, todo, dest, arrived>>

current_que == UpQueue(current_serice)

\* A slip: the queue that is empty is looked at again and again.
RouterQueueNull_Slip ==
  /\ Draining(NetLogic) /\ up[current_que] = 0
  /\ UNCHANGED vars

RouterQueueNull ==
  /\ Draining(NetLogic) /\ up[current_que] = 0
  /\ check_que' = [check_que EXCEPT ![NetLogic] = FALSE]
  /\ UNCHANGED <<up, down, to_router, to_service, pc, todo, events, current_serice, dest, arrived>>

\* A slip: one message is handled for one event.
RouterPops_Slip(p, n) ==
  /\ Draining(NetLogic) /\ up[current_que] > 0
  /\ current_serice # NetIo => p = NetIo /\ n = 1
  /\ up' = [up EXCEPT ![current_que] = @ - 1]
  /\ dest' = p
  /\ Handle(NetLogic, n)
  /\ check_que' = [check_que EXCEPT ![NetLogic] = FALSE]
  /\ UNCHANGED <<down, to_router, to_service, events, current_serice, arrived>>

(* A message of net_io goes to a game thread, is refused back to net_io,   *)
(* or has no route; a message of a game thread goes to net_io.             *)
RouterPops(p, n) ==
  /\ Draining(NetLogic) /\ up[current_que] > 0
  /\ current_serice # NetIo => p = NetIo /\ n = 1
  /\ up' = [up EXCEPT ![current_que] = @ - 1]
  /\ dest' = p
  /\ Handle(NetLogic, n)
  /\ UNCHANGED <<down, to_router, to_service, check_que, events, current_serice, arrived>>

RouterPushes ==
  /\ pc[NetLogic] = "push"
  /\ down' = [down EXCEPT ![dest] = @ + 1]
  /\ pc' = [pc EXCEPT ![NetLogic] = "wake"]
  /\ todo' = [todo EXCEPT ![NetLogic] = @ - 1]
  /\ UNCHANGED <<up, to_router, to_service, check_que, events, current_serice, dest, arrived>>

RouterSends ==
  /\ pc[NetLogic] = "wake" /\ to_service[dest] < SockBuf
  /\ to_service' = [to_service EXCEPT ![dest] = @ + 1]
  /\ Sent(NetLogic)
  /\ UNCHANGED <<up, down, to_router, check_que, events, current_serice, dest, arrived>>

Router ==
  \/ EpollWait \/ RouterQueueNull \/ RouterPushes \/ RouterSends
  \/ \E p \in Peers : RouterWakes(p) \/ \E n \in 0 .. 1 : RouterPops(p, n)

-----------------------------------------------------------------------------
Next == ClientEvent \/ Netio \/ Router \/ \E g \in Games : Game(g)

(* The threads are kernel threads: one that can go on does.                *)
Fairness ==
  /\ WF_vars(Netio) /\ WF_vars(Router)
  /\ \A g \in Games : WF_vars(Game(g))

Spec == Init /\ [][Next]_vars
FairSpec == Spec /\ Fairness

-----------------------------------------------------------------------------
(* Properties.                                                             *)

TypeOK ==
  /\ up \in [UpQueues -> Nat] /\ down \in [Peers -> Nat]
  /\ to_router \in [Peers -> 0 .. SockBuf] /\ to_service \in [Peers -> 0 .. SockBuf]
  /\ pc \in [Threads -> {"loop", "push", "wake"}]
  /\ todo \in [Threads -> Nat]
  /\ \A t \in Threads : pc[t] = "push" => todo[t] > 0
  /\ check_que \in [Threads -> BOOLEAN]
  /\ events \subseteq Peers
  /\ current_serice \in Peers /\ dest \in Peers
  /\ arrived \in Nat

(***************************************************************************)
(* No message sleeps: while one is in a queue its reader drains that       *)
(* queue, or a byte waits for the reader, or the thread that pushed it is  *)
(* about to write one.  The reader reads all its bytes before it drains,   *)
(* net_io drops bytes (socket_server.c:530-531), and four threads share    *)
(* one queue but not one socket.                                           *)
(***************************************************************************)
PeerIsWoken ==
  \A p \in Peers : down[p] > 0 =>
     \/ check_que[p] \/ to_service[p] > 0
     \/ pc[NetLogic] = "wake" /\ dest = p

RouterIsWoken ==
  \A q \in UpQueues : up[q] > 0 =>
     \/ check_que[NetLogic] /\ current_que = q
     \/ \E p \in Peers : UpQueue(p) = q /\ (to_router[p] > 0 \/ pc[p] = "wake")

NoLostWakeup == PeerIsWoken /\ RouterIsWoken

(***************************************************************************)
(* The events of a batch are about sockets that still have their bytes     *)
(* when their turn comes, whatever was drained before: net_logic's read,   *)
(* on a socket that blocks, never waits (net_logic.c:712, 754-796).        *)
(***************************************************************************)
EventsHaveBytes == \A p \in events : to_router[p] > 0

(***************************************************************************)
(* net_logic waits for room at a game thread that waits for room at        *)
(* net_logic: each is in a handler and reads nothing.                      *)
(***************************************************************************)
MutualBlock ==
  /\ pc[NetLogic] = "wake" /\ dest \in Games
  /\ pc[dest] = "wake"
  /\ to_service[dest] = SockBuf /\ to_router[dest] = SockBuf

Empty == (\A q \in UpQueues : up[q] = 0) /\ (\A p \in Peers : down[p] = 0)

(***************************************************************************)
(* What is in the queues is handled in the end, through all the blocking   *)
(* writes and dropped bytes; the one thing that can stop it is net_logic   *)
(* and a game thread waiting for each other.                               *)
(***************************************************************************)
AllServed == ~Empty ~> Empty \/ MutualBlock
=============================================================================
