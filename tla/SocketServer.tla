---------------------------- MODULE SocketServer ----------------------------
(***************************************************************************)
(* The net_io thread (socket_server.c): it accepts clients, reads their    *)
(* requests into the queue to net_logic, and writes the broadcasts that    *)
(* net_logic sends back.  The clients and the kernel's end of their        *)
(* connections run concurrently with it.                                   *)
(*                                                                         *)
(* One action is one turn of the event loop, or the send to one recipient  *)
(* of a broadcast: the state of a connection may change between two of     *)
(* them, and is only looked at once within each.                           *)
(***************************************************************************)
EXTENDS Proto, FiniteSets

CONSTANTS
    Clients,        \* the connections clients make during a run
    MaxSocket,      \* MAX_SOCKET
    MaxEvent,       \* MAX_EVENT
    MaxRequests,    \* the clients send at most this many requests in all
    EpollAddFails   \* whether epoll_ctl may fail to add a client

ASSUME ClientsAssumption == IsFiniteSet(Clients)
ASSUME MaxSocketAssumption == MaxSocket \in Nat /\ MaxSocket > 3
ASSUME MaxEventAssumption == MaxEvent \in Nat \ {0}
ASSUME LimitsAssumption == MaxRequests \in Nat /\ EpollAddFails \in BOOLEAN

Slots      == 0 .. MaxSocket - 1
LISTEN_ID  == 1                    \* the ids the start-up hands out
NETLOGIC_ID == 2
Uids       == 3 .. MaxSocket - 1
NoConn     == "no connection"

VARIABLES
    io2netlogic_que,
    netlogic2io_que,
    socket_pool,     \* slot -> [type, id, conn, buffered, epollout]
    alloc_id,        \* the last id handed out
    events,          \* the events of the last epoll_wait not yet handled
    que_check,       \* drain the queue from net_logic
    sending,         \* recipients a broadcast has yet to be sent to
    fault,           \* how the process died, "none" while it lives
    conn,            \* kernel: the state of each connection
    backlog,         \* kernel: connections to be accepted
    inbox,           \* kernel: complete requests that can be read
    half,            \* kernel: the first bytes of a request have arrived
    requests,        \* requests the clients may still send
    uid_of,          \* history: the id each connection was given, or 0
    told             \* history: what net_logic was last told of each id

server  == <<socket_pool, alloc_id, events, que_check, sending>>
network == <<conn, backlog, inbox, half, requests>>
history == <<uid_of, told>>
vars    == <<io2netlogic_que, netlogic2io_que, server, fault, network, history>>

Socket(type, id, c) == [type |-> type, id |-> id, conn |-> c,
                        buffered |-> FALSE,    \* s->head is not NULL
                        epollout |-> FALSE]    \* EPOLLOUT was asked for

\* The state the service loop starts in: socket_server_listen took id 1,
\* wait_netlogic_service_connect id 2.
ServerInit ==
    /\ socket_pool = [s \in Slots |->
           CASE s = LISTEN_ID   -> Socket("LISTEN_ADD", s, NoConn)
             [] s = NETLOGIC_ID -> Socket("NETLOGIC", s, NoConn)
             [] OTHER           -> Socket("INVALID", 0, NoConn)]
    /\ alloc_id = NETLOGIC_ID
    /\ events = {}
    /\ que_check = FALSE
    /\ sending = <<>>
    /\ fault = "none"
    /\ conn = [c \in Clients |-> "idle"]
    /\ backlog = {}
    /\ inbox = [c \in Clients |-> <<>>]
    /\ half = [c \in Clients |-> FALSE]
    /\ requests = MaxRequests
    /\ uid_of = [c \in Clients |-> 0]
    /\ told = [u \in Uids |-> "nothing"]

Init == io2netlogic_que = <<>> /\ netlogic2io_que = <<>> /\ ServerInit

-----------------------------------------------------------------------------
(* Telling net_logic.                                                      *)

\* What net_logic may be told of a client next: 'S', then 'D's, then 'C'.
Told(before, type) ==
    CASE before = "nothing" /\ type = "S"   -> "S"
      [] before = "S" /\ type \in {"D", "C"} -> IF type = "D" THEN "S" ELSE "C"
      [] OTHER                               -> "out of order"

\* send_client_msg2net_logic.
Report(m) ==
    /\ io2netlogic_que' = Append(io2netlogic_que, m)
    /\ told' = IF m.uid \in Uids
               THEN [told EXCEPT ![m.uid] = Told(@, m.type)]
               ELSE told

-----------------------------------------------------------------------------
(* Slots.                                                                  *)

\* A slip: the search starts again at the first client id when it runs out.
apply_id_Wraps ==
    LET Free(from) == {id \in from .. MaxSocket - 1 : socket_pool[id].type = "INVALID"}
    IN  IF Free(alloc_id + 1) # {}
        THEN CHOOSE id \in Free(alloc_id + 1) : \A k \in Free(alloc_id + 1) : id <= k
        ELSE IF Free(1) # {}
        THEN CHOOSE id \in Free(1) : \A k \in Free(1) : id <= k
        ELSE -1

\* The first free slot behind the last id; -1 when there is none.  Resetting
\* alloc_id at the end does not help the search under way, and the caller
\* does not survive the -1.
apply_id ==
    LET Free == {id \in alloc_id + 1 .. MaxSocket - 1 :
                    socket_pool[id].type = "INVALID"}
    IN  IF Free = {} THEN -1 ELSE CHOOSE id \in Free : \A k \in Free : id <= k

\* A slip: the slot is left as it is.
Close_Skipped(s) == UNCHANGED <<socket_pool, network>>

\* close_fd: forget the slot, its buffer and its id, and close the connection.
Close(s) ==
    /\ socket_pool' = [socket_pool EXCEPT ![s] = Socket("INVALID", 0, NoConn)]
    /\ conn' = [conn EXCEPT ![socket_pool[s].conn] = "closed"]
    /\ inbox' = [inbox EXCEPT ![socket_pool[s].conn] = <<>>]
    /\ half' = [half EXCEPT ![socket_pool[s].conn] = FALSE]
    /\ UNCHANGED <<backlog, requests>>

Added(s) == socket_pool[s].type = "CONNECT_ADD"

Die(how) ==
    /\ fault' = how
    /\ UNCHANGED <<io2netlogic_que, network, history>>

-----------------------------------------------------------------------------
(* The event loop.                                                         *)

Running == fault = "none"
AtEvents == Running /\ sending = <<>> /\ ~que_check

\* A slip: the end of the stream does not count as readable.
CanRead_NoEnd(c) == inbox[c] # <<>>

\* readn finds a whole request, or an end of the stream to report.
CanRead(c)  == inbox[c] # <<>> \/ conn[c] \in {"fin", "finrst", "rst"}
Readable(s) ==
    CASE socket_pool[s].type = "LISTEN_ADD"  -> backlog # {}
      [] socket_pool[s].type = "NETLOGIC"    -> netlogic2io_que # <<>>
      [] socket_pool[s].type = "CONNECT_ADD" ->
             CanRead(socket_pool[s].conn) \/ half[socket_pool[s].conn]
      [] OTHER -> FALSE

\* epoll_wait returns the ready slots, at most MaxEvent of them, in any order.
\* A socket asked for EPOLLOUT may be writable at any time.  The connection
\* is recorded for the properties only.
EpollWait ==
    LET Ready == {s \in Slots : Readable(s) \/ socket_pool[s].epollout}
        Event(s) == [slot |-> s, read |-> Readable(s),
                     write |-> socket_pool[s].epollout,
                     conn |-> socket_pool[s].conn]
    IN
    /\ AtEvents /\ events = {} /\ Ready # {}
    /\ \E R \in SUBSET Ready :
          /\ Cardinality(R) = IF Cardinality(Ready) <= MaxEvent
                              THEN Cardinality(Ready) ELSE MaxEvent
          /\ events' = {Event(s) : s \in R}
    /\ UNCHANGED <<io2netlogic_que, netlogic2io_que, socket_pool, alloc_id,
                   que_check, sending, fault, network, history>>

\* The switch is on the type the slot has when its event is handled.
Take(e, type) ==
    /\ AtEvents
    /\ e \in events
    /\ events' = events \ {e}
    /\ socket_pool[e.slot].type = type

\* An event of a slot that was closed after epoll_wait returned.
DropEvent(e) ==
    /\ Take(e, "INVALID")
    /\ UNCHANGED <<io2netlogic_que, netlogic2io_que, socket_pool, alloc_id,
                   que_check, sending, fault, network, history>>

NetlogicEvent(e) ==
    /\ Take(e, "NETLOGIC")
    /\ que_check' = TRUE
    /\ UNCHANGED <<io2netlogic_que, netlogic2io_que, socket_pool, alloc_id,
                   sending, fault, network, history>>

\* dispose_accept and socket_server_start.  Without an id the thread looks at
\* socket_pool[-1] and dies on the assertion about its type, or before.  A
\* client that cannot be added to epoll is forgotten with its slot freed.
Accept(e) ==
    LET id == apply_id IN
    /\ Take(e, "LISTEN_ADD")
    /\ \E c \in backlog, added \in {TRUE} \cup {~EpollAddFails} :
          IF id = -1
          THEN /\ Die("no id")
               /\ UNCHANGED <<socket_pool, alloc_id>>
          ELSE /\ alloc_id' = id
               /\ socket_pool' = [socket_pool EXCEPT ![id] =
                     IF added THEN Socket("CONNECT_ADD", id, c)
                              ELSE Socket("INVALID", id, NoConn)]
               /\ backlog' = backlog \ {c}
               /\ uid_of' = [uid_of EXCEPT ![c] = id]
               /\ IF added THEN Report(New(id))
                           ELSE UNCHANGED <<io2netlogic_que, told>>
               /\ UNCHANGED <<fault, conn, inbox, half, requests>>
    /\ UNCHANGED <<netlogic2io_que, que_check, sending>>

\* A slip: the id is read when the slot is closed, as in the write path.
ReadMessage_ReportsLate(e) ==
    LET c == socket_pool[e.slot].conn IN
    /\ Take(e, "CONNECT_ADD")
    /\ e.read
    /\ CanRead(c)
    /\ IF inbox[c] # <<>>
       THEN /\ Report(Data(socket_pool[e.slot].id, Head(inbox[c])))
            /\ inbox' = [inbox EXCEPT ![c] = Tail(@)]
            /\ UNCHANGED <<socket_pool, conn, backlog, half, requests>>
       ELSE /\ Close(e.slot)
            /\ Report(Closed(socket_pool'[e.slot].id))
    /\ UNCHANGED <<netlogic2io_que, alloc_id, que_check, sending, fault, uid_of>>

\* dispose_readmessage: a whole request is passed on; at the end of the
\* stream, or after a reset, the client is closed and reported.  While only
\* the first bytes of a request are there, readn spins and the action waits.
ReadMessage(e) ==
    LET c == socket_pool[e.slot].conn
        u == socket_pool[e.slot].id
    IN
    /\ Take(e, "CONNECT_ADD")
    /\ e.read
    /\ CanRead(c)
    /\ IF inbox[c] # <<>>
       THEN /\ Report(Data(u, Head(inbox[c])))
            /\ inbox' = [inbox EXCEPT ![c] = Tail(@)]
            /\ UNCHANGED <<socket_pool, conn, backlog, half, requests>>
       ELSE /\ Close(e.slot)
            /\ Report(Closed(u))
    /\ UNCHANGED <<netlogic2io_que, alloc_id, que_check, sending, fault, uid_of>>

-----------------------------------------------------------------------------
(* Writing.                                                                *)

\* A rest that could not be written: append_remaindata and the interest in
\* EPOLLOUT; and the buffer found empty at last.
AppendRest_Unwatched(s) == [socket_pool EXCEPT ![s].buffered = TRUE]

AppendRest(s) ==
    [socket_pool EXCEPT ![s].buffered = TRUE, ![s].epollout = TRUE]

Emptied(s) ==
    [socket_pool EXCEPT ![s].buffered = FALSE, ![s].epollout = FALSE]

\* write(2) on a connection takes all or part of the data, and leaves one of
\* the pools given.  A peer that reset the connection makes it fail, after an
\* end of stream with SIGPIPE, which nothing catches.  On an error the slot
\* is closed first, so that the id reported is the 0 close_fd left in it.
Write(s, pools) ==
    LET c == socket_pool[s].conn IN
    CASE conn[c] \in {"open", "fin"} ->
            /\ socket_pool' \in pools
            /\ UNCHANGED <<io2netlogic_que, fault, network, history>>
      [] conn[c] = "rst" ->
            /\ Close(s)
            /\ Report(Closed(socket_pool'[s].id))
            /\ UNCHANGED <<fault, uid_of>>
      [] conn[c] = "finrst" ->
            /\ Die("SIGPIPE")
            /\ UNCHANGED socket_pool

\* send_buffer, when the event is not readable: reading goes first.
SendBuffer(e) ==
    /\ Take(e, "CONNECT_ADD")
    /\ ~e.read /\ e.write
    /\ Write(e.slot, {socket_pool, Emptied(e.slot)})
    /\ UNCHANGED <<netlogic2io_que, alloc_id, que_check, sending>>

\* send_data to the next recipient of the broadcast under way.
SendData ==
    LET s == Head(sending) IN
    /\ Running /\ sending # <<>>
    /\ sending' = Tail(sending)
    /\ IF ~Added(s)
       THEN Die("assertion") /\ UNCHANGED socket_pool
       ELSE IF socket_pool[s].buffered
       THEN UNCHANGED <<io2netlogic_que, socket_pool, fault, network, history>>
       ELSE Write(s, {socket_pool, AppendRest(s)})
    /\ UNCHANGED <<netlogic2io_que, alloc_id, events, que_check>>

-----------------------------------------------------------------------------
(* The queue from net_logic (dispose_queue_event).                         *)

AtQueue == Running /\ sending = <<>> /\ que_check

QueueNull ==
    /\ AtQueue
    /\ netlogic2io_que = <<>>
    /\ que_check' = FALSE
    /\ UNCHANGED <<io2netlogic_que, netlogic2io_que, socket_pool, alloc_id,
                   events, sending, fault, network, history>>

\* broadcast_user_msg.
StartBroadcast ==
    /\ AtQueue
    /\ netlogic2io_que # <<>>
    /\ Head(netlogic2io_que).event = "NULL"
    /\ sending' = Head(netlogic2io_que).msg.to
    /\ netlogic2io_que' = Tail(netlogic2io_que)
    /\ UNCHANGED <<io2netlogic_que, socket_pool, alloc_id, events, que_check,
                   fault, network, history>>

\* dispose_service_full: the client is closed, and nobody is told.
DropClient ==
    /\ AtQueue
    /\ netlogic2io_que # <<>>
    /\ Head(netlogic2io_que).event = "F"
    /\ netlogic2io_que' = Tail(netlogic2io_que)
    /\ IF Added(Head(netlogic2io_que).uid)
       THEN Close(Head(netlogic2io_que).uid)
       ELSE UNCHANGED <<socket_pool, network>>
    /\ UNCHANGED <<io2netlogic_que, alloc_id, events, que_check, sending,
                   fault, history>>

NetIoStep ==
    \/ EpollWait
    \/ \E e \in events :
          DropEvent(e) \/ NetlogicEvent(e) \/ Accept(e) \/ ReadMessage(e)
            \/ SendBuffer(e)
    \/ SendData
    \/ QueueNull
    \/ StartBroadcast
    \/ DropClient

-----------------------------------------------------------------------------
(* The clients: they connect, send requests in one or two parts, end their *)
(* stream, and reset the connection.                                       *)

ClientUnchanged == UNCHANGED <<io2netlogic_que, netlogic2io_que, server,
                               fault, history>>

ClientConnects(c) ==
    /\ conn[c] = "idle"
    /\ conn' = [conn EXCEPT ![c] = "open"]
    /\ backlog' = backlog \cup {c}
    /\ UNCHANGED <<inbox, half, requests>>
    /\ ClientUnchanged

ClientStartsRequest(c) ==
    /\ conn[c] = "open" /\ ~half[c] /\ requests > 0
    /\ half' = [half EXCEPT ![c] = TRUE]
    /\ requests' = requests - 1
    /\ UNCHANGED <<conn, backlog, inbox>>
    /\ ClientUnchanged

ClientEndsRequest(c, r) ==
    /\ conn[c] = "open" /\ half[c]
    /\ half' = [half EXCEPT ![c] = FALSE]
    /\ inbox' = [inbox EXCEPT ![c] = Append(@, r)]
    /\ UNCHANGED <<conn, backlog, requests>>
    /\ ClientUnchanged

ClientCloses(c) ==
    /\ conn[c] = "open"
    /\ conn' = [conn EXCEPT ![c] = "fin"]
    /\ UNCHANGED <<backlog, inbox, half, requests>>
    /\ ClientUnchanged

ClientResets(c) ==
    /\ conn[c] \in {"open", "fin"}
    /\ conn' = [conn EXCEPT ![c] = IF @ = "open" THEN "rst" ELSE "finrst"]
    /\ UNCHANGED <<backlog, inbox, half, requests>>
    /\ ClientUnchanged

ClientStep(c) ==
    \/ ClientConnects(c)
    \/ ClientStartsRequest(c)
    \/ \E r \in {"MOVE_REQ"} : ClientEndsRequest(c, r)
    \/ ClientCloses(c)
    \/ ClientResets(c)

-----------------------------------------------------------------------------
(* net_logic, the other end of both queues: at any time it takes the       *)
(* oldest report, and sends broadcasts to any clients or refuses some.  An *)
(* answer may be addressed by a uid that was never set, a 0.               *)

NetIoMsgs ==
    {ToNetIo(Broadcast(r, to, u)) :
        r \in Responses, to \in Seq(Uids \cup {0}), u \in Slots}
        \cup {ServiceFull(u) : u \in Uids}

NetLogicStep(reads, msgs) ==
    /\ reads => io2netlogic_que # <<>>
    /\ io2netlogic_que' = IF reads THEN Tail(io2netlogic_que) ELSE io2netlogic_que
    /\ netlogic2io_que' = netlogic2io_que \o msgs
    /\ UNCHANGED <<server, fault, network, history>>

Next ==
    \/ NetIoStep
    \/ \E c \in Clients : ClientStep(c)
    \/ \E reads \in BOOLEAN, msgs \in Seq(NetIoMsgs) : NetLogicStep(reads, msgs)

Spec == Init /\ [][Next]_vars

-----------------------------------------------------------------------------
(* Properties.                                                             *)

TypeOK ==
    /\ \A i \in DOMAIN io2netlogic_que :
          io2netlogic_que[i] \in UserMsgs(Uids \cup {0})
    /\ \A i \in DOMAIN netlogic2io_que : netlogic2io_que[i].event \in {"NULL", "F"}
    /\ socket_pool \in [Slots ->
          [type : {"INVALID", "LISTEN_ADD", "NETLOGIC", "CONNECT_ADD"},
           id : Slots, conn : Clients \cup {NoConn},
           buffered : BOOLEAN, epollout : BOOLEAN]]
    /\ alloc_id \in Slots
    /\ events \subseteq [slot : Slots, read : BOOLEAN, write : BOOLEAN,
                         conn : Clients \cup {NoConn}]
    /\ que_check \in BOOLEAN
    /\ \A i \in DOMAIN sending : sending[i] \in Slots
    /\ fault \in Faults
    /\ conn \in [Clients -> {"idle", "open", "fin", "rst", "finrst", "closed"}]
    /\ backlog \subseteq Clients
    /\ \A c \in Clients : \A i \in DOMAIN inbox[c] : inbox[c][i] \in Requests
    /\ half \in [Clients -> BOOLEAN]
    /\ requests \in 0 .. MaxRequests
    /\ uid_of \in [Clients -> Uids \cup {0}]
    /\ told \in [Uids -> {"nothing", "S", "C", "out of order"}]

(***************************************************************************)
(* A uid names one connection for the life of the server.  The other       *)
(* threads know clients by uid only, in messages that may be old when they *)
(* are read (socket_server.c:111-130).                                     *)
(***************************************************************************)
IdNamesOneConnection ==
    \A c, d \in Clients : c # d /\ uid_of[c] # 0 => uid_of[c] # uid_of[d]

(***************************************************************************)
(* An event of a batch is handled for the connection it was reported for,  *)
(* although the switch looks at what the slot holds when its turn comes    *)
(* (socket_server.c:725-766).                                              *)
(***************************************************************************)
EventsCurrent ==
    \A e \in events : Added(e.slot) => socket_pool[e.slot].conn = e.conn

(***************************************************************************)
(* Buffered data is always waited on with EPOLLOUT, and EPOLLOUT is never  *)
(* left on without data: neither a rest that nobody sends nor a busy loop  *)
(* (socket_server.c:444, 482).                                             *)
(***************************************************************************)
BufferedIsWatched ==
    \A s \in Slots : socket_pool[s].buffered <=> socket_pool[s].epollout

(***************************************************************************)
(* net_logic hears of each uid 'S', then 'D's, then at most one 'C', and   *)
(* nothing after it, whichever of the read and write paths finds the end   *)
(* first (socket_server.c:336-367, 402-491).                               *)
(***************************************************************************)
SessionProtocol == \A u \in Uids : told[u] # "out of order"

(***************************************************************************)
(* A client in epoll is one net_logic has been told of and not been told   *)
(* is gone, and its slot belongs to its connection.                        *)
(***************************************************************************)
AddedIsTold ==
    \A u \in Uids : Added(u) => /\ told[u] = "S"
                                /\ socket_pool[u].id = u
                                /\ uid_of[socket_pool[u].conn] = u
=============================================================================
