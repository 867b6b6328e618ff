------------------------ MODULE SocketServerProofs ------------------------
(***************************************************************************)
(* The safety properties of the net_io thread, for any number of clients,  *)
(* slots and events in a batch, and whatever net_logic sends it.           *)
(***************************************************************************)
EXTENDS SocketServer, FiniteSetTheorems, WellFoundedInduction, TLAPS

USE ClientsAssumption, MaxSocketAssumption, MaxEventAssumption, LimitsAssumption

(***************************************************************************)
(* The inductive invariant.  Ids rise, so that everything behind alloc_id  *)
(* is untouched: no slot, event, connection or report carries such an id.  *)
(* A slot in epoll and its connection point at each other, the connection  *)
(* is still there, and net_logic has been told of it.                      *)
(***************************************************************************)
Live == {"open", "fin", "rst", "finrst"}

Records == [type : {"INVALID", "LISTEN_ADD", "NETLOGIC", "CONNECT_ADD"},
            id : Slots, conn : Clients \cup {NoConn},
            buffered : BOOLEAN, epollout : BOOLEAN]

Batch == [slot : Slots, read : BOOLEAN, write : BOOLEAN,
          conn : Clients \cup {NoConn}]

ReportTypes ==
    /\ io2netlogic_que \in Seq(UserMsgs(Uids \cup {0}))
    /\ told \in [Uids -> {"nothing", "S", "C", "out of order"}]

NetworkTypes ==
    /\ conn \in [Clients -> {"idle", "open", "fin", "rst", "finrst", "closed"}]
    /\ backlog \subseteq Clients
    /\ inbox \in [Clients -> Seq(Requests)]
    /\ half \in [Clients -> BOOLEAN]
    /\ requests \in 0 .. MaxRequests

LoopTypes ==
    /\ netlogic2io_que \in Seq(NetIoMsgs)
    /\ alloc_id \in Slots /\ alloc_id >= NETLOGIC_ID
    /\ events \subseteq Batch
    /\ que_check \in BOOLEAN
    /\ sending \in Seq(Uids \cup {0})
    /\ fault \in Faults
    /\ uid_of \in [Clients -> Uids \cup {0}]

Types == ReportTypes /\ NetworkTypes /\ LoopTypes /\ socket_pool \in [Slots -> Records]

Fresh ==
    /\ \A s \in Slots : s > alloc_id => socket_pool[s].type = "INVALID"
    /\ \A u \in Uids : u > alloc_id => told[u] = "nothing"
    /\ \A c \in Clients : uid_of[c] <= alloc_id
    /\ \A e \in events : e.slot <= alloc_id

InEpoll(s) ==
    /\ s \in Uids /\ told[s] = "S" /\ socket_pool[s].id = s
    /\ socket_pool[s].conn \in Clients
    /\ uid_of[socket_pool[s].conn] = s
    /\ conn[socket_pool[s].conn] \in Live

Sessions ==
    /\ \A s \in Slots : Added(s) => InEpoll(s)
    /\ \A s \in Slots : ~Added(s) => ~socket_pool[s].buffered

Waiting ==
    /\ \A c \in Clients : conn[c] = "idle" => uid_of[c] = 0 /\ c \notin backlog
    /\ \A c \in backlog : uid_of[c] = 0 /\ conn[c] \in Live

Current ==
    /\ Fresh /\ Sessions /\ Waiting
    /\ IdNamesOneConnection /\ EventsCurrent /\ BufferedIsWatched /\ SessionProtocol

IInv == Types /\ Current

-----------------------------------------------------------------------------
(* The helpers: what apply_id finds, and what a report, a close and a      *)
(* write leave well-typed.                                                 *)

LEMMA IdSets ==
    /\ Slots \subseteq Int /\ Uids \subseteq Slots /\ 0 \in Slots /\ 0 \notin Uids
    /\ LISTEN_ID \in Slots /\ NETLOGIC_ID \in Slots
    /\ LISTEN_ID \notin Uids /\ NETLOGIC_ID \notin Uids
BY DEF Slots, Uids, LISTEN_ID, NETLOGIC_ID

\* Where the search for an id stops.
LEMMA LeastNatural ==
    ASSUME NEW T, T \subseteq Nat, T # {}
    PROVE  \E x \in T : \A y \in T : ~(y < x)
<1> DEFINE R == OpToRel(<, Nat)
<1>1. IsWellFoundedOn(R, Nat)
  BY NatLessThanWellFounded DEF OpToRel
<1>2. \A x, y \in Nat : <<y, x>> \in R <=> y < x
  BY DEF OpToRel
<1> HIDE DEF R
<1>3. PICK x \in T : \A y \in T : ~(<<y, x>> \in R)
  BY <1>1, WFMin, Zenon
<1> QED BY <1>2, <1>3

(***************************************************************************)
(* apply_id (socket_server.c:110-130) hands out an id behind the last one, *)
(* of a free slot, or none.                                                *)
(***************************************************************************)
LEMMA NewId ==
    ASSUME Types
    PROVE  \/ apply_id = -1
           \/ /\ apply_id \in Uids /\ apply_id > alloc_id
              /\ socket_pool[apply_id].type = "INVALID"
<1> DEFINE Free == {id \in alloc_id + 1 .. MaxSocket - 1 :
                       socket_pool[id].type = "INVALID"}
<1>0. alloc_id \in 0 .. MaxSocket - 1 /\ alloc_id >= 2
  BY DEF Types, LoopTypes, Slots, NETLOGIC_ID
<1>1. alloc_id \in Nat /\ alloc_id >= 2 /\ Free \subseteq Nat
  BY <1>0
<1>2. apply_id = IF Free = {} THEN -1 ELSE CHOOSE id \in Free : \A k \in Free : id <= k
  BY Zenon DEF apply_id
<1> SUFFICES ASSUME Free # {}
             PROVE  /\ apply_id \in Uids /\ apply_id > alloc_id
                    /\ socket_pool[apply_id].type = "INVALID"
  BY <1>2
<1>3. PICK x \in Free : \A y \in Free : ~(y < x)
  <2> HIDE DEF Free
  <2> QED BY <1>1, LeastNatural, Zenon
<1>4. \A k \in Free : x <= k
  BY <1>1, <1>3
<1>5. apply_id \in Free
  <2> HIDE DEF Free
  <2> QED BY <1>2, <1>4
<1> QED BY <1>1, <1>5 DEF Uids

LEMMA QueueGrows ==
    ASSUME NEW S, NEW q \in Seq(S), NEW m \in S
    PROVE  Append(q, m) \in Seq(S)
OBVIOUS

LEMMA QueueShrinks ==
    ASSUME NEW S, NEW q \in Seq(S), q # <<>>
    PROVE  Head(q) \in S /\ Tail(q) \in Seq(S)
OBVIOUS

LEMMA Elements ==
    ASSUME NEW S, NEW q \in Seq(S)
    PROVE  \A i \in DOMAIN q : q[i] \in S
OBVIOUS

LEMMA MessageTypes ==
    ASSUME NEW u \in Uids \cup {0}
    PROVE  /\ New(u) \in UserMsgs(Uids \cup {0}) /\ Closed(u) \in UserMsgs(Uids \cup {0})
           /\ New(u).uid = u /\ New(u).type = "S" /\ Closed(u).uid = u /\ Closed(u).type = "C"
BY DEF New, Closed, UserMsgs

LEMMA ReportTyped ==
    ASSUME ReportTypes, NEW m \in UserMsgs(Uids \cup {0}), Report(m)
    PROVE  ReportTypes'
<1>1. io2netlogic_que' \in Seq(UserMsgs(Uids \cup {0}))
  <2>1. io2netlogic_que' = Append(io2netlogic_que, m)
    BY DEF Report
  <2>2. io2netlogic_que \in Seq(UserMsgs(Uids \cup {0}))
    BY DEF ReportTypes
  <2> QED BY <2>1, <2>2, QueueGrows, Zenon
<1>2. \A b, y : Told(b, y) \in {"nothing", "S", "C", "out of order"}
  BY DEF Told
<1>3. told' \in [Uids -> {"nothing", "S", "C", "out of order"}]
  BY <1>2 DEF Report, ReportTypes
<1> QED BY <1>1, <1>3 DEF ReportTypes

LEMMA SocketTyped ==
    ASSUME NEW s \in Slots, NEW c \in Clients \cup {NoConn},
           NEW t \in {"INVALID", "CONNECT_ADD"}
    PROVE  /\ Socket(t, s, c) \in Records
           /\ Socket(t, s, c).type = t /\ Socket(t, s, c).id = s /\ Socket(t, s, c).conn = c
           /\ ~Socket(t, s, c).buffered /\ ~Socket(t, s, c).epollout
BY DEF Socket, Records

LEMMA CloseTyped ==
    ASSUME Types, NEW s \in Slots, Close(s)
    PROVE  NetworkTypes' /\ socket_pool' \in [Slots -> Records]
<1>1. Socket("INVALID", 0, NoConn) \in Records
  BY SocketTyped, IdSets
<1>2. socket_pool' \in [Slots -> Records]
  BY <1>1 DEF Close, Types
<1>3. conn' \in [Clients -> {"idle", "open", "fin", "rst", "finrst", "closed"}]
  BY DEF Close, Types, NetworkTypes
<1>4. inbox' \in [Clients -> Seq(Requests)]
  <2>1. <<>> \in Seq(Requests)
    OBVIOUS
  <2> QED BY <2>1 DEF Close, Types, NetworkTypes
<1>5. half' \in [Clients -> BOOLEAN] /\ backlog' \subseteq Clients /\ requests' \in 0 .. MaxRequests
  BY DEF Close, Types, NetworkTypes
<1> QED BY <1>2, <1>3, <1>4, <1>5 DEF NetworkTypes

LEMMA RestTyped ==
    ASSUME Types, NEW s \in Slots
    PROVE  /\ AppendRest(s) \in [Slots -> Records]
           /\ Emptied(s) \in [Slots -> Records]
<1>1. socket_pool \in [Slots -> Records] /\ socket_pool[s] \in Records
  BY DEF Types
<1> DEFINE r(b) == [socket_pool[s] EXCEPT !.buffered = b, !.epollout = b]
<1>2. ASSUME NEW b \in BOOLEAN PROVE r(b) \in Records
  BY <1>1, <1>2 DEF Records
<1>3. AppendRest(s) = [socket_pool EXCEPT ![s] = r(TRUE)]
  BY <1>1 DEF AppendRest
<1>4. Emptied(s) = [socket_pool EXCEPT ![s] = r(FALSE)]
  BY <1>1 DEF Emptied
<1> HIDE DEF r
<1> QED BY <1>1, <1>2, <1>3, <1>4

\* A write on a socket in epoll: the data is taken, at least in part, or the
\* client is closed and client 0 reported, or the process dies.
LEMMA WriteCases ==
    ASSUME IInv, NEW s \in Slots, Added(s), NEW pools, Write(s, pools)
    PROVE  \/ /\ socket_pool' \in pools
              /\ UNCHANGED <<io2netlogic_que, fault, network, history>>
           \/ Close(s) /\ Report(Closed(0)) /\ UNCHANGED <<fault, uid_of>>
           \/ Die("SIGPIPE") /\ UNCHANGED socket_pool
<1> DEFINE c == socket_pool[s].conn
<1>1. conn[c] \in Live
  BY DEF IInv, Current, Sessions, InEpoll
<1>2. CASE conn[c] \in {"open", "fin"}
  BY <1>2 DEF Write
<1>3. CASE conn[c] = "rst"
  <2>1. Close(s) /\ Report(Closed(socket_pool'[s].id)) /\ UNCHANGED <<fault, uid_of>>
    BY <1>3 DEF Write
  <2>2. socket_pool'[s].id = 0
    BY <2>1 DEF Close, IInv, Types, Socket
  <2> QED BY <2>1, <2>2
<1>4. CASE conn[c] = "finrst"
  BY <1>4 DEF Write
<1> QED BY <1>1, <1>2, <1>3, <1>4 DEF Live

-----------------------------------------------------------------------------
(* What keeps sessions current: steps that do not touch them, closing one, *)
(* and buffering or sending a rest.                                        *)

LEMMA Untouched ==
    ASSUME Types, Current, events' \subseteq events,
           UNCHANGED <<socket_pool, alloc_id, conn, backlog, uid_of, told>>
    PROVE  Current'
<1>1. Fresh'
  BY DEF Current, Fresh
<1>2. Sessions'
  BY DEF Current, Sessions, Added, InEpoll
<1>3. Waiting'
  BY DEF Current, Waiting
<1>4. EventsCurrent'
  BY DEF Current, EventsCurrent, Added
<1>5. IdNamesOneConnection' /\ BufferedIsWatched' /\ SessionProtocol'
  BY DEF Current, IdNamesOneConnection, BufferedIsWatched, SessionProtocol
<1> QED BY <1>1, <1>2, <1>3, <1>4, <1>5 DEF Current

LEMMA Closing ==
    ASSUME Types, Current, events' \subseteq events, NEW s \in Slots, Added(s), Close(s),
           UNCHANGED <<alloc_id, uid_of>>,
           told' = told \/ told' = [told EXCEPT ![s] = "C"]
    PROVE  Current'
<1>1. s \in Uids /\ socket_pool[s].conn \in Clients /\ uid_of[socket_pool[s].conn] = s
  BY DEF Current, Sessions, InEpoll
<1>2. \A t \in Slots : t # s => socket_pool'[t] = socket_pool[t]
  BY DEF Close, Types
<1>3. /\ socket_pool'[s].type = "INVALID" /\ ~socket_pool'[s].buffered
      /\ ~socket_pool'[s].epollout
  BY DEF Close, Types, Socket
<1>4. \A u \in Uids : u # s => told'[u] = told[u]
  BY DEF Types, ReportTypes
<1>5. told'[s] \in {told[s], "C"}
  BY <1>1 DEF Types, ReportTypes
<1>6. \A c \in Clients : c # socket_pool[s].conn => conn'[c] = conn[c]
  BY DEF Close, Types, NetworkTypes
<1>7. conn'[socket_pool[s].conn] = "closed" /\ backlog' = backlog
  BY <1>1 DEF Close, Types, NetworkTypes
<1>8. Fresh'
  <2>1. s <= alloc_id
    BY <1>1 DEF Current, Fresh, Sessions, Types, LoopTypes
  <2>2. s \in Int /\ alloc_id \in Int
    BY IdSets DEF Types, LoopTypes
  <2> QED BY <1>2, <1>3, <1>4, <2>1, <2>2 DEF Current, Fresh
<1>9. Sessions'
  <2>1. ASSUME NEW t \in Slots, t # s PROVE Added(t)' => InEpoll(t)'
    <3>1. Added(t)' => InEpoll(t)
      BY <1>2, <2>1 DEF Added, Current, Sessions
    <3>2. InEpoll(t) => socket_pool[t].conn # socket_pool[s].conn
      BY <1>1, <2>1 DEF InEpoll
    <3>3. InEpoll(t) => InEpoll(t)'
      BY <1>2, <1>4, <1>6, <2>1, <3>2 DEF InEpoll
    <3> QED BY <3>1, <3>3
  <2>2. ASSUME NEW t \in Slots PROVE ~Added(t)' => ~socket_pool'[t].buffered
    BY <1>2, <1>3 DEF Added, Current, Sessions
  <2>3. ~Added(s)'
    BY <1>3 DEF Added
  <2> QED BY <2>1, <2>2, <2>3 DEF Sessions
<1>10. Waiting'
  <2>1. socket_pool[s].conn \notin backlog /\ s # 0
    BY <1>1, IdSets DEF Current, Waiting
  <2>2. ASSUME NEW c \in Clients PROVE conn'[c] = "idle" => uid_of'[c] = 0 /\ c \notin backlog'
    BY <1>6, <1>7 DEF Current, Waiting
  <2>3. ASSUME NEW c \in backlog' PROVE uid_of'[c] = 0 /\ conn'[c] \in Live
    BY <1>6, <1>7, <2>1 DEF Current, Waiting, Types, NetworkTypes
  <2> QED BY <2>2, <2>3 DEF Waiting
<1>11. EventsCurrent'
  BY <1>2, <1>3 DEF Current, EventsCurrent, Added, Types, LoopTypes, Batch
<1>12. BufferedIsWatched'
  BY <1>2, <1>3 DEF Current, BufferedIsWatched
<1>13. SessionProtocol'
  BY <1>4, <1>5 DEF Current, SessionProtocol
<1>14. IdNamesOneConnection'
  BY DEF Current, IdNamesOneConnection
<1> QED BY <1>8, <1>9, <1>10, <1>11, <1>12, <1>13, <1>14 DEF Current

LEMMA Buffering ==
    ASSUME Types, Current, events' \subseteq events, NEW s \in Slots, Added(s),
           socket_pool' \in {socket_pool, AppendRest(s), Emptied(s)},
           UNCHANGED <<alloc_id, conn, backlog, uid_of, told>>
    PROVE  Current'
<1>1. ASSUME NEW t \in Slots
      PROVE  /\ socket_pool'[t].type = socket_pool[t].type
             /\ socket_pool'[t].id = socket_pool[t].id
             /\ socket_pool'[t].conn = socket_pool[t].conn
             /\ t # s => socket_pool'[t] = socket_pool[t]
             /\ socket_pool'[t].buffered <=> socket_pool'[t].epollout
  <2>1. socket_pool \in [Slots -> Records] /\ socket_pool[t] \in Records
    BY DEF Types
  <2>2. socket_pool[t].buffered <=> socket_pool[t].epollout
    BY DEF Current, BufferedIsWatched
  <2>3. CASE socket_pool' = socket_pool
    BY <2>2, <2>3
  <2>4. CASE socket_pool' = AppendRest(s)
    BY <2>1, <2>2, <2>4 DEF AppendRest, Records
  <2>5. CASE socket_pool' = Emptied(s)
    BY <2>1, <2>2, <2>5 DEF Emptied, Records
  <2> QED BY <2>3, <2>4, <2>5
<1>2. \A t \in Slots : Added(t)' <=> Added(t)
  BY <1>1 DEF Added
<1>3. Fresh'
  BY <1>1 DEF Current, Fresh
<1>4. Sessions'
  <2>1. \A t \in Slots : InEpoll(t) => InEpoll(t)'
    BY <1>1 DEF InEpoll
  <2>2. \A t \in Slots : ~Added(t) => ~socket_pool'[t].buffered
    BY <1>1 DEF Current, Sessions
  <2> QED BY <1>2, <2>1, <2>2 DEF Current, Sessions
<1>5. Waiting'
  BY DEF Current, Waiting
<1>6. EventsCurrent'
  BY <1>1, <1>2 DEF Current, EventsCurrent, Types, LoopTypes, Batch
<1>7. BufferedIsWatched'
  BY <1>1 DEF BufferedIsWatched
<1>8. IdNamesOneConnection' /\ SessionProtocol'
  BY DEF Current, IdNamesOneConnection, SessionProtocol
<1> QED BY <1>3, <1>4, <1>5, <1>6, <1>7, <1>8 DEF Current

-----------------------------------------------------------------------------
(* The event loop.                                                         *)

LEMMA Taken ==
    ASSUME Types, NEW e \in events, NEW type, Take(e, type)
    PROVE  /\ e \in Batch /\ e.slot \in Slots /\ socket_pool[e.slot].type = type
           /\ events' \subseteq events /\ events' \subseteq Batch
BY DEF Take, Types, LoopTypes, Batch

LEMMA EpollWaitKeeps ==
    ASSUME IInv, EpollWait
    PROVE  IInv'
<1> DEFINE Ready == {s \in Slots : Readable(s) \/ socket_pool[s].epollout}
           Event(s) == [slot |-> s, read |-> Readable(s),
                        write |-> socket_pool[s].epollout,
                        conn |-> socket_pool[s].conn]
<1>1. PICK R \in SUBSET Ready : events' = {Event(s) : s \in R}
  BY Zenon DEF EpollWait
<1>2. ASSUME NEW s \in Slots PROVE Readable(s) \in BOOLEAN
  BY DEF Readable, CanRead, IInv, Types, NetworkTypes, Records
<1>3. events' \subseteq Batch
  <2>1. ASSUME NEW s \in Slots PROVE Event(s) \in Batch
    <3>1. socket_pool[s] \in Records
      BY DEF IInv, Types
    <3> QED BY <1>2, <3>1 DEF Batch, Records
  <2> HIDE DEF Event
  <2> QED BY <1>1, <2>1
<1>4. UNCHANGED <<io2netlogic_que, netlogic2io_que, socket_pool, alloc_id,
                  que_check, sending, fault, network, history>>
  BY DEF EpollWait
<1>5. Types'
  BY <1>3, <1>4 DEF IInv, Types, ReportTypes, NetworkTypes, LoopTypes, network, history
<1>6. \A s \in Ready : s <= alloc_id
  <2>1. ASSUME NEW s \in Ready, socket_pool[s].type = "INVALID" PROVE FALSE
    <3>1. ~Readable(s)
      BY <2>1 DEF Readable
    <3>2. ~socket_pool[s].buffered /\ ~socket_pool[s].epollout
      BY <2>1 DEF IInv, Current, Sessions, Added, BufferedIsWatched
    <3> QED BY <3>1, <3>2
  <2>2. ASSUME NEW s \in Ready PROVE ~(s > alloc_id)
    BY <2>1 DEF IInv, Current, Fresh
  <2>3. \A s \in Slots : s \in Int /\ alloc_id \in Int
    BY IdSets DEF IInv, Types, LoopTypes
  <2> HIDE DEF Ready
  <2>4. Ready \subseteq Slots
    BY DEF Ready
  <2> QED BY <2>2, <2>3, <2>4
<1>7. \A e \in events' : /\ e.slot \in Ready
                         /\ e.conn = socket_pool[e.slot].conn
  <2> HIDE DEF Ready
  <2> QED BY <1>1
<1>8. Fresh'
  <2>1. \A e \in events' : e.slot <= alloc_id
    BY <1>6, <1>7
  <2> QED BY <1>4, <2>1 DEF IInv, Current, Fresh, history
<1>9. Sessions' /\ Waiting'
  BY <1>4 DEF IInv, Current, Sessions, InEpoll, Added, Waiting, network, history
<1>10. EventsCurrent'
  BY <1>4, <1>7 DEF EventsCurrent
<1>11. IdNamesOneConnection' /\ BufferedIsWatched' /\ SessionProtocol'
  BY <1>4 DEF IInv, Current, IdNamesOneConnection, BufferedIsWatched, SessionProtocol, history
<1> QED BY <1>5, <1>8, <1>9, <1>10, <1>11 DEF IInv, Current

LEMMA EventsDropped ==
    ASSUME IInv, NEW e \in events, DropEvent(e) \/ NetlogicEvent(e)
    PROVE  IInv'
<1>1. /\ events' \subseteq events /\ events' \subseteq Batch
      /\ que_check' \in BOOLEAN
      /\ UNCHANGED <<io2netlogic_que, netlogic2io_que, socket_pool, alloc_id,
                     sending, fault, network, history>>
  BY Taken DEF DropEvent, NetlogicEvent, IInv, Types, LoopTypes
<1>2. Types'
  BY <1>1 DEF IInv, Types, ReportTypes, NetworkTypes, LoopTypes, network, history
<1>3. Current'
  BY <1>1, Untouched DEF IInv, network, history
<1> QED BY <1>2, <1>3 DEF IInv

LEMMA Dying ==
    ASSUME Types, NEW how \in {"no id", "assertion", "SIGPIPE"}, Die(how)
    PROVE  /\ ReportTypes' /\ NetworkTypes' /\ fault' \in Faults
           /\ UNCHANGED <<conn, backlog, uid_of, told>>
BY DEF Die, Types, ReportTypes, NetworkTypes, network, history, Faults

LEMMA AcceptKeeps ==
    ASSUME IInv, NEW e \in events, Accept(e)
    PROVE  IInv'
<1>0. PICK id : id = apply_id
  OBVIOUS
<1>1. events' \subseteq events /\ events' \subseteq Batch
  BY Taken DEF IInv, Accept
<1>2. UNCHANGED <<netlogic2io_que, que_check, sending>>
  BY Zenon DEF Accept
<1>3. PICK c \in backlog, added \in {TRUE} \cup {~EpollAddFails} :
          IF id = -1
          THEN /\ Die("no id")
               /\ UNCHANGED <<socket_pool, alloc_id>>
          ELSE /\ alloc_id' = id
               /\ socket_pool' = [socket_pool EXCEPT ![id] =
                     IF added THEN Socket("CONNECT_ADD", id, c)
                              ELSE Socket("INVALID", id, NoConn)]
               /\ backlog' = backlog \ {c}
               /\ uid_of' = [uid_of EXCEPT ![c] = id]
               /\ IF added THEN Report(New(id))
                           ELSE UNCHANGED <<io2netlogic_que, told>>
               /\ UNCHANGED <<fault, conn, inbox, half, requests>>
  BY <1>0, Zenon DEF Accept
<1>4. CASE id = -1
  <2>1. Die("no id") /\ UNCHANGED <<socket_pool, alloc_id>>
    BY <1>3, <1>4
  <2>2. Types'
    BY <1>1, <1>2, <2>1, Dying DEF IInv, Types, LoopTypes
  <2> QED BY <1>1, <2>1, <2>2, Dying, Untouched DEF IInv
<1>5. CASE id # -1
  <2>1. id \in Uids /\ id > alloc_id /\ id \in Slots /\ id # 0
        /\ socket_pool[id].type = "INVALID"
    BY <1>0, <1>5, NewId, IdSets DEF IInv
  <2>2. c \in Clients /\ uid_of[c] = 0 /\ conn[c] \in Live
    BY DEF IInv, Current, Waiting, Types, NetworkTypes
  <2>3. /\ alloc_id' = id
        /\ backlog' = backlog \ {c}
        /\ uid_of' = [uid_of EXCEPT ![c] = id]
        /\ UNCHANGED <<fault, conn, inbox, half, requests>>
    BY <1>3, <1>5
  <2>4. PICK r \in Records :
           /\ socket_pool' = [socket_pool EXCEPT ![id] = r]
           /\ ~r.buffered /\ ~r.epollout
           /\ r.type \in {"INVALID", "CONNECT_ADD"}
           /\ r.type = "CONNECT_ADD" => added /\ r.id = id /\ r.conn = c
    <3>1. NoConn \in Clients \cup {NoConn} /\ c \in Clients \cup {NoConn}
      BY <2>2
    <3>2. CASE added
      BY <1>3, <1>5, <2>1, <3>1, <3>2, SocketTyped
    <3>3. CASE ~added
      BY <1>3, <1>5, <2>1, <3>1, <3>3, SocketTyped
    <3> QED BY <3>2, <3>3
  <2>5. /\ ReportTypes'
        /\ \A u \in Uids : u # id => told'[u] = told[u]
        /\ added => told'[id] = "S"
        /\ told'[id] \in {"nothing", "S"}
    <3>1. told[id] = "nothing"
      BY <2>1 DEF IInv, Current, Fresh
    <3>2. CASE added
      <4>1. Report(New(id)) /\ New(id) \in UserMsgs(Uids \cup {0})
            /\ New(id).uid = id /\ New(id).type = "S"
        BY <1>3, <1>5, <2>1, <3>2, MessageTypes
      <4>2. ReportTypes'
        BY <4>1, ReportTyped DEF IInv, Types
      <4>3. told' = [told EXCEPT ![id] = Told(@, "S")]
        BY <2>1, <4>1 DEF Report
      <4>4. Told("nothing", "S") = "S"
        BY DEF Told
      <4> QED BY <2>1, <3>1, <4>2, <4>3, <4>4 DEF IInv, Types, ReportTypes
    <3>3. CASE ~added
      <4>1. UNCHANGED <<io2netlogic_que, told>>
        BY <1>3, <1>5, <3>3
      <4> QED BY <3>1, <3>3, <4>1 DEF IInv, Types, ReportTypes
    <3> QED BY <3>2, <3>3
  <2>9. alloc_id \in Int /\ id \in Int /\ \A d \in Clients : uid_of[d] \in Int
    BY <2>1, IdSets DEF IInv, Types, LoopTypes
  <2>6. Types'
    <3>1. socket_pool' \in [Slots -> Records]
      BY <2>4 DEF IInv, Types
    <3>2. NetworkTypes'
      BY <2>3 DEF IInv, Types, NetworkTypes
    <3>3. alloc_id' \in Slots /\ alloc_id' >= NETLOGIC_ID
      <4>1. alloc_id \in Slots /\ alloc_id >= NETLOGIC_ID
        BY DEF IInv, Types, LoopTypes
      <4> QED BY <2>1, <2>3, <2>9, <4>1 DEF NETLOGIC_ID
    <3>4. uid_of' \in [Clients -> Uids \cup {0}]
      BY <2>1, <2>3 DEF IInv, Types, LoopTypes
    <3>5. LoopTypes'
      BY <1>1, <1>2, <2>3, <3>3, <3>4 DEF IInv, Types, LoopTypes
    <3> QED BY <2>5, <3>1, <3>2, <3>5 DEF Types
  <2>7. ASSUME NEW s \in Slots
        PROVE  socket_pool'[s] = IF s = id THEN r ELSE socket_pool[s]
    BY <2>4 DEF IInv, Types
  <2>8. ASSUME NEW d \in Clients
        PROVE  uid_of'[d] = IF d = c THEN id ELSE uid_of[d]
    BY <2>3 DEF IInv, Types, LoopTypes
  <2>10. Fresh'
    <3>1. \A s \in Slots : s > id => s > alloc_id /\ s # id
      BY <2>1, <2>9, MaxSocketAssumption DEF Slots
    <3>2. \A s \in Slots : s > id => socket_pool'[s].type = "INVALID"
      BY <2>7, <3>1 DEF IInv, Current, Fresh
    <3>3. \A u \in Uids : u > id => told'[u] = "nothing"
      BY <2>5, <3>1, IdSets DEF IInv, Current, Fresh
    <3>4. \A d \in Clients : uid_of'[d] <= id
      BY <2>1, <2>8, <2>9 DEF IInv, Current, Fresh
    <3>5. \A f \in events' : f.slot <= id
      <4>1. ASSUME NEW f \in events' PROVE f.slot <= alloc_id /\ f.slot \in Int
        BY <1>1, IdSets DEF IInv, Current, Fresh, Batch
      <4> QED BY <2>1, <2>9, <4>1
    <3> QED BY <2>3, <3>2, <3>3, <3>4, <3>5 DEF Fresh
  <2>11. Sessions'
    <3>1. ASSUME NEW s \in Slots, s # id PROVE Added(s)' => InEpoll(s)'
      <4>1. Added(s)' => InEpoll(s)
        BY <2>7, <3>1 DEF Added, IInv, Current, Sessions
      <4>2. InEpoll(s) => socket_pool[s].conn # c
        BY <2>2, IdSets DEF InEpoll
      <4> QED BY <2>3, <2>5, <2>7, <2>8, <3>1, <4>1, <4>2 DEF InEpoll
    <3>2. Added(id)' => InEpoll(id)'
      <4> SUFFICES ASSUME Added(id)' PROVE InEpoll(id)'
        OBVIOUS
      <4>1. socket_pool'[id] = r
        BY <2>1, <2>7
      <4>2. added /\ r.id = id /\ r.conn = c
        BY <2>4, <4>1 DEF Added
      <4>3. uid_of'[c] = id /\ conn'[c] \in Live /\ told'[id] = "S"
        BY <2>2, <2>3, <2>5, <2>8, <4>2
      <4> QED BY <2>1, <2>2, <4>1, <4>2, <4>3 DEF InEpoll
    <3>3. ASSUME NEW s \in Slots PROVE ~Added(s)' => ~socket_pool'[s].buffered
      BY <2>4, <2>7 DEF Added, IInv, Current, Sessions
    <3> QED BY <3>1, <3>2, <3>3 DEF Sessions
  <2>12. Waiting'
    <3>1. c \in backlog
      OBVIOUS
    <3>2. ASSUME NEW d \in Clients
          PROVE  conn'[d] = "idle" => uid_of'[d] = 0 /\ d \notin backlog'
      BY <2>2, <2>3, <2>8 DEF IInv, Current, Waiting, Live
    <3>3. ASSUME NEW d \in backlog' PROVE uid_of'[d] = 0 /\ conn'[d] \in Live
      BY <2>3, <2>8 DEF IInv, Current, Waiting, Types, NetworkTypes
    <3> QED BY <3>2, <3>3 DEF Waiting
  <2>13. IdNamesOneConnection'
    <3>1. \A d \in Clients : uid_of[d] # id
      BY <2>1, <2>9 DEF IInv, Current, Fresh
    <3> QED BY <2>8, <3>1 DEF IInv, Current, IdNamesOneConnection
  <2>14. EventsCurrent'
    <3>1. ASSUME NEW f \in events' PROVE f.slot # id /\ f.slot \in Slots
      <4>1. f \in events /\ f.slot \in Slots /\ f.slot <= alloc_id
        BY <1>1 DEF Batch, IInv, Current, Fresh
      <4> QED BY <2>1, <2>9, <4>1, IdSets
    <3> QED BY <1>1, <2>7, <3>1 DEF EventsCurrent, Added, IInv, Current
  <2>15. BufferedIsWatched'
    BY <2>4, <2>7 DEF BufferedIsWatched, IInv, Current
  <2>16. SessionProtocol'
    BY <2>5 DEF SessionProtocol, IInv, Current
  <2> QED BY <2>6, <2>10, <2>11, <2>12, <2>13, <2>14, <2>15, <2>16 DEF IInv, Current
<1> QED BY <1>4, <1>5

-----------------------------------------------------------------------------
(* Reading, writing and closing.                                           *)

\* A client that is closed is reported under its id, or under 0.
LEMMA ClosingReported ==
    ASSUME IInv, NEW s \in Slots, Added(s), Close(s),
           NEW u \in {0, s}, Report(Closed(u)),
           events' \subseteq events, sending' \in Seq(Uids \cup {0}),
           UNCHANGED <<netlogic2io_que, alloc_id, que_check, fault, uid_of>>
    PROVE  IInv'
<1>1. s \in Uids /\ told[s] = "S"
  BY DEF IInv, Current, Sessions, InEpoll
<1>2. /\ Closed(u) \in UserMsgs(Uids \cup {0})
      /\ Closed(u).uid = u /\ Closed(u).type = "C"
  BY <1>1, MessageTypes
<1>3. ReportTypes'
  BY <1>2, ReportTyped DEF IInv, Types
<1>4. told' = told \/ told' = [told EXCEPT ![s] = "C"]
  <2>1. CASE u = 0
    BY <1>2, <2>1, IdSets DEF Report
  <2>2. CASE u = s
    <3>1. told' = [told EXCEPT ![s] = Told(@, "C")]
      BY <1>1, <1>2, <2>2 DEF Report
    <3>2. Told("S", "C") = "C"
      BY DEF Told
    <3> QED BY <1>1, <3>1, <3>2 DEF IInv, Types, ReportTypes
  <2> QED BY <2>1, <2>2
<1>5. NetworkTypes' /\ socket_pool' \in [Slots -> Records]
  BY CloseTyped DEF IInv
<1>6. LoopTypes'
  BY DEF IInv, Types, LoopTypes
<1>7. Current'
  BY <1>4, Closing DEF IInv
<1> QED BY <1>3, <1>5, <1>6, <1>7 DEF IInv, Types

LEMMA Writing ==
    ASSUME IInv, NEW s \in Slots, Added(s),
           NEW rest \in {AppendRest(s), Emptied(s)}, Write(s, {socket_pool, rest}),
           events' \subseteq events, sending' \in Seq(Uids \cup {0}),
           UNCHANGED <<netlogic2io_que, alloc_id, que_check>>
    PROVE  IInv'
<1>1. CASE /\ socket_pool' \in {socket_pool, rest}
           /\ UNCHANGED <<io2netlogic_que, fault, network, history>>
  <2>1. socket_pool' \in [Slots -> Records]
    BY <1>1, RestTyped DEF IInv, Types
  <2>2. Types'
    BY <1>1, <2>1 DEF IInv, Types, ReportTypes, NetworkTypes, LoopTypes, network, history
  <2>3. Current'
    BY <1>1, Buffering DEF IInv, network, history
  <2> QED BY <2>2, <2>3 DEF IInv
<1>2. CASE Close(s) /\ Report(Closed(0)) /\ UNCHANGED <<fault, uid_of>>
  BY <1>2, ClosingReported
<1>3. CASE Die("SIGPIPE") /\ UNCHANGED socket_pool
  <2>1. Types'
    BY <1>3, Dying DEF IInv, Types, LoopTypes
  <2> QED BY <1>3, <2>1, Dying, Untouched DEF IInv
<1> QED BY <1>1, <1>2, <1>3, WriteCases

LEMMA ReadMessageKeeps ==
    ASSUME IInv, NEW e \in events, ReadMessage(e)
    PROVE  IInv'
<1> DEFINE s == e.slot
           c == socket_pool[s].conn
<1>1. s \in Slots /\ Added(s) /\ events' \subseteq events /\ events' \subseteq Batch
  BY Taken DEF ReadMessage, IInv, Added
<1>2. /\ s \in Uids /\ told[s] = "S" /\ socket_pool[s].id = s /\ c \in Clients
  BY <1>1 DEF IInv, Current, Sessions, InEpoll
<1>3. UNCHANGED <<netlogic2io_que, alloc_id, que_check, sending, fault, uid_of>>
  BY DEF ReadMessage
<1>4. CASE inbox[c] # <<>>
  <2> DEFINE r == Head(inbox[c])
  <2>1. /\ Report(Data(s, r))
        /\ inbox' = [inbox EXCEPT ![c] = Tail(@)]
        /\ UNCHANGED <<socket_pool, conn, backlog, half, requests>>
    BY <1>2, <1>4 DEF ReadMessage
  <2>2. inbox[c] \in Seq(Requests)
    BY <1>2 DEF IInv, Types, NetworkTypes
  <2>3. r \in Requests /\ Tail(inbox[c]) \in Seq(Requests)
    BY <1>4, <2>2, QueueShrinks
  <2>4. Data(s, r) \in UserMsgs(Uids \cup {0}) /\ Data(s, r).uid = s /\ Data(s, r).type = "D"
    <3>1. s \in Uids \cup {0}
      BY <1>2
    <3>2. ASSUME NEW u \in Uids \cup {0}, NEW q \in Requests
          PROVE  /\ Data(u, q) \in UserMsgs(Uids \cup {0})
                 /\ Data(u, q).uid = u /\ Data(u, q).type = "D"
      BY DEF Data, UserMsgs
    <3> HIDE DEF r, s
    <3> QED BY <2>3, <3>1, <3>2
  <2>5. ReportTypes'
    BY <2>1, <2>4, ReportTyped DEF IInv, Types
  <2>6. told' = told
    <3>1. told' = [told EXCEPT ![s] = Told(@, "D")]
      BY <1>2, <2>1, <2>4 DEF Report
    <3>2. Told("S", "D") = "S"
      BY DEF Told
    <3> QED BY <1>2, <3>1, <3>2 DEF IInv, Types, ReportTypes
  <2>7. NetworkTypes'
    BY <2>1, <2>3 DEF IInv, Types, NetworkTypes
  <2>8. LoopTypes'
    BY <1>1, <1>3 DEF IInv, Types, LoopTypes
  <2>9. Current'
    BY <1>1, <1>3, <2>1, <2>6, Untouched DEF IInv
  <2> QED BY <2>1, <2>5, <2>7, <2>8, <2>9 DEF IInv, Types
<1>5. CASE inbox[c] = <<>>
  <2>1. Close(s) /\ Report(Closed(s))
    BY <1>2, <1>5 DEF ReadMessage
  <2>2. sending' \in Seq(Uids \cup {0})
    BY <1>3 DEF IInv, Types, LoopTypes
  <2> QED BY <1>1, <1>3, <2>1, <2>2, ClosingReported
<1> QED BY <1>4, <1>5

LEMMA SendBufferKeeps ==
    ASSUME IInv, NEW e \in events, SendBuffer(e)
    PROVE  IInv'
<1>1. e.slot \in Slots /\ Added(e.slot) /\ events' \subseteq events
  BY Taken DEF SendBuffer, IInv, Added
<1>2. /\ Write(e.slot, {socket_pool, Emptied(e.slot)})
      /\ UNCHANGED <<netlogic2io_que, alloc_id, que_check, sending>>
  BY DEF SendBuffer
<1>3. sending' \in Seq(Uids \cup {0})
  BY <1>2 DEF IInv, Types, LoopTypes
<1> QED BY <1>1, <1>2, <1>3, Writing

LEMMA SendDataKeeps ==
    ASSUME IInv, SendData
    PROVE  IInv'
<1> DEFINE s == Head(sending)
<1>1. sending \in Seq(Uids \cup {0}) /\ sending # <<>>
  BY DEF SendData, IInv, Types, LoopTypes
<1>2. s \in Slots /\ Tail(sending) \in Seq(Uids \cup {0})
  BY <1>1, QueueShrinks, IdSets
<1>3. sending' \in Seq(Uids \cup {0}) /\ UNCHANGED <<netlogic2io_que, alloc_id, events, que_check>>
  BY <1>2 DEF SendData
<1>4. CASE ~Added(s)
  <2>1. Die("assertion") /\ UNCHANGED socket_pool
    BY <1>4 DEF SendData
  <2>2. Types'
    BY <1>3, <2>1, Dying DEF IInv, Types, LoopTypes
  <2> QED BY <1>3, <2>1, <2>2, Dying, Untouched DEF IInv
<1>5. CASE Added(s) /\ socket_pool[s].buffered
  <2>1. UNCHANGED <<io2netlogic_que, socket_pool, fault, network, history>>
    BY <1>5 DEF SendData
  <2>2. Types'
    BY <1>3, <2>1 DEF IInv, Types, ReportTypes, NetworkTypes, LoopTypes, network, history
  <2> QED BY <1>3, <2>1, <2>2, Untouched DEF IInv, network, history
<1>6. CASE Added(s) /\ ~socket_pool[s].buffered
  <2>1. Write(s, {socket_pool, AppendRest(s)})
    BY <1>6 DEF SendData
  <2> QED BY <1>2, <1>3, <1>6, <2>1, Writing
<1> QED BY <1>4, <1>5, <1>6

LEMMA QueueKeeps ==
    ASSUME IInv, QueueNull \/ StartBroadcast
    PROVE  IInv'
<1>1. UNCHANGED <<io2netlogic_que, socket_pool, alloc_id, events, fault, network, history>>
  BY DEF QueueNull, StartBroadcast
<1>2. netlogic2io_que' \in Seq(NetIoMsgs) /\ sending' \in Seq(Uids \cup {0}) /\ que_check' \in BOOLEAN
  <2>1. CASE QueueNull
    BY <2>1 DEF QueueNull, IInv, Types, LoopTypes
  <2>2. CASE StartBroadcast
    <3> DEFINE h == Head(netlogic2io_que)
    <3>1. h \in NetIoMsgs /\ Tail(netlogic2io_que) \in Seq(NetIoMsgs)
      BY <2>2, QueueShrinks DEF StartBroadcast, IInv, Types, LoopTypes
    <3>2. h.event = "NULL"
      BY <2>2 DEF StartBroadcast
    <3>3. h.msg.to \in Seq(Uids \cup {0})
      BY <3>1, <3>2 DEF NetIoMsgs, ToNetIo, Broadcast, ServiceFull
    <3>4. /\ sending' = h.msg.to /\ netlogic2io_que' = Tail(netlogic2io_que)
          /\ que_check' = que_check
      BY <2>2 DEF StartBroadcast
    <3> QED BY <3>1, <3>3, <3>4 DEF IInv, Types, LoopTypes
  <2> QED BY <2>1, <2>2
<1>3. Types'
  BY <1>1, <1>2 DEF IInv, Types, ReportTypes, NetworkTypes, LoopTypes, network, history
<1> QED BY <1>1, <1>3, Untouched DEF IInv, network, history

LEMMA DropClientKeeps ==
    ASSUME IInv, DropClient
    PROVE  IInv'
<1> DEFINE h == Head(netlogic2io_que)
<1>1. h \in NetIoMsgs /\ Tail(netlogic2io_que) \in Seq(NetIoMsgs)
  BY QueueShrinks DEF DropClient, IInv, Types, LoopTypes
<1>2. h.event = "F"
  BY DEF DropClient
<1>3. h.uid \in Slots
  BY <1>1, <1>2, IdSets DEF NetIoMsgs, ToNetIo, Broadcast, ServiceFull
<1>4. /\ netlogic2io_que' = Tail(netlogic2io_que)
      /\ UNCHANGED <<io2netlogic_que, alloc_id, events, que_check, sending, fault, history>>
  BY DEF DropClient
<1>5. LoopTypes' /\ ReportTypes'
  BY <1>1, <1>4 DEF IInv, Types, LoopTypes, ReportTypes, history
<1>6. CASE Added(h.uid)
  <2>1. Close(h.uid)
    BY <1>6 DEF DropClient
  <2>2. NetworkTypes' /\ socket_pool' \in [Slots -> Records]
    BY <1>3, <2>1, CloseTyped DEF IInv
  <2>3. Current'
    BY <1>3, <1>4, <1>6, <2>1, Closing DEF IInv, history
  <2> QED BY <1>5, <2>2, <2>3 DEF IInv, Types
<1>7. CASE ~Added(h.uid)
  <2>1. UNCHANGED <<socket_pool, network>>
    BY <1>7 DEF DropClient
  <2>2. NetworkTypes' /\ socket_pool' \in [Slots -> Records]
    BY <2>1 DEF IInv, Types, NetworkTypes, network
  <2>3. Current'
    BY <1>4, <2>1, Untouched DEF IInv, network, history
  <2> QED BY <1>5, <2>2, <2>3 DEF IInv, Types
<1> QED BY <1>6, <1>7

-----------------------------------------------------------------------------
(* The clients and net_logic.                                              *)

LEMMA ClientStepKeeps ==
    ASSUME IInv, NEW c \in Clients, ClientStep(c)
    PROVE  IInv'
<1>1. UNCHANGED <<io2netlogic_que, netlogic2io_que, server, fault, history>>
  BY DEF ClientStep, ClientConnects, ClientStartsRequest, ClientEndsRequest,
         ClientCloses, ClientResets, ClientUnchanged
<1>2. UNCHANGED <<socket_pool, alloc_id, events, uid_of, told>>
  BY <1>1 DEF server, history
<1>3. NetworkTypes'
  <2>1. CASE ClientConnects(c)
    BY <2>1 DEF ClientConnects, IInv, Types, NetworkTypes
  <2>2. CASE ClientStartsRequest(c)
    BY <2>2 DEF ClientStartsRequest, IInv, Types, NetworkTypes
  <2>3. CASE \E r \in {"MOVE_REQ"} : ClientEndsRequest(c, r)
    <3>1. "MOVE_REQ" \in Requests /\ inbox[c] \in Seq(Requests)
      BY DEF Requests, IInv, Types, NetworkTypes
    <3>2. Append(inbox[c], "MOVE_REQ") \in Seq(Requests)
      BY <3>1, QueueGrows, Zenon
    <3> QED BY <2>3, <3>2 DEF ClientEndsRequest, IInv, Types, NetworkTypes
  <2>4. CASE ClientCloses(c)
    BY <2>4 DEF ClientCloses, IInv, Types, NetworkTypes
  <2>5. CASE ClientResets(c)
    BY <2>5 DEF ClientResets, IInv, Types, NetworkTypes
  <2> QED BY <2>1, <2>2, <2>3, <2>4, <2>5 DEF ClientStep
<1>4. Types'
  BY <1>1, <1>3 DEF IInv, Types, ReportTypes, LoopTypes, server, history
<1>5. /\ \A d \in Clients : d # c => conn'[d] = conn[d] /\ (d \in backlog' <=> d \in backlog)
      /\ conn[c] \in Live => conn'[c] \in Live /\ (c \in backlog' <=> c \in backlog)
      /\ conn[c] = "idle" => conn'[c] \in Live \/ (conn'[c] = conn[c] /\ backlog' = backlog)
      /\ conn[c] = "closed" => conn'[c] = conn[c] /\ backlog' = backlog
  <2>1. CASE ClientConnects(c)
    BY <2>1 DEF ClientConnects, IInv, Types, NetworkTypes, Live
  <2>2. CASE ClientStartsRequest(c) \/ \E r \in {"MOVE_REQ"} : ClientEndsRequest(c, r)
    BY <2>2 DEF ClientStartsRequest, ClientEndsRequest
  <2>3. CASE ClientCloses(c) \/ ClientResets(c)
    BY <2>3 DEF ClientCloses, ClientResets, IInv, Types, NetworkTypes, Live
  <2> QED BY <2>1, <2>2, <2>3 DEF ClientStep
<1>6. conn[c] \in Live \cup {"idle", "closed"}
  BY DEF IInv, Types, NetworkTypes, Live
<1>7. Sessions'
  <2>1. \A s \in Slots : InEpoll(s) => InEpoll(s)'
    BY <1>2, <1>5 DEF InEpoll
  <2> QED BY <1>2, <2>1 DEF Sessions, Added, IInv, Current
<1>8. Waiting'
  <2>1. ASSUME NEW d \in Clients PROVE conn'[d] = "idle" => uid_of'[d] = 0 /\ d \notin backlog'
    BY <1>2, <1>5, <1>6 DEF IInv, Current, Waiting, Live
  <2>2. ASSUME NEW d \in backlog' PROVE uid_of'[d] = 0 /\ conn'[d] \in Live
    <3>1. d \in Clients /\ backlog \subseteq Clients
      BY <1>3 DEF NetworkTypes, IInv, Types
    <3>2. CASE d # c
      BY <1>2, <1>5, <2>2, <3>1, <3>2 DEF IInv, Current, Waiting
    <3>3. CASE d = c
      BY <1>2, <1>5, <1>6, <2>2, <3>1, <3>3 DEF IInv, Current, Waiting
    <3> QED BY <3>2, <3>3
  <2> QED BY <2>1, <2>2 DEF Waiting
<1>9. Fresh' /\ EventsCurrent'
  BY <1>2 DEF IInv, Current, Fresh, EventsCurrent, Added
<1>10. IdNamesOneConnection' /\ BufferedIsWatched' /\ SessionProtocol'
  BY <1>2 DEF IInv, Current, IdNamesOneConnection, BufferedIsWatched, SessionProtocol
<1> QED BY <1>4, <1>7, <1>8, <1>9, <1>10 DEF IInv, Current

LEMMA NetLogicStepKeeps ==
    ASSUME IInv, NEW reads \in BOOLEAN, NEW msgs \in Seq(NetIoMsgs), NetLogicStep(reads, msgs)
    PROVE  IInv'
<1>1. UNCHANGED <<server, fault, network, history>>
  BY DEF NetLogicStep
<1>2. io2netlogic_que' \in Seq(UserMsgs(Uids \cup {0}))
  <2>1. io2netlogic_que \in Seq(UserMsgs(Uids \cup {0}))
    BY DEF IInv, Types, ReportTypes
  <2> QED BY <2>1, QueueShrinks DEF NetLogicStep
<1>3. netlogic2io_que' \in Seq(NetIoMsgs)
  <2>1. netlogic2io_que \in Seq(NetIoMsgs) /\ netlogic2io_que' = netlogic2io_que \o msgs
    BY DEF NetLogicStep, IInv, Types, LoopTypes
  <2>2. ASSUME NEW S, NEW a \in Seq(S), NEW b \in Seq(S) PROVE a \o b \in Seq(S)
    OBVIOUS
  <2> QED BY <2>1, <2>2, Zenon
<1>4. Types'
  BY <1>1, <1>2, <1>3
  DEF IInv, Types, ReportTypes, NetworkTypes, LoopTypes, server, network, history
<1> QED BY <1>1, <1>4, Untouched DEF IInv, server, network, history

-----------------------------------------------------------------------------
(* The invariant and the theorems.                                         *)

LEMMA InitialState == Init => IInv
<1> SUFFICES ASSUME Init PROVE IInv
  OBVIOUS
<1>1. ASSUME NEW s \in Slots
      PROVE  /\ socket_pool[s] \in Records /\ ~Added(s)
             /\ ~socket_pool[s].buffered /\ ~socket_pool[s].epollout
             /\ s > NETLOGIC_ID => socket_pool[s].type = "INVALID"
  <2>1. socket_pool[s] = CASE s = LISTEN_ID   -> Socket("LISTEN_ADD", s, NoConn)
                           [] s = NETLOGIC_ID -> Socket("NETLOGIC", s, NoConn)
                           [] OTHER           -> Socket("INVALID", 0, NoConn)
    BY DEF Init, ServerInit
  <2>2. CASE s = LISTEN_ID
    BY <2>1, <2>2 DEF Socket, Records, Added, LISTEN_ID, NETLOGIC_ID
  <2>3. CASE s = NETLOGIC_ID
    BY <2>1, <2>3 DEF Socket, Records, Added, LISTEN_ID, NETLOGIC_ID
  <2>4. CASE s # LISTEN_ID /\ s # NETLOGIC_ID
    BY <2>1, <2>4, IdSets DEF Socket, Records, Added
  <2> QED BY <2>2, <2>3, <2>4
<1>2. Types
  <2>1. socket_pool \in [Slots -> Records]
    BY <1>1 DEF Init, ServerInit
  <2>2. NetworkTypes /\ ReportTypes
    BY DEF Init, ServerInit, NetworkTypes, ReportTypes
  <2>3. LoopTypes
    <3>1. alloc_id \in Slots /\ alloc_id >= NETLOGIC_ID
      BY IdSets DEF Init, ServerInit, NETLOGIC_ID
    <3>2. uid_of \in [Clients -> Uids \cup {0}]
      BY DEF Init, ServerInit
    <3>3. netlogic2io_que = <<>> /\ sending = <<>> /\ events = {} /\ que_check = FALSE
          /\ fault = "none"
      BY DEF Init, ServerInit
    <3>4. netlogic2io_que \in Seq(NetIoMsgs) /\ sending \in Seq(Uids \cup {0})
      BY <3>3
    <3>5. fault \in Faults /\ que_check \in BOOLEAN
      BY <3>3 DEF Faults
    <3> QED BY <3>1, <3>2, <3>3, <3>4, <3>5, Zenon DEF LoopTypes
  <2> QED BY <2>1, <2>2, <2>3 DEF Types
<1>3. Fresh /\ EventsCurrent
  BY <1>1 DEF Init, ServerInit, Fresh, EventsCurrent, NETLOGIC_ID
<1>4. Sessions /\ BufferedIsWatched
  BY <1>1 DEF Sessions, BufferedIsWatched
<1>5. Waiting /\ IdNamesOneConnection /\ SessionProtocol
  BY DEF Init, ServerInit, Waiting, IdNamesOneConnection, SessionProtocol
<1> QED BY <1>2, <1>3, <1>4, <1>5 DEF IInv, Current

LEMMA Step == IInv /\ [Next]_vars => IInv'
<1> SUFFICES ASSUME IInv, [Next]_vars PROVE IInv'
  OBVIOUS
<1>1. CASE NetIoStep
  <2>1. CASE EpollWait
    BY <2>1, EpollWaitKeeps
  <2>2. ASSUME NEW e \in events,
               \/ DropEvent(e) \/ NetlogicEvent(e) \/ Accept(e) \/ ReadMessage(e)
               \/ SendBuffer(e)
        PROVE  IInv'
    BY <2>2, EventsDropped, AcceptKeeps, ReadMessageKeeps, SendBufferKeeps
  <2>3. CASE SendData
    BY <2>3, SendDataKeeps
  <2>4. CASE QueueNull \/ StartBroadcast
    BY <2>4, QueueKeeps
  <2>5. CASE DropClient
    BY <2>5, DropClientKeeps
  <2> QED BY <1>1, <2>1, <2>2, <2>3, <2>4, <2>5 DEF NetIoStep
<1>2. ASSUME NEW c \in Clients, ClientStep(c) PROVE IInv'
  BY <1>2, ClientStepKeeps
<1>3. ASSUME NEW reads \in BOOLEAN, NEW msgs \in Seq(NetIoMsgs), NetLogicStep(reads, msgs)
      PROVE  IInv'
  BY <1>3, NetLogicStepKeeps
<1>4. CASE UNCHANGED vars
  <2>1. UNCHANGED <<io2netlogic_que, netlogic2io_que, server, fault, network, history>>
    BY <1>4 DEF vars
  <2>2. Types'
    BY <2>1
    DEF IInv, Types, ReportTypes, NetworkTypes, LoopTypes, server, network, history
  <2> QED BY <2>1, <2>2, Untouched DEF IInv, server, network, history
<1> QED BY <1>1, <1>2, <1>3, <1>4 DEF Next

(***************************************************************************)
(* Slots, events, queues and connections always hold what they are made    *)
(* for: no id runs past the pool, whatever is reported and sent            *)
(* (socket_server.c:50-78).                                                *)
(***************************************************************************)
THEOREM TypeCorrect == Spec => []TypeOK
<1>1. IInv => TypeOK
  <2> SUFFICES ASSUME IInv PROVE TypeOK
    OBVIOUS
  <2>1. \A i \in DOMAIN io2netlogic_que : io2netlogic_que[i] \in UserMsgs(Uids \cup {0})
    BY Elements, Zenon DEF IInv, Types, ReportTypes
  <2>2. \A i \in DOMAIN netlogic2io_que : netlogic2io_que[i].event \in {"NULL", "F"}
    <3>1. \A m \in NetIoMsgs : m.event \in {"NULL", "F"}
      BY DEF NetIoMsgs, ToNetIo, ServiceFull
    <3>2. \A i \in DOMAIN netlogic2io_que : netlogic2io_que[i] \in NetIoMsgs
      BY Elements, Zenon DEF IInv, Types, LoopTypes
    <3> QED BY <3>1, <3>2
  <2>3. \A i \in DOMAIN sending : sending[i] \in Slots
    <3>1. \A i \in DOMAIN sending : sending[i] \in Uids \cup {0}
      BY Elements, Zenon DEF IInv, Types, LoopTypes
    <3> QED BY <3>1, IdSets
  <2>4. \A c \in Clients : \A i \in DOMAIN inbox[c] : inbox[c][i] \in Requests
    <3>1. \A c \in Clients : inbox[c] \in Seq(Requests)
      BY DEF IInv, Types, NetworkTypes
    <3> QED BY <3>1
  <2>5. told \in [Uids -> {"nothing", "S", "C", "out of order"}]
    BY DEF IInv, Types, ReportTypes
  <2> QED BY <2>1, <2>2, <2>3, <2>4, <2>5
          DEF IInv, Types, NetworkTypes, LoopTypes, Records, Batch, TypeOK
<1> QED BY <1>1, InitialState, Step, PTL DEF Spec

(***************************************************************************)
(* An id is never handed out again, and so an old message cannot reach     *)
(* another client (socket_server.c:111-130).                               *)
(***************************************************************************)
THEOREM IdsAreUnique == Spec => []IdNamesOneConnection
<1>1. IInv => IdNamesOneConnection
  BY DEF IInv, Current
<1> QED BY <1>1, InitialState, Step, PTL DEF Spec

(***************************************************************************)
(* An event of a batch is handled for the connection it was reported for,  *)
(* whatever was accepted and closed since epoll_wait returned              *)
(* (socket_server.c:725-766).                                              *)
(***************************************************************************)
THEOREM EventsAreCurrent == Spec => []EventsCurrent
<1>1. IInv => EventsCurrent
  BY DEF IInv, Current
<1> QED BY <1>1, InitialState, Step, PTL DEF Spec

(***************************************************************************)
(* What is buffered is waited on, and nothing else is                      *)
(* (socket_server.c:444, 482).                                             *)
(***************************************************************************)
THEOREM RestsAreWatched == Spec => []BufferedIsWatched
<1>1. IInv => BufferedIsWatched
  BY DEF IInv, Current
<1> QED BY <1>1, InitialState, Step, PTL DEF Spec

(***************************************************************************)
(* net_logic hears of the clients in order, whichever path finds the end   *)
(* (socket_server.c:336-367, 402-491).                                     *)
(***************************************************************************)
THEOREM SessionsAreReported == Spec => []SessionProtocol
<1>1. IInv => SessionProtocol
  BY IdSets DEF IInv, Current, Sessions, InEpoll
<1> QED BY <1>1, InitialState, Step, PTL DEF Spec

(***************************************************************************)
(* A client in epoll is one net_logic has been told of and not been told   *)
(* is gone, and its slot is its own connection's                           *)
(* (socket_server.c:662-685, 720-766).                                     *)
(***************************************************************************)
THEOREM AddedAreTold == Spec => []AddedIsTold
<1>1. IInv => AddedIsTold
  BY IdSets DEF IInv, Current, Sessions, InEpoll, AddedIsTold
<1> QED BY <1>1, InitialState, Step, PTL DEF Spec
=============================================================================
