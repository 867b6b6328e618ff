-------------------------- MODULE GameServerProofs --------------------------
(***************************************************************************)
(* The safety properties of the whole process, for any number of clients,  *)
(* sockets, game services, maps and places.  What is known of each thread  *)
(* is taken from the proofs about its module; what is new is how their     *)
(* states belong together while messages are on their way between them.    *)
(***************************************************************************)
EXTENDS GameServer, FiniteSetTheorems, TLAPS

\* The modules of the threads as GameServer instantiates them, with their
\* theorems.  A game thread knows only of the ways in which it can die.
Fault == IF fault \in GameFaults THEN fault ELSE "none"

SSP == INSTANCE SocketServerProofs WITH EpollAddFails <- FALSE

GLP == INSTANCE GameLogicProofs WITH
         Orderly <- FALSE, QueueBound <- 0, fault <- Fault,
         START_STEP <- 1, Unknown <- 0, MAP_NAX_X <- 1, MAP_NAX_Y <- 1,
         pos <- 0, view <- 0, behind <- 0, calm <- TRUE

NLP == INSTANCE NetLogicProofs WITH
         Uids <- Uids \cup {0},
         MaxPlayers <- MaxMap * PlayersPerMap,
         IoMsgs <- UserMsgs(Uids \cup {0}), GameMsgs <- GLP!Reply, QueueBound <- 0

-----------------------------------------------------------------------------
(* What the threads' modules assume of their constants.                    *)

LEMMA UidsAre ==
    /\ Uids = 3 .. MaxSocket - 1 /\ SSP!Uids = Uids /\ SS!Uids = Uids
    /\ IsFiniteSet(Uids) /\ Uids \subseteq Nat /\ INVALID \notin Uids /\ 0 \notin Uids
<1>1. Uids = 3 .. MaxSocket - 1 /\ SSP!Uids = Uids /\ SS!Uids = Uids
  BY DEF Uids, SS!Uids, SSP!Uids
<1>2. IsFiniteSet(3 .. MaxSocket - 1)
  BY LimitsAssumption, FS_Interval
<1>3. 3 .. MaxSocket - 1 \subseteq Nat /\ -1 \notin 3 .. MaxSocket - 1 /\ 0 \notin 3 .. MaxSocket - 1
  BY LimitsAssumption
<1> QED BY <1>1, <1>2, <1>3 DEF INVALID

LEMMA SocketAssumptions ==
    /\ SSP!IsFiniteSet(Clients)
    /\ MaxSocket \in Nat /\ MaxSocket > 3 /\ MaxEvent \in Nat \ {0}
    /\ MaxRequests \in Nat /\ FALSE \in BOOLEAN
BY ClientsAssumption, LimitsAssumption DEF SSP!IsFiniteSet, IsFiniteSet

LEMMA GameAssumptions ==
    GLP!UidsAssumption /\ GLP!SizesAssumption /\ GLP!OrderlyAssumption /\ GLP!MapAssumption
BY UidsAre, SizesAssumption
   DEF GLP!UidsAssumption, GLP!SizesAssumption, GLP!OrderlyAssumption, GLP!MapAssumption,
       GLP!IsFiniteSet, IsFiniteSet, GLP!INVALID, INVALID

LEMMA RouterAssumptions ==
    /\ NLP!UidsAssumption /\ NLP!IoMsgsAssumption
    /\ NLP!NumServicesAssumption /\ NLP!MaxPlayersAssumption
<1>1. IsFiniteSet(Uids \cup {0})
  BY UidsAre, FS_AddElement
<1>2. \A a, b \in Nat \ {0} : a * b \in Nat \ {0}
  OBVIOUS
<1> QED
  BY <1>1, <1>2, SizesAssumption
     DEF NLP!UidsAssumption, NLP!IoMsgsAssumption, NLP!NumServicesAssumption,
         NLP!MaxPlayersAssumption, NLP!IsFiniteSet, IsFiniteSet, NLP!UserMsgs, UserMsgs,
         NLP!Requests, Requests

-----------------------------------------------------------------------------
(* The threads' modules mean the same by their messages and their actions. *)

LEMMA SameMessages ==
    /\ SSP!Requests = Requests /\ NLP!Requests = Requests /\ GLP!Requests = Requests
    /\ \A S : /\ SSP!UserMsgs(S) = UserMsgs(S) /\ NLP!UserMsgs(S) = UserMsgs(S)
              /\ GLP!UserMsgs(S) = UserMsgs(S)
    /\ \A u : /\ SSP!New(u) = New(u) /\ NLP!New(u) = New(u) /\ GLP!New(u) = New(u)
              /\ SSP!Closed(u) = Closed(u) /\ NLP!Closed(u) = Closed(u)
              /\ GLP!Closed(u) = Closed(u)
    /\ \A u, r : /\ SSP!Data(u, r) = Data(u, r) /\ NLP!Data(u, r) = Data(u, r)
                 /\ GLP!Data(u, r) = Data(u, r)
    /\ \A m : SSP!ToNetIo(m) = ToNetIo(m) /\ NLP!ToNetIo(m) = ToNetIo(m)
    /\ \A r, to, u : SSP!Broadcast(r, to, u) = Broadcast(r, to, u)
    /\ SSP!Responses = Responses /\ GLP!Responses = Responses
    /\ SSP!INVALID = INVALID /\ NLP!INVALID = INVALID /\ GLP!INVALID = INVALID
    /\ SSP!Uids = Uids /\ GLP!Services = NL!Services /\ NLP!Services = NL!Services
    /\ SSP!Faults = Faults /\ NLP!Faults = Faults /\ GLP!GameFaults = GameFaults
    /\ GLP!Forwarded = Requests \ {"BAD_LOG_REQ"}
BY Zenon
   DEF SSP!Requests, NLP!Requests, GLP!Requests, Requests,
       SSP!UserMsgs, NLP!UserMsgs, GLP!UserMsgs, UserMsgs,
       SSP!New, NLP!New, GLP!New, New, SSP!Closed, NLP!Closed, GLP!Closed, Closed,
       SSP!Data, NLP!Data, GLP!Data, Data, SSP!ToNetIo, NLP!ToNetIo, ToNetIo,
       SSP!Broadcast, Broadcast, SSP!Responses, GLP!Responses, Responses,
       SSP!INVALID, NLP!INVALID, GLP!INVALID, INVALID,
       Uids, SS!Uids, SSP!Uids, NL!Services, GLP!Services, NLP!Services,
       SSP!Faults, NLP!Faults, Faults, SSP!GameFaults, NLP!GameFaults, GLP!GameFaults,
       GameFaults, GLP!Forwarded

LEMMA SameNetIo == SS!NetIoStep <=> SSP!NetIoStep
BY Zenon
   DEF SS!NetIoStep, SSP!NetIoStep, SS!EpollWait, SSP!EpollWait, SS!DropEvent,
       SSP!DropEvent, SS!NetlogicEvent, SSP!NetlogicEvent, SS!Accept, SSP!Accept,
       SS!ReadMessage, SSP!ReadMessage, SS!SendBuffer, SSP!SendBuffer, SS!SendData,
       SSP!SendData, SS!QueueNull, SSP!QueueNull, SS!StartBroadcast, SSP!StartBroadcast,
       SS!DropClient, SSP!DropClient, SS!Take, SSP!Take, SS!AtEvents, SSP!AtEvents,
       SS!Running, SSP!Running, SS!Slots, SSP!Slots, SS!Cardinality, SSP!Cardinality,
       SS!Readable, SSP!Readable, SS!CanRead, SSP!CanRead, SS!network, SSP!network,
       SS!history, SSP!history, SS!apply_id, SSP!apply_id, SS!Die, SSP!Die,
       SS!Socket, SSP!Socket, SS!Report, SSP!Report, SS!Told, SSP!Told, SS!Uids,
       SSP!Uids, SS!New, SSP!New, SS!Data, SSP!Data, SS!Closed, SSP!Closed, SS!Close,
       SSP!Close, SS!NoConn, SSP!NoConn, SS!Write, SSP!Write, SS!Emptied, SSP!Emptied,
       SS!AppendRest, SSP!AppendRest, SS!Added, SSP!Added, SS!AtQueue, SSP!AtQueue,
       SS!IsFiniteSet, SSP!IsFiniteSet

LEMMA SameClients ==
    \A c : /\ SS!ClientConnects(c) <=> SSP!ClientConnects(c)
           /\ SS!ClientCloses(c) <=> SSP!ClientCloses(c)
           /\ SS!ClientResets(c) <=> SSP!ClientResets(c)
           /\ SS!Added(c) <=> SSP!Added(c)
BY Zenon
   DEF SS!ClientConnects, SSP!ClientConnects, SS!ClientCloses, SSP!ClientCloses,
       SS!ClientResets, SSP!ClientResets, SS!ClientUnchanged, SSP!ClientUnchanged,
       SS!server, SSP!server, SS!history, SSP!history, SS!Added, SSP!Added

LEMMA SameRouter == NL!NetLogicStep <=> NLP!NetLogicStep
BY Zenon
   DEF NL!NetLogicStep, NLP!NetLogicStep, NL!NetLogicWake, NLP!NetLogicWake,
       NL!QueueNull, NLP!QueueNull, NL!NewClient, NLP!NewClient, NL!ForwardData,
       NLP!ForwardData, NL!ForwardClose, NLP!ForwardClose, NL!ForwardBroadcast,
       NLP!ForwardBroadcast, NL!QueueOf, NLP!QueueOf, NL!queues, NLP!queues,
       NL!router, NLP!router, NL!PopNetIo, NLP!PopNetIo, NL!SendToGameLogic,
       NLP!SendToGameLogic, NL!Routed, NLP!Routed, NL!AssignService,
       NLP!AssignService, NL!ReportServiceFull, NLP!ReportServiceFull,
       NL!ServiceFull, NLP!ServiceFull, NL!Char, NLP!Char, NL!Uint8, NLP!Uint8,
       NL!route_distribute_gamelogic, NLP!route_distribute_gamelogic,
       NL!HasRoom, NLP!HasRoom, NL!Services, NLP!Services, NL!INVALID, NLP!INVALID,
       NL!ToNetIo, NLP!ToNetIo

LEMMA FaultIs ==
    /\ fault = "none" => Fault = "none"
    /\ fault' = "list_overflow" => Fault' = "list_overflow"
    /\ fault' = "null_enemy" => Fault' = "null_enemy"
    /\ fault' = "null_request" => Fault' = "null_request"
    /\ fault' = fault => Fault' = Fault
    /\ fault \notin GameFaults => Fault = "none"
    /\ fault' \notin GameFaults => Fault' = "none"
BY DEF Fault, GameFaults

LEMMA SameGame ==
    ASSUME NEW g \in NL!Services, GL!GameLogicStep(g)
    PROVE  /\ GLP!GameLogicStep(g)
           /\ fault' \in {fault} \cup GameFaults
<1>0. /\ "list_overflow" \in GameFaults /\ "null_enemy" \in GameFaults
      /\ "null_request" \in GameFaults
  BY DEF GameFaults
<1>1. CASE GL!NewPlayer(g)
  <2>1. GLP!NewPlayer(g) /\ fault' = fault
    BY <1>1, FaultIs, Zenon DEF GL!NewPlayer, GLP!NewPlayer, GL!Pop, GLP!Pop, GL!Using, GLP!Using,
       GL!OpenMaps, GLP!OpenMaps, GL!FreePlaces, GLP!FreePlaces, GL!First, GLP!First,
       GL!TakePlace, GLP!TakePlace, GL!MaxPlayers, GLP!MaxPlayers, GL!Maps, GLP!Maps,
       GL!Places, GLP!Places, GL!history, GLP!history, GL!INVALID, GLP!INVALID
  <2> QED BY <2>1 DEF GLP!GameLogicStep
<1>2. CASE GL!Login(g)
  <2>1. GLP!Login(g) /\ fault' \in {fault} \cup GameFaults
    BY <1>0, <1>2, FaultIs, Zenon DEF GL!Login, GLP!Login, GL!PopRequest, GLP!PopRequest, GL!Pop,
       GLP!Pop, GL!Using, GLP!Using, GL!Requester, GLP!Requester, GL!MapOf, GLP!MapOf,
       GL!PlaceOf, GLP!PlaceOf, GL!Front, GLP!Front, GL!user_msg_load, GLP!user_msg_load,
       GL!Send, GLP!Send, GL!Broadcast, GLP!Broadcast, GL!history, GLP!history
  <2> QED BY <2>1 DEF GLP!GameLogicStep
<1>3. CASE GL!Start(g)
  <2>1. GLP!Start(g) /\ fault' \in {fault} \cup GameFaults
    BY <1>0, <1>3, FaultIs, Zenon DEF GL!Start, GLP!Start, GL!PopRequest, GLP!PopRequest, GL!Pop,
       GLP!Pop, GL!Using, GLP!Using, GL!Requester, GLP!Requester, GL!MapOf, GLP!MapOf,
       GL!PlaceOf, GLP!PlaceOf, GL!Front, GLP!Front, GL!Places, GLP!Places,
       GL!Send, GLP!Send, GL!Broadcast, GLP!Broadcast
  <2> QED BY <2>1 DEF GLP!GameLogicStep
<1>4. CASE GL!Move(g)
  <2>1. GLP!Move(g) /\ fault' \in {fault} \cup GameFaults
    BY <1>0, <1>4, FaultIs, Zenon DEF GL!Move, GLP!Move, GL!PopRequest, GLP!PopRequest, GL!Pop,
       GLP!Pop, GL!Using, GLP!Using, GL!Requester, GLP!Requester, GL!MapOf, GLP!MapOf,
       GL!PlaceOf, GLP!PlaceOf, GL!Front, GLP!Front, GL!tables, GLP!tables,
       GL!Send, GLP!Send, GL!Broadcast, GLP!Broadcast, GL!history, GLP!history
  <2> QED BY <2>1 DEF GLP!GameLogicStep
<1>5. CASE GL!Leave(g) \/ GL!Ignore(g)
  <2>1. (GLP!Leave(g) \/ GLP!Ignore(g)) /\ fault' = fault
    BY <1>5, FaultIs, Zenon DEF GL!Leave, GLP!Leave, GL!Ignore, GLP!Ignore, GL!PopRequest,
       GLP!PopRequest, GL!Pop, GLP!Pop, GL!Using, GLP!Using, GL!Requester, GLP!Requester,
       GL!MapOf, GLP!MapOf, GL!PlaceOf, GLP!PlaceOf, GL!tables, GLP!tables, GL!Requests,
       GLP!Requests, GL!Send, GLP!Send, GL!Broadcast, GLP!Broadcast, GL!history, GLP!history
  <2> QED BY <2>1 DEF GLP!GameLogicStep
<1>6. CASE GL!UserClose(g)
  <2>1. GLP!UserClose(g) /\ fault' \in {fault} \cup GameFaults
    BY <1>0, <1>6, FaultIs, Zenon DEF GL!UserClose, GLP!UserClose, GL!Pop, GLP!Pop, GL!Using,
       GLP!Using, GL!Requester, GLP!Requester, GL!MapOf, GLP!MapOf, GL!PlaceOf, GLP!PlaceOf,
       GL!RemovePlayer, GLP!RemovePlayer, GL!map_uid_list_rebuild, GLP!map_uid_list_rebuild,
       GL!CountOut, GLP!CountOut, GL!Vacate, GLP!Vacate, GL!tables, GLP!tables,
       GL!Places, GLP!Places, GL!INVALID, GLP!INVALID, GL!Cardinality, GLP!Cardinality,
       GL!Send, GLP!Send, GL!Broadcast, GLP!Broadcast, GL!history, GLP!history
  <2> QED BY <2>1 DEF GLP!GameLogicStep
<1>7. CASE GL!NullRequest(g)
  <2>1. GLP!NullRequest(g) /\ fault' \in {fault} \cup GameFaults
    BY <1>0, <1>7, FaultIs, Zenon DEF GL!NullRequest, GLP!NullRequest, GL!PopRequest,
       GLP!PopRequest, GL!Pop, GLP!Pop, GL!Using, GLP!Using, GL!Requester, GLP!Requester,
       GL!tables, GLP!tables, GL!history, GLP!history
  <2> QED BY <2>1 DEF GLP!GameLogicStep
<1> QED BY <1>1, <1>2, <1>3, <1>4, <1>5, <1>6, <1>7 DEF GL!GameLogicStep

-----------------------------------------------------------------------------
(* A queue of messages about clients.                                      *)

\* The turn of a message in the life of its client: the first, the requests,
\* the last.
Turn(m)      == IF m.type = "S" THEN 0 ELSE IF m.type = "C" THEN 2 ELSE 1
Behind(a, b) == a < b \/ (a = 1 /\ b = 1)

Says(q, u, n) == \E i \in DOMAIN q : q[i].uid = u /\ Turn(q[i]) = n

\* Each client's messages are in the order of their turns; 0 is nobody's id.
TurnsKept(q) ==
    \A i, j \in DOMAIN q :
        i < j /\ q[i].uid = q[j].uid /\ q[i].uid # 0 => Behind(Turn(q[i]), Turn(q[j]))

LEMMA TurnsAre ==
    /\ \A u : Turn(New(u)) = 0 /\ Turn(Closed(u)) = 2
    /\ \A u, r : Turn(Data(u, r)) = 1
    /\ \A S : \A m \in UserMsgs(S) :
          /\ m.uid \in S
          /\ (m.type = "S" /\ Turn(m) = 0 /\ m = New(m.uid))
             \/ (m.type = "C" /\ Turn(m) = 2 /\ m = Closed(m.uid))
             \/ (m.type = "D" /\ Turn(m) = 1 /\ m.req \in Requests
                    /\ m = Data(m.uid, m.req))
BY DEF Turn, New, Closed, Data, UserMsgs

LEMMA AppendIs ==
    ASSUME NEW S, NEW q \in Seq(S), NEW m \in S
    PROVE  /\ Append(q, m) \in Seq(S)
           /\ DOMAIN Append(q, m) = DOMAIN q \cup {Len(q) + 1}
           /\ Append(q, m)[Len(q) + 1] = m
           /\ \A i \in DOMAIN q : Append(q, m)[i] = q[i] /\ i < Len(q) + 1
OBVIOUS

LEMMA TailIs ==
    ASSUME NEW S, NEW q \in Seq(S), q # <<>>
    PROVE  /\ Tail(q) \in Seq(S) /\ Head(q) \in S /\ 1 \in DOMAIN q /\ Head(q) = q[1]
           /\ \A i \in DOMAIN Tail(q) : i + 1 \in DOMAIN q /\ Tail(q)[i] = q[i + 1]
           /\ \A i \in DOMAIN q : i = 1 \/ (i - 1 \in DOMAIN Tail(q) /\ Tail(q)[i - 1] = q[i])
OBVIOUS

LEMMA SaysMore ==
    ASSUME NEW S, NEW q \in Seq(S), NEW m \in S
    PROVE  /\ \A u, n : Says(Append(q, m), u, n) <=>
                           Says(q, u, n) \/ (m.uid = u /\ Turn(m) = n)
           /\ TurnsKept(q) /\ (m.uid # 0 => \A n : Says(q, m.uid, n) => Behind(n, Turn(m)))
                => TurnsKept(Append(q, m))
<1> DEFINE p == Append(q, m)
<1>1. /\ DOMAIN p = DOMAIN q \cup {Len(q) + 1} /\ p[Len(q) + 1] = m
      /\ \A i \in DOMAIN q : p[i] = q[i] /\ i < Len(q) + 1
  BY AppendIs
<1>2. Len(q) \in Nat /\ DOMAIN q \subseteq Nat
  OBVIOUS
<1> HIDE DEF p
<1>3. \A u, n : Says(p, u, n) <=> Says(q, u, n) \/ (m.uid = u /\ Turn(m) = n)
  BY <1>1, Zenon DEF Says
<1>4. ASSUME TurnsKept(q), m.uid # 0 => \A n : Says(q, m.uid, n) => Behind(n, Turn(m)),
             NEW i \in DOMAIN p, NEW j \in DOMAIN p, i < j, p[i].uid = p[j].uid, p[i].uid # 0
      PROVE  Behind(Turn(p[i]), Turn(p[j]))
  <2>1. i \in DOMAIN q /\ p[i] = q[i]
    BY <1>1, <1>2, <1>4
  <2>2. CASE j \in DOMAIN q
    BY <1>1, <1>4, <2>1, <2>2 DEF TurnsKept
  <2>3. CASE j = Len(q) + 1
    <3>1. p[j] = m
      BY <1>1, <2>3
    <3>2. Says(q, m.uid, Turn(p[i]))
      BY <1>4, <2>1, <3>1 DEF Says
    <3> QED BY <1>4, <3>1, <3>2
  <2> QED BY <1>1, <2>2, <2>3
<1>5. TurnsKept(q) /\ (m.uid # 0 => \A n : Says(q, m.uid, n) => Behind(n, Turn(m)))
        => TurnsKept(p)
  BY <1>4 DEF TurnsKept
<1> QED BY <1>3, <1>5 DEF p

LEMMA SaysLess ==
    ASSUME NEW S, NEW q \in Seq(S), q # <<>>, TurnsKept(q)
    PROVE  /\ TurnsKept(Tail(q))
           /\ \A u, n : Says(q, u, n) <=>
                           Says(Tail(q), u, n) \/ (Head(q).uid = u /\ Turn(Head(q)) = n)
           /\ Head(q).uid # 0 => \A n : Says(Tail(q), Head(q).uid, n) => Behind(Turn(Head(q)), n)
<1> DEFINE p == Tail(q)
           h == Head(q)
<1>1. /\ 1 \in DOMAIN q /\ h = q[1]
      /\ \A i \in DOMAIN p : i + 1 \in DOMAIN q /\ p[i] = q[i + 1]
      /\ \A i \in DOMAIN q : i = 1 \/ (i - 1 \in DOMAIN p /\ p[i - 1] = q[i])
  BY TailIs
<1>2. DOMAIN p \subseteq Nat \ {0}
  OBVIOUS
<1> HIDE DEF p, h
<1>3. \A i, j \in DOMAIN p : i < j => i + 1 < j + 1
  BY <1>2
<1>4. TurnsKept(p)
  BY <1>1, <1>3 DEF TurnsKept
<1>5. ASSUME NEW u, NEW n
      PROVE  Says(q, u, n) <=> Says(p, u, n) \/ (h.uid = u /\ Turn(h) = n)
  BY <1>1, Zenon DEF Says
<1>6. ASSUME h.uid # 0, NEW n, Says(p, h.uid, n)
      PROVE  Behind(Turn(h), n)
  <2>1. PICK i \in DOMAIN p : p[i].uid = h.uid /\ Turn(p[i]) = n
    BY <1>6 DEF Says
  <2>2. i + 1 \in DOMAIN q /\ q[i + 1] = p[i] /\ 1 < i + 1
    BY <1>1, <1>2
  <2> QED BY <1>1, <1>6, <2>1, <2>2 DEF TurnsKept
<1> QED BY <1>4, <1>5, <1>6 DEF p, h

-----------------------------------------------------------------------------
(***************************************************************************)
(* How the states of the threads belong together.  What net_io has told of *)
(* a client waits in the queue, in turn, behind what net_logic has         *)
(* forwarded of it; a client is routed from its 'S' to its 'C'; and one of *)
(* which net_logic has taken the 'S' without forwarding it was turned away *)
(* by the write behind the counters.                                       *)
(***************************************************************************)

\* The turn that net_logic's forwarding has reached; a client turned away.
Level(u)   == IF stage[u].sent = "NONE" THEN -1 ELSE IF stage[u].sent = "S" THEN 0 ELSE 2
Refused(u) == stage[u].sent = "NONE" /\ ~Says(io2netlogic_que, u, 0)

UidOrderly(u) ==
    /\ stage[u].sent \in {"NONE", "S", "C"}
    /\ stage[u].sent # "NONE" => stage[u].at \in NL!Services
    /\ sock_id2game_logic[u] = IF stage[u].sent = "S" THEN stage[u].at ELSE INVALID
    /\ \A n : Says(io2netlogic_que, u, n) => Behind(Level(u), n)
    /\ told[u] = "nothing" => stage[u].sent = "NONE" /\ \A n : ~Says(io2netlogic_que, u, n)
    /\ told[u] # "nothing" /\ Refused(u) => stray_write
    /\ told[u] = "C" => Says(io2netlogic_que, u, 2) \/ stage[u].sent = "C" \/ Refused(u)
    /\ told[u] # "C" => stage[u].sent # "C" /\ ~Says(io2netlogic_que, u, 2)

Glue ==
    /\ TurnsKept(io2netlogic_que) /\ ~Says(io2netlogic_que, 0, 0)
    /\ sock_id2game_logic[0] = INVALID
    /\ \A u \in Uids : UidOrderly(u)

\* A client that net_logic believes connected is in epoll, unless it reset
\* its connection.
Resets ==
    /\ \A c \in Clients : conn[c] \in {"rst", "finrst"} => c \in was_reset
    /\ \A c \in Clients : uid_of[c] # 0 /\ told[uid_of[c]] = "S" =>
          SSP!Added(uid_of[c]) \/ c \in was_reset

\* The router never refuses a client, as its 255 is not -1.
NoRefusals == \A i \in DOMAIN netlogic2io_que : netlogic2io_que[i].event = "NULL"

GameThreads == GLP!GameInv /\ GLP!KnownInv /\ GLP!CloseWaits
ThreadsInv  == SSP!IInv /\ NLP!IInv /\ GameThreads

IInv == ThreadsInv /\ Glue /\ Resets /\ NoRefusals /\ RecipientsKnown

-----------------------------------------------------------------------------
(* What a step leaves alone.                                               *)

LEMMA UidFrame ==
    ASSUME NEW u \in Uids, UidOrderly(u), stray_write => stray_write',
           stage'[u] = stage[u], sock_id2game_logic'[u] = sock_id2game_logic[u],
           told'[u] = told[u],
           \A n : Says(io2netlogic_que', u, n) <=> Says(io2netlogic_que, u, n)
    PROVE  UidOrderly(u)'
BY DEF UidOrderly, Refused, Level

LEMMA GlueFrame ==
    ASSUME Glue,
           UNCHANGED <<io2netlogic_que, stage, sock_id2game_logic, told, stray_write>>
    PROVE  Glue'
<1>1. ASSUME NEW u \in Uids PROVE UidOrderly(u)'
  BY UidFrame DEF Glue
<1> QED BY <1>1 DEF Glue

LEMMA ResetsFrame ==
    ASSUME Resets, UNCHANGED <<conn, uid_of, told, was_reset>>,
           uid_of \in [Clients -> Uids \cup {0}],
           \A u \in Uids : SSP!Added(u) => SSP!Added(u)'
    PROVE  Resets'
BY DEF Resets

-----------------------------------------------------------------------------
(* What net_io tells.                                                      *)

\* A report about client s is queued behind the others of that client.
LEMMA TellMore ==
    ASSUME Glue, io2netlogic_que \in Seq(UserMsgs(Uids \cup {0})),
           NEW m \in UserMsgs(Uids \cup {0}), NEW s \in Uids, m.uid = s,
           io2netlogic_que' = Append(io2netlogic_que, m),
           UNCHANGED <<stage, sock_id2game_logic, stray_write>>,
           \A u \in Uids \ {s} : told'[u] = told[u],
           \/ Turn(m) = 0 /\ told[s] = "nothing" /\ told'[s] = "S"
           \/ Turn(m) = 1 /\ told[s] = "S" /\ told'[s] = "S"
           \/ Turn(m) = 2 /\ told[s] = "S" /\ told'[s] = "C"
    PROVE  Glue'
<1> DEFINE q == io2netlogic_que
           p == io2netlogic_que'
           k == Turn(m)
<1>1. UidOrderly(s) /\ s # 0 /\ k \in 0 .. 2
  BY UidsAre DEF Glue
<1>2. \A n : Says(q, s, n) => n \in 0 .. 2
  <2>1. \A i \in DOMAIN q : q[i] \in UserMsgs(Uids \cup {0})
    OBVIOUS
  <2> QED BY <2>1, TurnsAre DEF Says
<1>3. \A n : Says(q, s, n) => Behind(n, k)
  <2>1. CASE k = 0
    BY <1>1, <2>1 DEF UidOrderly
  <2>2. CASE k # 0
    <3>1. ~Says(q, s, 2)
      BY <1>1, <2>2 DEF UidOrderly
    <3>2. \A n \in 0 .. 2 : n # 2 => Behind(n, k)
      BY <1>1, <2>2 DEF Behind
    <3> QED BY <1>2, <3>1, <3>2
  <2> QED BY <2>1, <2>2
<1>4. /\ \A u, n : Says(p, u, n) <=> Says(q, u, n) \/ (u = s /\ n = k)
      /\ TurnsKept(p)
  <2>1. TurnsKept(q)
    BY DEF Glue
  <2>2. /\ \A u, n : Says(p, u, n) <=> Says(q, u, n) \/ (m.uid = u /\ k = n)
        /\ TurnsKept(q) /\ (m.uid # 0 => \A n : Says(q, m.uid, n) => Behind(n, k))
             => TurnsKept(p)
    BY SaysMore
  <2> QED BY <1>3, <2>1, <2>2
<1> HIDE DEF q, p
<1>5. ~Says(p, 0, 0)
  BY <1>1, <1>4 DEF Glue, q
<1>6. ASSUME NEW u \in Uids, u # s PROVE UidOrderly(u)'
  <2>1. \A n : Says(p, u, n) <=> Says(q, u, n)
    BY <1>4, <1>6
  <2> QED BY <1>6, <2>1, UidFrame DEF Glue, p, q
<1>7. UidOrderly(s)'
  <2>1. stage[s].sent # "C" /\ (k # 0 => ~Says(q, s, 2))
    BY <1>1 DEF UidOrderly, q
  <2>2. Behind(Level(s), k)
    <3>1. k = 0 => Level(s) = -1
      BY <1>1 DEF UidOrderly, Level
    <3>2. Level(s) \in {-1, 0}
      BY <1>1, <2>1 DEF UidOrderly, Level
    <3> QED BY <1>1, <3>1, <3>2 DEF Behind
  <2>3. Level(s)' = Level(s)
    BY DEF Level
  <2>4. \A n : Says(p, s, n) => Behind(Level(s)', n)
    BY <1>1, <1>4, <2>2, <2>3 DEF UidOrderly, q
  <2>5. told'[s] # "nothing" /\ Refused(s)' => stray_write'
    <3>1. CASE k = 0
      BY <1>4, <3>1 DEF Refused, p
    <3>2. CASE k # 0
      BY <1>1, <1>4, <3>2 DEF Refused, UidOrderly, p, q
    <3> QED BY <3>1, <3>2
  <2>6. told'[s] = "C" => Says(p, s, 2)
    BY <1>4
  <2>7. told'[s] # "C" => ~Says(p, s, 2)
    <3>1. CASE k = 0
      BY <1>1, <1>4, <3>1 DEF UidOrderly, q
    <3>2. CASE k # 0
      BY <1>4, <2>1, <3>2
    <3> QED BY <3>1, <3>2
  <2>8. told'[s] # "nothing"
    OBVIOUS
  <2>9. /\ stage'[s].sent \in {"NONE", "S", "C"}
        /\ stage'[s].sent # "NONE" => stage'[s].at \in NL!Services
        /\ sock_id2game_logic'[s] = IF stage'[s].sent = "S" THEN stage'[s].at ELSE INVALID
    BY <1>1 DEF UidOrderly
  <2> QED BY <2>1, <2>4, <2>5, <2>6, <2>7, <2>8, <2>9 DEF UidOrderly, p
<1>8. \A u \in Uids : UidOrderly(u)'
  BY <1>6, <1>7
<1>9. sock_id2game_logic'[0] = INVALID
  BY DEF Glue
<1> QED BY <1>4, <1>5, <1>8, <1>9 DEF Glue, p

\* The close that a write finds is told of nobody.
LEMMA TellNobody ==
    ASSUME Glue, io2netlogic_que \in Seq(UserMsgs(Uids \cup {0})),
           io2netlogic_que' = Append(io2netlogic_que, Closed(0)),
           UNCHANGED <<stage, sock_id2game_logic, stray_write, told>>
    PROVE  Glue'
<1>1. Closed(0) \in UserMsgs(Uids \cup {0}) /\ Closed(0).uid = 0 /\ Turn(Closed(0)) = 2
  BY TurnsAre DEF Closed, UserMsgs
<1>2. TurnsKept(io2netlogic_que)
  BY DEF Glue
<1>3. /\ TurnsKept(io2netlogic_que')
      /\ \A u, n : Says(io2netlogic_que', u, n) <=>
                      Says(io2netlogic_que, u, n) \/ (u = 0 /\ n = 2)
  <2> DEFINE m == Closed(0)
  <2> HIDE DEF m
  <2>1. m \in UserMsgs(Uids \cup {0}) /\ m.uid = 0 /\ Turn(m) = 2
    BY <1>1 DEF m
  <2>2. /\ \A u, n : Says(Append(io2netlogic_que, m), u, n) <=>
                        Says(io2netlogic_que, u, n) \/ (m.uid = u /\ Turn(m) = n)
        /\ TurnsKept(io2netlogic_que)
             /\ (m.uid # 0 => \A n : Says(io2netlogic_que, m.uid, n) => Behind(n, Turn(m)))
             => TurnsKept(Append(io2netlogic_que, m))
    BY <2>1, SaysMore
  <2>3. io2netlogic_que' = Append(io2netlogic_que, m)
    BY DEF m
  <2> QED BY <1>2, <2>1, <2>2, <2>3
<1>4. ASSUME NEW u \in Uids PROVE UidOrderly(u)'
  <2>1. \A n : Says(io2netlogic_que', u, n) <=> Says(io2netlogic_que, u, n)
    BY <1>3, UidsAre
  <2> QED BY <2>1, UidFrame DEF Glue
<1>5. ~Says(io2netlogic_que', 0, 0) /\ sock_id2game_logic'[0] = INVALID
  BY <1>3 DEF Glue
<1> QED BY <1>3, <1>4, <1>5 DEF Glue

-----------------------------------------------------------------------------
(* net_io reads a request, or the end of the stream.                       *)

LEMMA ReaderIs ==
    ASSUME SSP!IInv, NEW e \in events, SSP!ReadMessage(e)
    PROVE  LET s == e.slot
               c == socket_pool[s].conn
           IN  /\ s \in Uids /\ SSP!Added(s) /\ told[s] = "S" /\ c \in Clients
               /\ uid_of[c] = s /\ inbox[c] \in Seq(Requests)
               /\ UNCHANGED <<uid_of, netlogic2io_que, fault>>
               /\ \/ /\ inbox[c] # <<>> /\ Head(inbox[c]) \in Requests
                     /\ io2netlogic_que' = Append(io2netlogic_que, Data(s, Head(inbox[c])))
                     /\ inbox' = [inbox EXCEPT ![c] = Tail(@)]
                     /\ UNCHANGED <<socket_pool, conn, told>>
                  \/ /\ inbox[c] = <<>> /\ conn[c] \in {"fin", "finrst", "rst"}
                     /\ io2netlogic_que' = Append(io2netlogic_que, Closed(s))
                     /\ inbox' = [inbox EXCEPT ![c] = <<>>]
                     /\ conn' = [conn EXCEPT ![c] = "closed"]
                     /\ told' = [told EXCEPT ![s] = "C"]
                     /\ ~SSP!Added(s)'
                     /\ \A t : t # s => socket_pool'[t] = socket_pool[t]
<1> DEFINE s == e.slot
           c == socket_pool[s].conn
<1>0. e \in SSP!Batch /\ e.slot \in SSP!Slots
  BY DEF SSP!IInv, SSP!Types, SSP!LoopTypes, SSP!Batch
<1>1. s \in SSP!Slots /\ SSP!Added(s)
  BY <1>0 DEF SSP!ReadMessage, SSP!Take, SSP!Added
<1>2. /\ s \in Uids /\ told[s] = "S" /\ c \in Clients
      /\ socket_pool[s].id = s /\ uid_of[c] = s
  BY <1>1, UidsAre DEF SSP!IInv, SSP!Current, SSP!Sessions, SSP!InEpoll
<1>3. inbox[c] \in Seq(Requests)
  BY <1>2, SameMessages DEF SSP!IInv, SSP!Types, SSP!NetworkTypes
<1>4. UNCHANGED <<uid_of, netlogic2io_que, fault>>
  BY DEF SSP!ReadMessage
<1>5. CASE inbox[c] # <<>>
  <2>1. /\ SSP!Report(SSP!Data(s, Head(inbox[c])))
        /\ inbox' = [inbox EXCEPT ![c] = Tail(@)]
        /\ UNCHANGED <<socket_pool, conn>>
    BY <1>2, <1>5 DEF SSP!ReadMessage
  <2>2. Head(inbox[c]) \in Requests
    BY <1>3, <1>5
  <2>3. told' = told
    <3>1. told' = [told EXCEPT ![s] = SSP!Told(@, "D")]
      BY <1>2, <2>1, UidsAre DEF SSP!Report, SSP!Data
    <3>2. SSP!Told("S", "D") = "S"
      BY DEF SSP!Told
    <3> QED BY <1>2, <3>1, <3>2 DEF SSP!IInv, SSP!Types, SSP!ReportTypes
  <2>4. io2netlogic_que' = Append(io2netlogic_que, Data(s, Head(inbox[c])))
    BY <2>1, SameMessages DEF SSP!Report
  <2> QED BY <1>1, <1>2, <1>3, <1>4, <1>5, <2>1, <2>2, <2>3, <2>4
<1>6. CASE inbox[c] = <<>>
  <2>1. SSP!Close(s) /\ SSP!Report(SSP!Closed(s)) /\ conn[c] \in {"fin", "finrst", "rst"}
    BY <1>2, <1>6 DEF SSP!ReadMessage, SSP!CanRead
  <2>2. told' = [told EXCEPT ![s] = "C"]
    <3>1. told' = [told EXCEPT ![s] = SSP!Told(@, "C")]
      BY <1>2, <2>1, UidsAre DEF SSP!Report, SSP!Closed
    <3>2. SSP!Told("S", "C") = "C"
      BY DEF SSP!Told
    <3> QED BY <1>2, <3>1, <3>2 DEF SSP!IInv, SSP!Types, SSP!ReportTypes
  <2>3. io2netlogic_que' = Append(io2netlogic_que, Closed(s))
    BY <2>1, SameMessages DEF SSP!Report
  <2>4. /\ inbox' = [inbox EXCEPT ![c] = <<>>] /\ conn' = [conn EXCEPT ![c] = "closed"]
        /\ socket_pool' = [socket_pool EXCEPT ![s] = SSP!Socket("INVALID", 0, SSP!NoConn)]
    BY <2>1 DEF SSP!Close
  <2>5. ~SSP!Added(s)' /\ \A t : t # s => socket_pool'[t] = socket_pool[t]
    BY <1>1, <2>4 DEF SSP!Added, SSP!Socket, SSP!IInv, SSP!Types
  <2> QED BY <1>1, <1>2, <1>3, <1>4, <1>6, <2>1, <2>2, <2>3, <2>4, <2>5
<1> QED BY <1>5, <1>6

\* A connection has one slot.
LEMMA OneSlot ==
    ASSUME SSP!IInv, NEW u \in Uids, SSP!Added(u)
    PROVE  /\ socket_pool[u].conn \in Clients /\ uid_of[socket_pool[u].conn] = u
           /\ told[u] = "S" /\ conn[socket_pool[u].conn] \in SSP!Live
<1>1. u \in SSP!Slots
  BY UidsAre, LimitsAssumption DEF SSP!Slots
<1> QED BY <1>1 DEF SSP!IInv, SSP!Current, SSP!Sessions, SSP!InEpoll

LEMMA ReadKeeps ==
    ASSUME SSP!IInv, Glue, Resets, NEW e \in events, SSP!ReadMessage(e),
           UNCHANGED <<stage, sock_id2game_logic, stray_write, was_reset>>
    PROVE  Glue' /\ Resets'
<1>0. PICK s \in Uids, c \in Clients : s = e.slot /\ c = socket_pool[s].conn
  BY ReaderIs
<1>1. /\ SSP!Added(s) /\ told[s] = "S" /\ uid_of[c] = s /\ inbox[c] \in Seq(Requests)
      /\ UNCHANGED uid_of
  BY <1>0, ReaderIs
<1>2. io2netlogic_que \in Seq(UserMsgs(Uids \cup {0}))
  BY SameMessages DEF SSP!IInv, SSP!Types, SSP!ReportTypes
<1>3. /\ conn \in [Clients -> {"idle", "open", "fin", "rst", "finrst", "closed"}]
      /\ told \in [Uids -> {"nothing", "S", "C", "out of order"}]
      /\ uid_of \in [Clients -> Uids \cup {0}]
  BY SameMessages DEF SSP!IInv, SSP!Types, SSP!ReportTypes, SSP!NetworkTypes, SSP!LoopTypes
<1>4. CASE /\ inbox[c] # <<>> /\ Head(inbox[c]) \in Requests
           /\ io2netlogic_que' = Append(io2netlogic_que, Data(s, Head(inbox[c])))
           /\ UNCHANGED <<socket_pool, conn, told>>
  <2> DEFINE m == Data(s, Head(inbox[c]))
  <2>1. m \in UserMsgs(Uids \cup {0}) /\ m.uid = s /\ Turn(m) = 1
    BY <1>4, TurnsAre DEF Data, UserMsgs
  <2>2. io2netlogic_que' = Append(io2netlogic_que, m)
    BY <1>4
  <2> HIDE DEF m
  <2>3. Glue'
    BY <1>1, <1>2, <1>4, <2>1, <2>2, TellMore
  <2>4. Resets'
    BY <1>1, <1>3, <1>4, ResetsFrame DEF SSP!Added
  <2> QED BY <2>3, <2>4
<1>5. CASE /\ io2netlogic_que' = Append(io2netlogic_que, Closed(s))
           /\ conn' = [conn EXCEPT ![c] = "closed"]
           /\ told' = [told EXCEPT ![s] = "C"]
           /\ \A t : t # s => socket_pool'[t] = socket_pool[t]
  <2> DEFINE m == Closed(s)
  <2>1. m \in UserMsgs(Uids \cup {0}) /\ m.uid = s /\ Turn(m) = 2
    BY TurnsAre DEF Closed, UserMsgs
  <2>2. io2netlogic_que' = Append(io2netlogic_que, m)
    BY <1>5
  <2> HIDE DEF m
  <2>3. told'[s] = "C" /\ \A u \in Uids \ {s} : told'[u] = told[u]
    BY <1>3, <1>5
  <2>4. Glue'
    BY <1>1, <1>2, <2>1, <2>2, <2>3, TellMore
  <2>5. \A d \in Clients : conn'[d] \in {conn[d], "closed"}
    BY <1>3, <1>5
  <2>6. \A u \in Uids : told'[u] = "S" => told[u] = "S" /\ (SSP!Added(u) => SSP!Added(u)')
    BY <1>5, <2>3 DEF SSP!Added
  <2>7. Resets'
    <3>1. \A d \in Clients : conn'[d] \in {"rst", "finrst"} => d \in was_reset'
      BY <2>5 DEF Resets
    <3>2. ASSUME NEW d \in Clients, NEW v \in Uids, v = uid_of[d], told'[v] = "S"
          PROVE  SSP!Added(v)' \/ d \in was_reset'
      <4>1. told[v] = "S" /\ (SSP!Added(v) => SSP!Added(v)')
        BY <2>6, <3>2
      <4>2. v # 0 /\ was_reset' = was_reset
        BY UidsAre
      <4>3. SSP!Added(v) \/ d \in was_reset
        BY <3>2, <4>1, <4>2 DEF Resets
      <4> QED BY <4>1, <4>2, <4>3
    <3>3. \A d \in Clients : uid_of'[d] = uid_of[d] /\ (uid_of[d] # 0 => uid_of[d] \in Uids)
      BY <1>1, <1>3
    <3> QED BY <3>1, <3>2, <3>3 DEF Resets, SSP!Added
  <2> QED BY <2>4, <2>7
<1> QED BY <1>0, <1>4, <1>5, ReaderIs

-----------------------------------------------------------------------------
(* net_io accepts a client.                                                *)

LEMMA AccepterIs ==
    ASSUME SSP!IInv, NEW e \in events, SSP!Accept(e)
    PROVE  /\ UNCHANGED <<netlogic2io_que, conn, inbox>>
           /\ fault' \in {fault, "no id"}
           /\ \/ UNCHANGED <<io2netlogic_que, socket_pool, uid_of, told>>
              \/ \E c \in Clients, s \in Uids :
                    /\ uid_of[c] = 0 /\ told[s] = "nothing"
                    /\ uid_of' = [uid_of EXCEPT ![c] = s]
                    /\ told' = [told EXCEPT ![s] = "S"]
                    /\ io2netlogic_que' = Append(io2netlogic_que, New(s))
                    /\ ~SSP!Added(s) /\ SSP!Added(s)' /\ socket_pool'[s].conn = c
                    /\ \A t : t # s => socket_pool'[t] = socket_pool[t]
<1>1. PICK id : id = SSP!apply_id
  OBVIOUS
<1>2. PICK c \in backlog :
          IF id = -1
          THEN /\ SSP!Die("no id")
               /\ UNCHANGED <<socket_pool, alloc_id>>
          ELSE /\ alloc_id' = id
               /\ socket_pool' = [socket_pool EXCEPT ![id] = SSP!Socket("CONNECT_ADD", id, c)]
               /\ backlog' = backlog \ {c}
               /\ uid_of' = [uid_of EXCEPT ![c] = id]
               /\ SSP!Report(SSP!New(id))
               /\ UNCHANGED <<fault, conn, inbox, half, requests>>
  <2>1. \A added \in {TRUE} \cup {~FALSE} : added = TRUE
    OBVIOUS
  <2> QED BY <1>1, <2>1 DEF SSP!Accept
<1>3. UNCHANGED netlogic2io_que
  BY DEF SSP!Accept
<1>4. CASE id = -1
  BY <1>2, <1>3, <1>4 DEF SSP!Die, SSP!network, SSP!history
<1>5. CASE id # -1
  <2>1. id \in Uids /\ id > alloc_id /\ socket_pool[id].type = "INVALID"
    BY <1>1, <1>5, UidsAre, SocketAssumptions, SSP!NewId DEF SSP!IInv
  <2>2. c \in Clients /\ uid_of[c] = 0
    BY DEF SSP!IInv, SSP!Types, SSP!NetworkTypes, SSP!Current, SSP!Waiting
  <2>3. told[id] = "nothing"
    BY <2>1, UidsAre DEF SSP!IInv, SSP!Current, SSP!Fresh
  <2>4. /\ socket_pool' = [socket_pool EXCEPT ![id] = SSP!Socket("CONNECT_ADD", id, c)]
        /\ uid_of' = [uid_of EXCEPT ![c] = id]
        /\ SSP!Report(SSP!New(id)) /\ UNCHANGED <<conn, inbox, fault>>
    BY <1>2, <1>5
  <2>5. told' = [told EXCEPT ![id] = "S"]
    <3>1. told' = [told EXCEPT ![id] = SSP!Told(@, "S")]
      BY <2>1, <2>4, UidsAre DEF SSP!Report, SSP!New
    <3>2. SSP!Told("nothing", "S") = "S"
      BY DEF SSP!Told
    <3> QED BY <2>1, <2>3, <3>1, <3>2 DEF SSP!IInv, SSP!Types, SSP!ReportTypes
  <2>6. io2netlogic_que' = Append(io2netlogic_que, New(id))
    BY <2>4, SameMessages DEF SSP!Report
  <2>7. /\ ~SSP!Added(id) /\ SSP!Added(id)' /\ socket_pool'[id].conn = c
        /\ \A t : t # id => socket_pool'[t] = socket_pool[t]
    <3>1. id \in SSP!Slots
      BY <2>1, UidsAre, LimitsAssumption DEF SSP!Slots
    <3>2. /\ SSP!Socket("CONNECT_ADD", id, c).type = "CONNECT_ADD"
          /\ SSP!Socket("CONNECT_ADD", id, c).conn = c
      BY DEF SSP!Socket
    <3>3. socket_pool \in [SSP!Slots -> SSP!Records]
      BY DEF SSP!IInv, SSP!Types
    <3>4. /\ socket_pool'[id] = SSP!Socket("CONNECT_ADD", id, c)
          /\ \A t : t # id => socket_pool'[t] = socket_pool[t]
      BY <2>4, <3>1, <3>3
    <3> QED BY <2>1, <3>2, <3>4 DEF SSP!Added
  <2> QED BY <1>3, <2>1, <2>2, <2>3, <2>4, <2>5, <2>6, <2>7
<1> QED BY <1>4, <1>5

LEMMA AcceptKeeps ==
    ASSUME SSP!IInv, Glue, Resets, NEW e \in events, SSP!Accept(e),
           UNCHANGED <<stage, sock_id2game_logic, stray_write, was_reset>>
    PROVE  Glue' /\ Resets'
<1>1. UNCHANGED conn
  BY AccepterIs
<1>2. /\ io2netlogic_que \in Seq(UserMsgs(Uids \cup {0}))
      /\ told \in [Uids -> {"nothing", "S", "C", "out of order"}]
      /\ uid_of \in [Clients -> Uids \cup {0}]
  BY SameMessages DEF SSP!IInv, SSP!Types, SSP!ReportTypes, SSP!LoopTypes
<1>3. CASE UNCHANGED <<io2netlogic_que, socket_pool, uid_of, told>>
  BY <1>1, <1>2, <1>3, GlueFrame, ResetsFrame DEF SSP!Added
<1>4. ASSUME NEW c \in Clients, NEW s \in Uids, told[s] = "nothing",
             uid_of' = [uid_of EXCEPT ![c] = s],
             told' = [told EXCEPT ![s] = "S"],
             io2netlogic_que' = Append(io2netlogic_que, New(s)),
             SSP!Added(s)',
             \A t : t # s => socket_pool'[t] = socket_pool[t]
      PROVE  Glue' /\ Resets'
  <2> DEFINE m == New(s)
  <2>1. m \in UserMsgs(Uids \cup {0}) /\ m.uid = s /\ Turn(m) = 0
    BY TurnsAre DEF New, UserMsgs
  <2>2. io2netlogic_que' = Append(io2netlogic_que, m)
    BY <1>4
  <2> HIDE DEF m
  <2>3. told'[s] = "S" /\ \A u \in Uids \ {s} : told'[u] = told[u]
    BY <1>2, <1>4
  <2>4. Glue'
    BY <1>2, <1>4, <2>1, <2>2, <2>3, TellMore
  <2>5. \A u \in Uids \ {s} : SSP!Added(u) => SSP!Added(u)'
    BY <1>4 DEF SSP!Added
  <2>6. \A d \in Clients : uid_of'[d] \in {uid_of[d], s}
    BY <1>2, <1>4
  <2>7. Resets'
    BY <1>1, <1>2, <1>4, <2>3, <2>5, <2>6 DEF Resets
  <2> QED BY <2>4, <2>7
<1> QED BY <1>3, <1>4, AccepterIs

-----------------------------------------------------------------------------
(* net_io writes, and its other turns.                                     *)

\* A write that fails reports the id 0, and frees the slot; any other write
\* leaves what the invariant is about alone.
LEMMA WriterIs ==
    ASSUME SSP!IInv, NEW s \in SSP!Slots, SSP!Added(s),
           NEW rest \in {SSP!AppendRest(s), SSP!Emptied(s)},
           SSP!Write(s, {socket_pool, rest})
    PROVE  \/ /\ UNCHANGED <<io2netlogic_que, told, uid_of, inbox, conn>>
              /\ fault' \in {fault, "SIGPIPE"}
              /\ \A t \in Uids : /\ SSP!Added(t)' <=> SSP!Added(t)
                                 /\ socket_pool'[t].conn = socket_pool[t].conn
           \/ LET c == socket_pool[s].conn IN
              /\ conn[c] = "rst" /\ s \in Uids /\ c \in Clients
              /\ io2netlogic_que' = Append(io2netlogic_que, Closed(0))
              /\ inbox' = [inbox EXCEPT ![c] = <<>>]
              /\ conn' = [conn EXCEPT ![c] = "closed"]
              /\ UNCHANGED <<told, uid_of, fault>>
              /\ ~SSP!Added(s)'
              /\ \A t : t # s => socket_pool'[t] = socket_pool[t]
<1> DEFINE c == socket_pool[s].conn
<1>1. socket_pool \in [SSP!Slots -> SSP!Records] /\ Uids \subseteq SSP!Slots
  BY UidsAre, LimitsAssumption DEF SSP!IInv, SSP!Types, SSP!Slots
<1>2. s \in Uids /\ c \in Clients
  BY UidsAre DEF SSP!IInv, SSP!Current, SSP!Sessions, SSP!InEpoll
<1>3. CASE /\ socket_pool' \in {socket_pool, rest}
           /\ UNCHANGED <<io2netlogic_que, fault, SSP!network, SSP!history>>
  <2>1. ASSUME NEW t \in Uids
        PROVE  /\ socket_pool'[t].type = socket_pool[t].type
               /\ socket_pool'[t].conn = socket_pool[t].conn
    BY <1>1, <1>3 DEF SSP!AppendRest, SSP!Emptied, SSP!Records
  <2> QED BY <1>3, <2>1 DEF SSP!Added, SSP!network, SSP!history
<1>4. CASE conn[c] = "rst" /\ SSP!Close(s) /\ SSP!Report(SSP!Closed(0)) /\ UNCHANGED <<fault, uid_of>>
  <2>1. io2netlogic_que' = Append(io2netlogic_que, Closed(0)) /\ told' = told
    BY <1>4, SameMessages, UidsAre DEF SSP!Report, SSP!Closed
  <2>2. /\ inbox' = [inbox EXCEPT ![c] = <<>>] /\ conn' = [conn EXCEPT ![c] = "closed"]
        /\ socket_pool' = [socket_pool EXCEPT ![s] = SSP!Socket("INVALID", 0, SSP!NoConn)]
    BY <1>4 DEF SSP!Close
  <2>3. ~SSP!Added(s)' /\ \A t : t # s => socket_pool'[t] = socket_pool[t]
    BY <1>1, <2>2 DEF SSP!Added, SSP!Socket
  <2> QED BY <1>2, <1>4, <2>1, <2>2, <2>3
<1>5. CASE SSP!Die("SIGPIPE") /\ UNCHANGED socket_pool
  BY <1>5 DEF SSP!Die, SSP!network, SSP!history, SSP!Added
<1>6. conn[c] \notin {"open", "fin", "finrst"} => conn[c] = "rst"
  BY DEF SSP!IInv, SSP!Current, SSP!Sessions, SSP!InEpoll, SSP!Live
<1>7. conn[c] = "rst" =>
         SSP!Close(s) /\ SSP!Report(SSP!Closed(0)) /\ UNCHANGED <<fault, uid_of>>
  <2> SUFFICES ASSUME conn[c] = "rst"
               PROVE  SSP!Close(s) /\ SSP!Report(SSP!Closed(0)) /\ UNCHANGED <<fault, uid_of>>
    OBVIOUS
  <2>1. /\ SSP!Close(s) /\ SSP!Report(SSP!Closed(socket_pool'[s].id))
        /\ UNCHANGED <<fault, uid_of>>
    BY DEF SSP!Write
  <2>2. socket_pool'[s].id = 0
    BY <1>1, <2>1 DEF SSP!Close, SSP!Socket
  <2> QED BY <2>1, <2>2
<1> QED BY <1>3, <1>4, <1>5, <1>6, <1>7 DEF SSP!Write

LEMMA WriteKeeps ==
    ASSUME SSP!IInv, Glue, Resets, NEW s \in SSP!Slots, SSP!Added(s),
           NEW rest \in {SSP!AppendRest(s), SSP!Emptied(s)},
           SSP!Write(s, {socket_pool, rest}),
           UNCHANGED <<stage, sock_id2game_logic, stray_write, was_reset>>
    PROVE  Glue' /\ Resets'
<1> DEFINE c == socket_pool[s].conn
<1>0. /\ uid_of \in [Clients -> Uids \cup {0}]
      /\ conn \in [Clients -> {"idle", "open", "fin", "rst", "finrst", "closed"}]
      /\ io2netlogic_que \in Seq(UserMsgs(Uids \cup {0}))
  BY SameMessages DEF SSP!IInv, SSP!Types, SSP!LoopTypes, SSP!NetworkTypes, SSP!ReportTypes
<1>1. CASE /\ UNCHANGED <<io2netlogic_que, told, uid_of, conn>>
           /\ \A t \in Uids : SSP!Added(t)' <=> SSP!Added(t)
  BY <1>0, <1>1, GlueFrame, ResetsFrame
<1>2. CASE /\ conn[c] = "rst" /\ s \in Uids /\ c \in Clients
           /\ io2netlogic_que' = Append(io2netlogic_que, Closed(0))
           /\ conn' = [conn EXCEPT ![c] = "closed"]
           /\ UNCHANGED <<told, uid_of>>
           /\ \A t : t # s => socket_pool'[t] = socket_pool[t]
  <2>1. Glue'
    BY <1>0, <1>2, TellNobody
  <2>2. c \in was_reset /\ uid_of[c] = s
    BY <1>2, OneSlot DEF Resets
  <2>3. \A d \in Clients : uid_of[d] = s => d = c
    <3>1. SSP!IdNamesOneConnection
      BY DEF SSP!IInv, SSP!Current
    <3> QED BY <1>2, <2>2, <3>1, UidsAre DEF SSP!IdNamesOneConnection
  <2>4. \A u \in Uids \ {s} : SSP!Added(u) => SSP!Added(u)'
    BY <1>2 DEF SSP!Added
  <2>5. \A d \in Clients : conn'[d] \in {conn[d], "closed"}
    BY <1>0, <1>2
  <2>6. Resets'
    BY <1>0, <1>2, <2>2, <2>3, <2>4, <2>5 DEF Resets
  <2> QED BY <2>1, <2>6
<1> QED BY <1>1, <1>2, WriterIs

Known == {u \in Uids : told[u] # "nothing"}

Written(s) == \E rest \in {SSP!AppendRest(s), SSP!Emptied(s)} : SSP!Write(s, {socket_pool, rest})

\* What a step of net_io does, as long as nobody is refused.
LEMMA NetIoCases ==
    ASSUME SSP!IInv, NoRefusals, SSP!NetIoStep
    PROVE  /\ fault = "none" /\ fault' \in {"none", "no id", "assertion", "SIGPIPE"}
           /\ \/ UNCHANGED <<io2netlogic_que, socket_pool, conn, inbox, uid_of, told>>
              \/ \E e \in events : SSP!Accept(e) \/ SSP!ReadMessage(e)
              \/ \E s \in SSP!Slots : SSP!Added(s) /\ Written(s)
           /\ \/ UNCHANGED netlogic2io_que
              \/ netlogic2io_que # <<>> /\ netlogic2io_que' = Tail(netlogic2io_que)
<1> DEFINE Same == UNCHANGED <<io2netlogic_que, socket_pool, conn, inbox, uid_of, told>>
           Writes == \E s \in SSP!Slots : SSP!Added(s) /\ Written(s)
           Dead == fault' \in {"none", "no id", "assertion", "SIGPIPE"}
<1>0. fault = "none"
  BY DEF SSP!NetIoStep, SSP!EpollWait, SSP!QueueNull, SSP!StartBroadcast, SSP!DropEvent,
     SSP!NetlogicEvent, SSP!Accept, SSP!ReadMessage, SSP!SendBuffer, SSP!SendData,
     SSP!DropClient, SSP!Take, SSP!AtEvents, SSP!AtQueue, SSP!Running
<1>1. CASE SSP!EpollWait \/ SSP!QueueNull \/ SSP!StartBroadcast
           \/ \E e \in events : SSP!DropEvent(e) \/ SSP!NetlogicEvent(e)
  <2>1. Same /\ Dead
    BY <1>0, <1>1 DEF SSP!EpollWait, SSP!QueueNull, SSP!StartBroadcast, SSP!DropEvent,
       SSP!NetlogicEvent, SSP!network, SSP!history
  <2>2. \/ UNCHANGED netlogic2io_que
        \/ netlogic2io_que # <<>> /\ netlogic2io_que' = Tail(netlogic2io_que)
    BY <1>1 DEF SSP!EpollWait, SSP!QueueNull, SSP!StartBroadcast, SSP!DropEvent,
       SSP!NetlogicEvent
  <2> QED BY <1>0, <2>1, <2>2
<1>2. CASE \E e \in events : SSP!Accept(e) \/ SSP!ReadMessage(e)
  <2>1. Dead
    BY <1>0, <1>2, AccepterIs, ReaderIs
  <2>2. UNCHANGED netlogic2io_que
    BY <1>2, AccepterIs, ReaderIs
  <2> QED BY <1>0, <1>2, <2>1, <2>2
<1>3. ASSUME NEW s \in SSP!Slots, SSP!Added(s), Written(s) PROVE Dead
  <2>1. PICK rest \in {SSP!AppendRest(s), SSP!Emptied(s)} : SSP!Write(s, {socket_pool, rest})
    BY <1>3 DEF Written
  <2>2. fault' \in {fault, "SIGPIPE"}
    BY <1>3, <2>1, WriterIs
  <2> QED BY <1>0, <2>2
<1>4. ASSUME NEW e \in events, SSP!SendBuffer(e) PROVE Writes /\ Dead /\ UNCHANGED netlogic2io_que
  <2>1. e \in SSP!Batch
    BY DEF SSP!IInv, SSP!Types, SSP!LoopTypes
  <2>2. /\ e.slot \in SSP!Slots /\ SSP!Added(e.slot) /\ UNCHANGED netlogic2io_que
        /\ SSP!Write(e.slot, {socket_pool, SSP!Emptied(e.slot)})
    BY <1>4, <2>1 DEF SSP!SendBuffer, SSP!Take, SSP!Added, SSP!Batch
  <2> QED BY <1>3, <2>2 DEF Written
<1>5. CASE SSP!SendData
  <2> DEFINE s == Head(sending)
  <2>1. s \in SSP!Slots
    <3>1. sending \in Seq(SSP!Uids \cup {0}) /\ sending # <<>>
      BY <1>5, Zenon DEF SSP!SendData, SSP!IInv, SSP!Types, SSP!LoopTypes
    <3>2. s \in SSP!Uids \cup {0}
      BY <3>1
    <3> QED BY <3>2, LimitsAssumption DEF SSP!Uids, SSP!Slots
  <2>2. UNCHANGED netlogic2io_que
    BY <1>5 DEF SSP!SendData
  <2>3. CASE SSP!Added(s) /\ ~socket_pool[s].buffered
    <3>1. SSP!Write(s, {socket_pool, SSP!AppendRest(s)})
      BY <1>5, <2>3 DEF SSP!SendData
    <3> QED BY <1>0, <1>3, <2>1, <2>2, <2>3, <3>1 DEF Written
  <2>4. CASE ~(SSP!Added(s) /\ ~socket_pool[s].buffered)
    <3>1. Same /\ Dead
      BY <1>0, <1>5, <2>4 DEF SSP!SendData, SSP!Die, SSP!network, SSP!history
    <3> QED BY <1>0, <2>2, <3>1
  <2> QED BY <2>3, <2>4
<1>6. ~SSP!DropClient
  <2> SUFFICES ASSUME SSP!DropClient PROVE FALSE
    OBVIOUS
  <2>1. netlogic2io_que \in Seq(SSP!NetIoMsgs) /\ netlogic2io_que # <<>>
        /\ Head(netlogic2io_que).event = "F"
    BY DEF SSP!DropClient, SSP!IInv, SSP!Types, SSP!LoopTypes
  <2>2. 1 \in DOMAIN netlogic2io_que /\ Head(netlogic2io_que) = netlogic2io_que[1]
    BY <2>1
  <2> QED BY <2>1, <2>2 DEF NoRefusals
<1> HIDE DEF Same, Writes, Dead
<1>7. SSP!EpollWait \/ SSP!QueueNull \/ SSP!StartBroadcast
      \/ (\E e \in events : SSP!DropEvent(e) \/ SSP!NetlogicEvent(e))
      \/ (\E e \in events : SSP!Accept(e) \/ SSP!ReadMessage(e))
      \/ (\E e \in events : SSP!SendBuffer(e)) \/ SSP!SendData
  BY <1>6, Zenon DEF SSP!NetIoStep
<1> QED BY <1>0, <1>1, <1>2, <1>4, <1>5, <1>7 DEF Same, Writes, Dead

LEMMA NetIoGlue ==
    ASSUME SSP!IInv, Glue, Resets, NoRefusals, SSP!NetIoStep,
           UNCHANGED <<stage, sock_id2game_logic, stray_write, was_reset>>
    PROVE  /\ Glue' /\ Resets' /\ Known \subseteq Known'
           /\ \/ UNCHANGED netlogic2io_que
              \/ netlogic2io_que # <<>> /\ netlogic2io_que' = Tail(netlogic2io_que)
<1>0. /\ told \in [Uids -> {"nothing", "S", "C", "out of order"}]
      /\ uid_of \in [Clients -> Uids \cup {0}]
  BY SameMessages DEF SSP!IInv, SSP!Types, SSP!ReportTypes, SSP!LoopTypes
<1>1. ASSUME UNCHANGED <<io2netlogic_que, socket_pool, conn, inbox, uid_of, told>>
      PROVE  Glue' /\ Resets' /\ Known \subseteq Known'
  BY <1>0, <1>1, GlueFrame, ResetsFrame DEF SSP!Added, Known
<1>2. ASSUME NEW e \in events, SSP!Accept(e) PROVE Glue' /\ Resets' /\ Known \subseteq Known'
  <2>1. Known \subseteq Known'
    BY <1>0, <1>2, AccepterIs DEF Known
  <2> QED BY <1>2, <2>1, AcceptKeeps
<1>3. ASSUME NEW e \in events, SSP!ReadMessage(e)
      PROVE  Glue' /\ Resets' /\ Known \subseteq Known'
  <2>1. Known \subseteq Known'
    BY <1>0, <1>3, ReaderIs DEF Known
  <2> QED BY <1>3, <2>1, ReadKeeps
<1>4. ASSUME NEW s \in SSP!Slots, SSP!Added(s), Written(s)
      PROVE  Glue' /\ Resets' /\ Known \subseteq Known'
  <2>1. PICK rest \in {SSP!AppendRest(s), SSP!Emptied(s)} : SSP!Write(s, {socket_pool, rest})
    BY <1>4 DEF Written
  <2>2. UNCHANGED told
    BY <1>4, <2>1, WriterIs
  <2>3. Glue' /\ Resets'
    BY <1>4, <2>1, WriteKeeps
  <2> QED BY <2>2, <2>3 DEF Known
<1> QED BY <1>1, <1>2, <1>3, <1>4, NetIoCases


-----------------------------------------------------------------------------
(* What the threads share.                                                 *)

LEMMA SharedTypes ==
    ASSUME SSP!IInv, GLP!IInv
    PROVE  /\ io2netlogic_que \in Seq(UserMsgs(Uids \cup {0}))
           /\ que_2_gamelogic \in [NL!Services -> Seq(UserMsgs(Uids))]
           /\ que_2_net_logic \in Seq(GLP!Reply)
           /\ stage \in [Uids -> [at : NL!Services \cup {INVALID},
                                  sent : Requests \cup {"NONE", "S", "C"}]]
<1>1. io2netlogic_que \in Seq(UserMsgs(Uids \cup {0}))
  BY SameMessages DEF SSP!IInv, SSP!Types, SSP!ReportTypes
<1>2. GLP!TypeOK
  BY DEF GLP!IInv
<1> QED BY <1>1, <1>2, SameMessages DEF GLP!TypeOK, GLP!Reply

LEMMA SharedTypesThen ==
    ASSUME SSP!IInv', GLP!IInv'
    PROVE  /\ (io2netlogic_que \in Seq(UserMsgs(Uids \cup {0})))'
           /\ (que_2_gamelogic \in [NL!Services -> Seq(UserMsgs(Uids))])'
           /\ (que_2_net_logic \in Seq(GLP!Reply))'
BY SharedTypes, PTL

LEMMA GameKeeps ==
    ASSUME GameThreads, GLP!Next \/ UNCHANGED GLP!vars
    PROVE  GameThreads'
<1>1. /\ GLP!IInv /\ GLP!ArrivalInv /\ GLP!CountInv /\ GLP!GameInv
      /\ GLP!KnownInv /\ GLP!CloseWaits
  BY DEF GameThreads, GLP!GameInv
<1>2. GLP!IInv'
  BY <1>1, GameAssumptions, GLP!IInvStep
<1>3. GLP!ArrivalInv' /\ GLP!CountInv'
  BY <1>1, <1>2, GameAssumptions, GLP!ArrivalStep, GLP!CountStep
<1>4. GLP!KnownInv' /\ GLP!CloseWaits'
  BY <1>1, GameAssumptions, GLP!KnownStep, GLP!CloseWaitsStep
<1> QED BY <1>2, <1>3, <1>4 DEF GameThreads, GLP!GameInv

\* The router's tables, when only the queues have changed.
LEMMA RouterFrame ==
    ASSUME NLP!IInv,
           UNCHANGED <<sock_id2game_logic, online_player, game_service_id,
                       current_que, stray_write>>,
           fault' \in Faults,
           (io2netlogic_que \in Seq(UserMsgs(Uids \cup {0})))',
           (que_2_gamelogic \in [NL!Services -> Seq(UserMsgs(Uids))])',
           (que_2_net_logic \in Seq(GLP!Reply))',
           \/ UNCHANGED netlogic2io_que
           \/ netlogic2io_que # <<>> /\ netlogic2io_que' = Tail(netlogic2io_que)
    PROVE  NLP!IInv'
<1>1. NLP!OnlineMatchesRoute' /\ NLP!CapRespected'
  BY DEF NLP!IInv, NLP!OnlineMatchesRoute, NLP!CapRespected, NLP!ClientsAt
<1>2. ASSUME NEW S, netlogic2io_que \in Seq(S) PROVE netlogic2io_que' \in Seq(S)
  <2>1. netlogic2io_que # <<>> => Tail(netlogic2io_que) \in Seq(S)
    BY <1>2
  <2> QED BY <1>2, <2>1
<1>3. UserMsgs(Uids) \subseteq UserMsgs(Uids \cup {0})
  BY DEF UserMsgs
<1>4. \A S, T : S \subseteq T => Seq(S) \subseteq Seq(T)
  OBVIOUS
<1>5. que_2_gamelogic' \in [NL!Services -> Seq(UserMsgs(Uids \cup {0}))]
  <2>1. Seq(UserMsgs(Uids)) \subseteq Seq(UserMsgs(Uids \cup {0}))
    BY <1>3, <1>4
  <2> QED BY <2>1
<1>6. NLP!TypeOK'
  BY <1>2, <1>5, SameMessages DEF NLP!IInv, NLP!TypeOK
<1> QED BY <1>1, <1>6 DEF NLP!IInv

\* All that these messages are sent to are known to net_io.
AllKnown(games, back) ==
    /\ \A i \in DOMAIN games : Recipients(games[i]) \subseteq Known
    /\ \A i \in DOMAIN back : back[i].event = "NULL" => Recipients(back[i].msg) \subseteq Known

LEMMA RecipientsAre == RecipientsKnown <=> AllKnown(que_2_net_logic, netlogic2io_que)
BY DEF RecipientsKnown, AllKnown, Known

LEMMA RecipientsThen ==
    RecipientsKnown' <=> AllKnown(que_2_net_logic, netlogic2io_que)'
BY RecipientsAre, PTL

LEMMA RecipientsFrame ==
    ASSUME RecipientsKnown, Known \subseteq Known', UNCHANGED que_2_net_logic,
           netlogic2io_que \in Seq(SSP!NetIoMsgs),
           \/ UNCHANGED netlogic2io_que
           \/ netlogic2io_que # <<>> /\ netlogic2io_que' = Tail(netlogic2io_que)
    PROVE  RecipientsKnown'
<1> DEFINE q == netlogic2io_que
           p == netlogic2io_que'
<1>1. \A i \in DOMAIN p : \E j \in DOMAIN q : p[i] = q[j]
  BY TailIs
<1> HIDE DEF q, p
<1>2. AllKnown(que_2_net_logic, q)
  BY RecipientsAre DEF q
<1>3. \A i \in DOMAIN que_2_net_logic' : Recipients(que_2_net_logic'[i]) \subseteq Known'
  BY <1>2 DEF AllKnown
<1>4. \A i \in DOMAIN p : p[i].event = "NULL" => Recipients(p[i].msg) \subseteq Known'
  BY <1>1, <1>2 DEF AllKnown
<1>5. AllKnown(que_2_net_logic, netlogic2io_que)'
  BY <1>3, <1>4 DEF AllKnown, Recipients, p
<1> QED BY <1>5, RecipientsThen

LEMMA RefusalsFrame ==
    ASSUME NoRefusals, netlogic2io_que \in Seq(SSP!NetIoMsgs),
           \/ UNCHANGED netlogic2io_que
           \/ netlogic2io_que # <<>> /\ netlogic2io_que' = Tail(netlogic2io_que)
    PROVE  NoRefusals'
<1>1. \A i \in DOMAIN netlogic2io_que' : \E j \in DOMAIN netlogic2io_que :
         netlogic2io_que'[i] = netlogic2io_que[j]
  BY TailIs
<1> QED BY <1>1 DEF NoRefusals

\* A game thread dies of nothing that net_io does.
LEMMA NetIoUnseen ==
    ASSUME SSP!IInv, NoRefusals, SSP!NetIoStep
    PROVE  Fault' = Fault
<1>1. fault = "none" /\ fault' \in {"none", "no id", "assertion", "SIGPIPE"}
  BY NetIoCases
<1>2. fault' \notin GameFaults
  BY <1>1 DEF GameFaults
<1> QED BY <1>1, <1>2, FaultIs

LEMMA NetIoKeeps ==
    ASSUME IInv, NetIo
    PROVE  IInv'
<1>1. /\ SSP!IInv /\ NLP!IInv /\ GameThreads
      /\ Glue /\ Resets /\ NoRefusals /\ RecipientsKnown
  BY DEF IInv, ThreadsInv
<1>2. SSP!NetIoStep
  BY SameNetIo DEF NetIo
<1>3. SSP!IInv'
  BY <1>1, <1>2, SocketAssumptions, SSP!Step DEF SSP!Next
<1>4. /\ Glue' /\ Resets' /\ Known \subseteq Known'
      /\ \/ UNCHANGED netlogic2io_que
         \/ netlogic2io_que # <<>> /\ netlogic2io_que' = Tail(netlogic2io_que)
  BY <1>1, <1>2, NetIoGlue DEF NetIo, netlogicVars
<1>5. netlogic2io_que \in Seq(SSP!NetIoMsgs)
  BY <1>1 DEF SSP!IInv, SSP!Types, SSP!LoopTypes
<1>6. NoRefusals' /\ RecipientsKnown'
  BY <1>1, <1>4, <1>5, RefusalsFrame, RecipientsFrame DEF NetIo
<1>7. GameThreads'
  <2>1. UNCHANGED GLP!vars
    BY <1>1, <1>2, NetIoUnseen DEF NetIo, gameVars, GLP!vars, GLP!tables, GLP!history
  <2> QED BY <1>1, <2>1, GameKeeps
<1>8. NLP!IInv'
  <2>1. GLP!IInv'
    BY <1>7 DEF GameThreads, GLP!GameInv
  <2>2. fault' \in Faults
    BY <1>1, <1>2, NetIoCases DEF Faults
  <2> QED BY <1>1, <1>3, <1>4, <2>1, <2>2, SharedTypesThen, RouterFrame DEF NetIo, netlogicVars
<1> QED BY <1>3, <1>4, <1>6, <1>7, <1>8 DEF IInv, ThreadsInv


-----------------------------------------------------------------------------
(* net_logic takes a report.                                               *)

\* The next report is of turn k about client u: what says all of u.
LEMMA NextIs ==
    ASSUME Glue, io2netlogic_que \in Seq(UserMsgs(Uids \cup {0})), io2netlogic_que # <<>>,
           NEW u \in Uids, u = Head(io2netlogic_que).uid
    PROVE  LET k == Turn(Head(io2netlogic_que)) IN
           /\ k \in 0 .. 2
           /\ \A n : Says(io2netlogic_que, u, n) <=> Says(Tail(io2netlogic_que), u, n) \/ k = n
           /\ \A n : Says(Tail(io2netlogic_que), u, n) => Behind(k, n)
<1> DEFINE S == UserMsgs(Uids \cup {0})
<1>1. Head(io2netlogic_que) \in S
  <2> HIDE DEF S
  <2>1. io2netlogic_que \in Seq(S)
    BY DEF S
  <2> QED BY <2>1
<1>2. Turn(Head(io2netlogic_que)) \in 0 .. 2
  BY <1>1, TurnsAre
<1>3. TurnsKept(io2netlogic_que) /\ u # 0
  BY UidsAre DEF Glue
<1> QED BY <1>2, <1>3, SaysLess

\* What net_logic has forwarded of the client when it comes to that report.
LEMMA NextReport ==
    ASSUME Glue, io2netlogic_que \in Seq(UserMsgs(Uids \cup {0})), io2netlogic_que # <<>>,
           NEW u \in Uids, u = Head(io2netlogic_que).uid
    PROVE  /\ Turn(Head(io2netlogic_que)) = 0 => stage[u].sent = "NONE"
           /\ Turn(Head(io2netlogic_que)) # 0 => stage[u].sent \in {"NONE", "S"}
           /\ sock_id2game_logic[u] = IF stage[u].sent = "S" THEN stage[u].at ELSE INVALID
           /\ stage[u].sent = "S" => stage[u].at \in NL!Services
<1> DEFINE k == Turn(Head(io2netlogic_que))
<1>1. k \in 0 .. 2 /\ Says(io2netlogic_que, u, k)
  BY NextIs
<1>2. UidOrderly(u)
  BY DEF Glue
<1> HIDE DEF k
<1>3. Behind(Level(u), k) /\ stage[u].sent \in {"NONE", "S", "C"}
  BY <1>1, <1>2 DEF UidOrderly
<1>4. k = 0 => stage[u].sent = "NONE"
  BY <1>3 DEF Behind, Level
<1>5. k # 0 => stage[u].sent \in {"NONE", "S"}
  BY <1>1, <1>3 DEF Behind, Level
<1> QED BY <1>2, <1>4, <1>5 DEF UidOrderly, k

\* What becomes of the report of turn k about client v: it is dropped, as the
\* client was or is turned away, or it is forwarded.
Dropped(v, k) ==
    /\ stage[v].sent = "NONE" /\ (k = 0 => stray_write')
    /\ stage'[v] = stage[v] /\ sock_id2game_logic'[v] = sock_id2game_logic[v]

Passed(v, k) ==
    \/ /\ k = 0 /\ stage'[v].sent = "S" /\ stage'[v].at \in NL!Services
       /\ sock_id2game_logic'[v] = stage'[v].at
    \/ /\ k = 1 /\ stage[v].sent = "S"
       /\ stage'[v] = stage[v] /\ sock_id2game_logic'[v] = sock_id2game_logic[v]
    \/ /\ k = 2 /\ stage[v].sent = "S" /\ stage'[v].sent = "C" /\ stage'[v].at \in NL!Services
       /\ sock_id2game_logic'[v] = INVALID

LEMMA PopUid ==
    ASSUME Glue, io2netlogic_que \in Seq(UserMsgs(Uids \cup {0})), io2netlogic_que # <<>>,
           io2netlogic_que' = Tail(io2netlogic_que),
           NEW u \in Uids, u = Head(io2netlogic_que).uid,
           told'[u] = told[u], stray_write => stray_write',
           Dropped(u, Turn(Head(io2netlogic_que))) \/ Passed(u, Turn(Head(io2netlogic_que)))
    PROVE  UidOrderly(u)'
<1> DEFINE q == io2netlogic_que
           p == io2netlogic_que'
           k == Turn(Head(q))
<1>1. /\ k \in 0 .. 2
      /\ \A n : Says(q, u, n) <=> Says(p, u, n) \/ k = n
      /\ \A n : Says(p, u, n) => Behind(k, n)
  BY NextIs
<1>2. UidOrderly(u) /\ (k = 0 => stage[u].sent = "NONE")
  BY NextReport DEF Glue
<1>3. Dropped(u, k) \/ Passed(u, k)
  OBVIOUS
<1> HIDE DEF k
<1>4. told[u] # "nothing"
  BY <1>1, <1>2 DEF UidOrderly
<1>5. ~Says(p, u, 0)
  BY <1>1 DEF Behind
<1>6. /\ stage'[u].sent \in {"NONE", "S", "C"}
      /\ stage'[u].sent # "NONE" => stage'[u].at \in NL!Services
      /\ sock_id2game_logic'[u] = IF stage'[u].sent = "S" THEN stage'[u].at ELSE INVALID
  BY <1>2, <1>3 DEF UidOrderly, Dropped, Passed
<1>7. ASSUME NEW n, Says(p, u, n) PROVE Behind(Level(u)', n)
  <2>1. Behind(k, n) /\ Behind(Level(u), n)
    BY <1>1, <1>2, <1>7 DEF UidOrderly
  <2>2. Level(u)' = Level(u) \/ Level(u)' = k
    BY <1>3 DEF Dropped, Passed, Level
  <2> QED BY <2>1, <2>2
<1>8. Refused(u)' => stray_write'
  <2> SUFFICES ASSUME stage'[u].sent = "NONE" PROVE stray_write'
    BY DEF Refused
  <2>1. Dropped(u, k)
    BY <1>3, <1>2 DEF Passed
  <2>2. k # 0 => Refused(u)
    BY <1>1, <1>5, <2>1 DEF Dropped, Refused
  <2> QED BY <1>2, <1>4, <2>1, <2>2 DEF Dropped, UidOrderly
<1>9. told'[u] = "C" => Says(p, u, 2) \/ stage'[u].sent = "C" \/ Refused(u)'
  <2> SUFFICES ASSUME told[u] = "C"
               PROVE  Says(p, u, 2) \/ stage'[u].sent = "C" \/ Refused(u)'
    OBVIOUS
  <2>1. Says(q, u, 2) \/ stage[u].sent = "C" \/ Refused(u)
    BY <1>2 DEF UidOrderly
  <2>2. CASE Dropped(u, k)
    BY <1>5, <2>2 DEF Dropped, Refused
  <2>3. CASE Passed(u, k)
    <3>1. Says(q, u, 2)
      BY <1>1, <1>2, <2>1, <2>3 DEF Passed, Refused
    <3> QED BY <1>1, <2>3, <3>1 DEF Passed
  <2> QED BY <1>3, <2>2, <2>3
<1>10. told'[u] # "C" => stage'[u].sent # "C" /\ ~Says(p, u, 2)
  <2> SUFFICES ASSUME told[u] # "C" PROVE stage'[u].sent # "C" /\ ~Says(p, u, 2)
    OBVIOUS
  <2>1. stage[u].sent # "C" /\ ~Says(q, u, 2)
    BY <1>2 DEF UidOrderly
  <2> QED BY <1>1, <1>3, <2>1 DEF Dropped, Passed
<1> QED BY <1>4, <1>6, <1>7, <1>8, <1>9, <1>10 DEF UidOrderly

LEMMA PopKeeps ==
    ASSUME Glue, io2netlogic_que \in Seq(UserMsgs(Uids \cup {0})),
           io2netlogic_que # <<>>, io2netlogic_que' = Tail(io2netlogic_que),
           UNCHANGED told, stray_write => stray_write',
           NEW v, v = Head(io2netlogic_que).uid,
           \A u \in Uids \ {v} : /\ stage'[u] = stage[u]
                                 /\ sock_id2game_logic'[u] = sock_id2game_logic[u],
           sock_id2game_logic'[0] = INVALID,
           v \in Uids =>
               \/ Dropped(v, Turn(Head(io2netlogic_que)))
               \/ Passed(v, Turn(Head(io2netlogic_que)))
    PROVE  Glue'
<1> DEFINE q == io2netlogic_que
           p == io2netlogic_que'
<1>1. /\ TurnsKept(p)
      /\ \A u, n : Says(p, u, n) => Says(q, u, n)
      /\ \A u, n : u # v => (Says(p, u, n) <=> Says(q, u, n))
  <2>1. TurnsKept(q)
    BY DEF Glue
  <2> QED BY <2>1, SaysLess
<1>2. ~Says(p, 0, 0)
  BY <1>1 DEF Glue
<1> HIDE DEF q, p
<1>3. ASSUME NEW u \in Uids, u # v PROVE UidOrderly(u)'
  <2>1. /\ \A n : Says(p, u, n) <=> Says(q, u, n)
        /\ stage'[u] = stage[u] /\ sock_id2game_logic'[u] = sock_id2game_logic[u]
        /\ told'[u] = told[u]
    BY <1>1, <1>3
  <2> QED BY <2>1, UidFrame DEF Glue, p, q
<1>4. ASSUME NEW u \in Uids, u = v PROVE UidOrderly(u)'
  <2>1. Dropped(u, Turn(Head(io2netlogic_que))) \/ Passed(u, Turn(Head(io2netlogic_que)))
    <3>1. v \in Uids
      BY <1>4
    <3>2. Dropped(v, Turn(Head(io2netlogic_que))) \/ Passed(v, Turn(Head(io2netlogic_que)))
      BY <3>1
    <3> QED BY <1>4, <3>2 DEF Dropped, Passed
  <2> QED BY <1>4, <2>1, PopUid
<1>5. \A u \in Uids : UidOrderly(u)'
  <2>1. \A u \in Uids : u # v \/ u = v
    OBVIOUS
  <2> QED BY <1>3, <1>4, <2>1
<1> QED BY <1>1, <1>2, <1>5 DEF Glue, p

\* The router's part of a step of net_logic.
LEMMA RouterKeeps ==
    ASSUME NLP!IInv, NLP!NetLogicStep
    PROVE  NLP!IInv'
BY RouterAssumptions, NLP!IInvStep DEF NLP!Next

LEMMA PopIs ==
    ASSUME SSP!IInv, GLP!IInv, NEW t, NLP!PopNetIo(t)
    PROVE  LET m == Head(io2netlogic_que) IN
           /\ m \in UserMsgs(Uids \cup {0}) /\ m.type = t /\ m.uid \in Uids \cup {0}
           /\ io2netlogic_que # <<>> /\ io2netlogic_que' = Tail(io2netlogic_que)
           /\ io2netlogic_que \in Seq(UserMsgs(Uids \cup {0}))
           /\ fault = "none"
<1>1. io2netlogic_que \in Seq(UserMsgs(Uids \cup {0})) /\ io2netlogic_que # <<>>
  BY SharedTypes DEF NLP!PopNetIo
<1>2. Head(io2netlogic_que) \in UserMsgs(Uids \cup {0})
  BY <1>1, TailIs
<1> QED BY <1>1, <1>2, TurnsAre DEF NLP!PopNetIo

\* What net_io sees of it: the queue is shorter, and the process may be dead.
LEMMA PopSocket ==
    ASSUME SSP!IInv, io2netlogic_que \in Seq(UserMsgs(Uids \cup {0})),
           io2netlogic_que # <<>>, io2netlogic_que' = Tail(io2netlogic_que),
           fault' \in Faults, UNCHANGED <<netlogic2io_que, netioVars, kernelVars>>
    PROVE  SSP!IInv'
<1>1. io2netlogic_que' \in Seq(UserMsgs(Uids \cup {0}))
  BY TailIs
<1>2. SSP!Types'
  BY <1>1, SameMessages
     DEF SSP!IInv, SSP!Types, SSP!LoopTypes, SSP!NetworkTypes, SSP!ReportTypes, SSP!Batch,
         netioVars, kernelVars
<1>3. SSP!Current'
  BY SocketAssumptions, SSP!Untouched DEF SSP!IInv, netioVars, kernelVars
<1> QED BY <1>2, <1>3 DEF SSP!IInv

\* The same of a step that only has the process die.
LEMMA FaultFrame ==
    ASSUME SSP!IInv, fault' \in Faults,
           UNCHANGED <<io2netlogic_que, netlogic2io_que, netioVars, kernelVars>>
    PROVE  SSP!IInv'
<1>1. SSP!Types'
  BY SameMessages
     DEF SSP!IInv, SSP!Types, SSP!LoopTypes, SSP!NetworkTypes, SSP!ReportTypes, SSP!Batch,
         netioVars, kernelVars
<1>2. SSP!Current'
  BY SocketAssumptions, SSP!Untouched DEF SSP!IInv, netioVars, kernelVars
<1> QED BY <1>1, <1>2 DEF SSP!IInv

\* The rest of the invariant, and what a step of net_logic never touches.
Rest == SSP!IInv /\ GameThreads /\ Glue /\ Resets /\ NoRefusals /\ RecipientsKnown

OthersStay == UNCHANGED <<netioVars, kernelVars, gameVars, was_reset>>

LEMMA RestIs ==
    ASSUME Rest
    PROVE  /\ SSP!IInv /\ GameThreads /\ GLP!IInv /\ Glue /\ Resets
           /\ NoRefusals /\ RecipientsKnown
BY DEF Rest, GameThreads, GLP!GameInv

LEMMA ResetsStay ==
    ASSUME SSP!IInv, Resets, OthersStay
    PROVE  Resets'
<1>1. uid_of \in [Clients -> Uids \cup {0}]
  BY SameMessages DEF SSP!IInv, SSP!Types, SSP!LoopTypes
<1> QED BY <1>1, ResetsFrame DEF OthersStay, netioVars, kernelVars, SSP!Added

\* A report is put into the queue of the game service g.
Handed(g, m) == que_2_gamelogic' = [que_2_gamelogic EXCEPT ![g] = Append(@, m)]

\* What the game threads see of a step of net_logic.
GameSees == [GLP!Next]_(GLP!vars)

\* A report is taken, and what becomes of it is no matter of net_io.
LEMMA PopRest ==
    ASSUME Rest, OthersStay, NEW t, NLP!PopNetIo(t),
           UNCHANGED <<que_2_net_logic, netlogic2io_que>>,
           fault' \in Faults, stray_write => stray_write', GameSees,
           NEW v, v = Head(io2netlogic_que).uid,
           \A u \in (Uids \cup {0}) \ {v} : sock_id2game_logic'[u] = sock_id2game_logic[u],
           \A u \in Uids \ {v} : stage'[u] = stage[u],
           sock_id2game_logic'[0] = INVALID,
           v \in Uids =>
               \/ Dropped(v, Turn(Head(io2netlogic_que)))
               \/ Passed(v, Turn(Head(io2netlogic_que)))
    PROVE  Rest'
<1>1. /\ SSP!IInv /\ GameThreads /\ GLP!IInv /\ Glue /\ Resets
      /\ NoRefusals /\ RecipientsKnown
  BY RestIs
<1>2. /\ io2netlogic_que # <<>> /\ io2netlogic_que' = Tail(io2netlogic_que)
      /\ io2netlogic_que \in Seq(UserMsgs(Uids \cup {0}))
  BY <1>1, PopIs
<1>3. SSP!IInv'
  BY <1>1, <1>2, PopSocket DEF OthersStay
<1>4. GameThreads'
  BY <1>1, GameKeeps DEF GameSees
<1>5. Glue'
  <2>1. UNCHANGED told
    BY DEF OthersStay, netioVars
  <2> QED BY <1>1, <1>2, <2>1, PopKeeps
<1>6. Resets'
  BY <1>1, ResetsStay
<1>7. NoRefusals' /\ RecipientsKnown'
  BY <1>1 DEF NoRefusals, RecipientsKnown, OthersStay, netioVars
<1> QED BY <1>3, <1>4, <1>5, <1>6, <1>7 DEF Rest

\* The report is of a client that was turned away, or is by this one.
LEMMA QuietPop ==
    ASSUME Rest, OthersStay, NEW t, NLP!PopNetIo(t),
           UNCHANGED <<que_2_gamelogic, que_2_net_logic, netlogic2io_que,
                       sock_id2game_logic, stage>>,
           fault' \in {fault, "null_login"}, stray_write => stray_write',
           LET u == Head(io2netlogic_que).uid
           IN  u \in Uids => \/ Dropped(u, Turn(Head(io2netlogic_que)))
                             \/ Passed(u, Turn(Head(io2netlogic_que)))
    PROVE  Rest' /\ GameSees
<1>1. /\ SSP!IInv /\ GLP!IInv /\ Glue
  BY RestIs
<1>2. fault = "none"
  BY <1>1, PopIs
<1>3. fault' \in Faults /\ Fault' = Fault
  <2>1. fault \notin GameFaults /\ fault' \notin GameFaults
    BY <1>2 DEF GameFaults
  <2>2. fault' \in Faults
    BY <1>2 DEF Faults
  <2> QED BY <2>1, <2>2, FaultIs
<1>4. GameSees
  BY <1>3 DEF OthersStay, gameVars, GLP!vars, GLP!tables, GLP!history, GameSees
<1>5. PICK v : v = Head(io2netlogic_que).uid
  OBVIOUS
<1>6. sock_id2game_logic'[0] = INVALID
  BY <1>1 DEF Glue
<1>7. v \in Uids => \/ Dropped(v, Turn(Head(io2netlogic_que)))
                    \/ Passed(v, Turn(Head(io2netlogic_que)))
  BY <1>5
<1>8. Rest'
  BY <1>3, <1>4, <1>5, <1>6, <1>7, PopRest
<1> QED BY <1>4, <1>8

LEMMA QueueChanges ==
    ASSUME que_2_gamelogic \in [NL!Services -> Seq(UserMsgs(Uids))],
           NEW g \in NL!Services, NEW m, Handed(g, m)
    PROVE  que_2_gamelogic' # que_2_gamelogic
<1>1. que_2_gamelogic[g] \in Seq(UserMsgs(Uids))
  OBVIOUS
<1>2. que_2_gamelogic'[g] = Append(que_2_gamelogic[g], m)
  BY DEF Handed
<1>3. Len(Append(que_2_gamelogic[g], m)) = Len(que_2_gamelogic[g]) + 1
      /\ Len(que_2_gamelogic[g]) \in Nat
  BY <1>1
<1> QED BY <1>2, <1>3

LEMMA HandedOn ==
    ASSUME Rest, OthersStay, NEW t, NLP!PopNetIo(t),
           UNCHANGED <<que_2_net_logic, netlogic2io_que, fault>>,
           stray_write => stray_write',
           NEW v \in Uids, v = Head(io2netlogic_que).uid,
           NEW g \in NL!Services, Handed(g, Head(io2netlogic_que)),
           \A u \in (Uids \cup {0}) \ {v} : sock_id2game_logic'[u] = sock_id2game_logic[u],
           \A u \in Uids \ {v} : stage'[u] = stage[u],
           Passed(v, Turn(Head(io2netlogic_que))), GLP!Next
    PROVE  Rest' /\ GameSees
<1>1. /\ SSP!IInv /\ GLP!IInv /\ Glue
  BY RestIs
<1>2. fault' \in Faults
  BY <1>1, PopIs DEF Faults
<1>3. sock_id2game_logic'[0] = INVALID
  BY <1>1, UidsAre DEF Glue
<1>4. GameSees
  BY DEF GameSees
<1>5. Rest'
  BY <1>2, <1>3, <1>4, PopRest
<1> QED BY <1>4, <1>5

\* What is recorded of a report that was forwarded.
LEMMA NotedIs ==
    ASSUME NEW u, NEW g, NEW m, m.uid = u, game_service_id' = g, stage' = Noted(m)
    PROVE  /\ m.type = "D" => stage' = stage
           /\ m.type # "D" => stage' = [stage EXCEPT ![u] = [at |-> g, sent |-> m.type]]
BY Zenon DEF Noted

LEMMA NotedThere ==
    ASSUME GLP!IInv, NEW u \in Uids, NEW a, stage' = [stage EXCEPT ![u] = a]
    PROVE  stage'[u] = a /\ \A w \in Uids \ {u} : stage'[w] = stage[w]
<1>1. stage \in [Uids -> [at : GLP!Services \cup {GLP!INVALID},
                          sent : GLP!Requests \cup {"NONE", "S", "C"}]]
  BY DEF GLP!IInv, GLP!TypeOK
<1> QED BY <1>1

\* The report is of a client that has a service if it is routed.
LEMMA RoutedNext ==
    ASSUME Rest, NEW t \in {"D", "C"}, NLP!PopNetIo(t),
           NEW u \in Uids, u = Head(io2netlogic_que).uid
    PROVE  /\ Turn(Head(io2netlogic_que)) = IF t = "C" THEN 2 ELSE 1
           /\ ~NLP!Routed(u) => stage[u].sent = "NONE"
           /\ NLP!Routed(u) => /\ stage[u].sent = "S" /\ sock_id2game_logic[u] = stage[u].at
                               /\ stage[u].at \in NL!Services /\ stage[u].at # INVALID
           /\ stage[u].sent \in {"NONE", "S"}
<1> DEFINE m == Head(io2netlogic_que)
<1>1. SSP!IInv /\ GLP!IInv /\ Glue
  BY RestIs
<1>2. /\ m \in UserMsgs(Uids \cup {0}) /\ m.type = t
      /\ io2netlogic_que # <<>> /\ io2netlogic_que \in Seq(UserMsgs(Uids \cup {0}))
  BY <1>1, PopIs
<1>3. Turn(m) = IF t = "C" THEN 2 ELSE 1
  BY <1>2, TurnsAre
<1>4. /\ stage[u].sent \in {"NONE", "S"}
      /\ sock_id2game_logic[u] = IF stage[u].sent = "S" THEN stage[u].at ELSE INVALID
      /\ stage[u].sent = "S" => stage[u].at \in NL!Services
  BY <1>1, <1>2, <1>3, NextReport
<1>5. INVALID \notin NL!Services
  BY SizesAssumption DEF NL!Services, INVALID
<1>6. NLP!Routed(u) <=> sock_id2game_logic[u] # INVALID
  BY SameMessages DEF NLP!Routed
<1> QED BY <1>3, <1>4, <1>5, <1>6

\* A new client: net_logic has never forwarded anything of it.
LEMMA NewClientRest ==
    ASSUME Rest, NLP!IInv, NetLogic, NLP!NewClient
    PROVE  Rest' /\ GameSees
<1> DEFINE m == Head(io2netlogic_que)
<1>0. PICK v, id : v = m.uid /\ id = NLP!route_distribute_gamelogic
  OBVIOUS
<1>1. /\ SSP!IInv /\ GLP!IInv /\ Glue
      /\ OthersStay /\ NLP!PopNetIo("S") /\ UNCHANGED <<que_2_net_logic, current_que, fault>>
  BY RestIs DEF NetLogic, OthersStay, NLP!NewClient
<1>2. /\ m \in UserMsgs(Uids \cup {0}) /\ m.type = "S"
      /\ io2netlogic_que # <<>> /\ io2netlogic_que \in Seq(UserMsgs(Uids \cup {0}))
  BY <1>1, PopIs
<1>3. m = New(v) /\ Turn(m) = 0
  BY <1>0, <1>2, TurnsAre
<1>4. v \in Uids
  <2>1. Says(io2netlogic_que, v, 0)
    BY <1>0, <1>2, <1>3, TailIs DEF Says
  <2>2. v # 0
    BY <1>1, <2>1 DEF Glue
  <2> QED BY <1>0, <1>1, <2>2, PopIs
<1>5. stage[v].sent = "NONE" /\ sock_id2game_logic[v] = INVALID
  BY <1>0, <1>1, <1>2, <1>3, <1>4, NextReport
<1>6. (id \in NL!Services \/ id = 255) /\ id # -1 /\ 255 \notin NL!Services
  <2>1. NLP!NumServicesAssumption
    BY RouterAssumptions
  <2>2. id \in NL!Services \/ id = 255
    BY <1>0, RouterAssumptions, NLP!DistributeResult, SameMessages
  <2>3. NL!Services \subseteq Nat
    BY SizesAssumption DEF NL!Services
  <2>4. 255 \notin NL!Services
    BY SizesAssumption DEF NL!Services
  <2> QED BY <2>2, <2>3, <2>4
<1>7. NLP!AssignService(m, id)
  <2>1. ~NLP!Routed(v)
    BY <1>5, SameMessages DEF NLP!Routed
  <2> QED BY <1>0, <1>6, <2>1 DEF NLP!NewClient
<1>8. /\ sock_id2game_logic' = [sock_id2game_logic EXCEPT ![v] = NLP!Char(id)]
      /\ game_service_id' = id /\ UNCHANGED netlogic2io_que
      /\ stray_write => stray_write'
  BY <1>0, <1>7 DEF NLP!AssignService
<1>9. sock_id2game_logic \in [Uids \cup {0} -> NL!Services \cup {INVALID}]
  BY SameMessages DEF NLP!IInv, NLP!TypeOK
<1>10. CASE id = 255
  <2>1. UNCHANGED que_2_gamelogic /\ NLP!Char(id) = INVALID /\ stray_write'
    BY <1>6, <1>7, <1>10, RouterAssumptions, NLP!ServiceIds, SameMessages DEF NLP!AssignService
  <2>2. UNCHANGED sock_id2game_logic
    BY <1>4, <1>5, <1>8, <1>9, <2>1
  <2>3. UNCHANGED stage
    BY <2>1 DEF NetLogic
  <2>4. Dropped(v, Turn(m))
    BY <1>5, <2>1, <2>2, <2>3 DEF Dropped
  <2>5. LET u == m.uid IN u \in Uids => Dropped(u, Turn(m)) \/ Passed(u, Turn(m))
    BY <1>0, <2>4
  <2> QED BY <1>1, <1>8, <2>1, <2>2, <2>3, <2>5, QuietPop
<1>11. CASE id \in NL!Services
  <2>1. NLP!Char(id) = id
    BY <1>11, RouterAssumptions, NLP!ServiceIds, SameMessages
  <2>2. Handed(id, m)
    BY <1>7, <1>11, SameMessages DEF NLP!AssignService, Handed
  <2>3. que_2_gamelogic' # que_2_gamelogic
    BY <1>1, <1>11, <2>2, SharedTypes, QueueChanges
  <2>4. stage' = [stage EXCEPT ![v] = [at |-> id, sent |-> "S"]]
    <3>1. stage' = Noted(m)
      BY <2>3 DEF NetLogic
    <3> QED BY <1>0, <1>2, <1>8, <3>1, NotedIs
  <2>5. /\ sock_id2game_logic'[v] = id
        /\ \A u \in (Uids \cup {0}) \ {v} : sock_id2game_logic'[u] = sock_id2game_logic[u]
    BY <1>4, <1>8, <1>9, <2>1
  <2>6. GLP!Connect(v, id)
    <3>1. GLP!New(v) = m
      BY <1>3, SameMessages
    <3>2. UNCHANGED <<que_2_net_logic, GLP!tables, Fault, GLP!history>>
      BY <1>1, FaultIs DEF OthersStay, gameVars, GLP!tables, GLP!history
    <3>3. GLP!Push(id, m)
      BY <2>2, <3>2 DEF GLP!Push, Handed
    <3> QED BY <1>5, <2>4, <3>1, <3>3 DEF GLP!Connect
  <2>7. GLP!Next
    BY <1>4, <1>11, <2>6, SameMessages DEF GLP!Next, GLP!Environment
  <2>8. /\ stage'[v] = [at |-> id, sent |-> "S"]
        /\ \A u \in Uids \ {v} : stage'[u] = stage[u]
    BY <1>1, <1>4, <2>4, NotedThere
  <2>9. Passed(v, Turn(m))
    BY <1>3, <1>11, <2>5, <2>8 DEF Passed
  <2> QED BY <1>0, <1>1, <1>4, <1>8, <1>11, <2>2, <2>5, <2>7, <2>8, <2>9, HandedOn
<1> QED BY <1>6, <1>10, <1>11

\* A request, for the service of the client that sent it.
LEMMA ForwardDataRest ==
    ASSUME Rest, NLP!IInv, NetLogic, NLP!ForwardData
    PROVE  Rest' /\ GameSees
<1> DEFINE m == Head(io2netlogic_que)
<1>0. PICK v, r : v = m.uid /\ r = m.req
  OBVIOUS
<1>1. /\ SSP!IInv /\ GLP!IInv /\ Glue /\ OthersStay /\ NLP!PopNetIo("D")
      /\ UNCHANGED <<netlogic2io_que, que_2_net_logic, sock_id2game_logic, stray_write>>
      /\ IF r = "BAD_LOG_REQ"
         THEN fault' = "null_login" /\ UNCHANGED que_2_gamelogic
         ELSE NLP!SendToGameLogic(m) /\ UNCHANGED fault
  BY <1>0, RestIs DEF NetLogic, OthersStay, NLP!ForwardData
<1>2. /\ m \in UserMsgs(Uids \cup {0}) /\ m.type = "D" /\ v \in Uids \cup {0}
      /\ io2netlogic_que # <<>> /\ io2netlogic_que \in Seq(UserMsgs(Uids \cup {0}))
  BY <1>0, <1>1, PopIs
<1>3. m = Data(v, r) /\ r \in Requests
  BY <1>0, <1>2, TurnsAre
<1>4. v \in Uids =>
         /\ Turn(m) = 1 /\ stage[v].sent \in {"NONE", "S"}
         /\ ~NLP!Routed(v) => stage[v].sent = "NONE"
         /\ NLP!Routed(v) => /\ stage[v].sent = "S" /\ sock_id2game_logic[v] = stage[v].at
                             /\ stage[v].at \in NL!Services /\ stage[v].at # INVALID
  BY <1>0, <1>1, RoutedNext
<1>5. ~NLP!Routed(0)
  BY <1>1, SameMessages DEF Glue, NLP!Routed
<1>6. CASE r = "BAD_LOG_REQ" \/ ~NLP!Routed(v)
  <2>1. UNCHANGED que_2_gamelogic /\ fault' \in {fault, "null_login"}
    BY <1>0, <1>1, <1>6 DEF NLP!SendToGameLogic
  <2>2. UNCHANGED stage
    BY <2>1 DEF NetLogic
  <2>3. v \in Uids => Dropped(v, Turn(m)) \/ Passed(v, Turn(m))
    BY <1>1, <1>4, <2>2 DEF Dropped, Passed
  <2>4. LET u == m.uid IN u \in Uids => Dropped(u, Turn(m)) \/ Passed(u, Turn(m))
    BY <1>0, <2>3
  <2> QED BY <1>1, <2>1, <2>2, <2>4, QuietPop
<1>7. CASE r # "BAD_LOG_REQ" /\ NLP!Routed(v)
  <2>0. v \in Uids
    BY <1>2, <1>5, <1>7
  <2>1. PICK g \in NL!Services :
           g = sock_id2game_logic[v] /\ g = stage[v].at /\ g # INVALID /\ stage[v].sent = "S"
    BY <1>4, <1>7, <2>0
  <2>2. game_service_id' = g /\ Handed(g, m)
    BY <1>0, <1>1, <1>7, <2>1 DEF NLP!SendToGameLogic, Handed
  <2>3. UNCHANGED stage
    <3>1. stage' = Noted(m)
      BY <1>1, <2>1, <2>2, SharedTypes, QueueChanges DEF NetLogic
    <3> QED BY <1>0, <1>2, <2>2, <3>1, NotedIs
  <2>4. GLP!Request(v, r)
    <3>1. GLP!Data(v, r) = m
      BY <1>3, SameMessages
    <3>2. UNCHANGED <<que_2_net_logic, GLP!tables, Fault, GLP!history>>
      BY <1>1, <1>7, FaultIs DEF OthersStay, gameVars, GLP!tables, GLP!history
    <3>3. GLP!Push(stage[v].at, m)
      BY <2>1, <2>2, <3>2 DEF GLP!Push, Handed
    <3>4. GLP!Connected(v)
      BY <2>1, SameMessages DEF GLP!Connected
    <3> QED BY <2>3, <3>1, <3>3, <3>4 DEF GLP!Request
  <2>5. GLP!Next
    BY <1>3, <1>7, <2>0, <2>4, SameMessages DEF GLP!Next, GLP!Environment
  <2>6. Passed(v, Turn(m))
    BY <1>1, <1>4, <2>0, <2>1, <2>3 DEF Passed
  <2> QED BY <1>0, <1>1, <1>7, <2>0, <2>2, <2>3, <2>5, <2>6, HandedOn
<1> QED BY <1>6, <1>7

\* A close, for the service of the client that is gone.
LEMMA ForwardCloseRest ==
    ASSUME Rest, NLP!IInv, NetLogic, NLP!ForwardClose
    PROVE  Rest' /\ GameSees
<1> DEFINE m == Head(io2netlogic_que)
<1>0. PICK v : v = m.uid
  OBVIOUS
<1>1. /\ SSP!IInv /\ GLP!IInv /\ Glue /\ OthersStay
      /\ NLP!PopNetIo("C") /\ NLP!SendToGameLogic(m)
      /\ UNCHANGED <<netlogic2io_que, que_2_net_logic, stray_write, fault>>
  BY RestIs DEF NetLogic, OthersStay, NLP!ForwardClose
<1>2. /\ m \in UserMsgs(Uids \cup {0}) /\ m.type = "C" /\ v \in Uids \cup {0}
      /\ io2netlogic_que # <<>> /\ io2netlogic_que \in Seq(UserMsgs(Uids \cup {0}))
  BY <1>0, <1>1, PopIs
<1>3. m = Closed(v)
  BY <1>0, <1>2, TurnsAre
<1>4. v \in Uids =>
         /\ Turn(m) = 2
         /\ ~NLP!Routed(v) => stage[v].sent = "NONE"
         /\ NLP!Routed(v) => /\ stage[v].sent = "S" /\ sock_id2game_logic[v] = stage[v].at
                             /\ stage[v].at \in NL!Services /\ stage[v].at # INVALID
  BY <1>0, <1>1, RoutedNext
<1>5. ~NLP!Routed(0)
  BY <1>1, SameMessages DEF Glue, NLP!Routed
<1>6. CASE ~NLP!Routed(v)
  <2>1. UNCHANGED <<que_2_gamelogic, sock_id2game_logic>>
    BY <1>0, <1>1, <1>6 DEF NLP!SendToGameLogic, NLP!ForwardClose
  <2>2. UNCHANGED stage
    BY <2>1 DEF NetLogic
  <2>3. v \in Uids => Dropped(v, Turn(m))
    BY <1>4, <1>6, <2>1, <2>2 DEF Dropped
  <2>4. LET u == m.uid IN u \in Uids => Dropped(u, Turn(m)) \/ Passed(u, Turn(m))
    BY <1>0, <2>3
  <2> QED BY <1>1, <2>1, <2>2, <2>4, QuietPop
<1>7. CASE NLP!Routed(v)
  <2>0. v \in Uids
    BY <1>2, <1>5, <1>7
  <2>1. PICK g \in NL!Services :
           g = sock_id2game_logic[v] /\ g = stage[v].at /\ g # INVALID /\ stage[v].sent = "S"
    BY <1>4, <1>7, <2>0
  <2>2. /\ game_service_id' = g /\ Handed(g, m)
        /\ sock_id2game_logic' = [sock_id2game_logic EXCEPT ![v] = NLP!INVALID]
    BY <1>0, <1>1, <1>7, <2>1 DEF NLP!SendToGameLogic, NLP!ForwardClose, Handed
  <2>3. stage' = [stage EXCEPT ![v] = [at |-> g, sent |-> "C"]]
    <3>1. stage' = Noted(m)
      BY <1>1, <2>1, <2>2, SharedTypes, QueueChanges DEF NetLogic
    <3> QED BY <1>0, <1>2, <2>2, <3>1, NotedIs
  <2>4. GLP!Disconnect(v)
    <3>1. GLP!Closed(v) = m
      BY <1>3, SameMessages
    <3>2. UNCHANGED <<que_2_net_logic, GLP!tables, Fault, GLP!history>>
      BY <1>1, FaultIs DEF OthersStay, gameVars, GLP!tables, GLP!history
    <3>3. GLP!Push(stage[v].at, m)
      BY <2>1, <2>2, <3>2 DEF GLP!Push, Handed
    <3>4. GLP!Connected(v)
      BY <2>1, SameMessages DEF GLP!Connected
    <3>5. stage' = [stage EXCEPT ![v].sent = "C"]
      <4>1. stage \in [Uids -> [at : NL!Services \cup {INVALID},
                                sent : Requests \cup {"NONE", "S", "C"}]]
        BY <1>1, SharedTypes
      <4>2. [stage[v] EXCEPT !.sent = "C"] = [at |-> g, sent |-> "C"]
        BY <2>0, <2>1, <4>1
      <4> QED BY <2>3, <4>2
    <3> QED BY <3>1, <3>3, <3>4, <3>5 DEF GLP!Disconnect
  <2>5. GLP!Next
    BY <2>0, <2>4, SameMessages DEF GLP!Next, GLP!Environment
  <2>6. /\ sock_id2game_logic'[v] = INVALID
        /\ \A u \in (Uids \cup {0}) \ {v} : sock_id2game_logic'[u] = sock_id2game_logic[u]
    <3>1. sock_id2game_logic \in [Uids \cup {0} -> NL!Services \cup {INVALID}]
      BY SameMessages DEF NLP!IInv, NLP!TypeOK
    <3> QED BY <2>0, <2>2, <3>1, SameMessages
  <2>7. /\ stage'[v] = [at |-> g, sent |-> "C"]
        /\ \A u \in Uids \ {v} : stage'[u] = stage[u]
    BY <1>1, <2>0, <2>3, NotedThere
  <2>8. Passed(v, Turn(m))
    BY <1>4, <2>0, <2>1, <2>6, <2>7 DEF Passed
  <2> QED BY <1>0, <1>1, <2>0, <2>2, <2>5, <2>6, <2>7, <2>8, HandedOn
<1> QED BY <1>6, <1>7

\* A game thread's broadcast goes on to net_io.
LEMMA ForwardBroadcastRest ==
    ASSUME Rest, NetLogic, NLP!ForwardBroadcast
    PROVE  Rest' /\ GameSees
<1> DEFINE q == que_2_net_logic
           m == Head(q)
<1>1. /\ SSP!IInv /\ GameThreads /\ GLP!IInv /\ Glue /\ Resets
      /\ NoRefusals /\ RecipientsKnown /\ OthersStay
  BY RestIs DEF NetLogic, OthersStay
<1>2. /\ q # <<>> /\ q' = Tail(q)
      /\ netlogic2io_que' = Append(netlogic2io_que, ToNetIo(m))
      /\ UNCHANGED <<io2netlogic_que, que_2_gamelogic, sock_id2game_logic,
                     stray_write, fault>>
  BY SameMessages DEF NLP!ForwardBroadcast, NLP!router
<1>3. UNCHANGED stage
  BY <1>2 DEF NetLogic
<1>4. q \in Seq(GLP!Reply) /\ netlogic2io_que \in Seq(SSP!NetIoMsgs)
  BY <1>1, SharedTypes DEF SSP!IInv, SSP!Types, SSP!LoopTypes
<1>5. AllKnown(q, netlogic2io_que)
  BY <1>1, RecipientsAre
<1>6. m \in GLP!Reply /\ Recipients(m) \subseteq Known
  <2>1. m \in GLP!Reply /\ 1 \in DOMAIN q /\ m = q[1]
    BY <1>2, <1>4, TailIs
  <2> QED BY <1>5, <2>1 DEF AllKnown
<1>7. ToNetIo(m) \in SSP!NetIoMsgs /\ ToNetIo(m).event = "NULL" /\ ToNetIo(m).msg = m
  <2>1. /\ m = [proto |-> m.proto, to |-> m.to, about |-> m.about]
        /\ m.proto \in Responses /\ m.to \in Seq(Uids \cup {0}) /\ m.about \in Uids \cup {0}
    BY <1>6, SameMessages DEF GLP!Reply, GLP!Unset
  <2>2. Uids \cup {0} \subseteq SSP!Slots
    BY UidsAre, LimitsAssumption DEF SSP!Slots
  <2>3. m = Broadcast(m.proto, m.to, m.about)
    BY <2>1 DEF Broadcast
  <2>4. ToNetIo(m) \in SSP!NetIoMsgs
    <3>1. \A r \in SSP!Responses, to \in Seq(SSP!Uids \cup {0}), u \in SSP!Slots :
             SSP!ToNetIo(SSP!Broadcast(r, to, u)) \in SSP!NetIoMsgs
      BY DEF SSP!NetIoMsgs
    <3>2. SSP!ToNetIo(SSP!Broadcast(m.proto, m.to, m.about)) = ToNetIo(m)
      BY <2>3, SameMessages, Zenon
    <3>3. /\ m.proto \in SSP!Responses /\ m.to \in Seq(SSP!Uids \cup {0})
          /\ m.about \in SSP!Slots
      BY <2>1, <2>2, SameMessages
    <3> QED BY <3>1, <3>2, <3>3, Zenon
  <2> QED BY <2>4 DEF ToNetIo
<1> HIDE DEF m, q
<1>8. SSP!IInv'
  <2> DEFINE msgs == <<ToNetIo(m)>>
  <2>1. msgs \in Seq(SSP!NetIoMsgs) /\ netlogic2io_que' = netlogic2io_que \o msgs
    BY <1>2, <1>4, <1>7
  <2>2. SSP!NetLogicStep(FALSE, msgs)
    BY <1>1, <1>2, <2>1
       DEF SSP!NetLogicStep, SSP!server, SSP!network, SSP!history, OthersStay, netioVars, kernelVars
  <2> HIDE DEF msgs
  <2> QED BY <1>1, <2>1, <2>2, SocketAssumptions, SSP!NetLogicStepKeeps
<1>9. GameThreads' /\ GameSees
  <2>1. Len(q) \in Nat \ {0} /\ Tail(q) = SubSeq(q, 1 + 1, Len(q))
    BY <1>2, <1>4
  <2>2. GLP!NetLogicDrain
    BY <1>1, <1>2, <1>3, <2>1, FaultIs
       DEF GLP!NetLogicDrain, OthersStay, gameVars, GLP!tables, GLP!history, q
  <2> QED BY <1>1, <2>2, GameKeeps DEF GLP!Next, GLP!Environment, GameSees
<1>10. Glue' /\ Resets'
  BY <1>1, <1>2, <1>3, GlueFrame, ResetsStay DEF OthersStay, netioVars
<1>11. /\ \A i \in DOMAIN netlogic2io_que' : i \in DOMAIN netlogic2io_que \/ netlogic2io_que'[i] = ToNetIo(m)
       /\ \A i \in DOMAIN netlogic2io_que : netlogic2io_que'[i] = netlogic2io_que[i]
  BY <1>2, <1>4, <1>7, AppendIs
<1>12. NoRefusals'
  BY <1>1, <1>7, <1>11 DEF NoRefusals
<1>13. RecipientsKnown'
  <2>1. Known' = Known
    BY <1>1 DEF Known, OthersStay, netioVars
  <2>2. \A i \in DOMAIN q' : \E j \in DOMAIN q : q'[i] = q[j]
    BY <1>2, <1>4, TailIs
  <2>3. \A i \in DOMAIN q' : Recipients(q'[i]) \subseteq Known
    BY <1>5, <2>2 DEF AllKnown
  <2>4. \A i \in DOMAIN netlogic2io_que' :
           netlogic2io_que'[i].event = "NULL" => Recipients(netlogic2io_que'[i].msg) \subseteq Known
    BY <1>5, <1>6, <1>7, <1>11 DEF AllKnown
  <2>5. AllKnown(que_2_net_logic, netlogic2io_que)'
    BY <2>1, <2>3, <2>4 DEF AllKnown, Recipients, q
  <2> QED BY <2>5, RecipientsThen
<1> QED BY <1>8, <1>9, <1>10, <1>12, <1>13 DEF Rest

\* net_logic wakes for a queue, or finds it empty.
LEMMA WakeRest ==
    ASSUME Rest, OthersStay,
           UNCHANGED <<io2netlogic_que, netlogic2io_que, que_2_gamelogic,
                       que_2_net_logic, sock_id2game_logic, stray_write, fault, stage>>
    PROVE  Rest' /\ GameSees
<1>1. /\ SSP!IInv /\ GameThreads /\ Glue /\ Resets /\ NoRefusals /\ RecipientsKnown
  BY DEF Rest
<1>2. SSP!IInv'
  <2>1. UNCHANGED SSP!vars
    BY DEF OthersStay, netioVars, kernelVars, SSP!vars, SSP!server, SSP!network, SSP!history
  <2> QED BY <1>1, <2>1, SocketAssumptions, SSP!Step
<1>3. GameThreads' /\ GameSees
  <2>1. UNCHANGED GLP!vars
    BY FaultIs DEF OthersStay, gameVars, GLP!vars, GLP!tables, GLP!history
  <2> QED BY <1>1, <2>1, GameKeeps DEF GameSees
<1>4. Glue' /\ Resets'
  BY <1>1, GlueFrame, ResetsStay DEF OthersStay, netioVars
<1>5. NoRefusals'
  BY <1>1 DEF NoRefusals
<1>6. RecipientsKnown'
  <2>1. Known' = Known
    BY DEF Known, OthersStay, netioVars
  <2>2. AllKnown(que_2_net_logic, netlogic2io_que)
    BY <1>1, RecipientsAre
  <2>3. AllKnown(que_2_net_logic, netlogic2io_que)'
    BY <2>1, <2>2 DEF AllKnown, Recipients
  <2> QED BY <2>3, RecipientsThen
<1> QED BY <1>2, <1>3, <1>4, <1>5, <1>6 DEF Rest

LEMMA NetLogicKeeps ==
    ASSUME IInv, NetLogic
    PROVE  IInv' /\ GameSees
<1>1. Rest /\ NLP!IInv
  BY DEF IInv, ThreadsInv, Rest
<1>2. NLP!NetLogicStep
  BY SameRouter DEF NetLogic
<1>3. NLP!IInv'
  BY <1>1, <1>2, RouterKeeps
<1>4. ASSUME NLP!NewClient PROVE Rest' /\ GameSees
  BY <1>1, <1>4, NewClientRest
<1>5. ASSUME NLP!ForwardData PROVE Rest' /\ GameSees
  BY <1>1, <1>5, ForwardDataRest
<1>6. ASSUME NLP!ForwardClose PROVE Rest' /\ GameSees
  BY <1>1, <1>6, ForwardCloseRest
<1>7. ASSUME NLP!ForwardBroadcast PROVE Rest' /\ GameSees
  BY <1>1, <1>7, ForwardBroadcastRest
<1>8. ASSUME (\E q \in {"io", "game"} : NLP!NetLogicWake(q)) \/ NLP!QueueNull
      PROVE  Rest' /\ GameSees
  <2>1. /\ UNCHANGED <<io2netlogic_que, netlogic2io_que, que_2_gamelogic,
                       que_2_net_logic, sock_id2game_logic, stray_write, fault>>
        /\ OthersStay
    BY <1>8 DEF NetLogic, OthersStay, NLP!NetLogicWake, NLP!QueueNull, NLP!queues, NLP!router
  <2>2. UNCHANGED stage
    BY <2>1 DEF NetLogic
  <2> QED BY <1>1, <2>1, <2>2, WakeRest
<1>9. Rest' /\ GameSees
  BY <1>2, <1>4, <1>5, <1>6, <1>7, <1>8 DEF NLP!NetLogicStep
<1> QED BY <1>3, <1>9 DEF Rest, IInv, ThreadsInv

-----------------------------------------------------------------------------
(* A game thread handles a message.                                        *)

\* Whoever a game thread names has been announced to it, and so is known.
LEMMA MetAreKnown == Glue => GLP!Met \subseteq Known
BY DEF Glue, UidOrderly, GLP!Met, Known

LEMMA GameLogicKeeps ==
    ASSUME IInv, NEW g \in NL!Services, GameLogic(g)
    PROVE  IInv'
<1>1. /\ SSP!IInv /\ NLP!IInv /\ GameThreads /\ GLP!IInv /\ GLP!KnownInv
      /\ Glue /\ Resets /\ NoRefusals /\ RecipientsKnown
  BY DEF IInv, ThreadsInv, GameThreads, GLP!GameInv
<1>2. /\ GLP!GameLogicStep(g) /\ fault' \in {fault} \cup GameFaults
      /\ UNCHANGED <<io2netlogic_que, netlogic2io_que, netioVars, kernelVars,
                     netlogicVars, was_reset>>
  BY SameGame DEF GameLogic
<1>3. GameThreads' /\ GLP!IInv' /\ GLP!KnownInv'
  <2>1. GameThreads'
    BY <1>1, <1>2, GameKeeps, SameMessages DEF GLP!Next
  <2> QED BY <2>1 DEF GameThreads, GLP!GameInv
<1>4. UNCHANGED stage /\ GLP!AllNew(GLP!Told(GLP!Met))
  BY <1>1, <1>2, <1>3, GameAssumptions, SameMessages, GLP!NamesMet
<1>5. fault' \in Faults
  <2>1. fault \in Faults
    BY <1>1, SameMessages DEF SSP!IInv, SSP!Types, SSP!LoopTypes
  <2> QED BY <1>2, <2>1 DEF Faults
<1>6. SSP!IInv'
  BY <1>1, <1>2, <1>5, FaultFrame
<1>7. NLP!IInv'
  BY <1>1, <1>2, <1>3, <1>5, <1>6, SharedTypesThen, RouterFrame DEF netlogicVars
<1>8. Glue'
  BY <1>1, <1>2, <1>4, GlueFrame DEF netioVars, netlogicVars
<1>9. Resets'
  <2>1. uid_of \in [Clients -> Uids \cup {0}]
    BY <1>1, SameMessages DEF SSP!IInv, SSP!Types, SSP!LoopTypes
  <2> QED BY <1>1, <1>2, <2>1, ResetsFrame DEF netioVars, kernelVars, SSP!Added
<1>10. NoRefusals'
  BY <1>1, <1>2 DEF NoRefusals
<1>11. RecipientsKnown'
  <2> DEFINE q == que_2_net_logic
             p == que_2_net_logic'
  <2>1. q \in Seq(GLP!Reply) /\ p \in Seq(GLP!Reply)
    BY <1>1, <1>3, <1>6, SharedTypes, SharedTypesThen
  <2>2. Known' = Known
    BY <1>2 DEF Known, netioVars
  <2>3. AllKnown(q, netlogic2io_que)
    BY <1>1, RecipientsAre
  <2>4. \A i \in DOMAIN q : i \in DOMAIN p /\ p[i] = q[i]
    <3>1. GLP!TypeOK
      BY <1>1 DEF GLP!IInv
    <3> QED BY <1>2, <3>1, GameAssumptions, SameMessages, GLP!OldAreKept
  <2>5. \A i \in Len(q) + 1 .. Len(p) : Recipients(p[i]) \subseteq Known
    <3>1. ASSUME NEW e \in GLP!Told(GLP!Met) PROVE Recipients(e) \subseteq Known
      BY <1>1, <3>1, MetAreKnown DEF GLP!Told, Recipients, GL!Unset, GLP!Unset
    <3> QED BY <1>4, <3>1 DEF GLP!AllNew
  <2> HIDE DEF q, p
  <2>6. \A i \in DOMAIN p : Recipients(p[i]) \subseteq Known
    <3>1. \A i \in DOMAIN p : i \in DOMAIN q \/ i \in Len(q) + 1 .. Len(p)
      BY <2>1
    <3>2. \A i \in DOMAIN q : Recipients(q[i]) \subseteq Known
      BY <2>3 DEF AllKnown
    <3> QED BY <2>4, <2>5, <3>1, <3>2
  <2>7. AllKnown(que_2_net_logic, netlogic2io_que)'
    <3>1. \A i \in DOMAIN netlogic2io_que' :
             netlogic2io_que'[i].event = "NULL" =>
                Recipients(netlogic2io_que'[i].msg) \subseteq Known
      BY <1>2, <2>3 DEF AllKnown
    <3> QED BY <2>2, <2>6, <3>1 DEF AllKnown, Recipients, p
  <2> QED BY <2>7, RecipientsThen
<1> QED BY <1>3, <1>6, <1>7, <1>8, <1>9, <1>10, <1>11 DEF IInv, ThreadsInv

-----------------------------------------------------------------------------
(* A client connects, sends a request, or goes.                            *)

LEMMA ClientRest ==
    ASSUME IInv, SSP!IInv', Resets',
           UNCHANGED <<io2netlogic_que, netlogic2io_que, que_2_gamelogic, que_2_net_logic,
                       netioVars, netlogicVars, gameVars, fault, stage>>
    PROVE  IInv'
<1>1. /\ SSP!IInv /\ NLP!IInv /\ GameThreads
      /\ Glue /\ NoRefusals /\ RecipientsKnown
  BY DEF IInv, ThreadsInv
<1>2. GameThreads'
  <2>1. UNCHANGED GLP!vars
    BY FaultIs DEF gameVars, GLP!vars, GLP!tables, GLP!history
  <2> QED BY <1>1, <2>1, GameKeeps
<1>3. NLP!IInv'
  <2>1. UNCHANGED NLP!vars
    BY DEF netlogicVars, NLP!vars, NLP!queues, NLP!router
  <2> QED BY <1>1, <2>1, RouterAssumptions, NLP!IInvStep
<1>4. Glue'
  BY <1>1, GlueFrame DEF netioVars, netlogicVars
<1>5. NoRefusals'
  BY <1>1 DEF NoRefusals
<1>6. RecipientsKnown'
  <2>1. Known' = Known
    BY DEF Known, netioVars
  <2>2. AllKnown(que_2_net_logic, netlogic2io_que)
    BY <1>1, RecipientsAre
  <2>3. AllKnown(que_2_net_logic, netlogic2io_que)'
    BY <2>1, <2>2 DEF AllKnown, Recipients
  <2> QED BY <2>3, RecipientsThen
<1> QED BY <1>2, <1>3, <1>4, <1>5, <1>6 DEF IInv, ThreadsInv

LEMMA ConnectKeeps ==
    ASSUME IInv, NEW c \in Clients, Connect(c) \/ Leave(c)
    PROVE  IInv'
<1>1. SSP!IInv /\ Resets
  BY DEF IInv, ThreadsInv
<1>2. \/ SSP!ClientConnects(c) /\ UNCHANGED was_reset
      \/ SSP!ClientCloses(c) /\ UNCHANGED was_reset
      \/ SSP!ClientResets(c) /\ was_reset' = was_reset \cup {c}
  BY SameClients DEF Connect, Leave
<1>3. SSP!IInv'
  BY <1>1, <1>2, SocketAssumptions, SSP!ClientStepKeeps DEF SSP!ClientStep
<1>4. UNCHANGED <<io2netlogic_que, netlogic2io_que, que_2_gamelogic, que_2_net_logic,
                  netioVars, netlogicVars, gameVars, fault, stage>>
  BY <1>2 DEF Connect, Leave, SSP!ClientConnects, SSP!ClientCloses, SSP!ClientResets,
              SSP!ClientUnchanged, SSP!server, SSP!history, netioVars
<1>5. Resets'
  <2>1. conn \in [Clients -> {"idle", "open", "fin", "rst", "finrst", "closed"}]
    BY <1>1 DEF SSP!IInv, SSP!Types, SSP!NetworkTypes
  <2>2. \A d \in Clients \ {c} : conn'[d] = conn[d]
    BY <1>2, <2>1 DEF SSP!ClientConnects, SSP!ClientCloses, SSP!ClientResets
  <2>3. conn'[c] \in {"open", "fin"} \/ c \in was_reset'
    BY <1>2, <2>1 DEF SSP!ClientConnects, SSP!ClientCloses
  <2>4. was_reset \subseteq was_reset'
    BY <1>2
  <2>5. UNCHANGED <<uid_of, told, socket_pool>>
    BY <1>4 DEF netioVars
  <2>6. \A d \in Clients : conn'[d] \in {"rst", "finrst"} => d \in was_reset'
    BY <1>1, <2>2, <2>3, <2>4 DEF Resets
  <2>7. \A d \in Clients : uid_of'[d] # 0 /\ told'[uid_of'[d]] = "S" =>
           SSP!Added(uid_of[d])' \/ d \in was_reset'
    BY <1>1, <2>4, <2>5 DEF Resets, SSP!Added
  <2> QED BY <2>6, <2>7 DEF Resets
<1> QED BY <1>3, <1>4, <1>5, ClientRest

LEMMA RequestKeeps ==
    ASSUME IInv, NEW c \in Clients, NEW r \in Asked, Request(c, r)
    PROVE  IInv'
<1>1. SSP!IInv /\ Resets
  BY DEF IInv, ThreadsInv
<1>2. /\ UNCHANGED <<io2netlogic_que, netlogic2io_que, que_2_gamelogic, que_2_net_logic,
                     netioVars, netlogicVars, gameVars, fault, stage>>
      /\ UNCHANGED <<conn, backlog, half, was_reset>>
  BY DEF Request
<1>3. SSP!NetworkTypes'
  <2>1. inbox \in [Clients -> Seq(Requests)] /\ r \in Requests
    BY <1>1, AskedAssumption, SameMessages DEF SSP!IInv, SSP!Types, SSP!NetworkTypes
  <2>2. Append(inbox[c], r) \in Seq(Requests)
    BY <2>1
  <2>3. inbox' \in [Clients -> Seq(Requests)]
    BY <2>1, <2>2 DEF Request
  <2>4. requests' \in 0 .. MaxRequests
    BY <1>1, SocketAssumptions DEF Request, SSP!IInv, SSP!Types, SSP!NetworkTypes
  <2> QED BY <1>1, <1>2, <2>3, <2>4, SameMessages DEF SSP!IInv, SSP!Types, SSP!NetworkTypes
<1>4. SSP!IInv'
  <2>1. SSP!Types /\ SSP!Current
    BY <1>1 DEF SSP!IInv
  <2>2. SSP!Types'
    BY <1>2, <1>3, <2>1
       DEF SSP!Types, SSP!ReportTypes, SSP!LoopTypes, SSP!Batch, netioVars
  <2>3. SSP!Current'
    BY <1>2, <2>1, SocketAssumptions, SSP!Untouched DEF netioVars
  <2> QED BY <2>2, <2>3 DEF SSP!IInv
<1>5. Resets'
  <2>1. uid_of \in [Clients -> Uids \cup {0}]
    BY <1>1, SameMessages DEF SSP!IInv, SSP!Types, SSP!LoopTypes
  <2> QED BY <1>1, <1>2, <2>1, ResetsFrame DEF netioVars, SSP!Added
<1> QED BY <1>2, <1>4, <1>5, ClientRest

-----------------------------------------------------------------------------
(* The process starts with everything empty.                               *)

\* To a game thread it is the start of its own module.
LEMMA GameInit == Init => GLP!Init
<1> SUFFICES ASSUME Init PROVE GLP!Init
  OBVIOUS
<1>1. GL!TablesInit
  BY DEF Init
<1>2. GLP!TablesInit
  BY <1>1, FaultIs, Zenon DEF GL!TablesInit, GLP!TablesInit, GL!Services, GLP!Services,
       GL!Maps, GLP!Maps, GL!Places, GLP!Places, GL!INVALID, GLP!INVALID,
       GL!Unset, GLP!Unset
<1> QED BY <1>2, SameMessages DEF Init, GLP!Init

LEMMA InitKeeps == Init => IInv
<1> SUFFICES ASSUME Init PROVE IInv
  OBVIOUS
<1>1. SSP!IInv
  <2>1. SSP!ServerInit
    BY Zenon DEF Init, SS!ServerInit, SSP!ServerInit, SS!Socket, SSP!Socket,
         SS!Slots, SSP!Slots, SS!NoConn, SSP!NoConn, SS!LISTEN_ID, SSP!LISTEN_ID,
         SS!NETLOGIC_ID, SSP!NETLOGIC_ID, SS!Uids, SSP!Uids
  <2>2. SSP!Init
    BY <2>1 DEF Init, SSP!Init
  <2> QED BY <2>2, SocketAssumptions, SSP!InitialState
<1>2. NLP!IInv
  <2>1. NLP!RouterInit
    BY Zenon DEF Init, NL!RouterInit, NLP!RouterInit, NL!Services, NLP!Services,
         NL!INVALID, NLP!INVALID
  <2>2. fault = "none"
    BY DEF Init, SS!ServerInit
  <2>3. NLP!Init
    BY <2>1, <2>2, SameMessages DEF Init, NLP!Init
  <2> QED BY <2>3, RouterAssumptions, NLP!IInvInit
<1>3. GLP!Init
  BY GameInit
<1>4. GameThreads
  BY <1>3, GameAssumptions, GLP!IInvInit, GLP!ArrivalInit, GLP!CountInit, GLP!KnownInit,
     GLP!CloseWaitsInit DEF GameThreads, GLP!GameInv
<1>5. /\ io2netlogic_que = <<>> /\ netlogic2io_que = <<>> /\ que_2_net_logic = <<>>
      /\ stage = [u \in Uids |-> [at |-> INVALID, sent |-> "NONE"]]
      /\ conn = [c \in Clients |-> "idle"] /\ uid_of = [c \in Clients |-> 0]
  BY DEF Init, SS!ServerInit
<1>6. \A u, n : ~Says(io2netlogic_que, u, n)
  BY <1>5 DEF Says
<1>7. ASSUME NEW u \in Uids PROVE UidOrderly(u)
  <2>1. stage[u].sent = "NONE" /\ sock_id2game_logic[u] = INVALID
    BY <1>5, SameMessages DEF Init, NL!RouterInit, NL!INVALID, INVALID
  <2>2. told[u] = "nothing"
    BY UidsAre DEF Init, SS!ServerInit
  <2> QED BY <1>6, <2>1, <2>2 DEF UidOrderly
<1>8. Glue
  <2>1. TurnsKept(io2netlogic_que)
    BY <1>5 DEF TurnsKept
  <2>2. sock_id2game_logic[0] = INVALID
    BY DEF Init, NL!RouterInit, NL!INVALID, INVALID
  <2> QED BY <1>6, <1>7, <2>1, <2>2 DEF Glue
<1>9. Resets
  BY <1>5 DEF Resets
<1>10. NoRefusals /\ RecipientsKnown
  BY <1>5 DEF NoRefusals, RecipientsKnown
<1> QED BY <1>1, <1>2, <1>4, <1>8, <1>9, <1>10 DEF IInv, ThreadsInv

LEMMA IInvStep == IInv /\ [Next]_vars => IInv'
<1> SUFFICES ASSUME IInv, [Next]_vars PROVE IInv'
  OBVIOUS
<1>1. CASE NetIo
  BY <1>1, NetIoKeeps
<1>2. CASE NetLogic
  BY <1>2, NetLogicKeeps
<1>3. ASSUME NEW g \in NL!Services, GameLogic(g) PROVE IInv'
  BY <1>3, GameLogicKeeps
<1>4. ASSUME NEW c \in Clients, ClientStep(c) PROVE IInv'
  BY <1>4, ConnectKeeps, RequestKeeps DEF ClientStep
<1>5. CASE UNCHANGED vars
  <2>1. /\ UNCHANGED <<io2netlogic_que, netlogic2io_que, que_2_gamelogic, que_2_net_logic,
                       netioVars, netlogicVars, gameVars, fault, stage>>
        /\ UNCHANGED <<kernelVars, was_reset>>
    BY <1>5 DEF vars
  <2>2. SSP!IInv /\ Resets
    BY DEF IInv, ThreadsInv
  <2>3. SSP!IInv'
    <3>1. UNCHANGED SSP!vars
      BY <2>1 DEF netioVars, kernelVars, SSP!vars, SSP!server, SSP!network, SSP!history
    <3> QED BY <2>2, <3>1, SocketAssumptions, SSP!Step
  <2>4. Resets'
    <3>1. uid_of \in [Clients -> Uids \cup {0}]
      BY <2>2, SameMessages DEF SSP!IInv, SSP!Types, SSP!LoopTypes
    <3> QED BY <2>1, <2>2, <3>1, ResetsFrame DEF netioVars, kernelVars, SSP!Added
  <2> QED BY <2>1, <2>3, <2>4, ClientRest
<1> QED BY <1>1, <1>2, <1>3, <1>4, <1>5 DEF Next

LEMMA Invariant == Spec => []IInv
BY InitKeeps, IInvStep, PTL DEF Spec

-----------------------------------------------------------------------------
(* What the process looks like to a game thread.                           *)

LEMMA GameStep == IInv /\ [Next]_vars => GameSees
<1> SUFFICES ASSUME IInv, [Next]_vars PROVE GameSees
  OBVIOUS
<1>1. CASE NetLogic
  BY <1>1, NetLogicKeeps
<1>2. ASSUME NEW g \in NL!Services, GameLogic(g) PROVE GameSees
  BY <1>2, SameGame, SameMessages DEF GameLogic, GLP!Next, GameSees
<1>3. ASSUME UNCHANGED <<que_2_gamelogic, que_2_net_logic, gameVars, stage>>, Fault' = Fault
      PROVE  GameSees
  BY <1>3 DEF gameVars, GLP!vars, GLP!tables, GLP!history, GameSees
<1>4. CASE NetIo
  <2>1. Fault' = Fault
    BY <1>4, SameNetIo, NetIoUnseen DEF NetIo, IInv, ThreadsInv
  <2> QED BY <1>3, <1>4, <2>1 DEF NetIo
<1>5. ASSUME NEW c \in Clients, ClientStep(c) PROVE GameSees
  <2>1. UNCHANGED <<que_2_gamelogic, que_2_net_logic, gameVars, stage>>
    BY <1>5 DEF ClientStep, Connect, Request, Leave
  <2>2. UNCHANGED fault
    BY <1>5, SameClients DEF ClientStep, Connect, Request, Leave, SSP!ClientConnects,
       SSP!ClientCloses, SSP!ClientResets, SSP!ClientUnchanged
  <2> QED BY <1>3, <2>1, <2>2, FaultIs
<1>6. CASE UNCHANGED vars
  BY <1>3, <1>6, FaultIs DEF vars
<1> QED BY <1>1, <1>2, <1>4, <1>5, <1>6 DEF Next

(***************************************************************************)
(* To the game threads the rest of the process is the environment          *)
(* GameLogic assumes, whatever the clients send and however they end:      *)
(* net_logic hands each of them one 'S' per client, then its requests and  *)
(* one 'C', all to one service, and takes what they send                   *)
(* (net_logic.c:427-467, socket_server.c:336-367).  So what is proved of   *)
(* GameLogic for any clients holds in the process.                         *)
(***************************************************************************)
THEOREM GameLogicServed == Spec => GLP!Spec
<1>1. Init => GLP!Init
  BY GameInit
<1>2. IInv /\ [Next]_vars => [GLP!Next]_(GLP!vars)
  BY GameStep DEF GameSees
<1> QED BY <1>1, <1>2, Invariant, PTL DEF Spec, GLP!Spec

(***************************************************************************)
(* So in the process the seat tables of the game threads agree, the count  *)
(* of a service is the number of clients it has seated, and the count of a *)
(* map that of its started players but for the repeated starts and the     *)
(* closes from the lobby, however many of them there are                   *)
(* (game_logic.c:313-388, 339, 363-364, 615).                              *)
(***************************************************************************)
THEOREM GameThreadsCorrect ==
    Spec => /\ [](GLP!SeatTablesAgree /\ GLP!CountAccounted)
            /\ []GLP!PlayersCounted
<1>1. IInv => GLP!SeatTablesAgree /\ GLP!CountAccounted
  BY DEF IInv, ThreadsInv, GameThreads, GLP!GameInv, GLP!IInv, GLP!CountInv
<1>2. GLP!Spec => []GLP!PlayersCounted
  BY GameAssumptions, GLP!PlayersCorrect
<1> QED BY <1>1, <1>2, GameLogicServed, Invariant, PTL

(***************************************************************************)
(* In the process, too, net_io reports of each connection 'S', then 'D's,  *)
(* then 'C', none of its events is stale, and the router sends no service  *)
(* more clients than it has places for (socket_server.c:336-367,           *)
(* net_logic.c:140-193); and it never tells net_io to refuse a client, as  *)
(* the 255 it gets for -1 is not -1 (net_logic.c:140-174, 459).            *)
(***************************************************************************)
THEOREM ThreadsCorrect ==
    Spec => [](/\ SSP!SessionProtocol /\ SSP!EventsCurrent /\ SSP!IdNamesOneConnection
               /\ NLP!OnlineMatchesRoute /\ NLP!CapRespected /\ NoRefusals)
<1>1. IInv => /\ SSP!SessionProtocol /\ SSP!EventsCurrent /\ SSP!IdNamesOneConnection
              /\ NLP!OnlineMatchesRoute /\ NLP!CapRespected /\ NoRefusals
  BY DEF IInv, ThreadsInv, SSP!IInv, SSP!Current, NLP!IInv
<1> QED BY <1>1, Invariant, PTL

-----------------------------------------------------------------------------
(* The theorems.                                                           *)

(***************************************************************************)
(* A message on its way to net_io names only clients net_io has accepted,  *)
(* whatever the clients send: a game thread names clients that net_logic   *)
(* announced to it, and those were reported by net_io; only the answer to  *)
(* a leave request goes to nobody, when no login has stored a uid          *)
(* (game_logic.c:529-578, 627-644, socket_server.c:494-517).               *)
(***************************************************************************)
THEOREM RecipientsCorrect == Spec => []RecipientsKnown
<1>1. IInv => RecipientsKnown
  BY DEF IInv
<1> QED BY <1>1, Invariant, PTL

\* Whom a service has seated, as the game thread's own table has it.
LEMMA SeatedIs ==
    ASSUME GLP!IInv, NEW u \in Uids, NEW g \in NL!Services
    PROVE  SeatedAt(u, g) <=> GLP!Using(u) /\ stage[u].at = g
<1>1. \A m \in GLP!Maps : GL!Occupants(g, m) =
         {v \in Uids : GLP!Using(v) /\ stage[v].at = g /\ GLP!MapOf(v) = m}
  <2>1. \A m \in GLP!Maps : GLP!Occupants(g, m) =
           {v \in Uids : GLP!Using(v) /\ stage[v].at = g /\ GLP!MapOf(v) = m}
    BY GameAssumptions, SameMessages, GLP!OccupantsAre
  <2>2. \A m : GL!Occupants(g, m) = GLP!Occupants(g, m)
    BY DEF GL!Occupants, GLP!Occupants, GL!Places, GLP!Places, GL!INVALID, GLP!INVALID
  <2> QED BY <2>1, <2>2
<1>2. GL!Maps = GLP!Maps
  BY DEF GL!Maps, GLP!Maps
<1>3. GLP!MapOf(u) \in GLP!Maps
  BY DEF GLP!IInv, GLP!TypeOK, GLP!MapOf
<1> QED BY <1>1, <1>2, <1>3 DEF SeatedAt

\* A close that waits for a game service waits at the client's.
LEMMA CloseIsThere ==
    ASSUME SSP!IInv, GLP!IInv, NEW u \in Uids, GLP!Waits(u, 4)
    PROVE  /\ stage[u].at \in NL!Services
           /\ Waiting(que_2_gamelogic[stage[u].at], Closed(u))
<1>1. PICK g \in NL!Services : \E i \in DOMAIN que_2_gamelogic[g] :
              que_2_gamelogic[g][i].uid = u /\ GLP!Turn(que_2_gamelogic[g][i]) = 4
  BY SameMessages DEF GLP!Waits
<1>2. PICK i \in DOMAIN que_2_gamelogic[g] :
              que_2_gamelogic[g][i].uid = u /\ GLP!Turn(que_2_gamelogic[g][i]) = 4
  BY <1>1
<1>3. stage[u].at = g
  BY <1>2, SameMessages DEF GLP!IInv, GLP!AtItsService
<1>4. que_2_gamelogic[g][i] \in UserMsgs(Uids)
  BY SharedTypes
<1>5. que_2_gamelogic[g][i].type = "C"
  BY <1>2, <1>4, GameAssumptions, SameMessages, GLP!TurnIs
<1>6. que_2_gamelogic[g][i] = Closed(u)
  BY <1>2, <1>4, <1>5, TurnsAre
<1> QED BY <1>3, <1>6 DEF Waiting

\* A client with a place is one net_logic has announced.
LEMMA SeatedIsMet ==
    ASSUME GLP!IInv, NEW u \in Uids, NEW g \in NL!Services, SeatedAt(u, g)
    PROVE  GLP!Using(u) /\ stage[u].at = g /\ stage[u].sent # "NONE"
<1>1. GLP!Using(u) /\ stage[u].at = g
  BY SeatedIs
<1>2. u \in GLP!Met
  BY <1>1, GameAssumptions, SameMessages, GLP!ServedAreMet
<1> QED BY <1>1, <1>2 DEF GLP!Met

(***************************************************************************)
(* A client that a game service has seated is one that net_logic routes    *)
(* there, or its close waits in the service's queue (net_logic.c:447-467,  *)
(* game_logic.c:803-812).                                                  *)
(***************************************************************************)
THEOREM SeatedCorrect == Spec => []SeatedIsRouted
<1>1. ASSUME IInv PROVE SeatedIsRouted
  <2>1. SUFFICES ASSUME NEW u \in Uids, NEW g \in NL!Services, SeatedAt(u, g)
                 PROVE  \/ sock_id2game_logic[u] = g
                        \/ Waiting(que_2_gamelogic[g], Closed(u))
    BY DEF SeatedIsRouted
  <2>2. SSP!IInv /\ GLP!IInv /\ GLP!CloseWaits /\ UidOrderly(u)
    BY <1>1 DEF IInv, ThreadsInv, GameThreads, GLP!GameInv, Glue
  <2>3. GLP!Using(u) /\ stage[u].at = g /\ stage[u].sent # "NONE"
    BY <2>1, <2>2, SeatedIsMet
  <2>4. CASE stage[u].sent = "C"
    <3>1. GLP!Waits(u, 4)
      BY <2>2, <2>3, <2>4 DEF GLP!CloseWaits
    <3> QED BY <2>2, <2>3, <3>1, CloseIsThere
  <2>5. CASE stage[u].sent # "C"
    BY <2>2, <2>3, <2>5 DEF UidOrderly
  <2> QED BY <2>4, <2>5
<1> QED BY <1>1, Invariant, PTL

\* With nothing in flight, who is routed or seated has been told of, and
\* nobody has told that it is gone.
LEMMA QuietIsTold ==
    ASSUME IInv, Quiet, NEW u \in Uids,
           \/ sock_id2game_logic[u] # INVALID
           \/ \E g \in NL!Services : SeatedAt(u, g)
    PROVE  told[u] = "S"
<1>1. SSP!IInv /\ GLP!IInv /\ GLP!CloseWaits /\ UidOrderly(u)
  BY DEF IInv, ThreadsInv, GameThreads, GLP!GameInv, Glue
<1>2. stage[u].sent = "S"
  <2>1. CASE sock_id2game_logic[u] # INVALID
    BY <1>1, <2>1 DEF UidOrderly
  <2>2. ASSUME NEW g \in NL!Services, SeatedAt(u, g) PROVE stage[u].sent = "S"
    <3>1. GLP!Using(u) /\ stage[u].sent # "NONE"
      BY <1>1, <2>2, SeatedIsMet
    <3>2. ~GLP!Waits(u, 4)
      BY <1>1, CloseIsThere DEF Quiet, Waiting
    <3> QED BY <1>1, <3>1, <3>2 DEF GLP!CloseWaits, UidOrderly
  <2> QED BY <2>1, <2>2
<1>3. ~Says(io2netlogic_que, u, 2)
  BY DEF Quiet, Says
<1>4. told[u] # "nothing" /\ told[u] # "C"
  BY <1>1, <1>2, <1>3 DEF UidOrderly, Refused
<1>5. told[u] \in {"nothing", "S", "C", "out of order"} /\ told[u] # "out of order"
  BY <1>1, SameMessages
     DEF SSP!IInv, SSP!Types, SSP!ReportTypes, SSP!Current, SSP!SessionProtocol
<1> QED BY <1>4, <1>5

(***************************************************************************)
(* Once the queues are empty, every client in epoll is routed or came when *)
(* every service was full, and every client that is routed or seated is in *)
(* epoll or has reset its connection (socket_server.c:359-366, 470,        *)
(* net_logic.c:447-467, game_logic.c:803-812).                             *)
(***************************************************************************)
THEOREM NoGhostsStay == Spec => []NoGhosts
<1>1. ASSUME IInv PROVE NoGhosts
  <2>1. SUFFICES ASSUME Quiet, NEW c \in Clients, uid_of[c] # 0,
                        NEW u, u = uid_of[c]
                 PROVE  /\ SS!Added(u) => \/ sock_id2game_logic[u] # INVALID
                                          \/ stage[u].sent = "NONE" /\ stray_write
                        /\ \/ sock_id2game_logic[u] # INVALID
                           \/ \E g \in NL!Services : SeatedAt(u, g)
                           => SS!Added(u) \/ c \in was_reset
    BY DEF NoGhosts
  <2>2. /\ SSP!IInv /\ Glue /\ Resets
        /\ uid_of \in [Clients -> Uids \cup {0}] /\ u \in Uids
    <3>1. SSP!IInv /\ Glue /\ Resets
      BY <1>1 DEF IInv, ThreadsInv
    <3>2. uid_of \in [Clients -> Uids \cup {0}]
      BY <3>1, SameMessages DEF SSP!IInv, SSP!Types, SSP!LoopTypes
    <3> QED BY <2>1, <3>1, <3>2
  <2>3. ASSUME SSP!Added(u)
        PROVE  sock_id2game_logic[u] # INVALID \/ (stage[u].sent = "NONE" /\ stray_write)
    <3>1. told[u] = "S" /\ UidOrderly(u)
      BY <2>2, <2>3, OneSlot DEF Glue
    <3>2. stage[u].sent \in {"NONE", "S"}
      BY <3>1 DEF UidOrderly
    <3>3. CASE stage[u].sent = "S"
      BY <3>1, <3>3, SizesAssumption DEF UidOrderly, NL!Services, INVALID
    <3>4. CASE stage[u].sent = "NONE"
      BY <2>1, <3>1, <3>4 DEF UidOrderly, Refused, Quiet, Says
    <3> QED BY <3>2, <3>3, <3>4
  <2>4. ASSUME \/ sock_id2game_logic[u] # INVALID
               \/ \E g \in NL!Services : SeatedAt(u, g)
        PROVE  SSP!Added(u) \/ c \in was_reset
    <3>1. told[u] = "S"
      BY <1>1, <2>1, <2>2, <2>4, QuietIsTold
    <3> QED BY <2>1, <2>2, <3>1 DEF Resets
  <2> QED BY <2>3, <2>4, SameClients
<1> QED BY <1>1, Invariant, PTL

-----------------------------------------------------------------------------
(* A place for everybody.                                                  *)

LEMMA SameCardinality == \A S : GLP!Cardinality(S) = NLP!Cardinality(S)
BY Zenon DEF GLP!Cardinality, NLP!Cardinality, GLP!IsFiniteSet, NLP!IsFiniteSet

\* The router keeps to what the game threads have places for.
LEMMA CappedIs == IInv => GLP!Capped
<1> SUFFICES ASSUME IInv, NEW g \in GLP!Services
             PROVE  GLP!Cardinality(GLP!SentTo(g)) <= GLP!MaxPlayers
  BY DEF GLP!Capped
<1>1. (\A u \in Uids : UidOrderly(u)) /\ sock_id2game_logic[0] = INVALID
  BY DEF IInv, Glue
<1>2. g \in NL!Services /\ g # INVALID
  BY SameMessages, SizesAssumption DEF NL!Services, INVALID
<1>3. NLP!Cardinality(NLP!ClientsAt(g)) <= GLP!MaxPlayers
  <2>1. NLP!CapRespected
    BY DEF IInv, ThreadsInv, NLP!IInv
  <2> QED BY <1>2, <2>1, SameMessages DEF NLP!CapRespected, GLP!MaxPlayers
<1>4. NLP!ClientsAt(g) = {u \in Uids : sock_id2game_logic[u] = g}
  BY <1>1, <1>2 DEF NLP!ClientsAt
<1>5. \A u \in Uids : sock_id2game_logic[u] = g <=>
         stage[u].at = g /\ stage[u].sent \notin {"NONE", "C"}
  BY <1>1, <1>2 DEF UidOrderly
<1>6. GLP!SentTo(g) = NLP!ClientsAt(g)
  BY <1>4, <1>5 DEF GLP!SentTo
<1> QED BY <1>3, <1>6, SameCardinality

\* A game thread takes a message: to it, too, something happens.
LEMMA PopSeen ==
    ASSUME GLP!IInv, NEW g \in NL!Services, NEW t, GL!Pop(g, t)
    PROVE  GLP!Pop(g, t) /\ ~UNCHANGED GLP!vars
<1>1. GLP!Pop(g, t)
  BY FaultIs DEF GL!Pop, GLP!Pop
<1>2. /\ que_2_gamelogic \in [NL!Services -> Seq(UserMsgs(Uids))]
      /\ que_2_gamelogic[g] # <<>> /\ que_2_gamelogic'[g] = Tail(que_2_gamelogic[g])
  BY SameMessages DEF GLP!IInv, GLP!TypeOK, GL!Pop
<1>3. Tail(que_2_gamelogic[g]) # que_2_gamelogic[g]
  BY <1>2, GameAssumptions, GLP!TailIsShorter
<1> QED BY <1>1, <1>2, <1>3 DEF GLP!vars

(***************************************************************************)
(* The router and the services count on their own, and still only a full   *)
(* lobby, or a count of started players that is off, turns a client away   *)
(* that net_logic let through, for any number of services, maps and        *)
(* places, and whatever the clients send and however they end              *)
(* (net_logic.c:140-174, game_logic.c:270-299, 325-350).                   *)
(***************************************************************************)
THEOREM LobbyTurnsAway == Spec => TurnedAwayByLobby
<1> DEFINE Seen ==
      \A g \in GLP!Services :
          GLP!Pop(g, "S") /\ (\A m \in GLP!Maps : miscount[<<g, m>>] = 0)
          => uid_2_playid'[GLP!Requester(g)].state = "USING" \/ GLP!LobbyFull(g)
    Served ==
      \A g \in GL!Services :
          GL!Pop(g, "S") /\ (\A m \in GL!Maps : miscount[<<g, m>>] = 0)
          => uid_2_playid'[GL!Requester(g)].state = "USING" \/ GL!LobbyFull(g)
<1>1. GLP!Spec /\ []GLP!Capped => GLP!TurnedAwayByLobby
  BY GameAssumptions, GLP!OnlyLobbyTurnsAway
<1>2. IInv /\ [Seen]_(GLP!vars) => [Served]_(GL!vars)
  <2> SUFFICES ASSUME IInv, [Seen]_(GLP!vars), NEW g \in NL!Services,
                      GL!Pop(g, "S"), \A m \in GL!Maps : miscount[<<g, m>>] = 0
               PROVE  uid_2_playid'[GL!Requester(g)].state = "USING" \/ GL!LobbyFull(g)
    BY DEF GL!Services, NL!Services
  <2>1. GLP!Pop(g, "S") /\ ~UNCHANGED GLP!vars
    BY PopSeen DEF IInv, ThreadsInv, GameThreads, GLP!GameInv
  <2>2. g \in GLP!Services /\ \A m \in GLP!Maps : miscount[<<g, m>>] = 0
    BY SameMessages DEF GLP!Maps, GL!Maps
  <2>3. uid_2_playid'[GLP!Requester(g)].state = "USING" \/ GLP!LobbyFull(g)
    BY <2>1, <2>2
  <2>4. GLP!Requester(g) = GL!Requester(g) /\ (GLP!LobbyFull(g) <=> GL!LobbyFull(g))
    BY Zenon DEF GLP!Requester, GL!Requester, GLP!LobbyFull, GL!LobbyFull, GLP!Maps, GL!Maps,
       GLP!FreePlaces, GL!FreePlaces, GLP!Occupants, GL!Occupants, GLP!Places, GL!Places,
       GLP!INVALID, GL!INVALID
  <2> QED BY <2>3, <2>4
<1> QED BY <1>1, <1>2, CappedIs, Invariant, GameLogicServed, PTL
        DEF GLP!TurnedAwayByLobby, TurnedAwayByLobby, GL!TurnedAwayByLobby
=============================================================================
