----------------------------- MODULE GameLogic -----------------------------
(***************************************************************************)
(* The game_logic threads (game_logic.c).  A thread owns MAX_MAP maps of   *)
(* MAX_PLAYER_EACH_MAP places; it seats the clients routed to it, answers  *)
(* their requests and broadcasts to the players of a map what one of them  *)
(* does.                                                                   *)
(*                                                                         *)
(* All four threads run this code; they share the table uid_2_playid and   *)
(* the queue to net_logic, and everything else carries the service id as   *)
(* an index.  One pop and its handler are one action: between two pops a   *)
(* thread touches no queue but the ones it pushes to.                      *)
(***************************************************************************)
EXTENDS Proto, FiniteSets, Functions

CONSTANTS
    Uids,            \* the socket ids in use
    NumServices,     \* GAME_LOGIC_SERVICE_NUM
    MaxMap,          \* MAX_MAP
    PlayersPerMap,   \* MAX_PLAYER_EACH_MAP
    Orderly,         \* clients log in, start, then play until they close
    QueueBound       \* the environment pushes below this many messages in all;
                     \* 0: queues without a bound

ASSUME UidsAssumption == IsFiniteSet(Uids) /\ INVALID \notin Uids /\ 0 \notin Uids
ASSUME SizesAssumption ==
    /\ NumServices \in Nat \ {0}
    /\ MaxMap \in Nat \ {0}
    /\ PlayersPerMap \in Nat \ {0}
ASSUME OrderlyAssumption == Orderly \in BOOLEAN

Services   == 0 .. NumServices - 1
Maps       == 0 .. MaxMap - 1
Places     == 0 .. PlayersPerMap - 1
MaxPlayers == MaxMap * PlayersPerMap      \* MAX_GAME_SERVICE_PLAYER_NUM
Unset      == 0                           \* memory fresh from malloc

VARIABLES
    que_2_gamelogic,         \* gl->service_que of each service
    que_2_net_logic,         \* shared by the services
    uid_2_playid,            \* shared: client -> [state, mapid, map_playerid]
    player_num,              \* [g]
    map_player_num,          \* [g, map]
    map_player_socket_uid,   \* [g, map, place] -> uid or INVALID
    player_state,            \* [g, map, place]: map_player[..].state
    player_uid,              \* [g, map, place]: map_player[..].msg.uid
    map_uid_list,            \* [g, map, index]: the broadcast list
    fault,                   \* how the process died, "none" while it lives
    list_underflow,          \* history: map_uid_list[-1] was written
    started,                 \* history: clients whose start was handled
    miscount,                \* history: [g, map]: repeated starts less the
                             \* closes of clients that never started
    stage                    \* environment: each client's service, what it sent

tables  == <<uid_2_playid, player_num, map_player_num, map_player_socket_uid,
             player_state, player_uid, map_uid_list>>
history == <<list_underflow, started, miscount>>
vars    == <<que_2_gamelogic, que_2_net_logic, tables, fault, history, stage>>

TablesInit ==
    /\ uid_2_playid = [u \in Uids |->
                         [state |-> "INVALID", mapid |-> 0, map_playerid |-> 0]]
    /\ player_num = [g \in Services |-> 0]
    /\ map_player_num = [x \in Services \X Maps |-> 0]
    /\ map_player_socket_uid = [x \in Services \X Maps \X Places |-> INVALID]
    /\ player_state = [x \in Services \X Maps \X Places |-> "INVALID"]
    /\ player_uid = [x \in Services \X Maps \X Places |-> Unset]
    /\ map_uid_list = [x \in Services \X Maps \X Places |-> 0]
    /\ fault = "none"
    /\ list_underflow = FALSE
    /\ started = {}
    /\ miscount = [x \in Services \X Maps |-> 0]

Init ==
    /\ que_2_gamelogic = [g \in Services |-> <<>>]
    /\ que_2_net_logic = <<>>
    /\ TablesInit
    /\ stage = [u \in Uids |-> [at |-> INVALID, sent |-> "NONE"]]

-----------------------------------------------------------------------------
(* Places.                                                                 *)

First(S) == CHOOSE x \in S : \A y \in S : x <= y

Using(u)  == uid_2_playid[u].state = "USING"
MapOf(u)  == uid_2_playid[u].mapid
PlaceOf(u) == uid_2_playid[u].map_playerid

\* game_route_get_mapid: the count it compares is of started players.
OpenMaps(g) == IF player_num[g] >= MaxPlayers THEN {}
               ELSE {m \in Maps : map_player_num[<<g, m>>] < PlayersPerMap}

FreePlaces(g, m) == {i \in Places : player_state[<<g, m, i>>] = "INVALID"}

\* What a handler's thread has in front of it.
Pop(g, type) ==
    /\ fault = "none"
    /\ que_2_gamelogic[g] # <<>>
    /\ Head(que_2_gamelogic[g]).type = type
    /\ que_2_gamelogic' = [que_2_gamelogic EXCEPT ![g] = Tail(@)]

Send(msgs) == que_2_net_logic' = que_2_net_logic \o msgs

-----------------------------------------------------------------------------
(* 'S': game_route_append.                                                 *)

\* The first open map is tried, and no other.
TakePlace(g, u, m, i) ==
    /\ player_state' = [player_state EXCEPT ![<<g, m, i>>] = "USING"]
    /\ IF map_player_socket_uid[<<g, m, i>>] = INVALID
       THEN /\ uid_2_playid' = [uid_2_playid EXCEPT ![u] =
                 [state |-> "USING", mapid |-> m, map_playerid |-> i]]
            /\ map_player_socket_uid' = [map_player_socket_uid EXCEPT ![<<g, m, i>>] = u]
            /\ player_num' = [player_num EXCEPT ![g] = @ + 1]
       ELSE UNCHANGED <<uid_2_playid, map_player_socket_uid, player_num>>

NewPlayer(g) ==
    LET u == Head(que_2_gamelogic[g]).uid
        m == First(OpenMaps(g))
    IN
    /\ Pop(g, "S")
    /\ IF ~Using(u) /\ OpenMaps(g) # {} /\ FreePlaces(g, m) # {}
       THEN TakePlace(g, u, m, First(FreePlaces(g, m)))
       ELSE UNCHANGED <<uid_2_playid, player_num, map_player_socket_uid,
                        player_state>>
    /\ UNCHANGED <<que_2_net_logic, map_player_num, player_uid, map_uid_list,
                   fault, history, stage>>

-----------------------------------------------------------------------------
(* 'D': the requests.  A request of a client without a place is ignored.   *)

PopRequest(g, reqs) == Pop(g, "D") /\ Head(que_2_gamelogic[g]).req \in reqs

Requester(g) == Head(que_2_gamelogic[g]).uid

\* A slip: the index into the list stays at 0.
Front_Slip(g, m, n) == [k \in 1 .. n |-> map_uid_list[<<g, m, 0>>]]

\* A slip: all of the list is copied, not its front.
Front_Whole(g, m, n) == [k \in 1 .. PlayersPerMap |-> map_uid_list[<<g, m, k - 1>>]]

\* The first n entries of a map's broadcast list, n = map_player_num.
Front(g, m, n) == [k \in 1 .. n |-> map_uid_list[<<g, m, k - 1>>]]

\* A slip: the login does not record the uid.
user_msg_load_Unnamed(g, u) == UNCHANGED player_uid

user_msg_load(g, u) ==
    player_uid' = [player_uid EXCEPT ![<<g, MapOf(u), PlaceOf(u)>>] = u]

\* dispose_login_request: load the name, answer, and describe each enemy on
\* the broadcast list; an entry that has left makes enemy_id NULL.
Login(g) ==
    LET u   == Requester(g)
        m   == MapOf(u)
        n   == map_player_num[<<g, m>>]
        enemies == Front(g, m, n)
    IN
    /\ PopRequest(g, {"LOG_REQ"})
    /\ Using(u)
    /\ user_msg_load(g, u)
    /\ IF n > PlayersPerMap
       THEN fault' = "list_overflow" /\ UNCHANGED que_2_net_logic
       ELSE IF \E k \in 1 .. n : enemies[k] \notin Uids \/ ~Using(enemies[k])
       THEN fault' = "null_enemy" /\ UNCHANGED que_2_net_logic
       ELSE /\ Send(<<Broadcast("LOG_RSP", <<u>>, u)>>
                    \o [k \in 1 .. n |-> Broadcast("ENEMY_MSG", <<u>>, enemies[k])]
                    \o <<Broadcast("LOGIN_END", <<u>>, u)>>)
            /\ UNCHANGED fault
    /\ UNCHANGED <<uid_2_playid, player_num, map_player_num,
                   map_player_socket_uid, player_state, map_uid_list,
                   history, stage>>

\* dispose_start_request: announce the player to the front of the list, count
\* it and append it there.  An index of -1 lands in the allocator's header of
\* the list, which nothing reads; one past the end breaks the heap.
Start(g) ==
    LET u == Requester(g)
        m == MapOf(u)
        n == map_player_num[<<g, m>>]
    IN
    /\ PopRequest(g, {"GAME_START_REQ"})
    /\ Using(u)
    /\ map_player_num' = [map_player_num EXCEPT ![<<g, m>>] = n + 1]
    /\ map_uid_list' = IF n \in Places
                       THEN [map_uid_list EXCEPT ![<<g, m, n>>] = u]
                       ELSE map_uid_list
    /\ fault' = IF n >= PlayersPerMap THEN "list_overflow" ELSE fault
    /\ list_underflow' = (list_underflow \/ n < 0)
    /\ started' = started \cup {u}
    /\ miscount' = IF u \in started THEN [miscount EXCEPT ![<<g, m>>] = @ + 1]
                   ELSE miscount
    /\ IF n >= PlayersPerMap
       THEN UNCHANGED que_2_net_logic
       ELSE Send(<<Broadcast("NEW_ENEMY", Front(g, m, n), player_uid[<<g, m, PlaceOf(u)>>]),
                   Broadcast("GAME_START_RSP", <<u>>, u)>>)
    /\ UNCHANGED <<uid_2_playid, player_num, map_player_socket_uid,
                   player_state, player_uid, stage>>

\* dispose_move_request: the new position goes to the front of the list.
Move(g) ==
    LET u == Requester(g)
        m == MapOf(u)
        n == map_player_num[<<g, m>>]
    IN
    /\ PopRequest(g, {"MOVE_REQ"})
    /\ Using(u)
    /\ IF n > PlayersPerMap
       THEN fault' = "list_overflow" /\ UNCHANGED que_2_net_logic
       ELSE /\ Send(<<Broadcast("ENEMY_MSG", Front(g, m, n),
                                player_uid[<<g, m, PlaceOf(u)>>])>>)
            /\ UNCHANGED fault
    /\ UNCHANGED <<tables, history, stage>>

\* dispose_leave_request: an answer to the uid the login stored.
Leave(g) ==
    LET u == player_uid[<<g, MapOf(Requester(g)), PlaceOf(Requester(g))>>] IN
    /\ PopRequest(g, {"LEAVE_REQ"})
    /\ Using(Requester(g))
    /\ Send(<<Broadcast("LEAVE_RSP", <<u>>, u)>>)
    /\ UNCHANGED <<tables, fault, history, stage>>

\* A start or a move that did not unpack: the handler reads through NULL.
NullRequest(g) ==
    /\ PopRequest(g, {"BAD_REQ"})
    /\ Using(Requester(g))
    /\ fault' = "null_request"
    /\ UNCHANGED <<que_2_net_logic, tables, history, stage>>

\* Requests of no effect, and requests of clients without a place.
Ignore(g) ==
    /\ PopRequest(g, Requests)
    /\ Using(Requester(g)) => Head(que_2_gamelogic[g]).req = "OTHER"
    /\ UNCHANGED <<que_2_net_logic, tables, fault, history, stage>>

-----------------------------------------------------------------------------
(* 'C': dispose_user_close.                                                *)

\* A slip: the list is left as it was.
map_uid_list_rebuild_Skipped(g, m, u) == map_uid_list

\* A slip: the leaver stays on the list.
map_uid_list_rebuild_Keeps(g, m, u) ==
    LET Kept == {i \in Places : map_player_socket_uid[<<g, m, i>>] # INVALID}
        Rank(i) == Cardinality({j \in Kept : j < i})
    IN  [x \in DOMAIN map_uid_list |->
           IF x[1] = g /\ x[2] = m /\ \E i \in Kept : Rank(i) = x[3]
           THEN map_player_socket_uid[<<g, m, CHOOSE i \in Kept : Rank(i) = x[3]>>]
           ELSE map_uid_list[x]]

\* map_uid_list_rebuild: the occupied places of the map but the leaver's, in
\* order, at the front; the entries behind them stay as they were.
map_uid_list_rebuild(g, m, u) ==
    LET Kept == {i \in Places : map_player_socket_uid[<<g, m, i>>] \notin {INVALID, u}}
        Rank(i) == Cardinality({j \in Kept : j < i})
    IN  [x \in DOMAIN map_uid_list |->
           IF x[1] = g /\ x[2] = m /\ \E i \in Kept : Rank(i) = x[3]
           THEN map_player_socket_uid[<<g, m, CHOOSE i \in Kept : Rank(i) = x[3]>>]
           ELSE map_uid_list[x]]

\* Slips: one of the two counters is not brought down.
CountOut_KeepsService(g, m) ==
    /\ map_player_num' = [map_player_num EXCEPT ![<<g, m>>] = @ - 1]
    /\ UNCHANGED player_num

CountOut_KeepsMap(g, m) ==
    /\ player_num' = [player_num EXCEPT ![g] = @ - 1]
    /\ UNCHANGED map_player_num

\* The count of the map goes down for a player that never started, too.
CountOut(g, m) ==
    /\ map_player_num' = [map_player_num EXCEPT ![<<g, m>>] = @ - 1]
    /\ player_num' = [player_num EXCEPT ![g] = @ - 1]

\* A slip: the place is not given back.
Vacate_KeepsPlace(g, m, i, u) ==
    /\ map_player_socket_uid' = [map_player_socket_uid EXCEPT ![<<g, m, i>>] = INVALID]
    /\ UNCHANGED player_state

Vacate(g, m, i, u) ==
    IF map_player_socket_uid[<<g, m, i>>] = u
    THEN /\ map_player_socket_uid' = [map_player_socket_uid EXCEPT ![<<g, m, i>>] = INVALID]
         /\ player_state' = [player_state EXCEPT ![<<g, m, i>>] = "INVALID"]
    ELSE UNCHANGED <<map_player_socket_uid, player_state>>

\* Rebuild, delete from the tables, and tell the front of the new list.
RemovePlayer(g, u) ==
    LET m == MapOf(u)
        i == PlaceOf(u)
        n == map_player_num[<<g, m>>] - 1
    IN
    /\ map_uid_list' = map_uid_list_rebuild(g, m, u)
    /\ uid_2_playid' = [uid_2_playid EXCEPT ![u].state = "INVALID"]
    /\ CountOut(g, m)
    /\ Vacate(g, m, i, u)
    /\ IF n > PlayersPerMap
       THEN fault' = "list_overflow" /\ UNCHANGED que_2_net_logic
       ELSE /\ Send(<<Broadcast("ENEMY_LEAVE",
                                [k \in 1 .. n |-> map_uid_list'[<<g, m, k - 1>>]],
                                player_uid[<<g, m, i>>])>>)
            /\ UNCHANGED fault
    /\ started' = started \ {u}
    /\ miscount' = IF u \in started THEN miscount
                   ELSE [miscount EXCEPT ![<<g, m>>] = @ - 1]
    /\ UNCHANGED <<player_uid, list_underflow>>

UserClose(g) ==
    /\ Pop(g, "C")
    /\ IF Using(Requester(g))
       THEN RemovePlayer(g, Requester(g))
       ELSE UNCHANGED <<que_2_net_logic, tables, fault, history>>
    /\ UNCHANGED stage

GameLogicStep(g) ==
    \/ NewPlayer(g)
    \/ Login(g)
    \/ Start(g)
    \/ Move(g)
    \/ Leave(g)
    \/ NullRequest(g)
    \/ Ignore(g)
    \/ UserClose(g)

-----------------------------------------------------------------------------
(* The other end of the queues.  net_logic forwards of each client one 'S',*)
(* then its requests, then one 'C', all to one service, and a uid is never *)
(* used again (apply_id only counts up).  A login that does not unpack     *)
(* ends in net_logic.  An orderly client logs in, starts, plays, and then  *)
(* closes.                                                                 *)

InFlight == Len(que_2_net_logic)
              + SumFunction([g \in Services |-> Len(que_2_gamelogic[g])])

Push(g, m) ==
    /\ QueueBound = 0 \/ InFlight < QueueBound
    /\ que_2_gamelogic' = [que_2_gamelogic EXCEPT ![g] = Append(@, m)]
    /\ UNCHANGED <<que_2_net_logic, tables, fault, history>>

Forwarded == Requests \ {"BAD_LOG_REQ"}

Connected(u) == stage[u].at # INVALID /\ stage[u].sent # "C"

Connect(u, g) ==
    /\ stage[u].sent = "NONE"
    /\ stage' = [stage EXCEPT ![u] = [at |-> g, sent |-> "S"]]
    /\ Push(g, New(u))

\* What an orderly client may send next.
InOrder(sent) ==
    CASE sent = "S"       -> {"LOG_REQ"}
      [] sent = "LOG_REQ" -> {"GAME_START_REQ"}
      [] OTHER            -> {"MOVE_REQ", "LEAVE_REQ", "OTHER"}

Request(u, r) ==
    /\ Connected(u)
    /\ IF Orderly
       THEN /\ r \in InOrder(stage[u].sent)
            /\ stage' = [stage EXCEPT ![u].sent =
                            IF r \in {"LOG_REQ", "GAME_START_REQ"} THEN r ELSE @]
       ELSE UNCHANGED stage
    /\ Push(stage[u].at, Data(u, r))

Disconnect(u) ==
    /\ Connected(u)
    /\ Orderly => stage[u].sent = "GAME_START_REQ"
    /\ stage' = [stage EXCEPT ![u].sent = "C"]
    /\ Push(stage[u].at, Closed(u))

\* net_logic takes messages from the queue; nothing here reads it.
NetLogicDrain ==
    /\ que_2_net_logic # <<>>
    /\ \E n \in 1 .. Len(que_2_net_logic) :
          que_2_net_logic' = SubSeq(que_2_net_logic, n + 1, Len(que_2_net_logic))
    /\ UNCHANGED <<que_2_gamelogic, tables, fault, history, stage>>

Environment ==
    \/ \E u \in Uids, g \in Services : Connect(u, g)
    \/ \E u \in Uids, r \in Forwarded : Request(u, r)
    \/ \E u \in Uids : Disconnect(u)
    \/ NetLogicDrain

Next == (\E g \in Services : GameLogicStep(g)) \/ Environment

Spec == Init /\ [][Next]_vars

-----------------------------------------------------------------------------
(* Properties.                                                             *)

Seats == Services \X Maps \X Places

TypeOK ==
    /\ que_2_gamelogic \in [Services -> Seq(UserMsgs(Uids))]
    /\ que_2_net_logic \in Seq([proto : Responses, to : Seq(Uids \cup {Unset}),
                                 about : Uids \cup {Unset}])
    /\ uid_2_playid \in [Uids -> [state : {"INVALID", "USING"},
                                   mapid : Maps, map_playerid : Places]]
    /\ player_num \in [Services -> Int]
    /\ map_player_num \in [Services \X Maps -> Int]
    /\ map_player_socket_uid \in [Seats -> Uids \cup {INVALID}]
    /\ player_state \in [Seats -> {"INVALID", "USING"}]
    /\ player_uid \in [Seats -> Uids \cup {Unset}]
    /\ map_uid_list \in [Seats -> Uids \cup {Unset}]
    /\ fault \in {"none"} \cup GameFaults
    /\ list_underflow \in BOOLEAN
    /\ started \subseteq Uids
    /\ miscount \in [Services \X Maps -> Int]
    /\ stage \in [Uids -> [at : Services \cup {INVALID},
                            sent : Requests \cup {"NONE", "S", "C"}]]

(***************************************************************************)
(* The three tables that say who sits where agree, although the handlers   *)
(* read them separately: a place is in use exactly when a uid is recorded  *)
(* for it, that uid's entry points back to the place, and no client sits   *)
(* at two places, even of two services (game_logic.c:313-388).             *)
(***************************************************************************)
SeatTablesAgree ==
    /\ \A g \in Services, m \in Maps, i \in Places :
         LET u == map_player_socket_uid[<<g, m, i>>] IN
         /\ player_state[<<g, m, i>>] = "USING" <=> u # INVALID
         /\ u # INVALID => uid_2_playid[u] =
               [state |-> "USING", mapid |-> m, map_playerid |-> i]
    /\ \A u \in Uids : Using(u) =>
         \E g \in Services :
            /\ map_player_socket_uid[<<g, MapOf(u), PlaceOf(u)>>] = u
            /\ \A h \in Services \ {g} :
                  map_player_socket_uid[<<h, MapOf(u), PlaceOf(u)>>] # u

Occupants(g, m) == {map_player_socket_uid[<<g, m, i>>] : i \in Places} \ {INVALID}

(***************************************************************************)
(* player_num, which the thread compares with its capacity, counts the     *)
(* clients it has seated on all its maps (game_logic.c:339, 364).          *)
(***************************************************************************)
PlayersCounted ==
    \A g \in Services :
        player_num[g] = Cardinality(UNION {Occupants(g, m) : m \in Maps})

(***************************************************************************)
(* map_player_num, by which the maps are filled and the broadcast list is  *)
(* read, is the number of started players of the map, give or take one for *)
(* each start that came again and each close of a client that never        *)
(* started, whatever the clients send (game_logic.c:615, 363): every other *)
(* order of logins, starts and closes leaves the count right.              *)
(***************************************************************************)
CountAccounted ==
    \A g \in Services, m \in Maps :
        map_player_num[<<g, m>>] =
            Cardinality(Occupants(g, m) \cap started) + miscount[<<g, m>>]

(***************************************************************************)
(* When every client starts before it closes, map_player_num is the number *)
(* of started players of the map, as game_logic.h:51 says, although the    *)
(* close handler decrements it without asking (game_logic.c:363).          *)
(***************************************************************************)
CountIsStarted ==
    \A g \in Services, m \in Maps :
        map_player_num[<<g, m>>] = Cardinality(Occupants(g, m) \cap started)

\* A map whose places are all taken, by clients some of which are in the lobby.
LobbyFull(g) ==
    \E m \in Maps : FreePlaces(g, m) = {} /\ ~(Occupants(g, m) \subseteq started)

(***************************************************************************)
(* A service whose counts are right gives a new client a place, unless one *)
(* of its maps has every place taken and somebody in the lobby: the map is *)
(* chosen by the count of started players, and no other is tried           *)
(* (game_logic.c:270-299, 325-350).                                        *)
(***************************************************************************)
TurnedAwayByLobby ==
    [][ \A g \in Services :
          Pop(g, "S") /\ (\A m \in Maps : miscount[<<g, m>>] = 0)
          => uid_2_playid'[Requester(g)].state = "USING" \/ LobbyFull(g) ]_vars

(***************************************************************************)
(* Then also the front of the broadcast list holds only clients that sit   *)
(* on this map now, whatever clients waiting in the lobby the rebuild puts *)
(* there, and so a login never follows a NULL enemy (game_logic.c:454-455).*)
(***************************************************************************)
FrontSeated ==
    /\ \A g \in Services, m \in Maps : \A k \in 0 .. map_player_num[<<g, m>>] - 1 :
          map_uid_list[<<g, m, k>>] \in Occupants(g, m)
    /\ fault = "none"

(***************************************************************************)
(* A game thread addresses its messages only to clients that are seated    *)
(* with it once the handler is done: no message to a client whose close it *)
(* has handled (game_logic.c:803-812).                                     *)
(***************************************************************************)
RecipientsSeated ==
    [][ \A i \in Len(que_2_net_logic) + 1 .. Len(que_2_net_logic') :
          \A k \in DOMAIN que_2_net_logic'[i].to :
             uid_2_playid'[que_2_net_logic'[i].to[k]].state = "USING" ]_vars

(***************************************************************************)
(* A close while everybody on the map has started leaves the list exact:   *)
(* its front is each remaining player once (game_logic.c:495-518).         *)
(***************************************************************************)
RebuildExact ==
    [][ \A g \in Services, m \in Maps :
          (/\ Occupants(g, m) \subseteq started
           /\ Occupants(g, m)' # Occupants(g, m)
           /\ Occupants(g, m)' \subseteq Occupants(g, m))
          => /\ map_player_num'[<<g, m>>] = Cardinality(Occupants(g, m)')
             /\ {map_uid_list'[<<g, m, k>>] : k \in 0 .. map_player_num'[<<g, m>>] - 1}
                   = Occupants(g, m)' ]_vars

(***************************************************************************)
(* The others are told who left: the ENEMY_LEAVE of a handled close names  *)
(* the client that closed, from the place it has just been removed from    *)
(* (game_logic.c:803-812, 555-558).                                        *)
(***************************************************************************)
LeaverNamed ==
    [][ \A u \in Uids, i \in Len(que_2_net_logic) + 1 .. Len(que_2_net_logic') :
          (/\ Using(u) /\ uid_2_playid'[u].state = "INVALID"
           /\ que_2_net_logic'[i].proto = "ENEMY_LEAVE")
          => que_2_net_logic'[i].about = u ]_vars
=============================================================================
