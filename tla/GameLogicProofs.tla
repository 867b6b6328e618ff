-------------------------- MODULE GameLogicProofs --------------------------
(* Theorems about the game services, for any number of clients, services,  *)
(* maps and places.                                                        *)
EXTENDS PlayerView, FiniteSetTheorems, FunctionTheorems, WellFoundedInduction, TLAPS

Reply == [proto : Responses, to : Seq(Uids \cup {Unset}), about : Uids \cup {Unset}]

-----------------------------------------------------------------------------
(* Facts about the operators.                                              *)

LEMMA Ranges == Maps \subseteq Nat /\ Places \subseteq Nat /\ INVALID \notin Services
BY SizesAssumption DEF Maps, Places, Services, INVALID

\* Where a search for the first free place stops.
LEMMA LeastNatural ==
    ASSUME NEW T, T \subseteq Nat, T # {}
    PROVE  \E x \in T : \A y \in T : ~(y < x)
<1> DEFINE R == OpToRel(<, Nat)
<1>1. IsWellFoundedOn(R, Nat)
  BY NatLessThanWellFounded DEF OpToRel
<1>2. \A x, y \in Nat : <<y, x>> \in R <=> y < x
  BY DEF OpToRel
<1> HIDE DEF R
<1>3. PICK x \in T : \A y \in T : ~(<<y, x>> \in R)
  BY <1>1, WFMin, Zenon
<1> QED BY <1>2, <1>3

\* The first-free searches return a member of the set they search.
LEMMA FirstIsMember ==
    ASSUME NEW S, S \subseteq Nat, S # {}
    PROVE  First(S) \in S
<1>1. PICK x \in S : \A y \in S : ~(y < x)
  BY LeastNatural
<1>2. \A y \in S : x <= y
  BY <1>1
<1> QED BY <1>1, <1>2 DEF First

LEMMA PoppedType ==
    ASSUME TypeOK, NEW g \in Services, NEW t, Pop(g, t)
    PROVE  LET m == Head(que_2_gamelogic[g]) IN
           /\ m \in UserMsgs(Uids)
           /\ m.uid \in Uids
           /\ que_2_gamelogic' \in [Services -> Seq(UserMsgs(Uids))]
<1>1. /\ que_2_gamelogic[g] \in Seq(UserMsgs(Uids))
      /\ que_2_gamelogic[g] # <<>>
      /\ que_2_gamelogic' = [que_2_gamelogic EXCEPT ![g] = Tail(@)]
  BY DEF TypeOK, Pop
<1>2. /\ Head(que_2_gamelogic[g]) \in UserMsgs(Uids)
      /\ Tail(que_2_gamelogic[g]) \in Seq(UserMsgs(Uids))
  BY <1>1
<1>3. \A m \in UserMsgs(Uids) : m.uid \in Uids
  BY DEF UserMsgs
<1>4. que_2_gamelogic' \in [Services -> Seq(UserMsgs(Uids))]
  BY <1>1, <1>2 DEF TypeOK
<1> QED BY <1>2, <1>3, <1>4

LEMMA SendType ==
    ASSUME TypeOK, NEW msgs \in Seq(Reply), Send(msgs)
    PROVE  que_2_net_logic' \in Seq(Reply)
BY DEF TypeOK, Send, Reply

\* A count below 0 gives an empty loop.
LEMMA FunctionIsSequence ==
    ASSUME NEW S, NEW n \in Int, NEW f \in [1 .. n -> S]
    PROVE  f \in Seq(S)
<1>1. CASE n >= 0
  BY <1>1
<1>2. CASE n < 0
  <2>1. 1 .. n = 1 .. 0
    BY <1>2
  <2>2. f \in [1 .. 0 -> S]
    BY <2>1
  <2> QED BY <2>2
<1> QED BY <1>1, <1>2

\* What is read from the front of a broadcast list, also for a count below 0.
LEMMA FrontType ==
    ASSUME NEW list \in [Seats -> Uids \cup {Unset}],
           NEW g \in Services, NEW m \in Maps, NEW n \in Int, n <= PlayersPerMap
    PROVE  [k \in 1 .. n |-> list[<<g, m, k - 1>>]] \in Seq(Uids \cup {Unset})
<1> DEFINE f == [k \in 1 .. n |-> list[<<g, m, k - 1>>]]
<1>1. \A k \in 1 .. n : list[<<g, m, k - 1>>] \in Uids \cup {Unset}
  BY SizesAssumption DEF Seats, Places
<1>2. f \in [1 .. n -> Uids \cup {Unset}]
  BY <1>1
<1> QED BY <1>2, FunctionIsSequence

LEMMA FrontOfList ==
    ASSUME TypeOK, NEW g \in Services, NEW m \in Maps, NEW n \in Int, n <= PlayersPerMap
    PROVE  Front(g, m, n) \in Seq(Uids \cup {Unset})
<1> DEFINE list == map_uid_list
<1>1. list \in [Seats -> Uids \cup {Unset}]
  BY DEF TypeOK
<1> HIDE DEF list
<1>2. [k \in 1 .. n |-> list[<<g, m, k - 1>>]] \in Seq(Uids \cup {Unset})
  BY <1>1, FrontType
<1> QED BY <1>2 DEF Front, list

LEMMA RebuildType ==
    ASSUME TypeOK, NEW g \in Services, NEW m \in Maps, NEW u \in Uids
    PROVE  map_uid_list_rebuild(g, m, u) \in [Seats -> Uids \cup {Unset}]
<1> DEFINE Kept == {i \in Places : map_player_socket_uid[<<g, m, i>>] \notin {INVALID, u}}
           Rank(i) == Cardinality({j \in Kept : j < i})
           Entry(x) == IF x[1] = g /\ x[2] = m /\ \E i \in Kept : Rank(i) = x[3]
                       THEN map_player_socket_uid[<<g, m, CHOOSE i \in Kept : Rank(i) = x[3]>>]
                       ELSE map_uid_list[x]
<1>1. \A i \in Kept : map_player_socket_uid[<<g, m, i>>] \in Uids
  BY DEF TypeOK, Seats
<1>2. ASSUME NEW x \in Seats PROVE Entry(x) \in Uids \cup {Unset}
  <2> HIDE DEF Kept, Rank
  <2>1. CASE x[1] = g /\ x[2] = m /\ \E i \in Kept : Rank(i) = x[3]
    <3>1. (CHOOSE i \in Kept : Rank(i) = x[3]) \in Kept
      BY <2>1
    <3> QED BY <2>1, <3>1, <1>1
  <2>2. CASE ~(x[1] = g /\ x[2] = m /\ \E i \in Kept : Rank(i) = x[3])
    <3>1. map_uid_list[x] \in Uids \cup {Unset}
      BY DEF TypeOK
    <3> QED BY <2>2, <3>1
  <2> QED BY <2>1, <2>2
<1>3. DOMAIN map_uid_list = Seats
  BY DEF TypeOK
<1>4. map_uid_list_rebuild(g, m, u) = [x \in Seats |-> Entry(x)]
  BY <1>3 DEF map_uid_list_rebuild
<1> HIDE DEF Entry
<1> QED BY <1>2, <1>4

-----------------------------------------------------------------------------
(* Type correctness.                                                       *)

LEMMA TypeInit == Init => TypeOK
<1> SUFFICES ASSUME Init PROVE TypeOK
  OBVIOUS
<1>1. \A S : <<>> \in Seq(S)
  OBVIOUS
<1>2. 0 \in Maps /\ 0 \in Places
  BY SizesAssumption DEF Maps, Places
<1>3. que_2_gamelogic \in [Services -> Seq(UserMsgs(Uids))]
  BY <1>1 DEF Init
<1>4. uid_2_playid \in [Uids -> [state : {"INVALID", "USING"},
                                  mapid : Maps, map_playerid : Places]]
  BY <1>2 DEF Init, TablesInit
<1>5. /\ player_num \in [Services -> Int]
      /\ map_player_num \in [Services \X Maps -> Int]
      /\ map_player_socket_uid \in [Seats -> Uids \cup {INVALID}]
      /\ player_state \in [Seats -> {"INVALID", "USING"}]
      /\ player_uid \in [Seats -> Uids \cup {Unset}]
      /\ map_uid_list \in [Seats -> Uids \cup {Unset}]
      /\ miscount \in [Services \X Maps -> Int]
  BY DEF Init, TablesInit, Seats, Unset
<1>6. stage \in [Uids -> [at : Services \cup {INVALID},
                           sent : Requests \cup {"NONE", "S", "C"}]]
  BY DEF Init
<1> QED BY <1>1, <1>3, <1>4, <1>5, <1>6 DEF Init, TablesInit, TypeOK

\* Messages to one client.
LEMMA ReplyType ==
    ASSUME NEW r \in Responses, NEW u \in Uids \cup {Unset},
           NEW v \in Uids \cup {Unset}
    PROVE  Broadcast(r, <<u>>, v) \in Reply
<1>1. <<u>> \in Seq(Uids \cup {Unset})
  OBVIOUS
<1> QED BY <1>1 DEF Broadcast, Reply

LEMMA NewPlayerType ==
    ASSUME TypeOK, NEW g \in Services, NewPlayer(g)
    PROVE  TypeOK'
<1> DEFINE u == Head(que_2_gamelogic[g]).uid
           m == First(OpenMaps(g))
           i == First(FreePlaces(g, m))
<1>1. u \in Uids /\ que_2_gamelogic' \in [Services -> Seq(UserMsgs(Uids))]
  BY PoppedType DEF NewPlayer
<1>2. CASE ~Using(u) /\ OpenMaps(g) # {} /\ FreePlaces(g, m) # {}
  <2>1. m \in Maps
    <3>1. OpenMaps(g) \subseteq Maps
      BY DEF OpenMaps
    <3> QED BY <1>2, <3>1, FirstIsMember, Ranges
  <2>2. i \in Places
    <3>1. FreePlaces(g, m) \subseteq Places
      BY DEF FreePlaces
    <3> QED BY <1>2, <3>1, FirstIsMember, Ranges
  <2>3. TakePlace(g, u, m, i)
    BY <1>2 DEF NewPlayer
  <2> HIDE DEF u, m, i
  <2>4. /\ uid_2_playid' \in [Uids -> [state : {"INVALID", "USING"},
                                        mapid : Maps, map_playerid : Places]]
        /\ player_num' \in [Services -> Int]
        /\ map_player_socket_uid' \in [Seats -> Uids \cup {INVALID}]
        /\ player_state' \in [Seats -> {"INVALID", "USING"}]
    <3>1. player_state' = [player_state EXCEPT ![<<g, m, i>>] = "USING"]
      BY <2>3 DEF TakePlace
    <3>2. player_state' \in [Seats -> {"INVALID", "USING"}]
      BY <3>1 DEF TypeOK
    <3>3. CASE map_player_socket_uid[<<g, m, i>>] = INVALID
      <4>1. /\ uid_2_playid' = [uid_2_playid EXCEPT ![u] =
                 [state |-> "USING", mapid |-> m, map_playerid |-> i]]
            /\ map_player_socket_uid' =
                 [map_player_socket_uid EXCEPT ![<<g, m, i>>] = u]
            /\ player_num' = [player_num EXCEPT ![g] = @ + 1]
        BY <2>3, <3>3 DEF TakePlace
      <4>2. uid_2_playid' \in [Uids -> [state : {"INVALID", "USING"},
                                         mapid : Maps, map_playerid : Places]]
        BY <2>1, <2>2, <4>1 DEF TypeOK
      <4>3. map_player_socket_uid' \in [Seats -> Uids \cup {INVALID}]
        BY <1>1, <4>1 DEF TypeOK
      <4>4. player_num' \in [Services -> Int]
        BY <4>1 DEF TypeOK
      <4> QED BY <3>2, <4>2, <4>3, <4>4
    <3>4. CASE map_player_socket_uid[<<g, m, i>>] # INVALID
      BY <2>3, <3>2, <3>4 DEF TypeOK, TakePlace
    <3> QED BY <3>3, <3>4
  <2> QED BY <1>1, <2>4 DEF TypeOK, NewPlayer, history
<1>3. CASE ~(~Using(u) /\ OpenMaps(g) # {} /\ FreePlaces(g, m) # {})
  BY <1>1, <1>3 DEF TypeOK, NewPlayer, history
<1> QED BY <1>2, <1>3

LEMMA LoginType ==
    ASSUME TypeOK, NEW g \in Services, Login(g)
    PROVE  TypeOK'
<1> DEFINE u == Requester(g)
           m == MapOf(u)
           n == map_player_num[<<g, m>>]
           enemies == Front(g, m, n)
           fine == n <= PlayersPerMap
                     /\ \A k \in 1 .. n : enemies[k] \in Uids /\ Using(enemies[k])
           described == [k \in 1 .. n |-> Broadcast("ENEMY_MSG", <<u>>, enemies[k])]
<1>1. u \in Uids /\ que_2_gamelogic' \in [Services -> Seq(UserMsgs(Uids))]
  BY PoppedType DEF Login, PopRequest, Requester
<1>2. m \in Maps /\ PlaceOf(u) \in Places /\ n \in Int
  BY <1>1 DEF TypeOK, MapOf, PlaceOf
<1>3. player_uid' \in [Seats -> Uids \cup {Unset}]
  BY <1>1, <1>2 DEF Login, user_msg_load, TypeOK
<1>4. fault' \in {"none"} \cup GameFaults
  BY SizesAssumption DEF Login, TypeOK, GameFaults
<1>5. que_2_net_logic' \in Seq(Reply)
  <2>1. CASE que_2_net_logic' = que_2_net_logic
    BY <2>1 DEF TypeOK, Reply
  <2>2. CASE fine /\ Send(<<Broadcast("LOG_RSP", <<u>>, u)>>
                          \o described
                          \o <<Broadcast("LOGIN_END", <<u>>, u)>>)
    <3>1. <<Broadcast("LOG_RSP", <<u>>, u)>> \in Seq(Reply)
          /\ <<Broadcast("LOGIN_END", <<u>>, u)>> \in Seq(Reply)
      <4>1. Broadcast("LOG_RSP", <<u>>, u) \in Reply
        BY <1>1, ReplyType DEF Responses
      <4>2. Broadcast("LOGIN_END", <<u>>, u) \in Reply
        BY <1>1, ReplyType DEF Responses
      <4> QED BY <4>1, <4>2
    <3>2. \A k \in 1 .. n : Broadcast("ENEMY_MSG", <<u>>, enemies[k]) \in Reply
      <4>1. \A v \in Uids : Broadcast("ENEMY_MSG", <<u>>, v) \in Reply
        BY <1>1, ReplyType DEF Responses
      <4> QED BY <2>2, <4>1
    <3>3. described \in Seq(Reply)
      <4> HIDE DEF enemies, n, fine, u
      <4>1. described \in [1 .. n -> Reply]
        BY <3>2
      <4> HIDE DEF described
      <4> QED BY <1>2, <4>1, FunctionIsSequence
    <3> HIDE DEF described
    <3>4. <<Broadcast("LOG_RSP", <<u>>, u)>> \o described
              \o <<Broadcast("LOGIN_END", <<u>>, u)>> \in Seq(Reply)
      BY <3>1, <3>3
    <3> QED BY <2>2, <3>4, SendType
  <2>3. CASE ~fine
    <3>1. n > PlayersPerMap \/ \E k \in 1 .. n : enemies[k] \notin Uids \/ ~Using(enemies[k])
      BY <1>2, <2>3, SizesAssumption
    <3>2. que_2_net_logic' = que_2_net_logic
      BY <3>1 DEF Login
    <3> QED BY <3>2, <2>1
  <2>4. CASE fine
    <3>1. ~(n > PlayersPerMap)
      BY <1>2, <2>4, SizesAssumption
    <3>2. ~(\E k \in 1 .. n : enemies[k] \notin Uids \/ ~Using(enemies[k]))
      BY <2>4
    <3>3. Send(<<Broadcast("LOG_RSP", <<u>>, u)>> \o described
                 \o <<Broadcast("LOGIN_END", <<u>>, u)>>)
      BY <3>1, <3>2, Zenon DEF Login
    <3> QED BY <2>4, <3>3, <2>2
  <2> QED BY <2>3, <2>4
<1> QED BY <1>1, <1>3, <1>4, <1>5 DEF TypeOK, Login, history, Reply

LEMMA StartType ==
    ASSUME TypeOK, NEW g \in Services, Start(g)
    PROVE  TypeOK'
<1> DEFINE u == Requester(g)
           m == MapOf(u)
           n == map_player_num[<<g, m>>]
           msgs == <<Broadcast("NEW_ENEMY", Front(g, m, n), player_uid[<<g, m, PlaceOf(u)>>]),
                     Broadcast("GAME_START_RSP", <<u>>, u)>>
<1>1. u \in Uids /\ que_2_gamelogic' \in [Services -> Seq(UserMsgs(Uids))]
  BY PoppedType DEF Start, PopRequest, Requester
<1>2. m \in Maps /\ PlaceOf(u) \in Places /\ n \in Int
  BY <1>1 DEF TypeOK, MapOf, PlaceOf
<1>3. map_player_num' \in [Services \X Maps -> Int]
  <2>1. map_player_num' = [map_player_num EXCEPT ![<<g, m>>] = n + 1]
    BY DEF Start
  <2> QED BY <1>2, <2>1 DEF TypeOK
<1>4. map_uid_list' \in [Seats -> Uids \cup {Unset}]
  <2>1. map_uid_list' = IF n \in Places THEN [map_uid_list EXCEPT ![<<g, m, n>>] = u]
                                        ELSE map_uid_list
    BY DEF Start
  <2> QED BY <1>1, <2>1 DEF TypeOK
<1>5. /\ fault' \in {"none"} \cup GameFaults
      /\ list_underflow' \in BOOLEAN
      /\ started' \subseteq Uids
  BY <1>1 DEF Start, TypeOK, GameFaults
<1>7. miscount' \in [Services \X Maps -> Int]
  <2>1. miscount' = IF u \in started THEN [miscount EXCEPT ![<<g, m>>] = @ + 1] ELSE miscount
    BY DEF Start
  <2> HIDE DEF u, m
  <2>2. CASE u \in started
    BY <1>2, <2>1, <2>2 DEF TypeOK
  <2>3. CASE u \notin started
    BY <2>1, <2>3 DEF TypeOK
  <2> QED BY <2>2, <2>3
<1>6. que_2_net_logic' \in Seq(Reply)
  <2>1. CASE n >= PlayersPerMap
    BY <2>1 DEF Start, TypeOK, Reply
  <2>2. CASE ~(n >= PlayersPerMap)
    <3>1. Front(g, m, n) \in Seq(Uids \cup {Unset})
      <4>1. n <= PlayersPerMap
        BY <1>2, <2>2, SizesAssumption
      <4> QED BY <1>2, <4>1, FrontOfList
    <3>2. player_uid[<<g, m, PlaceOf(u)>>] \in Uids \cup {Unset}
      BY <1>2 DEF TypeOK, Seats
    <3>3. Broadcast("NEW_ENEMY", Front(g, m, n), player_uid[<<g, m, PlaceOf(u)>>]) \in Reply
      BY <3>1, <3>2 DEF Broadcast, Reply, Responses
    <3>4. Broadcast("GAME_START_RSP", <<u>>, u) \in Reply
      BY <1>1, ReplyType DEF Responses
    <3>5. msgs \in Seq(Reply)
      BY <3>3, <3>4
    <3>6. Send(msgs)
      BY <2>2, Zenon DEF Start
    <3> QED BY <3>5, <3>6, SendType
  <2> QED BY <2>1, <2>2
<1> QED BY <1>1, <1>3, <1>4, <1>5, <1>6, <1>7 DEF TypeOK, Start, Reply

LEMMA MoveType ==
    ASSUME TypeOK, NEW g \in Services, Move(g)
    PROVE  TypeOK'
<1> DEFINE u == Requester(g)
           m == MapOf(u)
           n == map_player_num[<<g, m>>]
           msg == Broadcast("ENEMY_MSG", Front(g, m, n), player_uid[<<g, m, PlaceOf(u)>>])
<1>1. u \in Uids /\ que_2_gamelogic' \in [Services -> Seq(UserMsgs(Uids))]
  BY PoppedType DEF Move, PopRequest, Requester
<1>2. m \in Maps /\ PlaceOf(u) \in Places /\ n \in Int
  BY <1>1 DEF TypeOK, MapOf, PlaceOf
<1>3. que_2_net_logic' \in Seq(Reply)
  <2>1. CASE n > PlayersPerMap
    BY <2>1 DEF Move, TypeOK, Reply
  <2>2. CASE ~(n > PlayersPerMap)
    <3>1. Front(g, m, n) \in Seq(Uids \cup {Unset})
      <4>1. n <= PlayersPerMap
        BY <1>2, <2>2, SizesAssumption
      <4> QED BY <1>2, <4>1, FrontOfList
    <3>2. player_uid[<<g, m, PlaceOf(u)>>] \in Uids \cup {Unset}
      BY <1>2 DEF TypeOK, Seats
    <3>3. msg \in Reply
      BY <3>1, <3>2 DEF Broadcast, Reply, Responses
    <3>4. <<msg>> \in Seq(Reply)
      BY <3>3
    <3>5. Send(<<msg>>)
      BY <2>2, Zenon DEF Move
    <3> QED BY <3>4, <3>5, SendType
  <2> QED BY <2>1, <2>2
<1>4. fault' \in {"none"} \cup GameFaults
  BY DEF Move, TypeOK, GameFaults
<1> QED BY <1>1, <1>3, <1>4 DEF TypeOK, Move, tables, history, Reply

LEMMA LeaveType ==
    ASSUME TypeOK, NEW g \in Services, Leave(g)
    PROVE  TypeOK'
<1> DEFINE r == Requester(g)
           u == player_uid[<<g, MapOf(r), PlaceOf(r)>>]
<1>1. r \in Uids /\ que_2_gamelogic' \in [Services -> Seq(UserMsgs(Uids))]
  BY PoppedType DEF Leave, PopRequest, Requester
<1>2. u \in Uids \cup {Unset}
  <2>1. <<g, MapOf(r), PlaceOf(r)>> \in Seats
    BY <1>1 DEF TypeOK, MapOf, PlaceOf, Seats
  <2> QED BY <2>1 DEF TypeOK
<1>3. Broadcast("LEAVE_RSP", <<u>>, u) \in Reply
  BY <1>2, ReplyType DEF Responses
<1>4. <<Broadcast("LEAVE_RSP", <<u>>, u)>> \in Seq(Reply)
  BY <1>3
<1>5. Send(<<Broadcast("LEAVE_RSP", <<u>>, u)>>)
  BY DEF Leave
<1>6. que_2_net_logic' \in Seq(Reply)
  BY <1>4, <1>5, SendType
<1> QED BY <1>1, <1>6 DEF TypeOK, Leave, tables, history, Reply

LEMMA IgnoreType ==
    ASSUME TypeOK, NEW g \in Services, Ignore(g)
    PROVE  TypeOK'
<1>1. que_2_gamelogic' \in [Services -> Seq(UserMsgs(Uids))]
  BY PoppedType DEF Ignore, PopRequest
<1> QED BY <1>1 DEF TypeOK, Ignore, tables, history

LEMMA NullRequestType ==
    ASSUME TypeOK, NEW g \in Services, NullRequest(g)
    PROVE  TypeOK'
<1>1. que_2_gamelogic' \in [Services -> Seq(UserMsgs(Uids))]
  BY PoppedType DEF NullRequest, PopRequest
<1> QED BY <1>1 DEF TypeOK, NullRequest, tables, history, GameFaults

LEMMA RemovePlayerType ==
    ASSUME TypeOK, NEW g \in Services, NEW u \in Uids, RemovePlayer(g, u)
    PROVE  /\ que_2_net_logic' \in Seq(Reply)
           /\ uid_2_playid' \in [Uids -> [state : {"INVALID", "USING"},
                                           mapid : Maps, map_playerid : Places]]
           /\ player_num' \in [Services -> Int]
           /\ map_player_num' \in [Services \X Maps -> Int]
           /\ map_player_socket_uid' \in [Seats -> Uids \cup {INVALID}]
           /\ player_state' \in [Seats -> {"INVALID", "USING"}]
           /\ player_uid' \in [Seats -> Uids \cup {Unset}]
           /\ map_uid_list' \in [Seats -> Uids \cup {Unset}]
           /\ fault' \in {"none"} \cup GameFaults
           /\ list_underflow' \in BOOLEAN
           /\ started' \subseteq Uids
           /\ miscount' \in [Services \X Maps -> Int]
<1> DEFINE m == MapOf(u)
           i == PlaceOf(u)
           n == map_player_num[<<g, m>>] - 1
           to == [k \in 1 .. n |-> map_uid_list'[<<g, m, k - 1>>]]
           msg == Broadcast("ENEMY_LEAVE", to, player_uid[<<g, m, i>>])
<1>1. m \in Maps /\ i \in Places /\ n \in Int
  BY DEF TypeOK, MapOf, PlaceOf
<1>2. map_uid_list' \in [Seats -> Uids \cup {Unset}]
  BY <1>1, RebuildType DEF RemovePlayer
<1>3. uid_2_playid' \in [Uids -> [state : {"INVALID", "USING"},
                                   mapid : Maps, map_playerid : Places]]
  <2>1. uid_2_playid' = [uid_2_playid EXCEPT ![u].state = "INVALID"]
    BY DEF RemovePlayer
  <2> QED BY <2>1 DEF TypeOK
<1>4. player_num' \in [Services -> Int] /\ map_player_num' \in [Services \X Maps -> Int]
  <2>1. CountOut(g, m)
    BY DEF RemovePlayer
  <2>2. player_num' = [player_num EXCEPT ![g] = @ - 1]
    BY <2>1 DEF CountOut
  <2>3. map_player_num' = [map_player_num EXCEPT ![<<g, m>>] = n]
    BY <2>1 DEF CountOut
  <2>4. player_num' \in [Services -> Int]
    BY <2>2 DEF TypeOK
  <2> QED BY <1>1, <2>3, <2>4 DEF TypeOK
<1>5. /\ map_player_socket_uid' \in [Seats -> Uids \cup {INVALID}]
      /\ player_state' \in [Seats -> {"INVALID", "USING"}]
  BY DEF RemovePlayer, Vacate, TypeOK
<1>6. que_2_net_logic' \in Seq(Reply)
  <2>1. CASE n > PlayersPerMap
    BY <2>1 DEF RemovePlayer, TypeOK, Reply
  <2>2. CASE ~(n > PlayersPerMap)
    <3>1. to \in Seq(Uids \cup {Unset})
      <4>1. n <= PlayersPerMap
        BY <1>1, <2>2, SizesAssumption
      <4> DEFINE list == map_uid_list'
      <4> HIDE DEF list, m, i, n
      <4>2. [k \in 1 .. n |-> list[<<g, m, k - 1>>]] \in Seq(Uids \cup {Unset})
        BY <1>1, <1>2, <4>1, FrontType DEF list
      <4> QED BY <4>2 DEF list
    <3>2. player_uid[<<g, m, i>>] \in Uids \cup {Unset}
      BY <1>1 DEF TypeOK, Seats
    <3> HIDE DEF to
    <3>3. msg \in Reply
      BY <3>1, <3>2 DEF Broadcast, Reply, Responses
    <3> USE DEF to
    <3>4. <<msg>> \in Seq(Reply)
      BY <3>3
    <3>5. Send(<<msg>>)
      BY <2>2, Zenon DEF RemovePlayer
    <3> QED BY <3>4, <3>5, SendType
  <2> QED BY <2>1, <2>2
<1>7. /\ fault' \in {"none"} \cup GameFaults
      /\ list_underflow' \in BOOLEAN
      /\ started' \subseteq Uids
      /\ player_uid' \in [Seats -> Uids \cup {Unset}]
  BY DEF RemovePlayer, TypeOK, GameFaults
<1>8. miscount' \in [Services \X Maps -> Int]
  <2>1. miscount' = IF u \in started THEN miscount ELSE [miscount EXCEPT ![<<g, m>>] = @ - 1]
    BY DEF RemovePlayer
  <2> HIDE DEF m
  <2>2. CASE u \in started
    BY <2>1, <2>2 DEF TypeOK
  <2>3. CASE u \notin started
    BY <1>1, <2>1, <2>3 DEF TypeOK
  <2> QED BY <2>2, <2>3
<1> QED BY <1>2, <1>3, <1>4, <1>5, <1>6, <1>7, <1>8

LEMMA UserCloseType ==
    ASSUME TypeOK, NEW g \in Services, UserClose(g)
    PROVE  TypeOK'
<1>1. /\ Requester(g) \in Uids
      /\ que_2_gamelogic' \in [Services -> Seq(UserMsgs(Uids))]
  BY PoppedType DEF UserClose, Requester
<1>2. CASE Using(Requester(g))
  <2>1. RemovePlayer(g, Requester(g)) /\ UNCHANGED stage
    BY <1>2 DEF UserClose
  <2> QED BY <1>1, <2>1, RemovePlayerType DEF TypeOK, Reply
<1>3. CASE ~Using(Requester(g))
  BY <1>1, <1>3 DEF UserClose, TypeOK, tables, history
<1> QED BY <1>2, <1>3

\* What net_logic leaves of the queue.
LEMMA Drained ==
    ASSUME TypeOK, NetLogicDrain
    PROVE  /\ que_2_net_logic' \in Seq(Reply)
           /\ Len(que_2_net_logic') <= Len(que_2_net_logic)
<1> DEFINE q == que_2_net_logic
<1>1. q \in Seq(Reply)
  BY DEF TypeOK, Reply
<1>2. PICK n \in 1 .. Len(q) : q' = SubSeq(q, n + 1, Len(q))
  BY DEF NetLogicDrain
<1> HIDE DEF q
<1>3. SubSeq(q, n + 1, Len(q)) \in Seq(Reply) /\ Len(SubSeq(q, n + 1, Len(q))) <= Len(q)
  BY <1>1, <1>2
<1> QED BY <1>2, <1>3 DEF q

LEMMA EnvironmentType ==
    ASSUME TypeOK, Environment
    PROVE  TypeOK'
<1>1. ASSUME NEW g \in Services, NEW msg \in UserMsgs(Uids), Push(g, msg)
      PROVE  que_2_gamelogic' \in [Services -> Seq(UserMsgs(Uids))]
  <2>1. Append(que_2_gamelogic[g], msg) \in Seq(UserMsgs(Uids))
    BY DEF TypeOK
  <2> QED BY <1>1, <2>1 DEF Push, TypeOK
<1>2. ASSUME NEW u \in Uids, NEW g \in Services, Connect(u, g)
      PROVE  TypeOK'
  <2>1. New(u) \in UserMsgs(Uids)
    BY DEF New, UserMsgs
  <2>2. que_2_gamelogic' \in [Services -> Seq(UserMsgs(Uids))]
    BY <1>1, <1>2, <2>1 DEF Connect
  <2>3. stage' \in [Uids -> [at : Services \cup {INVALID},
                              sent : Requests \cup {"NONE", "S", "C"}]]
    BY <1>2 DEF Connect, TypeOK
  <2> QED BY <1>2, <2>2, <2>3 DEF Connect, Push, TypeOK, tables, history
<1>3. ASSUME NEW u \in Uids, NEW r \in Requests, Request(u, r)
      PROVE  TypeOK'
  <2>1. Data(u, r) \in UserMsgs(Uids)
    BY DEF Data, UserMsgs
  <2>2. stage[u].at \in Services
    BY <1>3 DEF Request, Connected, TypeOK
  <2>3. que_2_gamelogic' \in [Services -> Seq(UserMsgs(Uids))]
    BY <1>1, <1>3, <2>1, <2>2 DEF Request
  <2>4. stage' \in [Uids -> [at : Services \cup {INVALID},
                              sent : Requests \cup {"NONE", "S", "C"}]]
    <3>1. CASE Orderly
      <4>1. stage' = [stage EXCEPT ![u].sent =
                         IF r \in {"LOG_REQ", "GAME_START_REQ"} THEN r ELSE @]
        BY <1>3, <3>1 DEF Request
      <4>2. CASE r \in {"LOG_REQ", "GAME_START_REQ"}
        BY <4>1, <4>2 DEF TypeOK
      <4>3. CASE r \notin {"LOG_REQ", "GAME_START_REQ"}
        BY <4>1, <4>3 DEF TypeOK
      <4> QED BY <4>2, <4>3
    <3>2. CASE ~Orderly
      BY <1>3, <3>2 DEF Request, TypeOK
    <3> QED BY <3>1, <3>2
  <2> QED BY <1>3, <2>3, <2>4 DEF Request, Push, TypeOK, tables, history
<1>4. ASSUME NEW u \in Uids, Disconnect(u)
      PROVE  TypeOK'
  <2>1. Closed(u) \in UserMsgs(Uids)
    BY DEF Closed, UserMsgs
  <2>2. stage[u].at \in Services
    BY <1>4 DEF Disconnect, Connected, TypeOK
  <2>3. que_2_gamelogic' \in [Services -> Seq(UserMsgs(Uids))]
    BY <1>1, <1>4, <2>1, <2>2 DEF Disconnect
  <2>4. stage' \in [Uids -> [at : Services \cup {INVALID},
                              sent : Requests \cup {"NONE", "S", "C"}]]
    BY <1>4 DEF Disconnect, TypeOK
  <2> QED BY <1>4, <2>3, <2>4 DEF Disconnect, Push, TypeOK, tables, history
<1>5. ASSUME NetLogicDrain
      PROVE  TypeOK'
  <2>1. que_2_net_logic' \in Seq(Reply)
    BY <1>5, Drained
  <2> QED BY <1>5, <2>1 DEF NetLogicDrain, TypeOK, Reply, tables, history
<1> QED BY <1>2, <1>3, <1>4, <1>5 DEF Environment, Forwarded

LEMMA TypeStep == TypeOK /\ [Next]_vars => TypeOK'
<1> SUFFICES ASSUME TypeOK, [Next]_vars PROVE TypeOK'
  OBVIOUS
<1>1. ASSUME NEW g \in Services, GameLogicStep(g) PROVE TypeOK'
  <2>1. CASE NewPlayer(g) BY <2>1, NewPlayerType
  <2>2. CASE Login(g)     BY <2>2, LoginType
  <2>3. CASE Start(g)     BY <2>3, StartType
  <2>4. CASE Move(g)      BY <2>4, MoveType
  <2>5. CASE Leave(g)     BY <2>5, LeaveType
  <2>6. CASE Ignore(g)    BY <2>6, IgnoreType
  <2>7. CASE UserClose(g) BY <2>7, UserCloseType
  <2>8. CASE NullRequest(g) BY <2>8, NullRequestType
  <2> QED BY <1>1, <2>1, <2>2, <2>3, <2>4, <2>5, <2>6, <2>7, <2>8 DEF GameLogicStep
<1>2. CASE Environment
  BY <1>2, EnvironmentType
<1>3. CASE UNCHANGED vars
  BY <1>3 DEF vars, tables, history, TypeOK
<1> QED BY <1>1, <1>2, <1>3 DEF Next

(***************************************************************************)
(* Every handler keeps the tables in range: what the code indexes with the *)
(* results of its lookups are maps and places that exist                   *)
(* (game_logic.c:270-388).                                                 *)
(***************************************************************************)
THEOREM TypeCorrect == Spec => []TypeOK
BY TypeInit, TypeStep, PTL DEF Spec

-----------------------------------------------------------------------------
(* A client belongs to one service.                                        *)

(***************************************************************************)
(* What makes the shared table uid_2_playid safe: the messages about a     *)
(* client, and its place, are all at the service net_logic gave it.        *)
(***************************************************************************)
AtItsService ==
    /\ \A g \in Services : \A k \in DOMAIN que_2_gamelogic[g] :
          stage[que_2_gamelogic[g][k].uid].at = g
    /\ \A g \in Services, m \in Maps, i \in Places :
          map_player_socket_uid[<<g, m, i>>] # INVALID =>
             stage[map_player_socket_uid[<<g, m, i>>]].at = g
    /\ \A u \in Uids : stage[u].sent = "NONE" => stage[u].at = INVALID

IInv == TypeOK /\ AtItsService /\ SeatTablesAgree

LEMMA IInvInit == Init => IInv
<1> SUFFICES ASSUME Init PROVE IInv
  OBVIOUS
<1>1. TypeOK
  BY TypeInit
<1>2. AtItsService
  <2>1. \A g \in Services : DOMAIN que_2_gamelogic[g] = {}
    BY DEF Init
  <2>2. \A g \in Services, m \in Maps, i \in Places :
           map_player_socket_uid[<<g, m, i>>] = INVALID
    BY DEF Init, TablesInit
  <2>3. \A u \in Uids : stage[u].at = INVALID
    BY DEF Init
  <2> QED BY <2>1, <2>2, <2>3 DEF AtItsService
<1>3. SeatTablesAgree
  <2>1. \A g \in Services, m \in Maps, i \in Places :
           /\ map_player_socket_uid[<<g, m, i>>] = INVALID
           /\ player_state[<<g, m, i>>] = "INVALID"
    BY DEF Init, TablesInit
  <2>2. \A u \in Uids : ~Using(u)
    BY DEF Init, TablesInit, Using
  <2> QED BY <2>1, <2>2 DEF SeatTablesAgree
<1> QED BY <1>1, <1>2, <1>3 DEF IInv

\* The message at hand is about a client of this service.
LEMMA RequesterIsHere ==
    ASSUME IInv, NEW g \in Services, NEW t, Pop(g, t)
    PROVE  /\ Requester(g) \in Uids
           /\ stage[Requester(g)].at = g
<1>1. que_2_gamelogic[g] \in Seq(UserMsgs(Uids)) /\ que_2_gamelogic[g] # <<>>
  BY DEF IInv, TypeOK, Pop
<1>2. 1 \in DOMAIN que_2_gamelogic[g] /\ Head(que_2_gamelogic[g]) = que_2_gamelogic[g][1]
  BY <1>1
<1>3. stage[Requester(g)].at = g
  BY <1>2 DEF IInv, AtItsService, Requester
<1> QED BY <1>3, PoppedType DEF IInv, Requester

LEMMA TailElement ==
    ASSUME NEW S, NEW q \in Seq(S), q # <<>>, NEW k \in DOMAIN Tail(q)
    PROVE  k + 1 \in DOMAIN q /\ Tail(q)[k] = q[k + 1]
OBVIOUS

LEMMA AppendElement ==
    ASSUME NEW S, NEW q \in Seq(S), NEW e \in S, NEW k \in DOMAIN Append(q, e)
    PROVE  \/ k \in DOMAIN q /\ Append(q, e)[k] = q[k]
           \/ Append(q, e)[k] = e
OBVIOUS

\* What is left in the queues after a pop.
LEMMA PopKeepsService ==
    ASSUME IInv, NEW g \in Services, NEW t, Pop(g, t), UNCHANGED stage
    PROVE  \A h \in Services : \A k \in DOMAIN que_2_gamelogic'[h] :
              stage'[que_2_gamelogic'[h][k].uid].at = h
<1> SUFFICES ASSUME NEW h \in Services, NEW k \in DOMAIN que_2_gamelogic'[h]
             PROVE  stage[que_2_gamelogic'[h][k].uid].at = h
  OBVIOUS
<1>1. /\ que_2_gamelogic \in [Services -> Seq(UserMsgs(Uids))]
      /\ que_2_gamelogic[g] # <<>>
      /\ que_2_gamelogic' = [que_2_gamelogic EXCEPT ![g] = Tail(@)]
  BY DEF IInv, TypeOK, Pop
<1>2. CASE h = g
  <2>1. que_2_gamelogic'[h] = Tail(que_2_gamelogic[g])
    BY <1>1, <1>2
  <2>2. /\ que_2_gamelogic[g] \in Seq(UserMsgs(Uids))
        /\ k + 1 \in DOMAIN que_2_gamelogic[g]
        /\ que_2_gamelogic'[h][k] = que_2_gamelogic[g][k + 1]
    BY <1>1, <2>1, TailElement
  <2> QED BY <1>2, <2>2 DEF IInv, AtItsService
<1>3. CASE h # g
  <2>1. que_2_gamelogic'[h] = que_2_gamelogic[h]
    BY <1>1, <1>3
  <2> QED BY <2>1 DEF IInv, AtItsService
<1> QED BY <1>2, <1>3

\* A push for a client, to the service it is at from then on.
LEMMA PushKeepsService ==
    ASSUME IInv, NEW g \in Services, NEW msg \in UserMsgs(Uids), Push(g, msg),
           stage' \in [Uids -> [at : Services \cup {INVALID},
                                 sent : Requests \cup {"NONE", "S", "C"}]],
           stage'[msg.uid].at = g,
           \A v \in Uids : stage[v].at # INVALID => stage'[v].at = stage[v].at
    PROVE  \A h \in Services : \A k \in DOMAIN que_2_gamelogic'[h] :
              stage'[que_2_gamelogic'[h][k].uid].at = h
<1> SUFFICES ASSUME NEW h \in Services, NEW k \in DOMAIN que_2_gamelogic'[h]
             PROVE  stage'[que_2_gamelogic'[h][k].uid].at = h
  OBVIOUS
<1>1. /\ que_2_gamelogic \in [Services -> Seq(UserMsgs(Uids))]
      /\ que_2_gamelogic' = [que_2_gamelogic EXCEPT ![g] = Append(@, msg)]
  BY DEF IInv, TypeOK, Push
<1>2. ASSUME k \in DOMAIN que_2_gamelogic[h],
             que_2_gamelogic'[h][k] = que_2_gamelogic[h][k]
      PROVE  stage'[que_2_gamelogic'[h][k].uid].at = h
  <2>1. stage[que_2_gamelogic[h][k].uid].at = h
    BY <1>2 DEF IInv, AtItsService
  <2>2. que_2_gamelogic[h][k].uid \in Uids
    <3>1. que_2_gamelogic[h][k] \in UserMsgs(Uids)
      BY <1>1, <1>2
    <3> QED BY <3>1 DEF UserMsgs
  <2> QED BY <1>2, <2>1, <2>2, Ranges
<1>3. CASE h = g
  <2>1. que_2_gamelogic'[h] = Append(que_2_gamelogic[g], msg)
    BY <1>1, <1>3
  <2>2. \/ k \in DOMAIN que_2_gamelogic[g] /\ que_2_gamelogic'[h][k] = que_2_gamelogic[g][k]
        \/ que_2_gamelogic'[h][k] = msg
    BY <1>1, <2>1, AppendElement
  <2> QED BY <1>2, <1>3, <2>2
<1>4. CASE h # g
  <2>1. que_2_gamelogic'[h] = que_2_gamelogic[h]
    BY <1>1, <1>4
  <2> QED BY <1>2, <2>1
<1> QED BY <1>3, <1>4

\* The handlers that leave the places alone.
LEMMA SeatsUntouched ==
    ASSUME SeatTablesAgree,
           UNCHANGED <<uid_2_playid, map_player_socket_uid, player_state>>
    PROVE  SeatTablesAgree'
BY DEF SeatTablesAgree, Using, MapOf, PlaceOf

LEMMA ServiceUntouched ==
    ASSUME IInv, NEW g \in Services, NEW t, Pop(g, t),
           UNCHANGED <<stage, map_player_socket_uid>>
    PROVE  AtItsService'
<1>1. \A h \in Services : \A k \in DOMAIN que_2_gamelogic'[h] :
         stage'[que_2_gamelogic'[h][k].uid].at = h
  BY PopKeepsService
<1> QED BY <1>1 DEF IInv, AtItsService

LEMMA NewPlayerKeeps ==
    ASSUME IInv, NEW g \in Services, NewPlayer(g)
    PROVE  AtItsService' /\ SeatTablesAgree'
<1> DEFINE u == Head(que_2_gamelogic[g]).uid
           m == First(OpenMaps(g))
           i == First(FreePlaces(g, m))
<1>1. Pop(g, "S") /\ UNCHANGED stage
  BY DEF NewPlayer
<1>2. u \in Uids /\ stage[u].at = g
  BY <1>1, RequesterIsHere DEF Requester
<1>3. CASE ~(~Using(u) /\ OpenMaps(g) # {} /\ FreePlaces(g, m) # {})
  <2>1. UNCHANGED <<uid_2_playid, player_num, map_player_socket_uid, player_state>>
    BY <1>3 DEF NewPlayer
  <2> QED BY <1>1, <2>1, SeatsUntouched, ServiceUntouched DEF IInv
<1>4. CASE ~Using(u) /\ OpenMaps(g) # {} /\ FreePlaces(g, m) # {}
  <2>1. m \in Maps
    <3>1. OpenMaps(g) \subseteq Maps
      BY DEF OpenMaps
    <3> QED BY <1>4, <3>1, FirstIsMember, Ranges
  <2>2. i \in FreePlaces(g, m)
    <3>1. FreePlaces(g, m) \subseteq Places
      BY DEF FreePlaces
    <3> QED BY <1>4, <3>1, FirstIsMember, Ranges
  <2>3. TakePlace(g, u, m, i) /\ ~Using(u)
    BY <1>4 DEF NewPlayer
  <2> HIDE DEF u, m, i
  <2>4. i \in Places /\ player_state[<<g, m, i>>] = "INVALID"
    BY <2>2 DEF FreePlaces
  <2>5. map_player_socket_uid[<<g, m, i>>] = INVALID
    BY <2>1, <2>4 DEF IInv, SeatTablesAgree
  <2>6. /\ player_state' = [player_state EXCEPT ![<<g, m, i>>] = "USING"]
        /\ uid_2_playid' = [uid_2_playid EXCEPT ![u] =
                              [state |-> "USING", mapid |-> m, map_playerid |-> i]]
        /\ map_player_socket_uid' = [map_player_socket_uid EXCEPT ![<<g, m, i>>] = u]
    BY <2>3, <2>5 DEF TakePlace
  <2>7. ASSUME NEW h \in Services, NEW n \in Maps, NEW j \in Places
        PROVE  /\ <<h, n, j>> = <<g, m, i>> =>
                     /\ map_player_socket_uid'[<<h, n, j>>] = u
                     /\ player_state'[<<h, n, j>>] = "USING"
               /\ <<h, n, j>> # <<g, m, i>> =>
                     /\ map_player_socket_uid'[<<h, n, j>>] = map_player_socket_uid[<<h, n, j>>]
                     /\ player_state'[<<h, n, j>>] = player_state[<<h, n, j>>]
    BY <2>6 DEF IInv, TypeOK, Seats
  <2>8. /\ uid_2_playid'[u] = [state |-> "USING", mapid |-> m, map_playerid |-> i]
        /\ \A v \in Uids \ {u} : uid_2_playid'[v] = uid_2_playid[v]
    BY <1>2, <2>6 DEF IInv, TypeOK
  <2>9. \A h \in Services, n \in Maps, j \in Places :
           map_player_socket_uid[<<h, n, j>>] # u
    <3> SUFFICES ASSUME NEW h \in Services, NEW n \in Maps, NEW j \in Places,
                        map_player_socket_uid[<<h, n, j>>] = u
                 PROVE  FALSE
      OBVIOUS
    <3>1. u # INVALID
      BY <1>2, UidsAssumption
    <3>2. uid_2_playid[u] = [state |-> "USING", mapid |-> n, map_playerid |-> j]
      BY <3>1 DEF IInv, SeatTablesAgree
    <3> QED BY <2>3, <3>2 DEF Using
  <2>10. AtItsService'
    <3>1. \A h \in Services : \A k \in DOMAIN que_2_gamelogic'[h] :
             stage'[que_2_gamelogic'[h][k].uid].at = h
      BY <1>1, PopKeepsService
    <3>2. ASSUME NEW h \in Services, NEW n \in Maps, NEW j \in Places,
                 map_player_socket_uid'[<<h, n, j>>] # INVALID
          PROVE  stage[map_player_socket_uid'[<<h, n, j>>]].at = h
      <4>1. CASE <<h, n, j>> = <<g, m, i>>
        BY <4>1, <1>2, <2>7
      <4>2. CASE <<h, n, j>> # <<g, m, i>>
        BY <4>2, <2>7, <3>2 DEF IInv, AtItsService
      <4> QED BY <4>1, <4>2
    <3> QED BY <1>1, <3>1, <3>2 DEF IInv, AtItsService
  <2>11. ASSUME NEW h \in Services, NEW n \in Maps, NEW j \in Places
         PROVE  /\ player_state'[<<h, n, j>>] = "USING"
                      <=> map_player_socket_uid'[<<h, n, j>>] # INVALID
                /\ map_player_socket_uid'[<<h, n, j>>] # INVALID =>
                      uid_2_playid'[map_player_socket_uid'[<<h, n, j>>]] =
                         [state |-> "USING", mapid |-> n, map_playerid |-> j]
    <3>1. CASE <<h, n, j>> = <<g, m, i>>
      BY <3>1, <1>2, <2>7, <2>8, UidsAssumption
    <3>2. CASE <<h, n, j>> # <<g, m, i>>
      <4>1. map_player_socket_uid[<<h, n, j>>] \in Uids \cup {INVALID}
        BY DEF IInv, TypeOK, Seats
      <4> QED BY <3>2, <4>1, <2>7, <2>8, <2>9 DEF IInv, SeatTablesAgree
    <3> QED BY <3>1, <3>2
  <2>12. ASSUME NEW v \in Uids, Using(v)'
         PROVE  \E h \in Services :
                   /\ map_player_socket_uid'[<<h, MapOf(v)', PlaceOf(v)'>>] = v
                   /\ \A k \in Services \ {h} :
                        map_player_socket_uid'[<<k, MapOf(v)', PlaceOf(v)'>>] # v
    <3>1. CASE v = u
      <4>1. MapOf(v)' = m /\ PlaceOf(v)' = i
        BY <3>1, <2>8 DEF MapOf, PlaceOf
      <4>2. map_player_socket_uid'[<<g, m, i>>] = u
        BY <2>1, <2>4, <2>7
      <4>3. \A k \in Services \ {g} : map_player_socket_uid'[<<k, m, i>>] # u
        BY <2>1, <2>4, <2>7, <2>9
      <4> QED BY <3>1, <4>1, <4>2, <4>3
    <3>2. CASE v # u
      <4>1. Using(v) /\ MapOf(v)' = MapOf(v) /\ PlaceOf(v)' = PlaceOf(v)
        BY <3>2, <2>8, <2>12 DEF Using, MapOf, PlaceOf
      <4>2. MapOf(v) \in Maps /\ PlaceOf(v) \in Places
        BY DEF IInv, TypeOK, MapOf, PlaceOf
      <4>3. PICK h \in Services :
               /\ map_player_socket_uid[<<h, MapOf(v), PlaceOf(v)>>] = v
               /\ \A k \in Services \ {h} :
                    map_player_socket_uid[<<k, MapOf(v), PlaceOf(v)>>] # v
        BY <4>1 DEF IInv, SeatTablesAgree
      <4>4. <<h, MapOf(v), PlaceOf(v)>> # <<g, m, i>>
        BY <4>3, <2>5, UidsAssumption
      <4>5. map_player_socket_uid'[<<h, MapOf(v), PlaceOf(v)>>] = v
        BY <4>2, <4>3, <4>4, <2>7
      <4>6. \A k \in Services \ {h} :
               map_player_socket_uid'[<<k, MapOf(v), PlaceOf(v)>>] # v
        BY <3>2, <4>2, <4>3, <2>7
      <4> QED BY <4>1, <4>5, <4>6
    <3> QED BY <3>1, <3>2
  <2> QED BY <2>10, <2>11, <2>12 DEF SeatTablesAgree
<1> QED BY <1>3, <1>4

\* The client sits at this service, at the place its entry names and no other.
LEMMA SeatOfRequester ==
    ASSUME IInv, NEW g \in Services, NEW u \in Uids, Using(u), stage[u].at = g
    PROVE  /\ MapOf(u) \in Maps /\ PlaceOf(u) \in Places
           /\ map_player_socket_uid[<<g, MapOf(u), PlaceOf(u)>>] = u
           /\ \A h \in Services, n \in Maps, j \in Places :
                 map_player_socket_uid[<<h, n, j>>] = u =>
                    <<h, n, j>> = <<g, MapOf(u), PlaceOf(u)>>
<1>1. MapOf(u) \in Maps /\ PlaceOf(u) \in Places
  BY DEF IInv, TypeOK, MapOf, PlaceOf
<1>2. u # INVALID
  BY UidsAssumption
<1>3. PICK h \in Services : map_player_socket_uid[<<h, MapOf(u), PlaceOf(u)>>] = u
  BY DEF IInv, SeatTablesAgree
<1>4. h = g
  BY <1>1, <1>2, <1>3 DEF IInv, AtItsService
<1>5. ASSUME NEW k \in Services, NEW n \in Maps, NEW j \in Places,
             map_player_socket_uid[<<k, n, j>>] = u
      PROVE  <<k, n, j>> = <<g, MapOf(u), PlaceOf(u)>>
  <2>1. stage[u].at = k
    BY <1>2, <1>5 DEF IInv, AtItsService
  <2>2. uid_2_playid[u] = [state |-> "USING", mapid |-> n, map_playerid |-> j]
    BY <1>2, <1>5 DEF IInv, SeatTablesAgree
  <2> QED BY <2>1, <2>2 DEF MapOf, PlaceOf
<1> QED BY <1>1, <1>3, <1>4, <1>5

LEMMA UserCloseKeeps ==
    ASSUME IInv, NEW g \in Services, UserClose(g)
    PROVE  AtItsService' /\ SeatTablesAgree'
<1> DEFINE u == Requester(g)
           m == MapOf(u)
           i == PlaceOf(u)
<1>1. Pop(g, "C") /\ UNCHANGED stage
  BY DEF UserClose
<1>2. u \in Uids /\ stage[u].at = g
  BY <1>1, RequesterIsHere
<1>3. CASE ~Using(u)
  <2>1. UNCHANGED tables
    BY <1>3 DEF UserClose
  <2> QED BY <1>1, <2>1, SeatsUntouched, ServiceUntouched DEF IInv, tables
<1>4. CASE Using(u)
  <2>1. /\ m \in Maps /\ i \in Places
        /\ map_player_socket_uid[<<g, m, i>>] = u
        /\ \A h \in Services, n \in Maps, j \in Places :
              map_player_socket_uid[<<h, n, j>>] = u => <<h, n, j>> = <<g, m, i>>
    BY <1>2, <1>4, SeatOfRequester
  <2>2. RemovePlayer(g, u)
    BY <1>4 DEF UserClose
  <2>3. /\ uid_2_playid' = [uid_2_playid EXCEPT ![u].state = "INVALID"]
        /\ map_player_socket_uid' = [map_player_socket_uid EXCEPT ![<<g, m, i>>] = INVALID]
        /\ player_state' = [player_state EXCEPT ![<<g, m, i>>] = "INVALID"]
    BY <2>1, <2>2 DEF RemovePlayer, Vacate
  <2> HIDE DEF u, m, i
  <2>4. ASSUME NEW h \in Services, NEW n \in Maps, NEW j \in Places
        PROVE  /\ <<h, n, j>> = <<g, m, i>> =>
                     /\ map_player_socket_uid'[<<h, n, j>>] = INVALID
                     /\ player_state'[<<h, n, j>>] = "INVALID"
               /\ <<h, n, j>> # <<g, m, i>> =>
                     /\ map_player_socket_uid'[<<h, n, j>>] = map_player_socket_uid[<<h, n, j>>]
                     /\ player_state'[<<h, n, j>>] = player_state[<<h, n, j>>]
    BY <2>3 DEF IInv, TypeOK, Seats
  <2>5. /\ uid_2_playid'[u].state = "INVALID"
        /\ \A v \in Uids \ {u} : uid_2_playid'[v] = uid_2_playid[v]
    BY <1>2, <2>3 DEF IInv, TypeOK
  <2>6. AtItsService'
    <3>1. \A h \in Services : \A k \in DOMAIN que_2_gamelogic'[h] :
             stage'[que_2_gamelogic'[h][k].uid].at = h
      BY <1>1, PopKeepsService
    <3>2. ASSUME NEW h \in Services, NEW n \in Maps, NEW j \in Places,
                 map_player_socket_uid'[<<h, n, j>>] # INVALID
          PROVE  stage[map_player_socket_uid'[<<h, n, j>>]].at = h
      BY <2>4, <3>2 DEF IInv, AtItsService
    <3> QED BY <1>1, <3>1, <3>2 DEF IInv, AtItsService
  <2>7. ASSUME NEW h \in Services, NEW n \in Maps, NEW j \in Places
        PROVE  /\ player_state'[<<h, n, j>>] = "USING"
                     <=> map_player_socket_uid'[<<h, n, j>>] # INVALID
               /\ map_player_socket_uid'[<<h, n, j>>] # INVALID =>
                     uid_2_playid'[map_player_socket_uid'[<<h, n, j>>]] =
                        [state |-> "USING", mapid |-> n, map_playerid |-> j]
    <3>1. CASE <<h, n, j>> = <<g, m, i>>
      BY <3>1, <2>4
    <3>2. CASE <<h, n, j>> # <<g, m, i>>
      <4>1. map_player_socket_uid[<<h, n, j>>] \in Uids \cup {INVALID}
        BY DEF IInv, TypeOK, Seats
      <4>2. map_player_socket_uid[<<h, n, j>>] # u
        BY <2>1, <3>2
      <4> QED BY <3>2, <4>1, <4>2, <2>4, <2>5 DEF IInv, SeatTablesAgree
    <3> QED BY <3>1, <3>2
  <2>8. ASSUME NEW v \in Uids, Using(v)'
        PROVE  \E h \in Services :
                  /\ map_player_socket_uid'[<<h, MapOf(v)', PlaceOf(v)'>>] = v
                  /\ \A k \in Services \ {h} :
                       map_player_socket_uid'[<<k, MapOf(v)', PlaceOf(v)'>>] # v
    <3>1. v # u
      BY <2>5, <2>8 DEF Using
    <3>2. Using(v) /\ MapOf(v)' = MapOf(v) /\ PlaceOf(v)' = PlaceOf(v)
      BY <3>1, <2>5, <2>8 DEF Using, MapOf, PlaceOf
    <3>3. MapOf(v) \in Maps /\ PlaceOf(v) \in Places
      BY DEF IInv, TypeOK, MapOf, PlaceOf
    <3>4. PICK h \in Services :
             /\ map_player_socket_uid[<<h, MapOf(v), PlaceOf(v)>>] = v
             /\ \A k \in Services \ {h} :
                  map_player_socket_uid[<<k, MapOf(v), PlaceOf(v)>>] # v
      BY <3>2 DEF IInv, SeatTablesAgree
    <3>5. map_player_socket_uid'[<<h, MapOf(v), PlaceOf(v)>>] = v
      BY <2>1, <2>4, <3>1, <3>3, <3>4
    <3>6. \A k \in Services \ {h} :
             map_player_socket_uid'[<<k, MapOf(v), PlaceOf(v)>>] # v
      BY <2>4, <3>3, <3>4, UidsAssumption
    <3> QED BY <3>2, <3>5, <3>6
  <2> QED BY <2>6, <2>7, <2>8 DEF SeatTablesAgree
<1> QED BY <1>3, <1>4

LEMMA EnvironmentKeeps ==
    ASSUME IInv, Environment, TypeOK'
    PROVE  AtItsService' /\ SeatTablesAgree'
<1>1. UNCHANGED <<uid_2_playid, map_player_socket_uid, player_state>>
  BY DEF Environment, Connect, Request, Disconnect, NetLogicDrain, Push, tables
<1>2. SeatTablesAgree'
  BY <1>1, SeatsUntouched DEF IInv
<1>3. stage' \in [Uids -> [at : Services \cup {INVALID},
                            sent : Requests \cup {"NONE", "S", "C"}]]
  BY DEF TypeOK
\* A client that has a service keeps it, and is not fresh again.
<1>4. ASSUME NEW g \in Services, NEW msg \in UserMsgs(Uids), Push(g, msg),
             stage'[msg.uid].at = g,
             \A v \in Uids : stage[v].at # INVALID => stage'[v].at = stage[v].at,
             \A v \in Uids : stage'[v].sent = "NONE" =>
                stage[v].sent = "NONE" /\ stage'[v].at = stage[v].at
      PROVE  AtItsService'
  <2>1. \A h \in Services : \A k \in DOMAIN que_2_gamelogic'[h] :
           stage'[que_2_gamelogic'[h][k].uid].at = h
    BY <1>3, <1>4, PushKeepsService
  <2>2. ASSUME NEW h \in Services, NEW n \in Maps, NEW j \in Places,
               map_player_socket_uid'[<<h, n, j>>] # INVALID
        PROVE  stage'[map_player_socket_uid'[<<h, n, j>>]].at = h
    <3>1. map_player_socket_uid[<<h, n, j>>] \in Uids \cup {INVALID}
      BY DEF IInv, TypeOK, Seats
    <3>2. stage[map_player_socket_uid[<<h, n, j>>]].at = h
      BY <1>1, <2>2 DEF IInv, AtItsService
    <3> QED BY <1>1, <1>4, <2>2, <3>1, <3>2, Ranges
  <2>3. \A v \in Uids : stage'[v].sent = "NONE" => stage'[v].at = INVALID
    BY <1>4 DEF IInv, AtItsService
  <2> QED BY <2>1, <2>2, <2>3 DEF AtItsService
<1>5. ASSUME NEW u \in Uids, NEW g \in Services, Connect(u, g)
      PROVE  AtItsService'
  <2>1. New(u) \in UserMsgs(Uids) /\ New(u).uid = u
    BY DEF New, UserMsgs
  <2>2. stage[u].at = INVALID
    BY <1>5 DEF Connect, IInv, AtItsService
  <2>3. /\ stage'[u] = [at |-> g, sent |-> "S"]
        /\ \A v \in Uids \ {u} : stage'[v] = stage[v]
    BY <1>5 DEF Connect, IInv, TypeOK
  <2>4. Push(g, New(u))
    BY <1>5 DEF Connect
  <2> QED BY <2>1, <2>2, <2>3, <2>4, <1>4
<1>6. ASSUME NEW u \in Uids, NEW r \in Requests, Request(u, r)
      PROVE  AtItsService'
  <2>1. Data(u, r) \in UserMsgs(Uids) /\ Data(u, r).uid = u
    BY DEF Data, UserMsgs
  <2>2. stage[u].at \in Services
    BY <1>6 DEF Request, Connected, IInv, TypeOK
  <2>3. /\ \A v \in Uids : stage'[v].at = stage[v].at
        /\ \A v \in Uids : stage'[v].sent = "NONE" => stage[v].sent = "NONE"
    <3>1. CASE Orderly
      <4>1. stage' = [stage EXCEPT ![u].sent =
                         IF r \in {"LOG_REQ", "GAME_START_REQ"} THEN r ELSE @]
        BY <1>6, <3>1 DEF Request
      <4>2. CASE r \in {"LOG_REQ", "GAME_START_REQ"}
        BY <4>1, <4>2 DEF IInv, TypeOK
      <4>3. CASE r \notin {"LOG_REQ", "GAME_START_REQ"}
        BY <4>1, <4>3 DEF IInv, TypeOK
      <4> QED BY <4>2, <4>3
    <3>2. CASE ~Orderly
      BY <1>6, <3>2 DEF Request
    <3> QED BY <3>1, <3>2
  <2>4. Push(stage[u].at, Data(u, r))
    BY <1>6 DEF Request
  <2> QED BY <2>1, <2>2, <2>3, <2>4, <1>4
<1>7. ASSUME NEW u \in Uids, Disconnect(u)
      PROVE  AtItsService'
  <2>1. Closed(u) \in UserMsgs(Uids) /\ Closed(u).uid = u
    BY DEF Closed, UserMsgs
  <2>2. stage[u].at \in Services
    BY <1>7 DEF Disconnect, Connected, IInv, TypeOK
  <2>3. /\ \A v \in Uids : stage'[v].at = stage[v].at
        /\ \A v \in Uids : stage'[v].sent = "NONE" => stage[v].sent = "NONE"
    <3>1. stage' = [stage EXCEPT ![u].sent = "C"]
      BY <1>7 DEF Disconnect
    <3> QED BY <3>1 DEF IInv, TypeOK
  <2>4. Push(stage[u].at, Closed(u))
    BY <1>7 DEF Disconnect
  <2> QED BY <2>1, <2>2, <2>3, <2>4, <1>4
<1>8. ASSUME NetLogicDrain
      PROVE  AtItsService'
  BY <1>1, <1>8 DEF NetLogicDrain, IInv, AtItsService
<1> QED BY <1>2, <1>5, <1>6, <1>7, <1>8 DEF Environment, Forwarded

LEMMA IInvStep == IInv /\ [Next]_vars => IInv'
<1> SUFFICES ASSUME IInv, [Next]_vars PROVE IInv'
  OBVIOUS
<1>1. TypeOK'
  BY TypeStep DEF IInv
<1>2. ASSUME NEW g \in Services, GameLogicStep(g)
      PROVE  AtItsService' /\ SeatTablesAgree'
  <2>1. ASSUME NEW t, Pop(g, t),
               UNCHANGED <<stage, uid_2_playid, map_player_socket_uid, player_state>>
        PROVE  AtItsService' /\ SeatTablesAgree'
    BY <2>1, SeatsUntouched, ServiceUntouched DEF IInv
  <2>2. CASE NewPlayer(g) BY <2>2, NewPlayerKeeps
  <2>3. CASE Login(g)     BY <2>1, <2>3 DEF Login, PopRequest
  <2>4. CASE Start(g)     BY <2>1, <2>4 DEF Start, PopRequest
  <2>5. CASE Move(g)      BY <2>1, <2>5 DEF Move, PopRequest, tables
  <2>6. CASE Leave(g)     BY <2>1, <2>6 DEF Leave, PopRequest, tables
  <2>7. CASE Ignore(g)    BY <2>1, <2>7 DEF Ignore, PopRequest, tables
  <2>8. CASE UserClose(g) BY <2>8, UserCloseKeeps
  <2>9. CASE NullRequest(g) BY <2>1, <2>9 DEF NullRequest, PopRequest, tables
  <2> QED BY <1>2, <2>2, <2>3, <2>4, <2>5, <2>6, <2>7, <2>8, <2>9 DEF GameLogicStep
<1>3. ASSUME Environment PROVE AtItsService' /\ SeatTablesAgree'
  BY <1>1, <1>3, EnvironmentKeeps
<1>4. ASSUME UNCHANGED vars PROVE AtItsService' /\ SeatTablesAgree'
  <2>1. UNCHANGED <<que_2_gamelogic, stage, uid_2_playid, map_player_socket_uid, player_state>>
    BY <1>4 DEF vars, tables
  <2>2. SeatTablesAgree'
    BY <2>1, SeatsUntouched DEF IInv
  <2> QED BY <2>1, <2>2 DEF IInv, AtItsService
<1> QED BY <1>1, <1>2, <1>3, <1>4 DEF IInv, Next

(***************************************************************************)
(* The three seat tables agree whatever the services handle in whatever    *)
(* order, although uid_2_playid is shared by their threads and the three   *)
(* are read separately (game_logic.c:313-388).                             *)
(***************************************************************************)
THEOREM SeatsCorrect == Spec => []SeatTablesAgree
<1>1. IInv => SeatTablesAgree
  BY DEF IInv
<1> QED BY <1>1, IInvInit, IInvStep, PTL DEF Spec

(***************************************************************************)
(* The messages and the place of a client are at one service: no two game  *)
(* threads ever touch the same entry of uid_2_playid (net_logic.c:154-178, *)
(* game_logic.c:313-388).                                                  *)
(***************************************************************************)
THEOREM OneService == Spec => []AtItsService
<1>1. IInv => AtItsService
  BY DEF IInv
<1> QED BY <1>1, IInvInit, IInvStep, PTL DEF Spec
-----------------------------------------------------------------------------
(* The count of a service's clients.                                       *)

\* Whom a table of places seats at a service.
SeatedIn(table, g) == {u \in Uids : \E m \in Maps, i \in Places : table[<<g, m, i>>] = u}

LEMMA SeatedInIs ==
    ASSUME NEW table \in [Seats -> Uids \cup {INVALID}], NEW g \in Services
    PROVE  /\ UNION {{table[<<g, m, i>>] : i \in Places} \ {INVALID} : m \in Maps}
                 = SeatedIn(table, g)
           /\ IsFiniteSet(SeatedIn(table, g))
<1> DEFINE At(m) == {table[<<g, m, i>>] : i \in Places} \ {INVALID}
<1>1. ASSUME NEW m \in Maps, NEW u PROVE u \in At(m) <=>
         u \in Uids /\ \E i \in Places : table[<<g, m, i>>] = u
  BY <1>1, UidsAssumption DEF Seats
<1> HIDE DEF At
<1>2. \A u : u \in UNION {At(m) : m \in Maps} <=> \E m \in Maps : u \in At(m)
  OBVIOUS
<1>3. \A u : u \in SeatedIn(table, g) <=>
         u \in Uids /\ \E m \in Maps, i \in Places : table[<<g, m, i>>] = u
  BY DEF SeatedIn
<1>4. UNION {At(m) : m \in Maps} = SeatedIn(table, g)
  BY <1>1, <1>2, <1>3
<1>5. IsFiniteSet(SeatedIn(table, g))
  BY UidsAssumption, FS_Subset DEF SeatedIn
<1> QED BY <1>4, <1>5 DEF At

\* One place changes: somebody new takes it, or the only place of u is left.
LEMMA SeatTaken ==
    ASSUME NEW table \in [Seats -> Uids \cup {INVALID}],
           NEW g \in Services, NEW m \in Maps, NEW i \in Places, NEW u \in Uids,
           NEW new, new[<<g, m, i>>] = u,
           \A h \in Services, n \in Maps, j \in Places :
              <<h, n, j>> # <<g, m, i>> => new[<<h, n, j>>] = table[<<h, n, j>>],
           table[<<g, m, i>>] = INVALID
    PROVE  /\ \A h \in Services \ {g} : SeatedIn(new, h) = SeatedIn(table, h)
           /\ SeatedIn(new, g) = SeatedIn(table, g) \cup {u}
<1>1. \A h \in Services \ {g} : SeatedIn(new, h) = SeatedIn(table, h)
  BY DEF SeatedIn
<1>2. ASSUME NEW w \in Uids, w # u
      PROVE  w \in SeatedIn(new, g) <=> w \in SeatedIn(table, g)
  <2>1. \A n \in Maps, j \in Places : new[<<g, n, j>>] = w <=> table[<<g, n, j>>] = w
    <3> SUFFICES ASSUME NEW n \in Maps, NEW j \in Places
                 PROVE  new[<<g, n, j>>] = w <=> table[<<g, n, j>>] = w
      OBVIOUS
    <3>1. CASE <<g, n, j>> = <<g, m, i>>
      BY <1>2, <3>1, UidsAssumption
    <3>2. CASE <<g, n, j>> # <<g, m, i>>
      BY <3>2
    <3> QED BY <3>1, <3>2
  <2> QED BY <2>1 DEF SeatedIn
<1>3. u \in SeatedIn(new, g)
  BY DEF SeatedIn
<1>4. SeatedIn(new, g) \subseteq Uids /\ SeatedIn(table, g) \subseteq Uids
  BY DEF SeatedIn
<1> QED BY <1>1, <1>2, <1>3, <1>4

LEMMA SeatLeft ==
    ASSUME NEW table \in [Seats -> Uids \cup {INVALID}],
           NEW g \in Services, NEW m \in Maps, NEW i \in Places, NEW u \in Uids,
           NEW new, new[<<g, m, i>>] = INVALID,
           \A h \in Services, n \in Maps, j \in Places :
              <<h, n, j>> # <<g, m, i>> => new[<<h, n, j>>] = table[<<h, n, j>>],
           table[<<g, m, i>>] = u,
           \A n \in Maps, j \in Places : table[<<g, n, j>>] = u => <<g, n, j>> = <<g, m, i>>
    PROVE  /\ \A h \in Services \ {g} : SeatedIn(new, h) = SeatedIn(table, h)
           /\ SeatedIn(new, g) = SeatedIn(table, g) \ {u}
           /\ u \in SeatedIn(table, g)
<1>1. \A h \in Services \ {g} : SeatedIn(new, h) = SeatedIn(table, h)
  BY DEF SeatedIn
<1>2. ASSUME NEW w \in Uids, w # u
      PROVE  w \in SeatedIn(new, g) <=> w \in SeatedIn(table, g)
  <2>1. \A n \in Maps, j \in Places : new[<<g, n, j>>] = w <=> table[<<g, n, j>>] = w
    <3> SUFFICES ASSUME NEW n \in Maps, NEW j \in Places
                 PROVE  new[<<g, n, j>>] = w <=> table[<<g, n, j>>] = w
      OBVIOUS
    <3>1. CASE <<g, n, j>> = <<g, m, i>>
      BY <1>2, <3>1, UidsAssumption
    <3>2. CASE <<g, n, j>> # <<g, m, i>>
      BY <3>2
    <3> QED BY <3>1, <3>2
  <2> QED BY <2>1 DEF SeatedIn
<1>3. u \notin SeatedIn(new, g)
  BY UidsAssumption DEF SeatedIn
<1>4. SeatedIn(new, g) \subseteq Uids /\ SeatedIn(table, g) \subseteq Uids
      /\ u \in SeatedIn(table, g)
  BY DEF SeatedIn
<1> QED BY <1>1, <1>2, <1>3, <1>4

\* Each counter is the number of clients its service has in the table.
Counted(nums, table) == \A g \in Services : nums[g] = Cardinality(SeatedIn(table, g))

LEMMA CountedIs ==
    ASSUME TypeOK
    PROVE  PlayersCounted <=> Counted(player_num, map_player_socket_uid)
<1>1. map_player_socket_uid \in [Seats -> Uids \cup {INVALID}]
  BY DEF TypeOK
<1>2. \A g \in Services : UNION {Occupants(g, m) : m \in Maps}
         = SeatedIn(map_player_socket_uid, g)
  BY <1>1, SeatedInIs DEF Occupants
<1> QED BY <1>2 DEF PlayersCounted, Counted

LEMMA NewPlayerCounts ==
    ASSUME IInv, Counted(player_num, map_player_socket_uid), NEW g \in Services, NewPlayer(g)
    PROVE  Counted(player_num, map_player_socket_uid)'
<1> DEFINE u == Head(que_2_gamelogic[g]).uid
           m == First(OpenMaps(g))
           i == First(FreePlaces(g, m))
           seats == map_player_socket_uid
<1>1. u \in Uids
  BY PoppedType DEF NewPlayer, IInv
<1>2. CASE UNCHANGED <<player_num, map_player_socket_uid>>
  BY <1>2 DEF Counted
<1>3. CASE ~UNCHANGED <<player_num, map_player_socket_uid>>
  <2>1. ~Using(u) /\ OpenMaps(g) # {} /\ FreePlaces(g, m) # {} /\ TakePlace(g, u, m, i)
    BY <1>3 DEF NewPlayer
  <2>2. m \in Maps
    <3>1. OpenMaps(g) \subseteq Maps
      BY DEF OpenMaps
    <3> QED BY <2>1, <3>1, FirstIsMember, Ranges
  <2>3. i \in Places
    <3>1. FreePlaces(g, m) \subseteq Places
      BY DEF FreePlaces
    <3> QED BY <2>1, <3>1, FirstIsMember, Ranges
  <2> HIDE DEF u, m, i
  <2>4. /\ seats[<<g, m, i>>] = INVALID
        /\ seats' = [seats EXCEPT ![<<g, m, i>>] = u]
        /\ player_num' = [player_num EXCEPT ![g] = @ + 1]
    BY <1>3, <2>1 DEF TakePlace
  <2>5. seats \in [Seats -> Uids \cup {INVALID}] /\ player_num \in [Services -> Int]
    BY DEF IInv, TypeOK
  <2>6. u # INVALID
    BY <1>1, UidsAssumption
  <2>7. u \notin SeatedIn(seats, g)
    <3> SUFFICES ASSUME u \in SeatedIn(seats, g) PROVE FALSE
      OBVIOUS
    <3>1. PICK n \in Maps, j \in Places : seats[<<g, n, j>>] = u
      BY DEF SeatedIn
    <3>2. uid_2_playid[u] = [state |-> "USING", mapid |-> n, map_playerid |-> j]
      BY <2>6, <3>1 DEF IInv, SeatTablesAgree
    <3> QED BY <2>1, <3>2 DEF Using
  <2>8. /\ \A h \in Services \ {g} : SeatedIn(seats', h) = SeatedIn(seats, h)
        /\ SeatedIn(seats', g) = SeatedIn(seats, g) \cup {u}
    <3>1. /\ seats'[<<g, m, i>>] = u
          /\ \A h \in Services, n \in Maps, j \in Places :
                <<h, n, j>> # <<g, m, i>> => seats'[<<h, n, j>>] = seats[<<h, n, j>>]
      BY <2>4, <2>5, <2>2, <2>3 DEF Seats
    <3>2. seats[<<g, m, i>>] = INVALID
      BY <2>4
    <3> QED BY <3>1, <3>2, <1>1, <2>2, <2>3, <2>5, SeatTaken
  <2>9. Cardinality(SeatedIn(seats', g)) = Cardinality(SeatedIn(seats, g)) + 1
    <3>1. IsFiniteSet(SeatedIn(seats, g))
      BY <2>5, SeatedInIs
    <3> QED BY <2>7, <2>8, <3>1, FS_AddElement
  <2>10. ASSUME NEW h \in Services PROVE player_num'[h] = Cardinality(SeatedIn(seats', h))
    BY <2>4, <2>5, <2>8, <2>9 DEF Counted
  <2> QED BY <2>10 DEF Counted
<1> QED BY <1>2, <1>3

LEMMA UserCloseCounts ==
    ASSUME IInv, Counted(player_num, map_player_socket_uid), NEW g \in Services, UserClose(g)
    PROVE  Counted(player_num, map_player_socket_uid)'
<1> DEFINE u == Requester(g)
           m == MapOf(u)
           i == PlaceOf(u)
           seats == map_player_socket_uid
<1>1. u \in Uids /\ stage[u].at = g
  BY RequesterIsHere DEF UserClose
<1>2. CASE ~Using(u)
  <2>1. UNCHANGED <<player_num, map_player_socket_uid>>
    BY <1>2 DEF UserClose, tables
  <2> QED BY <2>1 DEF Counted
<1>3. CASE Using(u)
  <2>1. /\ m \in Maps /\ i \in Places /\ seats[<<g, m, i>>] = u
        /\ \A h \in Services, n \in Maps, j \in Places :
              seats[<<h, n, j>>] = u => <<h, n, j>> = <<g, m, i>>
    BY <1>1, <1>3, SeatOfRequester
  <2>2. RemovePlayer(g, u)
    BY <1>3 DEF UserClose
  <2>3. /\ seats' = [seats EXCEPT ![<<g, m, i>>] = INVALID]
        /\ player_num' = [player_num EXCEPT ![g] = @ - 1]
    BY <2>1, <2>2 DEF RemovePlayer, Vacate, CountOut
  <2> HIDE DEF u, m, i
  <2>4. seats \in [Seats -> Uids \cup {INVALID}] /\ player_num \in [Services -> Int]
    BY DEF IInv, TypeOK
  <2>5. \A n \in Maps, j \in Places : seats[<<g, n, j>>] = u => <<g, n, j>> = <<g, m, i>>
    BY <2>1
  <2>6. /\ \A h \in Services \ {g} : SeatedIn(seats', h) = SeatedIn(seats, h)
        /\ SeatedIn(seats', g) = SeatedIn(seats, g) \ {u}
        /\ u \in SeatedIn(seats, g)
    <3>1. /\ seats'[<<g, m, i>>] = INVALID
          /\ \A h \in Services, n \in Maps, j \in Places :
                <<h, n, j>> # <<g, m, i>> => seats'[<<h, n, j>>] = seats[<<h, n, j>>]
      BY <2>3, <2>4, <2>1 DEF Seats
    <3> QED BY <3>1, <1>1, <2>1, <2>4, <2>5, SeatLeft
  <2>7. Cardinality(SeatedIn(seats', g)) = Cardinality(SeatedIn(seats, g)) - 1
    <3>1. IsFiniteSet(SeatedIn(seats, g))
      BY <2>4, SeatedInIs
    <3> QED BY <2>6, <3>1, FS_RemoveElement
  <2>8. ASSUME NEW h \in Services PROVE player_num'[h] = Cardinality(SeatedIn(seats', h))
    BY <2>3, <2>4, <2>6, <2>7 DEF Counted
  <2> QED BY <2>8 DEF Counted
<1> QED BY <1>2, <1>3

(***************************************************************************)
(* player_num is the number of clients seated on all maps of the service:  *)
(* the guard of game_route_get_mapid counts what it is meant to, whatever  *)
(* requests clients send (game_logic.c:272, 339, 364).                     *)
(***************************************************************************)
THEOREM PlayersCorrect == Spec => []PlayersCounted
<1> DEFINE Good == Counted(player_num, map_player_socket_uid)
<1>1. Init => Good
  <2> SUFFICES ASSUME Init PROVE Good
    OBVIOUS
  <2>1. ASSUME NEW g \in Services PROVE SeatedIn(map_player_socket_uid, g) = {}
    BY UidsAssumption DEF Init, TablesInit, SeatedIn
  <2>2. \A g \in Services : player_num[g] = 0
    BY DEF Init, TablesInit
  <2> QED BY <2>1, <2>2, FS_EmptySet DEF Counted
<1>2. IInv /\ Good /\ [Next]_vars => Good'
  <2> SUFFICES ASSUME IInv, Good, [Next]_vars PROVE Good'
    OBVIOUS
  <2>1. ASSUME UNCHANGED <<player_num, map_player_socket_uid>> PROVE Good'
    BY <2>1 DEF Counted
  <2>2. ASSUME NEW g \in Services, GameLogicStep(g) PROVE Good'
    <3>1. CASE NewPlayer(g) BY <3>1, NewPlayerCounts
    <3>2. CASE Login(g)     BY <2>1, <3>2 DEF Login
    <3>3. CASE Start(g)     BY <2>1, <3>3 DEF Start
    <3>4. CASE Move(g) \/ Leave(g) \/ NullRequest(g) \/ Ignore(g)
      BY <2>1, <3>4 DEF Move, Leave, NullRequest, Ignore, tables
    <3>5. CASE UserClose(g) BY <3>5, UserCloseCounts
    <3> QED BY <2>2, <3>1, <3>2, <3>3, <3>4, <3>5 DEF GameLogicStep
  <2>3. ASSUME Environment PROVE Good'
    BY <2>1, <2>3 DEF Environment, Connect, Request, Disconnect, NetLogicDrain, Push, tables
  <2>4. ASSUME UNCHANGED vars PROVE Good'
    BY <2>1, <2>4 DEF vars, tables
  <2> QED BY <2>2, <2>3, <2>4 DEF Next
<1>3. IInv /\ Good => PlayersCounted
  BY CountedIs DEF IInv
<1> HIDE DEF Good
<1> QED BY <1>1, <1>2, <1>3, IInvInit, IInvStep, PTL DEF Spec

-----------------------------------------------------------------------------
(* The order in which the messages of a client wait.                       *)

\* A message's turn in the life of a client.  Only an orderly client keeps
\* its login and its start before the other requests.
Turn(m) ==
    IF m.type = "S" THEN 0 ELSE
    IF m.type = "C" THEN 4 ELSE
    IF Orderly /\ m.req = "LOG_REQ" THEN 1 ELSE
    IF Orderly /\ m.req = "GAME_START_REQ" THEN 2 ELSE 3

\* The turn of the last message a client may have sent.
Reached(sent) ==
    IF sent = "NONE" THEN -1 ELSE
    IF sent = "C" THEN 4 ELSE
    IF Orderly /\ sent = "S" THEN 0 ELSE
    IF Orderly /\ sent = "LOG_REQ" THEN 1 ELSE 3

InTurn ==
    \A g \in Services :
        /\ \A i, j \in DOMAIN que_2_gamelogic[g] :
              i < j /\ que_2_gamelogic[g][i].uid = que_2_gamelogic[g][j].uid =>
                 \/ Turn(que_2_gamelogic[g][i]) < Turn(que_2_gamelogic[g][j])
                 \/ (Turn(que_2_gamelogic[g][i]) = 3 /\ Turn(que_2_gamelogic[g][j]) = 3)
        /\ \A i \in DOMAIN que_2_gamelogic[g] :
              Turn(que_2_gamelogic[g][i]) <= Reached(stage[que_2_gamelogic[g][i].uid].sent)

Waits(u, n) ==
    \E g \in Services : \E i \in DOMAIN que_2_gamelogic[g] :
        que_2_gamelogic[g][i].uid = u /\ Turn(que_2_gamelogic[g][i]) = n

LEMMA TurnIs ==
    ASSUME NEW m \in UserMsgs(Uids)
    PROVE  /\ Turn(m) \in 0 .. 4
           /\ m.type = "S" <=> Turn(m) = 0
           /\ m.type = "C" <=> Turn(m) = 4
<1>1. CASE m \in [type : {"S", "C"}, uid : Uids, req : {"NONE"}]
  BY <1>1 DEF Turn
<1>2. CASE m \in [type : {"D"}, uid : Uids, req : Requests]
  BY <1>2 DEF Turn
<1> QED BY <1>1, <1>2 DEF UserMsgs

LEMMA ReachedIs == \A sent : Reached(sent) \in {-1, 0, 1, 3, 4}
BY DEF Reached

LEMMA QueueType ==
    ASSUME TypeOK, NEW g \in Services
    PROVE  /\ que_2_gamelogic[g] \in Seq(UserMsgs(Uids))
           /\ \A i \in DOMAIN que_2_gamelogic[g] :
                 /\ que_2_gamelogic[g][i] \in UserMsgs(Uids)
                 /\ que_2_gamelogic[g][i].uid \in Uids
                 /\ Turn(que_2_gamelogic[g][i]) \in 0 .. 4
<1>1. que_2_gamelogic[g] \in Seq(UserMsgs(Uids))
  BY DEF TypeOK
<1>2. \A m \in UserMsgs(Uids) : m.uid \in Uids
  BY DEF UserMsgs
<1> QED BY <1>1, <1>2, TurnIs

LEMMA PopWaits ==
    ASSUME IInv, InTurn, NEW g \in Services, NEW t, Pop(g, t), UNCHANGED stage
    PROVE  /\ InTurn'
           /\ Waits(Requester(g), Turn(Head(que_2_gamelogic[g])))
           /\ \A n \in 0 .. 4 : n < Turn(Head(que_2_gamelogic[g])) => ~Waits(Requester(g), n)
           /\ \A v \in Uids, n \in 0 .. 4 :
                 v # Requester(g) \/ n # Turn(Head(que_2_gamelogic[g]))
                    => (Waits(v, n)' <=> Waits(v, n))
           /\ \A v \in Uids, n \in 0 .. 4 :
                 v = Requester(g) /\ n = Turn(Head(que_2_gamelogic[g])) /\ n # 3 => ~Waits(v, n)'
           /\ \A v \in Uids, n \in 0 .. 4 : Waits(v, n)' => Waits(v, n)
<1> DEFINE q == que_2_gamelogic[g]
           u == Requester(g)
           k == Turn(Head(q))
<1>1. /\ q \in Seq(UserMsgs(Uids)) /\ q # <<>>
      /\ que_2_gamelogic'[g] = Tail(q)
      /\ \A h \in Services \ {g} : que_2_gamelogic'[h] = que_2_gamelogic[h]
      /\ \A h \in Services : DOMAIN que_2_gamelogic[h] \subseteq Nat
  <2>1. \A h \in Services : que_2_gamelogic[h] \in Seq(UserMsgs(Uids))
    BY QueueType DEF IInv
  <2> QED BY <2>1 DEF IInv, TypeOK, Pop
<1>2. /\ 1 \in DOMAIN q /\ Head(q) = q[1] /\ u = q[1].uid
      /\ \A i \in DOMAIN q : i \in Nat /\ 1 <= i
      /\ \A i \in DOMAIN Tail(q) : i + 1 \in DOMAIN q /\ Tail(q)[i] = q[i + 1]
      /\ \A i \in DOMAIN q : i # 1 => i - 1 \in DOMAIN Tail(q)
      /\ DOMAIN Tail(q) \subseteq Nat
  BY <1>1 DEF Requester
<1>3. u \in Uids /\ stage[u].at = g /\ k \in 0 .. 4
  BY <1>2, RequesterIsHere, QueueType DEF IInv
<1>4. \A h \in Services : \A i \in DOMAIN que_2_gamelogic[h] :
         que_2_gamelogic[h][i].uid = u => h = g
  BY <1>3 DEF IInv, AtItsService
<1>5. \A i \in DOMAIN q : Turn(q[i]) \in 0 .. 4
  BY QueueType DEF IInv
<1> HIDE DEF q, u, k
<1>6. \A i, j \in DOMAIN q : i < j /\ q[i].uid = q[j].uid =>
         Turn(q[i]) < Turn(q[j]) \/ (Turn(q[i]) = 3 /\ Turn(q[j]) = 3)
  BY DEF InTurn, q
<1>7. \A i \in DOMAIN q : Turn(q[i]) <= Reached(stage[q[i].uid].sent)
  BY DEF InTurn, q
<1>8. InTurn'
  <2> SUFFICES ASSUME NEW h \in Services
               PROVE  /\ \A i, j \in DOMAIN que_2_gamelogic'[h] :
                           i < j /\ que_2_gamelogic'[h][i].uid = que_2_gamelogic'[h][j].uid =>
                              \/ Turn(que_2_gamelogic'[h][i]) < Turn(que_2_gamelogic'[h][j])
                              \/ /\ Turn(que_2_gamelogic'[h][i]) = 3
                                 /\ Turn(que_2_gamelogic'[h][j]) = 3
                      /\ \A i \in DOMAIN que_2_gamelogic'[h] :
                           Turn(que_2_gamelogic'[h][i])
                              <= Reached(stage'[que_2_gamelogic'[h][i].uid].sent)
    BY DEF InTurn, Turn, Reached
  <2>1. CASE h = g
    <3>1. \A i, j \in DOMAIN Tail(q) : i < j /\ Tail(q)[i].uid = Tail(q)[j].uid =>
             \/ Turn(Tail(q)[i]) < Turn(Tail(q)[j])
             \/ Turn(Tail(q)[i]) = 3 /\ Turn(Tail(q)[j]) = 3
      BY <1>2, <1>6
    <3>2. \A i \in DOMAIN Tail(q) : Turn(Tail(q)[i]) <= Reached(stage[Tail(q)[i].uid].sent)
      BY <1>2, <1>7
    <3> QED BY <2>1, <3>1, <3>2, <1>1
  <2>2. CASE h # g
    BY <2>2, <1>1 DEF InTurn
  <2> QED BY <2>1, <2>2
<1>9. Waits(u, k)
  BY <1>2 DEF Waits, q, k
<1>10. ASSUME NEW n \in 0 .. 4, n < k, Waits(u, n) PROVE FALSE
  <2>1. PICK h \in Services : \E i \in DOMAIN que_2_gamelogic[h] :
           que_2_gamelogic[h][i].uid = u /\ Turn(que_2_gamelogic[h][i]) = n
    BY <1>10 DEF Waits
  <2>2. PICK i \in DOMAIN q : q[i].uid = u /\ Turn(q[i]) = n
    BY <2>1, <1>4 DEF q
  <2>3. i # 1 /\ 1 < i
    BY <2>2, <1>2, <1>3, <1>10 DEF k
  <2> QED BY <2>2, <2>3, <1>2, <1>3, <1>5, <1>6, <1>10 DEF k
<1>11. ASSUME NEW v \in Uids, NEW n \in 0 .. 4, Waits(v, n)' PROVE Waits(v, n)
  <2>1. PICK h \in Services : \E i \in DOMAIN que_2_gamelogic'[h] :
           que_2_gamelogic'[h][i].uid = v /\ Turn(que_2_gamelogic'[h][i]) = n
    BY <1>11 DEF Waits, Turn
  <2>2. CASE h = g
    <3>1. PICK i \in DOMAIN Tail(q) : Tail(q)[i].uid = v /\ Turn(Tail(q)[i]) = n
      BY <2>1, <2>2, <1>1
    <3>2. i + 1 \in DOMAIN q /\ q[i + 1].uid = v /\ Turn(q[i + 1]) = n
      BY <3>1, <1>2
    <3> QED BY <3>2 DEF Waits, q
  <2>3. CASE h # g
    BY <2>1, <2>3, <1>1 DEF Waits
  <2> QED BY <2>2, <2>3
<1>12. ASSUME NEW v \in Uids, NEW n \in 0 .. 4, v # u \/ n # k, Waits(v, n)
       PROVE  Waits(v, n)'
  <2>1. PICK h \in Services : \E i \in DOMAIN que_2_gamelogic[h] :
           que_2_gamelogic[h][i].uid = v /\ Turn(que_2_gamelogic[h][i]) = n
    BY <1>12 DEF Waits
  <2>2. CASE h = g
    <3>1. PICK i \in DOMAIN q : q[i].uid = v /\ Turn(q[i]) = n
      BY <2>1, <2>2 DEF q
    <3>2. i # 1
      BY <3>1, <1>2, <1>12 DEF k
    <3>3. i - 1 \in DOMAIN Tail(q) /\ Tail(q)[i - 1] = q[i]
      <4>1. i - 1 \in DOMAIN Tail(q) /\ i \in Nat
        BY <3>1, <3>2, <1>2
      <4>2. (i - 1) + 1 = i
        BY <4>1
      <4> QED BY <4>1, <4>2, <1>2
    <3>4. \E j \in DOMAIN que_2_gamelogic'[g] :
             que_2_gamelogic'[g][j].uid = v /\ Turn(que_2_gamelogic'[g][j]) = n
      BY <3>1, <3>3, <1>1
    <3> QED BY <3>4 DEF Waits, Turn
  <2>3. CASE h # g
    <3>1. \E i \in DOMAIN que_2_gamelogic'[h] :
             que_2_gamelogic'[h][i].uid = v /\ Turn(que_2_gamelogic'[h][i]) = n
      BY <2>1, <2>3, <1>1
    <3> QED BY <3>1 DEF Waits, Turn
  <2> QED BY <2>2, <2>3
<1>13. ASSUME NEW v \in Uids, NEW n \in 0 .. 4, v = u, n = k, n # 3, Waits(v, n)'
       PROVE  FALSE
  <2>1. PICK h \in Services : \E i \in DOMAIN que_2_gamelogic'[h] :
           que_2_gamelogic'[h][i].uid = u /\ Turn(que_2_gamelogic'[h][i]) = k
    BY <1>13 DEF Waits, Turn
  <2>2. h = g
    BY <2>1, <1>1, <1>4
  <2>3. PICK i \in DOMAIN Tail(q) : Tail(q)[i].uid = u /\ Turn(Tail(q)[i]) = k
    BY <2>1, <2>2, <1>1
  <2>4. i + 1 \in DOMAIN q /\ q[i + 1].uid = u /\ Turn(q[i + 1]) = k /\ 1 < i + 1
    BY <2>3, <1>2
  <2>5. Turn(q[1]) = k /\ q[1].uid = u
    BY <1>2 DEF k
  <2> QED BY <2>4, <2>5, <1>2, <1>3, <1>6, <1>13
<1> QED BY <1>8, <1>9, <1>10, <1>11, <1>12, <1>13 DEF u, k, q

LEMMA PushWaits ==
    ASSUME IInv, InTurn, NEW g \in Services, NEW m \in UserMsgs(Uids), Push(g, m),
           Turn(m) <= Reached(stage'[m.uid].sent),
           Reached(stage[m.uid].sent) < Turn(m)
              \/ (Reached(stage[m.uid].sent) = 3 /\ Turn(m) = 3),
           \A v \in Uids \ {m.uid} : stage'[v] = stage[v]
    PROVE  /\ InTurn'
           /\ \A v \in Uids, n \in 0 .. 4 :
                 Waits(v, n)' <=> Waits(v, n) \/ (v = m.uid /\ n = Turn(m))
<1> DEFINE q == que_2_gamelogic[g]
           u == m.uid
           p == Append(q, m)
<1>1. /\ q \in Seq(UserMsgs(Uids))
      /\ que_2_gamelogic'[g] = p
      /\ \A h \in Services \ {g} : que_2_gamelogic'[h] = que_2_gamelogic[h]
  BY QueueType DEF IInv, TypeOK, Push
<1>2. /\ DOMAIN p = 1 .. Len(q) + 1 /\ DOMAIN q = 1 .. Len(q) /\ Len(q) \in Nat
      /\ \A i \in DOMAIN q : p[i] = q[i]
      /\ p[Len(q) + 1] = m
  BY <1>1
<1>3. u \in Uids /\ Turn(m) \in 0 .. 4
  BY TurnIs DEF UserMsgs
<1>4. \A h \in Services : \A i \in DOMAIN que_2_gamelogic[h] :
         /\ que_2_gamelogic[h][i].uid \in Uids
         /\ Turn(que_2_gamelogic[h][i]) \in 0 .. 4
  BY QueueType DEF IInv
<1>5. Reached(stage[u].sent) \in -1 .. 4 /\ Reached(stage'[u].sent) \in -1 .. 4
  BY ReachedIs
<1>6. \A h \in Services : \A i \in DOMAIN que_2_gamelogic[h] :
         Turn(que_2_gamelogic[h][i]) <= Reached(stage[que_2_gamelogic[h][i].uid].sent)
  BY DEF InTurn
<1>7. \A h \in Services : \A i \in DOMAIN que_2_gamelogic[h] :
         Turn(que_2_gamelogic[h][i]) <= Reached(stage'[que_2_gamelogic[h][i].uid].sent)
  <2> SUFFICES ASSUME NEW h \in Services, NEW i \in DOMAIN que_2_gamelogic[h]
               PROVE  Turn(que_2_gamelogic[h][i])
                         <= Reached(stage'[que_2_gamelogic[h][i].uid].sent)
    OBVIOUS
  <2>1. CASE que_2_gamelogic[h][i].uid = u
    BY <2>1, <1>3, <1>4, <1>5, <1>6
  <2>2. CASE que_2_gamelogic[h][i].uid # u
    BY <2>2, <1>4, <1>6
  <2> QED BY <2>1, <2>2
<1> HIDE DEF q, u, p
<1>8. InTurn'
  <2> SUFFICES ASSUME NEW h \in Services
               PROVE  /\ \A i, j \in DOMAIN que_2_gamelogic'[h] :
                           i < j /\ que_2_gamelogic'[h][i].uid = que_2_gamelogic'[h][j].uid =>
                              \/ Turn(que_2_gamelogic'[h][i]) < Turn(que_2_gamelogic'[h][j])
                              \/ /\ Turn(que_2_gamelogic'[h][i]) = 3
                                 /\ Turn(que_2_gamelogic'[h][j]) = 3
                      /\ \A i \in DOMAIN que_2_gamelogic'[h] :
                           Turn(que_2_gamelogic'[h][i])
                              <= Reached(stage'[que_2_gamelogic'[h][i].uid].sent)
    BY DEF InTurn, Turn, Reached
  <2>1. CASE h = g
    <3>1. ASSUME NEW i \in DOMAIN p, NEW j \in DOMAIN p, i < j, p[i].uid = p[j].uid
          PROVE  Turn(p[i]) < Turn(p[j]) \/ (Turn(p[i]) = 3 /\ Turn(p[j]) = 3)
      <4>1. i \in DOMAIN q /\ p[i] = q[i]
        BY <3>1, <1>2
      <4>2. CASE j \in DOMAIN q
        <5>1. p[j] = q[j]
          BY <4>2, <1>2
        <5> QED BY <3>1, <4>1, <4>2, <5>1 DEF InTurn, q
      <4>3. CASE j \notin DOMAIN q
        <5>1. p[j] = m
          BY <4>3, <1>2
        <5>2. Turn(q[i]) <= Reached(stage[u].sent) /\ Turn(q[i]) \in 0 .. 4
          BY <3>1, <4>1, <5>1, <1>4, <1>6 DEF q, u
        <5> QED BY <4>1, <5>1, <5>2, <1>3, <1>5 DEF u
      <4> QED BY <4>2, <4>3
    <3>2. ASSUME NEW i \in DOMAIN p PROVE Turn(p[i]) <= Reached(stage'[p[i].uid].sent)
      <4>1. CASE i \in DOMAIN q
        BY <4>1, <1>2, <1>7 DEF q
      <4>2. CASE i \notin DOMAIN q
        <5>1. p[i] = m
          BY <4>2, <1>2
        <5> QED BY <5>1
      <4> QED BY <4>1, <4>2
    <3> QED BY <2>1, <3>1, <3>2, <1>1
  <2>2. CASE h # g
    <3>1. que_2_gamelogic'[h] = que_2_gamelogic[h]
      BY <2>2, <1>1
    <3> QED BY <3>1, <1>7 DEF InTurn
  <2> QED BY <2>1, <2>2
<1>9. ASSUME NEW v \in Uids, NEW n \in 0 .. 4, Waits(v, n)'
      PROVE  Waits(v, n) \/ (v = u /\ n = Turn(m))
  <2>1. PICK h \in Services : \E i \in DOMAIN que_2_gamelogic'[h] :
           que_2_gamelogic'[h][i].uid = v /\ Turn(que_2_gamelogic'[h][i]) = n
    BY <1>9 DEF Waits, Turn
  <2>2. CASE h = g
    <3>1. PICK i \in DOMAIN p : p[i].uid = v /\ Turn(p[i]) = n
      BY <2>1, <2>2, <1>1
    <3>2. CASE i \in DOMAIN q
      <4>1. q[i].uid = v /\ Turn(q[i]) = n
        BY <3>1, <3>2, <1>2
      <4> QED BY <3>2, <4>1 DEF Waits, q
    <3>3. CASE i \notin DOMAIN q
      <4>1. p[i] = m
        BY <3>3, <1>2
      <4> QED BY <3>1, <4>1 DEF u
    <3> QED BY <3>2, <3>3
  <2>3. CASE h # g
    BY <2>1, <2>3, <1>1 DEF Waits
  <2> QED BY <2>2, <2>3
<1>10. ASSUME NEW v \in Uids, NEW n \in 0 .. 4, Waits(v, n) PROVE Waits(v, n)'
  <2>1. PICK h \in Services : \E i \in DOMAIN que_2_gamelogic[h] :
           que_2_gamelogic[h][i].uid = v /\ Turn(que_2_gamelogic[h][i]) = n
    BY <1>10 DEF Waits
  <2>2. \E i \in DOMAIN que_2_gamelogic'[h] :
           que_2_gamelogic'[h][i].uid = v /\ Turn(que_2_gamelogic'[h][i]) = n
    <3>1. CASE h = g
      BY <3>1, <2>1, <1>1, <1>2 DEF q
    <3>2. CASE h # g
      BY <3>2, <2>1, <1>1
    <3> QED BY <3>1, <3>2
  <2> QED BY <2>2 DEF Waits, Turn
<1>11. ASSUME NEW v \in Uids, NEW n \in 0 .. 4, v = u, n = Turn(m) PROVE Waits(v, n)'
  <2>1. \E i \in DOMAIN que_2_gamelogic'[g] :
           que_2_gamelogic'[g][i].uid = u /\ Turn(que_2_gamelogic'[g][i]) = Turn(m)
    <3>1. Len(q) + 1 \in DOMAIN p
      BY <1>2
    <3> QED BY <3>1, <1>1, <1>2 DEF u
  <2> QED BY <2>1, <1>11 DEF Waits, Turn
<1> QED BY <1>8, <1>9, <1>10, <1>11 DEF u

(***************************************************************************)
(* Of any client, whatever it sends: the 'S' comes first and the 'C' last, *)
(* and it has no place while its 'S' waits.                                *)
(***************************************************************************)
NewNotSeated == \A u \in Uids : Waits(u, 0) => ~Using(u)
ArrivalInv   == InTurn /\ NewNotSeated

LEMMA ArrivalInit == Init => ArrivalInv
<1> SUFFICES ASSUME Init PROVE ArrivalInv
  OBVIOUS
<1>1. \A g \in Services : DOMAIN que_2_gamelogic[g] = {}
  BY DEF Init
<1> QED BY <1>1 DEF ArrivalInv, InTurn, NewNotSeated, Waits

\* Only the handler of an 'S' seats a client, the client it is about.
LEMMA SeatsGiven ==
    ASSUME IInv, NEW g \in Services, GameLogicStep(g), NEW v \in Uids, Using(v)'
    PROVE  Using(v) \/ (NewPlayer(g) /\ v = Requester(g))
<1>1. CASE NewPlayer(g)
  <2>1. \A w \in Uids \ {Requester(g)} : uid_2_playid'[w] = uid_2_playid[w]
    BY <1>1 DEF NewPlayer, TakePlace, IInv, TypeOK, Requester
  <2> QED BY <1>1, <2>1 DEF Using
<1>2. CASE UserClose(g)
  <2>1. CASE Using(Requester(g))
    <3>1. uid_2_playid' = [uid_2_playid EXCEPT ![Requester(g)].state = "INVALID"]
      BY <1>2, <2>1 DEF UserClose, RemovePlayer
    <3> HIDE DEF Requester
    <3> QED BY <3>1, <2>1 DEF IInv, TypeOK, Using
  <2>2. CASE ~Using(Requester(g))
    BY <1>2, <2>2 DEF UserClose, tables, Using
  <2> QED BY <2>1, <2>2
<1>3. CASE ~NewPlayer(g) /\ ~UserClose(g)
  BY <1>3 DEF GameLogicStep, Login, Start, Move, Leave, NullRequest, Ignore, tables, Using
<1> QED BY <1>1, <1>2, <1>3

LEMMA StepPops ==
    ASSUME NEW g \in Services, GameLogicStep(g)
    PROVE  /\ UNCHANGED stage
           /\ NewPlayer(g) => Pop(g, "S")
           /\ UserClose(g) => Pop(g, "C")
           /\ ~NewPlayer(g) /\ ~UserClose(g) => Pop(g, "D")
<1>1. UNCHANGED stage
  BY DEF GameLogicStep, NewPlayer, Login, Start, Move, Leave, NullRequest, Ignore, UserClose
<1> QED BY <1>1 DEF GameLogicStep, NewPlayer, Login, Start, Move, Leave, NullRequest, Ignore,
                    UserClose, PopRequest

\* A handled message is of the turn its type says.
LEMMA HandledTurn ==
    ASSUME IInv, NEW g \in Services, NEW t, Pop(g, t)
    PROVE  /\ Requester(g) \in Uids
           /\ Turn(Head(que_2_gamelogic[g])) \in 0 .. 4
           /\ t = "S" <=> Turn(Head(que_2_gamelogic[g])) = 0
           /\ t = "C" <=> Turn(Head(que_2_gamelogic[g])) = 4
<1>1. Head(que_2_gamelogic[g]) \in UserMsgs(Uids)
  BY PoppedType DEF IInv
<1> QED BY <1>1, RequesterIsHere, TurnIs DEF Pop

LEMMA ArrivalService ==
    ASSUME IInv, ArrivalInv, NEW g \in Services, GameLogicStep(g)
    PROVE  ArrivalInv'
<1>1. PICK t : Pop(g, t) /\ (NewPlayer(g) => t = "S")
  BY StepPops, Zenon
<1>2. UNCHANGED stage
  BY StepPops
<1>3. /\ InTurn'
      /\ \A v \in Uids : Waits(v, 0)' => Waits(v, 0)
      /\ NewPlayer(g) => \A v \in Uids : v = Requester(g) => ~Waits(v, 0)'
  BY <1>1, <1>2, PopWaits, HandledTurn DEF ArrivalInv
<1>4. ASSUME NEW v \in Uids, Waits(v, 0)', Using(v)' PROVE FALSE
  BY <1>3, <1>4, SeatsGiven DEF ArrivalInv, NewNotSeated
<1> QED BY <1>3, <1>4 DEF ArrivalInv, NewNotSeated, Using

LEMMA ArrivalPush ==
    ASSUME IInv, ArrivalInv, NEW g \in Services, NEW m \in UserMsgs(Uids), Push(g, m),
           Turn(m) <= Reached(stage'[m.uid].sent),
           Reached(stage[m.uid].sent) < Turn(m)
              \/ (Reached(stage[m.uid].sent) = 3 /\ Turn(m) = 3),
           \A v \in Uids \ {m.uid} : stage'[v] = stage[v],
           Turn(m) = 0 => ~Using(m.uid)
    PROVE  ArrivalInv'
<1>1. /\ InTurn'
      /\ \A v \in Uids : Waits(v, 0)' <=> Waits(v, 0) \/ (v = m.uid /\ 0 = Turn(m))
  BY PushWaits DEF ArrivalInv
<1>2. \A v \in Uids : Using(v)' <=> Using(v)
  BY DEF Push, tables, Using
<1> QED BY <1>1, <1>2 DEF ArrivalInv, NewNotSeated

LEMMA InOrderIs ==
    /\ InOrder("S") = {"LOG_REQ"}
    /\ InOrder("LOG_REQ") = {"GAME_START_REQ"}
    /\ \A sent : sent \notin {"S", "LOG_REQ"} =>
          InOrder(sent) = {"MOVE_REQ", "LEAVE_REQ", "OTHER"}
<1>1. InOrder("S") = {"LOG_REQ"}
  BY Zenon DEF InOrder
<1>2. "S" # "LOG_REQ"
  OBVIOUS
<1>3. InOrder("LOG_REQ") = {"GAME_START_REQ"}
  BY <1>2, Zenon DEF InOrder
<1>4. ASSUME NEW sent, sent # "S", sent # "LOG_REQ"
      PROVE  InOrder(sent) = {"MOVE_REQ", "LEAVE_REQ", "OTHER"}
  BY <1>4, Zenon DEF InOrder
<1> QED BY <1>1, <1>3, <1>4

LEMMA SeatedHasService ==
    ASSUME IInv, NEW v \in Uids, Using(v)
    PROVE  stage[v].at \in Services
<1>1. PICK h \in Services : map_player_socket_uid[<<h, MapOf(v), PlaceOf(v)>>] = v
  BY DEF IInv, SeatTablesAgree
<1>2. MapOf(v) \in Maps /\ PlaceOf(v) \in Places /\ v # INVALID
  BY UidsAssumption DEF IInv, TypeOK, MapOf, PlaceOf
<1> QED BY <1>1, <1>2 DEF IInv, AtItsService

\* The turns of what a client pushes fit the last one it reached.
LEMMA PushedTurns ==
    ASSUME IInv, NEW u \in Uids
    PROVE  /\ \A g \in Services : Connect(u, g) =>
                 /\ Turn(New(u)) = 0 /\ ~Using(u)
                 /\ Reached(stage[u].sent) = -1 /\ 0 <= Reached(stage'[u].sent)
           /\ \A r \in Requests : Request(u, r) =>
                 /\ Turn(Data(u, r)) \in 1 .. 3
                 /\ Turn(Data(u, r)) <= Reached(stage'[u].sent)
                 /\ \/ Reached(stage[u].sent) < Turn(Data(u, r))
                    \/ Reached(stage[u].sent) = 3 /\ Turn(Data(u, r)) = 3
           /\ Disconnect(u) =>
                 /\ Turn(Closed(u)) = 4
                 /\ Reached(stage[u].sent) < 4 /\ Reached(stage'[u].sent) = 4
<1>1. ASSUME NEW g \in Services, Connect(u, g)
      PROVE  /\ Turn(New(u)) = 0 /\ ~Using(u)
             /\ Reached(stage[u].sent) = -1 /\ 0 <= Reached(stage'[u].sent)
  <2>1. stage[u].sent = "NONE" /\ stage'[u].sent = "S"
    BY <1>1 DEF Connect, IInv, TypeOK
  <2>2. ~Using(u)
    BY <2>1, SeatedHasService, Ranges DEF IInv, AtItsService
  <2> QED BY <2>1, <2>2 DEF Turn, New, Reached
<1>2. ASSUME NEW r \in Requests, Request(u, r)
      PROVE  /\ Turn(Data(u, r)) \in 1 .. 3
             /\ Turn(Data(u, r)) <= Reached(stage'[u].sent)
             /\ \/ Reached(stage[u].sent) < Turn(Data(u, r))
                \/ Reached(stage[u].sent) = 3 /\ Turn(Data(u, r)) = 3
  <2> DEFINE s == stage[u].sent
  <2>1. s # "C" /\ s # "NONE"
    BY <1>2 DEF Request, Connected, IInv, AtItsService
  <2>2. CASE ~Orderly
    <3>1. stage' = stage
      BY <1>2, <2>2 DEF Request
    <3> QED BY <2>1, <2>2, <3>1 DEF Turn, Data, Reached
  <2>3. CASE Orderly
    <3>1. r \in InOrder(s)
      BY <1>2, <2>3 DEF Request
    <3>2. stage'[u].sent = IF r \in {"LOG_REQ", "GAME_START_REQ"} THEN r ELSE s
      BY <1>2, <2>3 DEF Request, IInv, TypeOK
    <3> HIDE DEF s
    <3>3. CASE s = "S"
      <4>1. r = "LOG_REQ"
        BY <3>1, <3>3, InOrderIs
      <4> QED BY <4>1, <3>2, <3>3, <2>3 DEF Turn, Data, Reached, s
    <3>4. CASE s = "LOG_REQ"
      <4>1. r = "GAME_START_REQ"
        BY <3>1, <3>4, InOrderIs
      <4> QED BY <4>1, <3>2, <3>4, <2>3 DEF Turn, Data, Reached, s
    <3>5. CASE s \notin {"S", "LOG_REQ"}
      <4>1. r \in {"MOVE_REQ", "LEAVE_REQ", "OTHER"}
        BY <3>1, <3>5, InOrderIs
      <4> QED BY <4>1, <3>2, <3>5, <2>1 DEF Turn, Data, Reached, s
    <3> QED BY <3>3, <3>4, <3>5
  <2> QED BY <2>2, <2>3
<1>3. ASSUME Disconnect(u)
      PROVE  /\ Turn(Closed(u)) = 4
             /\ Reached(stage[u].sent) < 4 /\ Reached(stage'[u].sent) = 4
  <2>1. stage[u].sent # "C" /\ stage'[u].sent = "C"
    BY <1>3 DEF Disconnect, Connected, IInv, TypeOK
  <2> QED BY <2>1 DEF Turn, Closed, Reached
<1> QED BY <1>1, <1>2, <1>3

\* Each step of a client is a push of one message to its service.
LEMMA PushesOf ==
    ASSUME IInv, NEW u \in Uids
    PROVE  /\ \A v \in Uids \ {u} :
                 \A g \in Services : Connect(u, g) => stage'[v] = stage[v]
           /\ \A v \in Uids \ {u} :
                 (\E r \in Requests : Request(u, r)) \/ Disconnect(u) => stage'[v] = stage[v]
           /\ (\E r \in Requests : Request(u, r)) \/ Disconnect(u) =>
                 stage[u].at \in Services /\ stage'[u].at = stage[u].at
           /\ New(u) \in UserMsgs(Uids) /\ New(u).uid = u
           /\ Closed(u) \in UserMsgs(Uids) /\ Closed(u).uid = u
           /\ \A r \in Requests : Data(u, r) \in UserMsgs(Uids) /\ Data(u, r).uid = u
<1>1. \A v \in Uids \ {u} : \A g \in Services : Connect(u, g) => stage'[v] = stage[v]
  BY DEF Connect, IInv, TypeOK
<1>2. ASSUME NEW r \in Requests, Request(u, r)
      PROVE  /\ \A v \in Uids \ {u} : stage'[v] = stage[v]
             /\ stage[u].at \in Services /\ stage'[u].at = stage[u].at
  BY <1>2 DEF Request, Connected, IInv, TypeOK
<1>3. ASSUME Disconnect(u)
      PROVE  /\ \A v \in Uids \ {u} : stage'[v] = stage[v]
             /\ stage[u].at \in Services /\ stage'[u].at = stage[u].at
  BY <1>3 DEF Disconnect, Connected, IInv, TypeOK
<1> QED BY <1>1, <1>2, <1>3 DEF New, Data, Closed, UserMsgs

LEMMA ArrivalStep == IInv /\ ArrivalInv /\ [Next]_vars => ArrivalInv'
<1> SUFFICES ASSUME IInv, ArrivalInv, [Next]_vars PROVE ArrivalInv'
  OBVIOUS
<1>1. ASSUME NEW g \in Services, GameLogicStep(g) PROVE ArrivalInv'
  BY <1>1, ArrivalService
<1>2. ASSUME NEW u \in Uids, NEW g \in Services, Connect(u, g) PROVE ArrivalInv'
  <2>1. Push(g, New(u))
    BY <1>2 DEF Connect
  <2> QED BY <1>2, <2>1, PushedTurns, PushesOf, ArrivalPush
<1>3. ASSUME NEW u \in Uids, NEW r \in Requests, Request(u, r) PROVE ArrivalInv'
  <2>1. Push(stage[u].at, Data(u, r))
    BY <1>3 DEF Request
  <2>2. /\ Turn(Data(u, r)) # 0
        /\ Turn(Data(u, r)) <= Reached(stage'[u].sent)
        /\ \/ Reached(stage[u].sent) < Turn(Data(u, r))
           \/ Reached(stage[u].sent) = 3 /\ Turn(Data(u, r)) = 3
    BY <1>3, PushedTurns
  <2> QED BY <1>3, <2>1, <2>2, PushesOf, ArrivalPush
<1>4. ASSUME NEW u \in Uids, Disconnect(u) PROVE ArrivalInv'
  <2>1. Push(stage[u].at, Closed(u))
    BY <1>4 DEF Disconnect
  <2>2. Turn(Closed(u)) = 4 /\ Reached(stage[u].sent) < 4 /\ Reached(stage'[u].sent) = 4
    BY <1>4, PushedTurns
  <2> QED BY <1>4, <2>1, <2>2, PushesOf, ArrivalPush
<1>5. ASSUME NetLogicDrain \/ UNCHANGED vars PROVE ArrivalInv'
  <2>1. UNCHANGED <<que_2_gamelogic, uid_2_playid, stage>>
    BY <1>5 DEF NetLogicDrain, vars, tables
  <2> QED BY <2>1 DEF ArrivalInv, InTurn, NewNotSeated, Waits, Using
<1> QED BY <1>1, <1>2, <1>3, <1>4, <1>5 DEF Next, Environment, Forwarded

-----------------------------------------------------------------------------
(* Orderly clients: what has become of them.                               *)

\* The place of u has the name the login of u gave it.
Named(u) == player_uid[<<stage[u].at, MapOf(u), PlaceOf(u)>>] = u

(***************************************************************************)
(* What has become of an orderly client: it has no place before its 'S' is *)
(* handled, it has started once its start was handled, unless it found no  *)
(* place, and its place is named once its login was.                       *)
(***************************************************************************)
Progress(u) ==
    /\ Waits(u, 0) => ~Using(u)
    /\ u \in started => Using(u) /\ Reached(stage[u].sent) >= 3 /\ ~Waits(u, 2)
    /\ Reached(stage[u].sent) >= 3 =>
          u \in started \/ Waits(u, 2) \/ (~Using(u) /\ ~Waits(u, 0))
    /\ Reached(stage[u].sent) >= 1 =>
          Waits(u, 1) \/ (~Waits(u, 0) /\ (Using(u) => Named(u)))

OrderlyInv == InTurn /\ \A u \in Uids : Progress(u)

LEMMA ProgressUntouched ==
    ASSUME NEW u \in Uids, Progress(u),
           \A n \in 0 .. 2 : Waits(u, n)' <=> Waits(u, n),
           Using(u)' <=> Using(u), u \in started' <=> u \in started,
           stage'[u] = stage[u],
           Using(u) => (Named(u)' <=> Named(u))
    PROVE  Progress(u)'
BY DEF Progress, Reached

\* Two clients with places have different ones.
LEMMA NamedUntouched ==
    ASSUME IInv, NEW v \in Uids, Using(v), UNCHANGED stage,
           uid_2_playid'[v] = uid_2_playid[v],
           player_uid'[<<stage[v].at, MapOf(v), PlaceOf(v)>>]
              = player_uid[<<stage[v].at, MapOf(v), PlaceOf(v)>>]
    PROVE  Named(v)' <=> Named(v)
BY DEF Named, MapOf, PlaceOf

LEMMA NewPlayerProgress ==
    ASSUME IInv, OrderlyInv, NEW g \in Services, NewPlayer(g)
    PROVE  OrderlyInv'
<1> DEFINE u == Requester(g)
<1>1. Pop(g, "S") /\ UNCHANGED <<stage, started, player_uid>>
  BY DEF NewPlayer, history
<1>2. u \in Uids /\ Turn(Head(que_2_gamelogic[g])) = 0
  BY <1>1, RequesterIsHere DEF Pop, Turn
<1>3. /\ InTurn' /\ Waits(u, 0)
      /\ \A v \in Uids, n \in 0 .. 2 : v # u \/ n # 0 => (Waits(v, n)' <=> Waits(v, n))
      /\ \A v \in Uids : v = u => ~Waits(v, 0)'
  BY <1>1, <1>2, PopWaits DEF OrderlyInv
<1>4. \A v \in Uids \ {u} : uid_2_playid'[v] = uid_2_playid[v]
  BY DEF NewPlayer, TakePlace, IInv, TypeOK, Requester
<1> HIDE DEF u
<1>5. ASSUME NEW v \in Uids, v # u PROVE Progress(v)'
  <2>1. Using(v)' <=> Using(v)
    BY <1>4, <1>5 DEF Using
  <2>2. Using(v) => (Named(v)' <=> Named(v))
    BY <1>1, <1>4, <1>5 DEF Named, MapOf, PlaceOf
  <2> QED BY <2>1, <2>2, <1>1, <1>3, <1>5, ProgressUntouched DEF OrderlyInv
<1>6. ASSUME NEW v \in Uids, v = u PROVE Progress(v)'
  <2>1. Progress(v) /\ Waits(v, 0)
    BY <1>3, <1>6 DEF OrderlyInv
  <2>2. v \notin started /\ Reached(stage[v].sent) >= 3 => Waits(v, 2)
    BY <2>1 DEF Progress
  <2>3. Reached(stage[v].sent) >= 1 => Waits(v, 1)
    BY <2>1 DEF Progress
  <2>4. /\ ~Waits(v, 0)' /\ v \notin started'
        /\ Reached(stage[v].sent)' = Reached(stage[v].sent)
        /\ Reached(stage[v].sent) >= 3 => Waits(v, 2)'
        /\ Reached(stage[v].sent) >= 1 => Waits(v, 1)'
    BY <1>1, <1>3, <1>6, <2>1, <2>2, <2>3 DEF Reached, Progress
  <2> QED BY <2>4 DEF Progress
<1> QED BY <1>3, <1>5, <1>6 DEF OrderlyInv

LEMMA LoginProgress ==
    ASSUME Orderly, IInv, OrderlyInv, NEW g \in Services, Login(g)
    PROVE  OrderlyInv'
<1> DEFINE u == Requester(g)
           s == <<g, MapOf(u), PlaceOf(u)>>
<1>1. /\ Pop(g, "D") /\ UNCHANGED <<stage, started, uid_2_playid>>
      /\ Using(u) /\ player_uid' = [player_uid EXCEPT ![s] = u]
  BY DEF Login, PopRequest, history, user_msg_load
<1>2. u \in Uids /\ Turn(Head(que_2_gamelogic[g])) = 1 /\ stage[u].at = g
  BY <1>1, RequesterIsHere DEF Pop, Turn, Login, PopRequest
<1>3. /\ InTurn'
      /\ \A v \in Uids, n \in 0 .. 2 : v # u \/ n # 1 => (Waits(v, n)' <=> Waits(v, n))
      /\ ~Waits(u, 0)
  BY <1>1, <1>2, PopWaits DEF OrderlyInv
<1>4. s \in Seats
  BY <1>1, <1>2, SeatOfRequester DEF Seats
<1>5. player_uid \in [Seats -> Uids \cup {Unset}]
  BY DEF IInv, TypeOK
<1>6. \A v \in Uids : Using(v)' <=> Using(v)
  BY <1>1 DEF Using
<1>7. ASSUME NEW v \in Uids, v # u PROVE Progress(v)'
  <2>1. ASSUME Using(v) PROVE Named(v)' <=> Named(v)
    <3>1. stage[v].at \in Services
      BY <2>1, SeatedHasService
    <3>2. /\ MapOf(v) \in Maps /\ PlaceOf(v) \in Places
          /\ map_player_socket_uid[<<stage[v].at, MapOf(v), PlaceOf(v)>>] = v
          /\ map_player_socket_uid[s] = u
      BY <2>1, <3>1, <1>1, <1>2, SeatOfRequester
    <3>3. <<stage[v].at, MapOf(v), PlaceOf(v)>> # s
      BY <3>2, <1>7
    <3>4. <<stage[v].at, MapOf(v), PlaceOf(v)>> \in Seats
      BY <3>1, <3>2 DEF Seats
    <3> HIDE DEF s, u
    <3>5. player_uid'[<<stage[v].at, MapOf(v), PlaceOf(v)>>]
             = player_uid[<<stage[v].at, MapOf(v), PlaceOf(v)>>]
      BY <1>1, <1>4, <1>5, <3>3, <3>4
    <3> QED BY <1>1, <3>5, <2>1, NamedUntouched
  <2> QED BY <2>1, <1>1, <1>3, <1>6, <1>7, ProgressUntouched DEF OrderlyInv
<1>8. ASSUME NEW v \in Uids, v = u PROVE Progress(v)'
  <2>1. player_uid'[<<g, MapOf(v), PlaceOf(v)>>] = v
    BY <1>1, <1>4, <1>5, <1>8
  <2>2. Named(v)'
    BY <1>1, <1>2, <1>8, <2>1 DEF Named, MapOf, PlaceOf
  <2> HIDE DEF u, s
  <2>3. Progress(v) /\ ~Waits(v, 0)' /\ (Waits(v, 2)' <=> Waits(v, 2))
    BY <1>3, <1>8 DEF OrderlyInv
  <2>4. Reached(stage[v].sent)' = Reached(stage[v].sent) /\ started' = started
    BY <1>1 DEF Reached
  <2> QED BY <2>2, <2>3, <2>4, <1>3, <1>6, <1>8 DEF Progress
<1> QED BY <1>3, <1>7, <1>8 DEF OrderlyInv

LEMMA StartProgress ==
    ASSUME Orderly, IInv, OrderlyInv, NEW g \in Services, Start(g)
    PROVE  OrderlyInv'
<1> DEFINE u == Requester(g)
<1>1. /\ Pop(g, "D") /\ UNCHANGED <<stage, uid_2_playid, player_uid>>
      /\ Using(u) /\ started' = started \cup {u}
  BY DEF Start, PopRequest
<1>2. u \in Uids /\ Turn(Head(que_2_gamelogic[g])) = 2
  BY <1>1, RequesterIsHere DEF Pop, Turn, Start, PopRequest
<1>3. /\ InTurn'
      /\ \A v \in Uids, n \in 0 .. 2 : v # u \/ n # 2 => (Waits(v, n)' <=> Waits(v, n))
      /\ ~Waits(u, 0)
      /\ \A v \in Uids : v = u => ~Waits(v, 2)'
  BY <1>1, <1>2, PopWaits DEF OrderlyInv
<1>4. Reached(stage[u].sent) >= 3
  <2>1. que_2_gamelogic[g] # <<>> /\ que_2_gamelogic[g] \in Seq(UserMsgs(Uids))
    BY <1>1, QueueType DEF IInv, Pop
  <2>2. 1 \in DOMAIN que_2_gamelogic[g] /\ Head(que_2_gamelogic[g]) = que_2_gamelogic[g][1]
    BY <2>1
  <2>3. 2 <= Reached(stage[u].sent)
    BY <1>2, <2>2 DEF OrderlyInv, InTurn, Requester
  <2> QED BY <2>3, ReachedIs
<1>5. \A v \in Uids : (Using(v)' <=> Using(v)) /\ (Named(v)' <=> Named(v))
  BY <1>1 DEF Using, Named, MapOf, PlaceOf
<1> HIDE DEF u
<1>6. ASSUME NEW v \in Uids, v # u PROVE Progress(v)'
  BY <1>1, <1>3, <1>5, <1>6, ProgressUntouched DEF OrderlyInv
<1>7. ASSUME NEW v \in Uids, v = u PROVE Progress(v)'
  <2>1. Progress(v) /\ Reached(stage[v].sent)' = Reached(stage[v].sent)
    BY <1>1 DEF OrderlyInv, Reached
  <2>2. Using(v)' /\ v \in started' /\ ~Waits(v, 2)' /\ ~Waits(v, 0)'
    BY <1>1, <1>3, <1>5, <1>7
  <2> QED BY <2>1, <2>2, <1>3, <1>4, <1>5, <1>7 DEF Progress
<1> QED BY <1>3, <1>6, <1>7 DEF OrderlyInv

\* Requests after the start, and requests of clients without a place.
LEMMA OtherProgress ==
    ASSUME IInv, OrderlyInv, NEW g \in Services,
           Move(g) \/ Leave(g) \/ NullRequest(g) \/ Ignore(g)
    PROVE  OrderlyInv'
<1> DEFINE u == Requester(g)
           k == Turn(Head(que_2_gamelogic[g]))
<1>1. Pop(g, "D") /\ UNCHANGED <<stage, started, uid_2_playid, player_uid>>
  BY DEF Move, Leave, NullRequest, Ignore, PopRequest, history, tables
<1>2. u \in Uids /\ k \in 1 .. 3
  <2>1. Head(que_2_gamelogic[g]) \in UserMsgs(Uids)
    BY <1>1, PoppedType DEF IInv
  <2>2. Head(que_2_gamelogic[g]).type = "D"
    BY <1>1 DEF Pop
  <2>3. k \in 0 .. 4 /\ k # 0 /\ k # 4
    BY <2>1, <2>2, TurnIs
  <2> QED BY <1>1, <2>3, RequesterIsHere
<1>3. k = 3 \/ ~Using(u)
  <2> DEFINE h == Head(que_2_gamelogic[g])
  <2>1. h \in UserMsgs(Uids) /\ h.type = "D"
    BY <1>1, PoppedType DEF Pop, IInv
  <2>2. ASSUME h.req \in Requests \ {"LOG_REQ", "GAME_START_REQ"} PROVE k = 3
    BY <2>1, <2>2 DEF Turn
  <2> HIDE DEF h
  <2>3. CASE Move(g)
    BY <2>2, <2>3 DEF Move, PopRequest, Requests, h
  <2>4. CASE Leave(g)
    BY <2>2, <2>4 DEF Leave, PopRequest, Requests, h
  <2>5. CASE Ignore(g)
    <3>1. Using(u) => h.req = "OTHER"
      BY <2>5 DEF Ignore, h
    <3> QED BY <3>1, <2>2 DEF Requests
  <2>6. CASE NullRequest(g)
    BY <2>2, <2>6 DEF NullRequest, PopRequest, Requests, h
  <2> QED BY <2>3, <2>4, <2>5, <2>6
<1>4. /\ InTurn'
      /\ \A v \in Uids, n \in 0 .. 2 : v # u \/ n # k => (Waits(v, n)' <=> Waits(v, n))
      /\ ~Waits(u, 0)
      /\ \A v \in Uids, n \in 0 .. 2 : Waits(v, n)' => Waits(v, n)
  BY <1>1, <1>2, PopWaits DEF OrderlyInv
<1>5. \A v \in Uids : (Using(v)' <=> Using(v)) /\ (Named(v)' <=> Named(v))
  BY <1>1 DEF Using, Named, MapOf, PlaceOf
<1> HIDE DEF u, k
<1>6. ASSUME NEW v \in Uids, v # u \/ k = 3 PROVE Progress(v)'
  BY <1>1, <1>2, <1>4, <1>5, <1>6, ProgressUntouched DEF OrderlyInv
<1>7. ASSUME NEW v \in Uids, v = u, ~Using(u) PROVE Progress(v)'
  <2>1. Progress(v) /\ ~Using(v) /\ ~Using(v)' /\ ~Waits(v, 0)'
    BY <1>4, <1>5, <1>7 DEF OrderlyInv
  <2>2. v \notin started'
    BY <2>1, <1>1 DEF Progress
  <2> QED BY <2>1, <2>2 DEF Progress
<1> QED BY <1>3, <1>4, <1>6, <1>7 DEF OrderlyInv

LEMMA UserCloseProgress ==
    ASSUME IInv, OrderlyInv, NEW g \in Services, UserClose(g)
    PROVE  OrderlyInv'
<1> DEFINE u == Requester(g)
<1>1. Pop(g, "C") /\ UNCHANGED <<stage, player_uid>>
  BY DEF UserClose, RemovePlayer, tables
<1>2. u \in Uids /\ Turn(Head(que_2_gamelogic[g])) = 4
  <2>1. Head(que_2_gamelogic[g]) \in UserMsgs(Uids)
    BY <1>1, PoppedType DEF IInv
  <2> QED BY <1>1, <2>1, RequesterIsHere, TurnIs DEF Pop
<1>3. /\ InTurn'
      /\ \A v \in Uids, n \in 0 .. 2 : Waits(v, n)' <=> Waits(v, n)
      /\ ~Waits(u, 0)
  BY <1>1, <1>2, PopWaits DEF OrderlyInv
<1> HIDE DEF u
<1>4. /\ \A v \in Uids \ {u} : /\ uid_2_playid'[v] = uid_2_playid[v]
                               /\ v \in started' <=> v \in started
      /\ uid_2_playid'[u].state # "USING"
      /\ u \notin started'
  <2>1. CASE Using(u)
    <3>1. RemovePlayer(g, u)
      BY <2>1 DEF UserClose, u
    <3>2. /\ uid_2_playid' = [uid_2_playid EXCEPT ![u].state = "INVALID"]
          /\ started' = started \ {u}
      BY <3>1 DEF RemovePlayer
    <3> QED BY <1>2, <3>2 DEF IInv, TypeOK
  <2>2. CASE ~Using(u)
    <3>1. UNCHANGED <<uid_2_playid, started>>
      BY <2>2 DEF UserClose, tables, history, u
    <3>2. u \notin started
      BY <2>2, <1>2 DEF OrderlyInv, Progress
    <3> QED BY <3>1, <3>2, <2>2 DEF Using
  <2> QED BY <2>1, <2>2
<1>5. ASSUME NEW v \in Uids, v # u PROVE Progress(v)'
  <2>1. (Using(v)' <=> Using(v)) /\ (Named(v)' <=> Named(v))
    BY <1>1, <1>4, <1>5 DEF Using, Named, MapOf, PlaceOf
  <2> QED BY <2>1, <1>1, <1>3, <1>4, <1>5, ProgressUntouched DEF OrderlyInv
<1>6. ASSUME NEW v \in Uids, v = u PROVE Progress(v)'
  <2>1. ~Using(v)' /\ v \notin started' /\ ~Waits(v, 0)'
    BY <1>3, <1>4, <1>6 DEF Using
  <2>2. /\ Reached(stage[v].sent)' = Reached(stage[v].sent)
        /\ Waits(v, 1)' <=> Waits(v, 1)
        /\ Waits(v, 2)' <=> Waits(v, 2)
    BY <1>1, <1>3 DEF Reached
  <2> QED BY <2>1, <2>2, <1>3, <1>6 DEF Progress, OrderlyInv
<1> QED BY <1>3, <1>5, <1>6 DEF OrderlyInv

\* A message of one orderly client leaves the progress of the others alone.
LEMMA PushProgress ==
    ASSUME IInv, OrderlyInv, NEW g \in Services, NEW m \in UserMsgs(Uids), Push(g, m),
           Turn(m) <= Reached(stage'[m.uid].sent),
           Reached(stage[m.uid].sent) < Turn(m)
              \/ (Reached(stage[m.uid].sent) = 3 /\ Turn(m) = 3),
           \A v \in Uids \ {m.uid} : stage'[v] = stage[v]
    PROVE  /\ InTurn'
           /\ \A v \in Uids : v # m.uid => Progress(v)'
           /\ \A v \in Uids, n \in 0 .. 4 : v = m.uid =>
                 (Waits(v, n)' <=> Waits(v, n) \/ n = Turn(m))
           /\ UNCHANGED <<uid_2_playid, player_uid, started>>
           /\ \A v \in Uids : Using(v)' <=> Using(v)
<1>1. /\ InTurn'
      /\ \A v \in Uids, n \in 0 .. 4 :
            Waits(v, n)' <=> Waits(v, n) \/ (v = m.uid /\ n = Turn(m))
  BY PushWaits DEF OrderlyInv
<1>2. UNCHANGED <<uid_2_playid, player_uid, started>>
  BY DEF Push, tables, history
<1>3. \A v \in Uids : Using(v)' <=> Using(v)
  BY <1>2 DEF Using
<1>4. ASSUME NEW v \in Uids, v # m.uid PROVE Progress(v)'
  <2>1. stage'[v] = stage[v]
    BY <1>4
  <2>2. Named(v)' <=> Named(v)
    BY <2>1, <1>2 DEF Named, MapOf, PlaceOf
  <2> QED BY <2>1, <2>2, <1>1, <1>2, <1>3, <1>4, ProgressUntouched DEF OrderlyInv
<1> QED BY <1>1, <1>2, <1>3, <1>4

LEMMA ConnectProgress ==
    ASSUME Orderly, IInv, OrderlyInv, NEW u \in Uids, NEW g \in Services, Connect(u, g)
    PROVE  OrderlyInv'
<1> DEFINE m == New(u)
<1>1. m \in UserMsgs(Uids) /\ m.uid = u /\ Turn(m) = 0
  BY DEF New, UserMsgs, Turn
<1>2. /\ stage[u].sent = "NONE" /\ Push(g, m)
      /\ stage'[u].sent = "S" /\ \A v \in Uids \ {u} : stage'[v] = stage[v]
  BY DEF Connect, IInv, TypeOK
<1>3. stage[u].at = INVALID
  BY <1>2 DEF IInv, AtItsService
<1>4. ~Using(u)
  BY <1>3, SeatedHasService, Ranges
<1>5. Reached("NONE") = -1 /\ Reached("S") = 0
  BY DEF Reached
<1> HIDE DEF m
<1>6. /\ InTurn'
      /\ \A v \in Uids : v # u => Progress(v)'
      /\ UNCHANGED started /\ ~Using(u)'
  BY <1>1, <1>2, <1>4, <1>5, PushProgress
<1>7. ASSUME NEW v \in Uids, v = u PROVE Progress(v)'
  <2>1. v \notin started' /\ ~Using(v)'
    BY <1>4, <1>6, <1>7 DEF OrderlyInv, Progress
  <2>2. Reached(stage[v].sent)' = 0
    BY <1>2, <1>5, <1>7 DEF Reached
  <2> QED BY <2>1, <2>2 DEF Progress
<1> QED BY <1>6, <1>7 DEF OrderlyInv

LEMMA RequestProgress ==
    ASSUME Orderly, IInv, OrderlyInv, NEW u \in Uids, NEW r \in Requests, Request(u, r)
    PROVE  OrderlyInv'
<1> DEFINE m == Data(u, r)
           g == stage[u].at
           s == stage[u].sent
<1>1. m \in UserMsgs(Uids) /\ m.uid = u
  BY DEF Data, UserMsgs
<1>2. /\ Push(g, m) /\ r \in InOrder(s) /\ g # INVALID /\ s # "C"
      /\ stage' = [stage EXCEPT ![u].sent = IF r \in {"LOG_REQ", "GAME_START_REQ"}
                                            THEN r ELSE @]
  BY DEF Request, Connected
<1>3. g \in Services /\ s # "NONE"
  BY <1>2 DEF IInv, TypeOK, AtItsService
<1>4. \A v \in Uids \ {u} : stage'[v] = stage[v]
  BY <1>2 DEF IInv, TypeOK
<1>5. stage'[u].at = g
  BY <1>2 DEF IInv, TypeOK
<1> HIDE DEF m, s, g
<1>6. ASSUME Turn(m) <= Reached(stage'[u].sent),
             Reached(s) < Turn(m) \/ (Reached(s) = 3 /\ Turn(m) = 3)
      PROVE  /\ InTurn'
             /\ \A v \in Uids : v # u => Progress(v)'
             /\ \A v \in Uids, n \in 0 .. 4 : v = u =>
                   (Waits(v, n)' <=> Waits(v, n) \/ n = Turn(m))
             /\ UNCHANGED <<uid_2_playid, player_uid, started>>
             /\ \A v \in Uids : Using(v)' <=> Using(v)
  BY <1>1, <1>2, <1>3, <1>4, <1>6, PushProgress DEF s
<1>7. \A v \in Uids : v = u => (Named(v)' <=> Named(v)) \/ ~UNCHANGED <<uid_2_playid, player_uid>>
  BY <1>5 DEF Named, MapOf, PlaceOf, g
<1>8. Progress(u)
  BY DEF OrderlyInv
<1>9. CASE s = "S"
  <2>1. r = "LOG_REQ"
    BY <1>2, <1>9, InOrderIs
  <2>2. stage'[u].sent = "LOG_REQ"
    BY <1>2, <2>1 DEF IInv, TypeOK
  <2>3. Reached(s) = 0 /\ Reached(stage'[u].sent) = 1 /\ Turn(m) = 1
    BY <1>9, <2>1, <2>2 DEF Reached, Turn, m, Data
  <2>4. ASSUME NEW v \in Uids, v = u PROVE Progress(v)'
    <3>1. v \notin started'
      BY <1>6, <1>8, <2>3, <2>4 DEF Progress, s
    <3>2. Waits(v, 1)' /\ (Waits(v, 0)' => ~Using(v)')
      BY <1>6, <1>8, <2>3, <2>4 DEF Progress
    <3>3. Reached(stage[v].sent)' = 1
      BY <2>3, <2>4 DEF Reached
    <3> QED BY <3>1, <3>2, <3>3 DEF Progress
  <2> QED BY <2>3, <2>4, <1>6 DEF OrderlyInv
<1>10. CASE s = "LOG_REQ"
  <2>1. r = "GAME_START_REQ"
    BY <1>2, <1>10, InOrderIs
  <2>2. stage'[u].sent = "GAME_START_REQ"
    BY <1>2, <2>1 DEF IInv, TypeOK
  <2>3. Reached(s) = 1 /\ Reached(stage'[u].sent) = 3 /\ Turn(m) = 2
    BY <1>10, <2>1, <2>2 DEF Reached, Turn, m, Data
  <2>4. ASSUME NEW v \in Uids, v = u PROVE Progress(v)'
    <3>1. v \notin started'
      BY <1>6, <1>8, <2>3, <2>4 DEF Progress, s
    <3>2. /\ Waits(v, 2)' /\ (Waits(v, 0)' <=> Waits(v, 0))
          /\ (Waits(v, 1)' <=> Waits(v, 1)) /\ (Using(v)' <=> Using(v))
          /\ Named(v)' <=> Named(v)
      BY <1>6, <1>7, <2>3, <2>4
    <3>3. Reached(stage[v].sent)' = 3 /\ Reached(stage[v].sent) = 1
      BY <2>3, <2>4 DEF Reached, s
    <3> QED BY <3>1, <3>2, <3>3, <1>8, <2>4 DEF Progress
  <2> QED BY <2>3, <2>4, <1>6 DEF OrderlyInv
<1>11. CASE s \notin {"S", "LOG_REQ"}
  <2>1. r \in {"MOVE_REQ", "LEAVE_REQ", "OTHER"}
    BY <1>2, <1>11, InOrderIs
  <2>2. stage'[u] = stage[u]
    BY <1>2, <2>1 DEF IInv, TypeOK
  <2>3. Reached(s) = 3 /\ Turn(m) = 3 /\ Reached(stage'[u].sent) = 3
    BY <1>2, <1>3, <1>11, <2>1, <2>2 DEF Reached, Turn, m, Data, s
  <2>4. ASSUME NEW v \in Uids, v = u PROVE Progress(v)'
    <3>1. Progress(v) /\ stage'[v] = stage[v]
      BY <1>8, <2>2, <2>4
    <3> QED BY <3>1, <1>6, <1>7, <2>3, <2>4, ProgressUntouched
  <2> QED BY <2>3, <2>4, <1>6 DEF OrderlyInv
<1> QED BY <1>9, <1>10, <1>11

LEMMA DisconnectProgress ==
    ASSUME Orderly, IInv, OrderlyInv, NEW u \in Uids, Disconnect(u)
    PROVE  OrderlyInv'
<1> DEFINE m == Closed(u)
           g == stage[u].at
<1>1. m \in UserMsgs(Uids) /\ m.uid = u /\ Turn(m) = 4
  BY DEF Closed, UserMsgs, Turn
<1>2. /\ Push(g, m) /\ stage[u].sent = "GAME_START_REQ" /\ g # INVALID
      /\ stage' = [stage EXCEPT ![u].sent = "C"]
  BY DEF Disconnect, Connected
<1>3. /\ g \in Services /\ stage'[u].at = g /\ stage'[u].sent = "C"
      /\ \A v \in Uids \ {u} : stage'[v] = stage[v]
  BY <1>2 DEF IInv, TypeOK
<1>4. Reached("GAME_START_REQ") = 3 /\ Reached("C") = 4
  BY DEF Reached
<1> HIDE DEF m, g
<1>5. /\ InTurn'
      /\ \A v \in Uids : v # u => Progress(v)'
      /\ \A v \in Uids, n \in 0 .. 4 : v = u =>
            (Waits(v, n)' <=> Waits(v, n) \/ n = 4)
      /\ UNCHANGED <<uid_2_playid, player_uid, started>>
      /\ \A v \in Uids : Using(v)' <=> Using(v)
  BY <1>1, <1>2, <1>3, <1>4, PushProgress
<1>6. ASSUME NEW v \in Uids, v = u PROVE Progress(v)'
  <2>1. Named(v)' <=> Named(v)
    BY <1>3, <1>5, <1>6 DEF Named, MapOf, PlaceOf, g
  <2>2. Progress(v) /\ Reached(stage[v].sent) = 3
    BY <1>2, <1>4, <1>6 DEF OrderlyInv
  <2>3. Reached(stage[v].sent)' = 4
    BY <1>3, <1>4, <1>6 DEF Reached
  <2>4. \A n \in 0 .. 2 : Waits(v, n)' <=> Waits(v, n)
    BY <1>5, <1>6
  <2> QED BY <2>1, <2>2, <2>3, <2>4, <1>5 DEF Progress
<1> QED BY <1>5, <1>6 DEF OrderlyInv

LEMMA OrderlyInit == Init => OrderlyInv
<1> SUFFICES ASSUME Init PROVE OrderlyInv
  OBVIOUS
<1>1. \A g \in Services : DOMAIN que_2_gamelogic[g] = {}
  BY DEF Init
<1>2. InTurn
  BY <1>1 DEF InTurn
<1>3. \A u \in Uids, n \in 0 .. 4 : ~Waits(u, n)
  BY <1>1 DEF Waits
<1>4. \A u \in Uids : stage[u].sent = "NONE" /\ u \notin started
  BY DEF Init, TablesInit
<1>5. Reached("NONE") = -1
  BY DEF Reached
<1>6. ASSUME NEW u \in Uids PROVE Progress(u)
  BY <1>3, <1>4, <1>5 DEF Progress
<1> QED BY <1>2, <1>6 DEF OrderlyInv

LEMMA OrderlyUntouched ==
    ASSUME OrderlyInv,
           UNCHANGED <<que_2_gamelogic, uid_2_playid, player_uid, started, stage>>
    PROVE  OrderlyInv'
<1>1. InTurn'
  BY DEF OrderlyInv, InTurn, Turn, Reached
<1>2. \A u \in Uids, n \in 0 .. 4 : Waits(u, n)' <=> Waits(u, n)
  BY DEF Waits, Turn
<1>3. \A u \in Uids : (Using(u)' <=> Using(u)) /\ (Named(u)' <=> Named(u))
  BY DEF Using, Named, MapOf, PlaceOf
<1>4. ASSUME NEW u \in Uids PROVE Progress(u)'
  BY <1>2, <1>3, ProgressUntouched DEF OrderlyInv
<1> QED BY <1>1, <1>4 DEF OrderlyInv

LEMMA OrderlyStep == Orderly /\ IInv /\ OrderlyInv /\ [Next]_vars => OrderlyInv'
<1> SUFFICES ASSUME Orderly, IInv, OrderlyInv, [Next]_vars PROVE OrderlyInv'
  OBVIOUS
<1>1. ASSUME NEW g \in Services, GameLogicStep(g) PROVE OrderlyInv'
  BY <1>1, NewPlayerProgress, LoginProgress, StartProgress, OtherProgress,
     UserCloseProgress DEF GameLogicStep
<1>2. ASSUME NEW u \in Uids, NEW g \in Services, Connect(u, g) PROVE OrderlyInv'
  BY <1>2, ConnectProgress
<1>3. ASSUME NEW u \in Uids, NEW r \in Requests, Request(u, r) PROVE OrderlyInv'
  BY <1>3, RequestProgress
<1>4. ASSUME NEW u \in Uids, Disconnect(u) PROVE OrderlyInv'
  BY <1>4, DisconnectProgress
<1>5. ASSUME NetLogicDrain \/ UNCHANGED vars PROVE OrderlyInv'
  BY <1>5, OrderlyUntouched DEF NetLogicDrain, vars, tables, history
<1> QED BY <1>1, <1>2, <1>3, <1>4, <1>5 DEF Next, Environment, Forwarded

-----------------------------------------------------------------------------
(* Who sits on a map.                                                      *)

\* One place per client, and so never more of them than places.
LEMMA OccupantsAre ==
    ASSUME IInv, NEW g \in Services, NEW m \in Maps
    PROVE  /\ Occupants(g, m) = {u \in Uids : Using(u) /\ stage[u].at = g /\ MapOf(u) = m}
           /\ IsFiniteSet(Occupants(g, m))
           /\ Cardinality(Occupants(g, m)) \in Nat
           /\ Cardinality(Occupants(g, m)) <= PlayersPerMap
<1> DEFINE O == Occupants(g, m)
<1>1. ASSUME NEW u \in O
      PROVE  /\ u \in Uids /\ Using(u) /\ stage[u].at = g /\ MapOf(u) = m
             /\ PlaceOf(u) \in Places /\ map_player_socket_uid[<<g, m, PlaceOf(u)>>] = u
  <2>1. PICK i \in Places : u = map_player_socket_uid[<<g, m, i>>] /\ u # INVALID
    BY <1>1 DEF Occupants
  <2>2. u \in Uids
    BY <2>1 DEF IInv, TypeOK, Seats
  <2>3. uid_2_playid[u] = [state |-> "USING", mapid |-> m, map_playerid |-> i]
    BY <2>1 DEF IInv, SeatTablesAgree
  <2>4. stage[u].at = g
    BY <2>1 DEF IInv, AtItsService
  <2> QED BY <2>1, <2>2, <2>3, <2>4 DEF Using, MapOf, PlaceOf
<1>2. ASSUME NEW u \in Uids, Using(u), stage[u].at = g, MapOf(u) = m PROVE u \in O
  <2>1. PlaceOf(u) \in Places /\ map_player_socket_uid[<<g, m, PlaceOf(u)>>] = u
    BY <1>2, SeatOfRequester
  <2>2. u # INVALID
    BY UidsAssumption
  <2> QED BY <2>1, <2>2 DEF Occupants
<1> HIDE DEF O
<1>3. O = {u \in Uids : Using(u) /\ stage[u].at = g /\ MapOf(u) = m}
  BY <1>1, <1>2
<1>4. IsFiniteSet(O) /\ Cardinality(O) \in Nat
  BY <1>3, UidsAssumption, FS_Subset, FS_CardinalityType
<1>5. Cardinality(O) <= PlayersPerMap
  <2> DEFINE f == [u \in O |-> PlaceOf(u)]
  <2>1. f \in [O -> Places]
    BY <1>1
  <2>2. \A u, v \in O : f[u] = f[v] => u = v
    BY <1>1
  <2> HIDE DEF f
  <2>3. f \in Injection(O, Places)
    BY <2>1, <2>2, Fun_IsInj, Zenon
  <2>4. IsFiniteSet(Places) /\ Cardinality(Places) = PlayersPerMap
    <3>1. PlayersPerMap \in Nat \ {0}
      BY SizesAssumption
    <3>2. /\ IsFiniteSet(0 .. PlayersPerMap - 1)
          /\ Cardinality(0 .. PlayersPerMap - 1) =
                IF 0 > PlayersPerMap - 1 THEN 0 ELSE (PlayersPerMap - 1) - 0 + 1
      BY <3>1, FS_Interval
    <3> QED BY <3>1, <3>2 DEF Places
  <2> QED BY <2>3, <2>4, FS_Injection
<1> QED BY <1>3, <1>4, <1>5 DEF O

(***************************************************************************)
(* Counting the members of K below a member numbers K from 0 on.           *)
(***************************************************************************)
LEMMA RankIsBijection ==
    ASSUME NEW K, K \subseteq Nat, IsFiniteSet(K)
    PROVE  [i \in K |-> Cardinality({j \in K : j < i})]
              \in Bijection(K, 0 .. Cardinality(K) - 1)
<1> DEFINE Below(i) == {j \in K : j < i}
           N == 0 .. Cardinality(K) - 1
           f == [i \in K |-> Cardinality(Below(i))]
<1>1. Cardinality(K) \in Nat
  BY FS_CardinalityType
<1>2. ASSUME NEW i \in K
      PROVE  /\ IsFiniteSet(Below(i)) /\ Cardinality(Below(i)) \in Nat
             /\ Cardinality(Below(i)) < Cardinality(K)
  <2>1. Below(i) \in SUBSET K /\ Below(i) # K
    OBVIOUS
  <2>2. IsFiniteSet(Below(i)) /\ Cardinality(Below(i)) <= Cardinality(K)
        /\ (Cardinality(Below(i)) = Cardinality(K) => K = Below(i))
    BY <2>1, FS_Subset
  <2>3. Cardinality(Below(i)) \in Nat
    BY <2>2, FS_CardinalityType
  <2> HIDE DEF Below
  <2> QED BY <2>1, <2>2, <2>3, <1>1
<1>3. ASSUME NEW i \in K, NEW j \in K, i < j
      PROVE  Cardinality(Below(i)) < Cardinality(Below(j))
  <2>1. Below(i) \in SUBSET Below(j)
    <3>1. \A x \in K : x < i => x < j
      BY <1>3
    <3> QED BY <3>1
  <2>2. i \in Below(j) /\ i \notin Below(i)
    BY <1>3
  <2> HIDE DEF Below
  <2>3. /\ Cardinality(Below(i)) <= Cardinality(Below(j))
        /\ Cardinality(Below(j)) = Cardinality(Below(i)) => Below(j) = Below(i)
    BY <2>1, <1>2, FS_Subset
  <2> QED BY <2>2, <2>3, <1>2
<1> HIDE DEF Below
<1>4. f \in [K -> N]
  BY <1>1, <1>2
<1>5. ASSUME NEW i \in K, NEW j \in K, f[i] = f[j] PROVE i = j
  <2>1. Cardinality(Below(i)) = Cardinality(Below(j))
    BY <1>5
  <2>2. ~(i < j) /\ ~(j < i)
    BY <2>1, <1>2, <1>3
  <2> QED BY <2>2
<1>6. f \in Injection(K, N)
  <2> HIDE DEF f, N
  <2> QED BY <1>4, <1>5, Fun_IsInj, Zenon
<1>7. IsFiniteSet(N) /\ Cardinality(N) = Cardinality(K)
  <2>1. 0 \in Int /\ Cardinality(K) - 1 \in Int
    BY <1>1
  <2>2. /\ IsFiniteSet(N)
        /\ Cardinality(N) = IF 0 > Cardinality(K) - 1 THEN 0 ELSE (Cardinality(K) - 1) - 0 + 1
    BY <2>1, FS_Interval
  <2> HIDE DEF N
  <2> QED BY <1>1, <2>2
<1>8. f \in Surjection(K, N)
  BY <1>6, <1>7, FS_Injection
<1>9. f \in Bijection(K, N)
  BY <1>6, <1>8 DEF Bijection
<1> QED BY <1>9 DEF f, N, Below

(***************************************************************************)
(* The rebuild puts each client of the map but the leaver at the front of  *)
(* the list, and touches no other map.                                     *)
(***************************************************************************)
LEMMA RebuiltFront ==
    ASSUME IInv, NEW g \in Services, NEW m \in Maps, NEW u \in Uids,
           NEW list, list = map_uid_list_rebuild(g, m, u),
           NEW N, N = Cardinality(Occupants(g, m) \ {u})
    PROVE  /\ {list[<<g, m, k>>] : k \in 0 .. N - 1} = Occupants(g, m) \ {u}
           /\ \A h \in Services, n \in Maps, k \in Places :
                 <<h, n>> # <<g, m>> => list[<<h, n, k>>] = map_uid_list[<<h, n, k>>]
<1> DEFINE Kept == {i \in Places : map_player_socket_uid[<<g, m, i>>] \notin {INVALID, u}}
           Rank(i) == Cardinality({j \in Kept : j < i})
           rank == [i \in Kept |-> Rank(i)]
           who == [i \in Kept |-> map_player_socket_uid[<<g, m, i>>]]
           Others == Occupants(g, m) \ {u}
<1>1. /\ DOMAIN map_uid_list = Seats
      /\ list = [x \in Seats |->
           IF x[1] = g /\ x[2] = m /\ \E i \in Kept : Rank(i) = x[3]
           THEN map_player_socket_uid[<<g, m, CHOOSE i \in Kept : Rank(i) = x[3]>>]
           ELSE map_uid_list[x]]
  BY DEF map_uid_list_rebuild, IInv, TypeOK
<1>2. Kept \subseteq Nat /\ IsFiniteSet(Kept) /\ Kept \subseteq Places
  <2>1. Kept \subseteq Places /\ Places \subseteq Nat
    BY Ranges
  <2>2. IsFiniteSet(Places)
    BY SizesAssumption, FS_Interval DEF Places
  <2> QED BY <2>1, <2>2, FS_Subset
<1>3. who \in Bijection(Kept, Others)
  <2>1. who \in [Kept -> Others]
    BY DEF Occupants
  <2>2. ASSUME NEW i \in Kept, NEW j \in Kept, who[i] = who[j] PROVE i = j
    <3>1. ASSUME NEW k \in Places, NEW v, v = map_player_socket_uid[<<g, m, k>>], v # INVALID
          PROVE  PlaceOf(v) = k
      <4>1. uid_2_playid[v] = [state |-> "USING", mapid |-> m, map_playerid |-> k]
        BY <3>1 DEF IInv, SeatTablesAgree
      <4> QED BY <4>1 DEF PlaceOf
    <3>2. /\ i \in Places /\ j \in Places
          /\ map_player_socket_uid[<<g, m, i>>] = map_player_socket_uid[<<g, m, j>>]
          /\ map_player_socket_uid[<<g, m, i>>] # INVALID
      BY <2>2
    <3> QED BY <3>1, <3>2
  <2>3. ASSUME NEW w \in Others PROVE \E i \in Kept : who[i] = w
    BY <2>3 DEF Occupants
  <2> HIDE DEF who, Kept, Others
  <2> QED BY <2>1, <2>2, <2>3, Fun_IsBij, Zenon
<1>4. Cardinality(Kept) = N
  <2>1. ExistsBijection(Kept, Others)
    BY <1>3 DEF ExistsBijection
  <2> HIDE DEF Kept
  <2> QED BY <1>2, <2>1, FS_Bijection
<1>5. rank \in Bijection(Kept, 0 .. N - 1)
  <2> HIDE DEF Kept
  <2> QED BY <1>2, <1>4, RankIsBijection
<1>6. \A i \in Kept : rank[i] = Rank(i)
  OBVIOUS
<1> HIDE DEF Kept, Rank, rank
<1>7. /\ \A i \in Kept : Rank(i) \in 0 .. N - 1
      /\ \A i, j \in Kept : Rank(i) = Rank(j) => i = j
      /\ \A k \in 0 .. N - 1 : \E i \in Kept : Rank(i) = k
  <2>1. /\ rank \in [Kept -> 0 .. N - 1]
        /\ \A i, j \in Kept : rank[i] = rank[j] => i = j
        /\ \A k \in 0 .. N - 1 : \E i \in Kept : rank[i] = k
    BY <1>5 DEF Bijection, Injection, Surjection, IsInjective
  <2>2. ASSUME NEW i \in Kept PROVE Rank(i) \in 0 .. N - 1
    BY <2>1, <1>6
  <2>3. ASSUME NEW i \in Kept, NEW j \in Kept, Rank(i) = Rank(j) PROVE i = j
    BY <2>1, <2>3, <1>6
  <2>4. ASSUME NEW k \in 0 .. N - 1 PROVE \E i \in Kept : Rank(i) = k
    BY <2>1, <1>6
  <2> QED BY <2>2, <2>3, <2>4
<1>8. N \in Nat /\ 0 .. N - 1 \subseteq Places
  <2>1. /\ IsFiniteSet(Occupants(g, m)) /\ Cardinality(Occupants(g, m)) \in Nat
        /\ Cardinality(Occupants(g, m)) <= PlayersPerMap
    BY OccupantsAre
  <2>2. IsFiniteSet(Others) /\ N \in Nat /\ N <= Cardinality(Occupants(g, m))
    BY <2>1, FS_Subset, FS_CardinalityType
  <2> QED BY <2>1, <2>2, SizesAssumption DEF Places
<1>9. ASSUME NEW i \in Kept PROVE list[<<g, m, Rank(i)>>] = who[i]
  <2>1. <<g, m, Rank(i)>> \in Seats
    BY <1>7, <1>8 DEF Seats
  <2>2. (CHOOSE j \in Kept : Rank(j) = Rank(i)) = i
    BY <1>7
  <2> QED BY <1>1, <2>1, <2>2
<1>10. {list[<<g, m, k>>] : k \in 0 .. N - 1} = Others
  <2>1. ASSUME NEW k \in 0 .. N - 1 PROVE list[<<g, m, k>>] \in Others
    <3>1. PICK i \in Kept : Rank(i) = k
      BY <1>7
    <3>2. who[i] \in Others
      BY <1>3, Fun_BijectionProperties
    <3> QED BY <3>1, <3>2, <1>9
  <2>2. ASSUME NEW w \in Others PROVE \E k \in 0 .. N - 1 : list[<<g, m, k>>] = w
    <3> HIDE DEF who, Others
    <3>1. PICK i \in Kept : who[i] = w
      BY <1>3, <2>2 DEF Bijection, Surjection
    <3> QED BY <3>1, <1>7, <1>9
  <2> QED BY <2>1, <2>2
<1>11. ASSUME NEW h \in Services, NEW n \in Maps, NEW k \in Places, <<h, n>> # <<g, m>>
       PROVE  list[<<h, n, k>>] = map_uid_list[<<h, n, k>>]
  BY <1>1, <1>11 DEF Seats
<1> QED BY <1>10, <1>11

-----------------------------------------------------------------------------
(* Count and front of the broadcast lists.                                 *)

SeatedAt(g, m) == {u \in Uids : Using(u) /\ stage[u].at = g /\ MapOf(u) = m}

OccupantsAreSeated ==
    \A g \in Services, m \in Maps :
        Occupants(g, m) = SeatedAt(g, m) /\ IsFiniteSet(Occupants(g, m))

LEMMA OccupantsNow == IInv => OccupantsAreSeated
BY OccupantsAre DEF OccupantsAreSeated, SeatedAt

LEMMA OccupantsThen == IInv' => OccupantsAreSeated'
BY OccupantsNow, PTL

ListInv == CountIsStarted /\ FrontSeated

LEMMA ListsUntouched ==
    ASSUME ListInv,
           UNCHANGED <<map_player_socket_uid, map_player_num, map_uid_list, started, fault>>
    PROVE  ListInv'
<1>1. \A g \in Services, m \in Maps : Occupants(g, m)' = Occupants(g, m)
  BY DEF Occupants
<1> QED BY <1>1 DEF ListInv, CountIsStarted, FrontSeated

\* The count, and where a player that has yet to start finds it.
LEMMA CountBound ==
    ASSUME IInv, CountIsStarted, NEW g \in Services, NEW m \in Maps
    PROVE  /\ map_player_num[<<g, m>>] \in 0 .. PlayersPerMap
           /\ map_player_num[<<g, m>>] <= Cardinality(Occupants(g, m))
           /\ \A u \in Occupants(g, m) : u \notin started =>
                 /\ map_player_num[<<g, m>>] \in Places
                 /\ map_player_num[<<g, m>>] < PlayersPerMap
<1> DEFINE O == Occupants(g, m)
           P == O \cap started
<1>1. /\ IsFiniteSet(O) /\ Cardinality(O) \in Nat /\ Cardinality(O) <= PlayersPerMap
      /\ map_player_num[<<g, m>>] = Cardinality(P)
  BY OccupantsAre DEF CountIsStarted
<1> HIDE DEF O
<1>2. /\ IsFiniteSet(P) /\ Cardinality(P) \in Nat /\ Cardinality(P) <= Cardinality(O)
      /\ Cardinality(O) = Cardinality(P) => O = P
  BY <1>1, FS_Subset, FS_CardinalityType
<1>3. PlayersPerMap \in Nat
  BY SizesAssumption
<1>4. ASSUME NEW u \in O, u \notin started PROVE Cardinality(P) < Cardinality(O)
  <2>1. P # O
    BY <1>4
  <2> HIDE DEF P
  <2> QED BY <2>1, <1>1, <1>2
<1> HIDE DEF P
<1> QED BY <1>1, <1>2, <1>3, <1>4 DEF O, Places

LEMMA NewPlayerOccupants ==
    ASSUME IInv, IInv', NEW g \in Services, NewPlayer(g),
           NEW h \in Services, NEW n \in Maps
    PROVE  /\ Occupants(h, n) \subseteq Occupants(h, n)'
           /\ Occupants(h, n)' \subseteq Occupants(h, n) \cup {Requester(g)}
<1> DEFINE u == Requester(g)
<1>1. UNCHANGED stage
  BY DEF NewPlayer
<1>2. \A v \in Uids : v # u \/ Using(v) => uid_2_playid'[v] = uid_2_playid[v]
  BY DEF NewPlayer, TakePlace, IInv, TypeOK, Requester
<1> HIDE DEF u
<1>3. \A v \in SeatedAt(h, n) : v \in SeatedAt(h, n)'
  BY <1>1, <1>2 DEF SeatedAt, Using, MapOf
<1>4. \A v \in SeatedAt(h, n)' : v = u \/ v \in SeatedAt(h, n)
  BY <1>1, <1>2 DEF SeatedAt, Using, MapOf
<1> QED BY <1>3, <1>4, OccupantsNow, OccupantsThen DEF OccupantsAreSeated, u

LEMMA NewPlayerLists ==
    ASSUME IInv, IInv', OrderlyInv, ListInv, NEW g \in Services, NewPlayer(g)
    PROVE  ListInv'
<1> DEFINE u == Requester(g)
<1>1. UNCHANGED <<map_player_num, map_uid_list, started, fault>> /\ Pop(g, "S")
  BY DEF NewPlayer, history
<1>2. u \notin started
  <2>1. u \in Uids /\ Turn(Head(que_2_gamelogic[g])) = 0
    BY <1>1, RequesterIsHere DEF Pop, Turn
  <2>2. Waits(u, 0)
    BY <1>1, <2>1, PopWaits DEF OrderlyInv, NewPlayer
  <2> QED BY <2>1, <2>2 DEF OrderlyInv, Progress
<1> HIDE DEF u
<1>3. ASSUME NEW h \in Services, NEW n \in Maps
      PROVE  /\ Occupants(h, n) \subseteq Occupants(h, n)'
             /\ (Occupants(h, n) \cap started)' = Occupants(h, n) \cap started
  <2>1. /\ Occupants(h, n) \subseteq Occupants(h, n)'
        /\ Occupants(h, n)' \subseteq Occupants(h, n) \cup {u}
    BY NewPlayerOccupants DEF u
  <2>2. Occupants(h, n)' \cap started = Occupants(h, n) \cap started
    BY <2>1, <1>2
  <2> QED BY <2>1, <2>2, <1>1
<1>4. CountIsStarted'
  BY <1>1, <1>3 DEF ListInv, CountIsStarted
<1>5. FrontSeated'
  BY <1>1, <1>3 DEF ListInv, FrontSeated
<1> QED BY <1>4, <1>5 DEF ListInv

\* The entries a login describes are players, so it never follows a NULL enemy.
LEMMA LoginLists ==
    ASSUME IInv, ListInv, NEW g \in Services, Login(g)
    PROVE  ListInv' /\ UNCHANGED fault
<1> DEFINE u == Requester(g)
           m == MapOf(u)
           n == map_player_num[<<g, m>>]
           enemies == Front(g, m, n)
<1>1. u \in Uids /\ m \in Maps
  BY PoppedType DEF Login, PopRequest, Requester, IInv, TypeOK, MapOf
<1>2. n \in Int /\ n <= PlayersPerMap
  <2>1. n \in 0 .. PlayersPerMap
    BY <1>1, CountBound DEF ListInv
  <2> QED BY <2>1, SizesAssumption
<1>3. ASSUME NEW k \in 1 .. n PROVE enemies[k] \in Uids /\ Using(enemies[k])
  <2>1. enemies[k] = map_uid_list[<<g, m, k - 1>>] /\ k - 1 \in 0 .. n - 1
    BY <1>2 DEF Front
  <2>2. enemies[k] \in Occupants(g, m)
    BY <1>1, <2>1 DEF ListInv, FrontSeated
  <2> QED BY <2>2, <1>1, OccupantsAre
<1>4. UNCHANGED fault
  <2>1. ~(n > PlayersPerMap)
    BY <1>2, SizesAssumption
  <2>2. ~(\E k \in 1 .. n : enemies[k] \notin Uids \/ ~Using(enemies[k]))
    BY <1>3
  <2> QED BY <2>1, <2>2, Zenon DEF Login
<1>5. UNCHANGED <<map_player_socket_uid, map_player_num, map_uid_list, started>>
  BY DEF Login, history
<1> QED BY <1>4, <1>5, ListsUntouched

LEMMA StartLists ==
    ASSUME Orderly, IInv, OrderlyInv, ListInv, NEW g \in Services, Start(g)
    PROVE  ListInv' /\ UNCHANGED fault
<1> DEFINE u == Requester(g)
           m == MapOf(u)
           n == map_player_num[<<g, m>>]
<1>1. /\ Pop(g, "D") /\ UNCHANGED <<stage, map_player_socket_uid>> /\ Using(u)
      /\ u \in Uids /\ stage[u].at = g /\ m \in Maps
  BY RequesterIsHere DEF Start, PopRequest, IInv, TypeOK, MapOf
<1>2. u \in Occupants(g, m)
  BY <1>1, OccupantsAre
<1>3. u \notin started
  <2>1. Turn(Head(que_2_gamelogic[g])) = 2
    BY DEF Start, PopRequest, Pop, Turn
  <2>2. Waits(u, 2)
    BY <1>1, <2>1, PopWaits DEF OrderlyInv
  <2> QED BY <1>1, <2>2 DEF OrderlyInv, Progress
<1>4. n \in Places /\ n < PlayersPerMap /\ n \in Nat
  BY <1>1, <1>2, <1>3, CountBound, Ranges DEF ListInv
<1>5. /\ map_player_num' = [map_player_num EXCEPT ![<<g, m>>] = n + 1]
      /\ map_uid_list' = [map_uid_list EXCEPT ![<<g, m, n>>] = u]
      /\ started' = started \cup {u}
      /\ fault' = fault
  <2>1. ~(n >= PlayersPerMap)
    BY <1>4, SizesAssumption
  <2> QED BY <1>4, <2>1 DEF Start
<1>6. \A h \in Services, k \in Maps : Occupants(h, k)' = Occupants(h, k)
  BY <1>1 DEF Occupants
<1>7. /\ map_player_num \in [Services \X Maps -> Int]
      /\ map_uid_list \in [Seats -> Uids \cup {Unset}]
  BY DEF IInv, TypeOK
<1> HIDE DEF u, m, n
<1>8. CountIsStarted'
  <2> SUFFICES ASSUME NEW h \in Services, NEW k \in Maps
               PROVE  map_player_num'[<<h, k>>] = Cardinality(Occupants(h, k) \cap started')
    BY <1>6 DEF CountIsStarted
  <2> DEFINE P == Occupants(h, k) \cap started
  <2>1. map_player_num[<<h, k>>] = Cardinality(P)
    BY DEF ListInv, CountIsStarted
  <2>2. CASE h = g /\ k = m
    <3>1. Occupants(h, k) \cap started' = P \cup {u} /\ u \notin P
      BY <1>2, <1>3, <1>5, <2>2
    <3>2. IsFiniteSet(P)
      BY OccupantsAre, FS_Subset
    <3> HIDE DEF P
    <3>3. Cardinality(P \cup {u}) = Cardinality(P) + 1
      BY <3>1, <3>2, FS_AddElement
    <3>4. map_player_num'[<<h, k>>] = Cardinality(P) + 1
      BY <2>1, <2>2, <1>5, <1>7 DEF n
    <3> QED BY <3>1, <3>3, <3>4
  <2>3. CASE ~(h = g /\ k = m)
    <3>1. Occupants(h, k) \cap started' = P
      BY <2>3, <1>1, <1>5, OccupantsAre DEF m
    <3>2. map_player_num'[<<h, k>>] = map_player_num[<<h, k>>]
      BY <2>3, <1>5, <1>7
    <3> QED BY <2>1, <3>1, <3>2
  <2> QED BY <2>2, <2>3
<1>9. FrontSeated'
  <2> SUFFICES ASSUME NEW h \in Services, NEW k \in Maps,
                      NEW j \in 0 .. map_player_num'[<<h, k>>] - 1
               PROVE  map_uid_list'[<<h, k, j>>] \in Occupants(h, k)
    BY <1>5, <1>6 DEF ListInv, FrontSeated
  <2>1. j \in 0 .. map_player_num[<<h, k>>] - 1
           => map_uid_list[<<h, k, j>>] \in Occupants(h, k)
    BY DEF ListInv, FrontSeated
  <2>2. map_player_num[<<h, k>>] \in 0 .. PlayersPerMap
    BY CountBound DEF ListInv
  <2>3. CASE h = g /\ k = m
    <3>1. map_player_num'[<<h, k>>] = n + 1
      BY <2>3, <1>1, <1>5, <1>7
    <3>2. CASE j = n
      <4>1. <<g, m, n>> \in Seats
        BY <1>1, <1>4 DEF Seats
      <4> QED BY <4>1, <2>3, <3>2, <1>2, <1>5, <1>7
    <3>3. CASE j # n
      <4>1. j \in 0 .. n - 1 /\ j \in Places
        BY <3>1, <3>3, <1>4, SizesAssumption DEF Places
      <4>2. map_uid_list'[<<h, k, j>>] = map_uid_list[<<h, k, j>>]
        BY <3>3, <4>1, <1>5, <1>7 DEF Seats
      <4> QED BY <2>1, <2>3, <4>1, <4>2 DEF n
    <3> QED BY <3>2, <3>3
  <2>4. CASE ~(h = g /\ k = m)
    <3>1. map_player_num'[<<h, k>>] = map_player_num[<<h, k>>]
      BY <2>4, <1>5, <1>7
    <3>2. j \in Places
      BY <3>1, <2>2, SizesAssumption DEF Places
    <3>3. map_uid_list'[<<h, k, j>>] = map_uid_list[<<h, k, j>>]
      BY <2>4, <3>2, <1>5, <1>7 DEF Seats
    <3> QED BY <2>1, <3>1, <3>3
  <2> QED BY <2>3, <2>4
<1> QED BY <1>5, <1>8, <1>9 DEF ListInv

LEMMA MoveLists ==
    ASSUME IInv, ListInv, NEW g \in Services, Move(g)
    PROVE  ListInv' /\ UNCHANGED fault
<1> DEFINE u == Requester(g)
           m == MapOf(u)
           n == map_player_num[<<g, m>>]
<1>1. u \in Uids /\ m \in Maps
  BY PoppedType DEF Move, PopRequest, Requester, IInv, TypeOK, MapOf
<1>2. n \in 0 .. PlayersPerMap
  BY <1>1, CountBound DEF ListInv
<1>3. UNCHANGED fault
  BY <1>2, SizesAssumption DEF Move
<1> QED BY <1>3, ListsUntouched DEF Move, tables, history

\* A close of a seated client: it leaves its map.
LEMMA LeaverIs ==
    ASSUME IInv, IInv', NEW g \in Services, UserClose(g),
           NEW u, u = Requester(g), Using(u)
    PROVE  /\ u \in Uids /\ stage[u].at = g /\ MapOf(u) \in Maps
           /\ u \in Occupants(g, MapOf(u))
           /\ RemovePlayer(g, u)
           /\ \A h \in Services, n \in Maps :
                 Occupants(h, n)' = IF <<h, n>> = <<g, MapOf(u)>>
                                    THEN Occupants(h, n) \ {u} ELSE Occupants(h, n)
<1>1. Pop(g, "C") /\ UNCHANGED stage /\ RemovePlayer(g, u)
  BY DEF UserClose
<1>2. u \in Uids /\ stage[u].at = g
  BY <1>1, RequesterIsHere
<1>3. MapOf(u) \in Maps /\ u \in Occupants(g, MapOf(u))
  BY <1>2, OccupantsAre DEF IInv, TypeOK, MapOf
<1>5. /\ uid_2_playid'[u].state = "INVALID"
      /\ \A v \in Uids \ {u} : uid_2_playid'[v] = uid_2_playid[v]
  <2>1. uid_2_playid' = [uid_2_playid EXCEPT ![u].state = "INVALID"]
    BY <1>1 DEF RemovePlayer
  <2> QED BY <1>2, <2>1 DEF IInv, TypeOK
<1>6. ASSUME NEW h \in Services, NEW n \in Maps
      PROVE  Occupants(h, n)' = IF <<h, n>> = <<g, MapOf(u)>>
                                THEN Occupants(h, n) \ {u} ELSE Occupants(h, n)
  <2>1. ASSUME NEW v \in Uids, v # u PROVE v \in SeatedAt(h, n)' <=> v \in SeatedAt(h, n)
    BY <2>1, <1>1, <1>5 DEF SeatedAt, Using, MapOf
  <2>2. u \notin SeatedAt(h, n)'
    BY <1>5 DEF SeatedAt, Using
  <2>3. u \in SeatedAt(h, n) <=> <<h, n>> = <<g, MapOf(u)>>
    BY <1>2 DEF SeatedAt
  <2>4. SeatedAt(h, n)' \subseteq Uids /\ SeatedAt(h, n) \subseteq Uids
    BY DEF SeatedAt
  <2>5. Occupants(h, n)' = SeatedAt(h, n)' /\ Occupants(h, n) = SeatedAt(h, n)
    BY OccupantsNow, OccupantsThen DEF OccupantsAreSeated
  <2> HIDE DEF SeatedAt
  <2> QED BY <2>1, <2>2, <2>3, <2>4, <2>5
<1> QED BY <1>1, <1>2, <1>3, <1>6

\* An orderly one has started.
LEMMA CloserIs ==
    ASSUME IInv, IInv', OrderlyInv, NEW g \in Services, UserClose(g),
           NEW u, u = Requester(g), Using(u)
    PROVE  /\ u \in Uids /\ stage[u].at = g /\ MapOf(u) \in Maps
           /\ u \in started /\ u \in Occupants(g, MapOf(u)) /\ Named(u)
           /\ RemovePlayer(g, u)
           /\ \A h \in Services, n \in Maps :
                 Occupants(h, n)' = IF <<h, n>> = <<g, MapOf(u)>>
                                    THEN Occupants(h, n) \ {u} ELSE Occupants(h, n)
<1>1. Pop(g, "C") /\ UNCHANGED stage
  BY DEF UserClose
<1>2. u \in Uids /\ Turn(Head(que_2_gamelogic[g])) = 4
  BY <1>1, HandledTurn
<1>3. ~Waits(u, 0) /\ ~Waits(u, 1) /\ ~Waits(u, 2)
  BY <1>1, <1>2, PopWaits DEF OrderlyInv
<1>4. Reached(stage[u].sent) >= 4
  <2>1. que_2_gamelogic[g] # <<>> /\ que_2_gamelogic[g] \in Seq(UserMsgs(Uids))
    BY <1>1, QueueType DEF IInv, Pop
  <2>2. 1 \in DOMAIN que_2_gamelogic[g] /\ Head(que_2_gamelogic[g]) = que_2_gamelogic[g][1]
    BY <2>1
  <2>3. 4 <= Reached(stage[u].sent)
    BY <1>2, <2>2 DEF OrderlyInv, InTurn, Requester
  <2> QED BY <2>3, ReachedIs
<1>5. Progress(u)
  BY <1>2 DEF OrderlyInv
<1>6. u \in started /\ Named(u)
  BY <1>3, <1>4, <1>5, ReachedIs DEF Progress
<1> QED BY <1>6, LeaverIs

\* The lists after a close: exact on the leaver's map, untouched on the others.
LEMMA CloseRebuilds ==
    ASSUME IInv, IInv', NEW g \in Services, UserClose(g),
           NEW u, u = Requester(g), Using(u), NEW m, m = MapOf(u)
    PROVE  /\ {map_uid_list'[<<g, m, k>>] : k \in 0 .. Cardinality(Occupants(g, m)') - 1}
                 = Occupants(g, m)'
           /\ \A h \in Services, n \in Maps, k \in Places : <<h, n>> # <<g, m>> =>
                 map_uid_list'[<<h, n, k>>] = map_uid_list[<<h, n, k>>]
<1>1. u \in Uids /\ m \in Maps /\ map_uid_list' = map_uid_list_rebuild(g, m, u)
  BY LeaverIs DEF RemovePlayer
<1>2. Occupants(g, m)' = Occupants(g, m) \ {u}
  BY <1>1, LeaverIs
<1> DEFINE list == map_uid_list'
           N == Cardinality(Occupants(g, m)')
<1>3. list = map_uid_list_rebuild(g, m, u) /\ N = Cardinality(Occupants(g, m) \ {u})
  BY <1>1, <1>2
<1> HIDE DEF list, N
<1>4. /\ {list[<<g, m, k>>] : k \in 0 .. N - 1} = Occupants(g, m) \ {u}
      /\ \A h \in Services, n \in Maps, k \in Places :
            <<h, n>> # <<g, m>> => list[<<h, n, k>>] = map_uid_list[<<h, n, k>>]
  BY <1>1, <1>3, RebuiltFront
<1> QED BY <1>2, <1>4 DEF list, N

LEMMA UserCloseLists ==
    ASSUME IInv, IInv', OrderlyInv, ListInv, NEW g \in Services, UserClose(g)
    PROVE  ListInv' /\ UNCHANGED fault
<1> DEFINE u == Requester(g)
           m == MapOf(u)
<1>1. CASE ~Using(u)
  BY <1>1, ListsUntouched DEF UserClose, tables, history
<1>2. CASE Using(u)
  <2> DEFINE P(h, n) == Occupants(h, n) \cap started
  <2> HIDE DEF u, m
  <2>1. /\ u \in Uids /\ stage[u].at = g /\ m \in Maps
        /\ u \in started /\ u \in Occupants(g, m) /\ RemovePlayer(g, u)
        /\ \A h \in Services, n \in Maps :
              Occupants(h, n)' = IF <<h, n>> = <<g, m>>
                                 THEN Occupants(h, n) \ {u} ELSE Occupants(h, n)
    BY <1>2, CloserIs DEF u, m
  <2>2. /\ map_player_num' = [map_player_num EXCEPT ![<<g, m>>] = @ - 1]
        /\ started' = started \ {u}
    BY <2>1 DEF RemovePlayer, CountOut, m
  <2>3. ASSUME NEW h \in Services, NEW n \in Maps
        PROVE  /\ map_player_num[<<h, n>>] = Cardinality(P(h, n))
               /\ IsFiniteSet(P(h, n)) /\ Cardinality(P(h, n)) \in Nat
               /\ map_player_num[<<h, n>>] \in Nat /\ map_player_num[<<h, n>>] <= PlayersPerMap
    <3>1. map_player_num[<<h, n>>] \in 0 .. PlayersPerMap
      BY CountBound DEF ListInv
    <3>2. map_player_num[<<h, n>>] = Cardinality(P(h, n)) /\ IsFiniteSet(P(h, n))
      BY OccupantsAre, FS_Subset DEF ListInv, CountIsStarted
    <3> HIDE DEF P
    <3> QED BY <3>1, <3>2, SizesAssumption
  <2>4. ASSUME NEW h \in Services, NEW n \in Maps
        PROVE  /\ IsFiniteSet(Occupants(h, n)) /\ IsFiniteSet(Occupants(h, n)')
               /\ Cardinality(Occupants(h, n)) \in Nat
               /\ Cardinality(Occupants(h, n)') \in Nat
    <3>1. IsFiniteSet(Occupants(h, n)) /\ IsFiniteSet(Occupants(h, n)')
      BY OccupantsNow, OccupantsThen DEF OccupantsAreSeated
    <3> QED BY <3>1, FS_CardinalityType
  <2> HIDE DEF P
  <2>5. UNCHANGED fault
    <3>1. ~(map_player_num[<<g, m>>] - 1 > PlayersPerMap)
      BY <2>1, <2>3, SizesAssumption
    <3> QED BY <2>1, <3>1 DEF RemovePlayer, m
  <2>6. map_player_num \in [Services \X Maps -> Int]
    BY DEF IInv, TypeOK
  <2>7. ASSUME NEW h \in Services, NEW n \in Maps
        PROVE  /\ map_player_num'[<<h, n>>] = Cardinality(Occupants(h, n)' \cap started')
               /\ map_player_num'[<<h, n>>] <= Cardinality(Occupants(h, n)')
    <3>1. CASE <<h, n>> = <<g, m>>
      <4>1. Occupants(h, n)' \cap started' = P(h, n) \ {u} /\ u \in P(h, n)
        BY <2>1, <2>2, <3>1 DEF P
      <4>2. Cardinality(P(h, n) \ {u}) = Cardinality(P(h, n)) - 1
        BY <2>3, <4>1, FS_RemoveElement
      <4>3. map_player_num'[<<h, n>>] = map_player_num[<<h, n>>] - 1
        BY <2>2, <2>6, <3>1
      <4>4. Cardinality(P(h, n) \ {u}) <= Cardinality(Occupants(h, n)')
        BY <4>1, <2>4, FS_Subset
      <4> QED BY <2>3, <4>1, <4>2, <4>3, <4>4
    <3>2. CASE <<h, n>> # <<g, m>>
      <4>1. u \notin Occupants(h, n)
        BY <2>1, <3>2, OccupantsAre DEF m
      <4>2. Occupants(h, n)' \cap started' = P(h, n) /\ Occupants(h, n)' = Occupants(h, n)
        BY <2>1, <2>2, <3>2, <4>1 DEF P
      <4>3. map_player_num'[<<h, n>>] = map_player_num[<<h, n>>]
        BY <2>2, <2>6, <3>2
      <4>4. Cardinality(P(h, n)) <= Cardinality(Occupants(h, n)')
        BY <4>2, <2>4, FS_Subset DEF P
      <4> QED BY <2>3, <4>2, <4>3, <4>4
    <3> QED BY <3>1, <3>2
  <2>8. CountIsStarted'
    BY <2>7 DEF CountIsStarted
  <2>9. ASSUME NEW h \in Services, NEW n \in Maps,
               NEW k \in 0 .. map_player_num'[<<h, n>>] - 1
        PROVE  map_uid_list'[<<h, n, k>>] \in Occupants(h, n)'
    <3>1. CASE <<h, n>> = <<g, m>>
      <4>1. map_player_num'[<<h, n>>] \in Int
        BY <2>2, <2>3, <2>6, <3>1
      <4>2. /\ Cardinality(Occupants(h, n)') \in Nat
            /\ map_player_num'[<<h, n>>] <= Cardinality(Occupants(h, n)')
        BY <2>7, <2>4
      <4>3. k \in 0 .. Cardinality(Occupants(h, n)') - 1
        BY <4>1, <4>2
      <4> QED BY <4>3, <3>1, <1>2, CloseRebuilds DEF u, m
    <3>2. CASE <<h, n>> # <<g, m>>
      <4>1. map_player_num'[<<h, n>>] = map_player_num[<<h, n>>]
            /\ Occupants(h, n)' = Occupants(h, n)
        BY <2>1, <2>2, <2>6, <3>2
      <4>2. k \in Places /\ k \in 0 .. map_player_num[<<h, n>>] - 1
        BY <4>1, <2>3, SizesAssumption DEF Places
      <4>3. map_uid_list'[<<h, n, k>>] = map_uid_list[<<h, n, k>>]
        BY <3>2, <4>2, <1>2, CloseRebuilds DEF u, m
      <4> QED BY <4>1, <4>2, <4>3 DEF ListInv, FrontSeated
    <3> QED BY <3>1, <3>2
  <2>10. FrontSeated'
    BY <2>5, <2>9 DEF ListInv, FrontSeated
  <2> QED BY <2>5, <2>8, <2>10 DEF ListInv
<1> QED BY <1>1, <1>2

LEMMA ListInit == Init => ListInv
<1> SUFFICES ASSUME Init PROVE ListInv
  OBVIOUS
<1>1. \A g \in Services, m \in Maps : map_player_num[<<g, m>>] = 0
  BY DEF Init, TablesInit
<1>2. started = {} /\ fault = "none"
  BY DEF Init, TablesInit
<1>3. CountIsStarted
  BY <1>1, <1>2, FS_EmptySet DEF CountIsStarted
<1>4. FrontSeated
  BY <1>1, <1>2 DEF FrontSeated
<1> QED BY <1>3, <1>4 DEF ListInv

(***************************************************************************)
(* An orderly client's requests unpack.                                    *)
(***************************************************************************)
Readable ==
    \A g \in Services : \A k \in DOMAIN que_2_gamelogic[g] :
        que_2_gamelogic[g][k].req # "BAD_REQ"

LEMMA ReadablePush ==
    ASSUME TypeOK, Readable, NEW g \in Services, NEW m \in UserMsgs(Uids), Push(g, m),
           m.req # "BAD_REQ"
    PROVE  Readable'
<1>1. /\ que_2_gamelogic \in [Services -> Seq(UserMsgs(Uids))]
      /\ que_2_gamelogic' = [que_2_gamelogic EXCEPT ![g] = Append(@, m)]
  BY DEF TypeOK, Push
<1>2. ASSUME NEW h \in Services, NEW k \in DOMAIN que_2_gamelogic'[h]
      PROVE  que_2_gamelogic'[h][k].req # "BAD_REQ"
  <2>1. CASE h = g
    <3>1. /\ que_2_gamelogic'[h] = Append(que_2_gamelogic[g], m)
          /\ que_2_gamelogic[g] \in Seq(UserMsgs(Uids))
      BY <1>1, <2>1
    <3>2. \/ k \in DOMAIN que_2_gamelogic[g] /\ que_2_gamelogic'[h][k] = que_2_gamelogic[g][k]
          \/ que_2_gamelogic'[h][k] = m
      BY <3>1, AppendElement
    <3> QED BY <3>2 DEF Readable
  <2>2. CASE h # g
    <3>1. que_2_gamelogic'[h] = que_2_gamelogic[h]
      BY <1>1, <2>2
    <3> QED BY <3>1 DEF Readable
  <2> QED BY <2>1, <2>2
<1> QED BY <1>2 DEF Readable

LEMMA ReadableStep == Orderly /\ IInv /\ Readable /\ [Next]_vars => Readable'
<1> SUFFICES ASSUME Orderly, IInv, Readable, [Next]_vars PROVE Readable'
  OBVIOUS
<1>1. ASSUME NEW g \in Services, GameLogicStep(g) PROVE Readable'
  <2>1. PICK t : Pop(g, t)
    BY <1>1, StepPops, Zenon
  <2>2. /\ que_2_gamelogic \in [Services -> Seq(UserMsgs(Uids))]
        /\ que_2_gamelogic[g] # <<>>
        /\ que_2_gamelogic' = [que_2_gamelogic EXCEPT ![g] = Tail(@)]
    BY <2>1 DEF IInv, TypeOK, Pop
  <2>3. ASSUME NEW h \in Services, NEW k \in DOMAIN que_2_gamelogic'[h]
        PROVE  que_2_gamelogic'[h][k].req # "BAD_REQ"
    <3>1. CASE h = g
      <4>1. /\ que_2_gamelogic'[h] = Tail(que_2_gamelogic[g])
            /\ que_2_gamelogic[g] \in Seq(UserMsgs(Uids)) /\ que_2_gamelogic[g] # <<>>
        BY <2>2, <3>1
      <4>2. k + 1 \in DOMAIN que_2_gamelogic[g]
            /\ que_2_gamelogic'[h][k] = que_2_gamelogic[g][k + 1]
        BY <4>1, TailElement
      <4> QED BY <4>2 DEF Readable
    <3>2. CASE h # g
      <4>1. que_2_gamelogic'[h] = que_2_gamelogic[h]
        BY <2>2, <3>2
      <4> QED BY <4>1 DEF Readable
    <3> QED BY <3>1, <3>2
  <2> QED BY <2>3 DEF Readable
<1>2. ASSUME NEW u \in Uids, NEW g \in Services, Connect(u, g) PROVE Readable'
  <2>1. Push(g, New(u)) /\ New(u).req # "BAD_REQ"
    BY <1>2 DEF Connect, New
  <2> QED BY <2>1, PushesOf, ReadablePush DEF IInv
<1>3. ASSUME NEW u \in Uids, NEW r \in Requests, Request(u, r) PROVE Readable'
  <2>1. Push(stage[u].at, Data(u, r)) /\ r \in InOrder(stage[u].sent)
    BY <1>3 DEF Request
  <2>2. Data(u, r).req # "BAD_REQ"
    BY <2>1, InOrderIs DEF Data
  <2> QED BY <1>3, <2>1, <2>2, PushesOf, ReadablePush DEF IInv
<1>4. ASSUME NEW u \in Uids, Disconnect(u) PROVE Readable'
  <2>1. Push(stage[u].at, Closed(u)) /\ Closed(u).req # "BAD_REQ"
    BY <1>4 DEF Disconnect, Closed
  <2> QED BY <1>4, <2>1, PushesOf, ReadablePush DEF IInv
<1>5. ASSUME NetLogicDrain \/ UNCHANGED vars PROVE Readable'
  BY <1>5 DEF NetLogicDrain, vars, Readable
<1> QED BY <1>1, <1>2, <1>3, <1>4, <1>5 DEF Next, Environment, Forwarded

LEMMA NoNullRequest ==
    ASSUME IInv, Readable, NEW g \in Services
    PROVE  ~NullRequest(g)
<1> SUFFICES ASSUME NullRequest(g) PROVE FALSE
  OBVIOUS
<1>1. Pop(g, "D") /\ Head(que_2_gamelogic[g]).req = "BAD_REQ"
  BY DEF NullRequest, PopRequest
<1>2. que_2_gamelogic[g] \in Seq(UserMsgs(Uids)) /\ que_2_gamelogic[g] # <<>>
  BY <1>1 DEF IInv, TypeOK, Pop
<1>3. 1 \in DOMAIN que_2_gamelogic[g] /\ Head(que_2_gamelogic[g]) = que_2_gamelogic[g][1]
  BY <1>2
<1> QED BY <1>1, <1>3 DEF Readable

LEMMA ListStep ==
    ASSUME Orderly, IInv, IInv', OrderlyInv, Readable, ListInv, [Next]_vars
    PROVE  ListInv'
<1>1. ASSUME NEW g \in Services, GameLogicStep(g) PROVE ListInv'
  <2>1. CASE NewPlayer(g) BY <2>1, NewPlayerLists
  <2>2. CASE Login(g)     BY <2>2, LoginLists
  <2>3. CASE Start(g)     BY <2>3, StartLists
  <2>4. CASE Move(g)      BY <2>4, MoveLists
  <2>5. CASE Leave(g) \/ Ignore(g)
    BY <2>5, ListsUntouched DEF Leave, Ignore, tables, history
  <2>6. CASE UserClose(g) BY <2>6, UserCloseLists
  <2> QED BY <1>1, <2>1, <2>2, <2>3, <2>4, <2>5, <2>6, NoNullRequest DEF GameLogicStep
<1>2. ASSUME Environment PROVE ListInv'
  BY <1>2, ListsUntouched
     DEF Environment, Connect, Request, Disconnect, NetLogicDrain, Push, tables, history
<1>3. ASSUME UNCHANGED vars PROVE ListInv'
  BY <1>3, ListsUntouched DEF vars, tables, history
<1> QED BY <1>1, <1>2, <1>3 DEF Next

PlayInv == IInv /\ OrderlyInv /\ Readable /\ ListInv

LEMMA PlayInvHolds == ASSUME Orderly PROVE Spec => []PlayInv
<1>1. Init => PlayInv
  <2>1. Init => Readable
    BY DEF Init, Readable
  <2> QED BY <2>1, IInvInit, OrderlyInit, ListInit DEF PlayInv
<1>2. PlayInv /\ [Next]_vars => PlayInv'
  BY IInvStep, OrderlyStep, ReadableStep, ListStep DEF PlayInv
<1> QED BY <1>1, <1>2, PTL DEF Spec

-----------------------------------------------------------------------------
(* The count of the started players, whatever the clients send.            *)

StartedSit == started \subseteq {u \in Uids : Using(u)}
CountInv   == StartedSit /\ CountAccounted

LEMMA CountUntouched ==
    ASSUME CountInv,
           UNCHANGED <<map_player_socket_uid, map_player_num, started, miscount>>,
           \A u \in Uids : Using(u) => Using(u)'
    PROVE  CountInv'
<1>1. \A g \in Services, m \in Maps : Occupants(g, m)' = Occupants(g, m)
  BY DEF Occupants
<1> QED BY <1>1 DEF CountInv, CountAccounted, StartedSit

LEMMA NewPlayerAccounts ==
    ASSUME IInv, IInv', CountInv, NEW g \in Services, NewPlayer(g)
    PROVE  CountInv'
<1> DEFINE u == Requester(g)
<1>1. UNCHANGED <<map_player_num, started, miscount>>
  BY DEF NewPlayer, history
<1>2. \A v \in Uids : Using(v) => uid_2_playid'[v] = uid_2_playid[v]
  BY DEF NewPlayer, TakePlace, IInv, TypeOK, Requester
<1>3. CASE Using(u)
  <2>1. UNCHANGED map_player_socket_uid
    BY <1>3 DEF NewPlayer, Requester
  <2> QED BY <1>1, <1>2, <2>1, CountUntouched DEF Using
<1>4. CASE ~Using(u)
  <2>1. u \notin started
    BY <1>4 DEF CountInv, StartedSit
  <2> HIDE DEF u
  <2>2. ASSUME NEW h \in Services, NEW n \in Maps
        PROVE  Occupants(h, n)' \cap started = Occupants(h, n) \cap started
    BY <2>1, NewPlayerOccupants DEF u
  <2>3. StartedSit'
    BY <1>1, <1>2 DEF CountInv, StartedSit, Using
  <2> QED BY <1>1, <2>2, <2>3 DEF CountInv, CountAccounted
<1> QED BY <1>3, <1>4

LEMMA StartAccounts ==
    ASSUME IInv, CountInv, NEW g \in Services, Start(g)
    PROVE  CountInv'
<1> DEFINE u == Requester(g)
           m == MapOf(u)
           n == map_player_num[<<g, m>>]
<1>1. /\ Pop(g, "D") /\ UNCHANGED <<stage, map_player_socket_uid, uid_2_playid>> /\ Using(u)
      /\ u \in Uids /\ stage[u].at = g /\ m \in Maps
  BY RequesterIsHere DEF Start, PopRequest, IInv, TypeOK, MapOf
<1>2. u \in Occupants(g, m)
  BY <1>1, OccupantsAre
<1>3. /\ map_player_num' = [map_player_num EXCEPT ![<<g, m>>] = n + 1]
      /\ started' = started \cup {u}
      /\ miscount' = IF u \in started THEN [miscount EXCEPT ![<<g, m>>] = @ + 1]
                     ELSE miscount
  BY DEF Start
<1>4. /\ map_player_num \in [Services \X Maps -> Int]
      /\ miscount \in [Services \X Maps -> Int]
  BY DEF IInv, TypeOK
<1> HIDE DEF u, m, n
<1>5. CountAccounted'
  <2> SUFFICES ASSUME NEW h \in Services, NEW k \in Maps
               PROVE  map_player_num'[<<h, k>>] =
                         Cardinality(Occupants(h, k) \cap started') + miscount'[<<h, k>>]
    <3>1. \A h \in Services, k \in Maps : Occupants(h, k)' = Occupants(h, k)
      BY <1>1 DEF Occupants
    <3> QED BY <3>1 DEF CountAccounted
  <2> DEFINE P == Occupants(h, k) \cap started
  <2>1. map_player_num[<<h, k>>] = Cardinality(P) + miscount[<<h, k>>]
    BY DEF CountInv, CountAccounted
  <2>2. IsFiniteSet(P) /\ Cardinality(P) \in Nat
    BY OccupantsAre, FS_Subset, FS_CardinalityType
  <2>3. CASE h = g /\ k = m /\ u \in started
    <3>1. Occupants(h, k) \cap started' = P
      BY <1>3, <2>3
    <3>2. /\ map_player_num'[<<h, k>>] = map_player_num[<<h, k>>] + 1
          /\ miscount'[<<h, k>>] = miscount[<<h, k>>] + 1
      BY <1>1, <1>3, <1>4, <2>3 DEF n
    <3>3. miscount[<<h, k>>] \in Int
      BY <1>4
    <3>4. Cardinality(Occupants(h, k) \cap started') = Cardinality(P)
      BY <3>1
    <3> DEFINE a == map_player_num[<<h, k>>]
               b == map_player_num'[<<h, k>>]
               c == Cardinality(P)
               d == Cardinality(Occupants(h, k) \cap started')
               e == miscount[<<h, k>>]
               f == miscount'[<<h, k>>]
    <3>5. a = c + e /\ c \in Nat /\ e \in Int /\ b = a + 1 /\ f = e + 1 /\ d = c
      BY <2>1, <2>2, <3>2, <3>3, <3>4
    <3> SUFFICES b = d + f
      OBVIOUS
    <3> HIDE DEF P, a, b, c, d, e, f
    <3> QED BY <3>5
  <2>4. CASE h = g /\ k = m /\ u \notin started
    <3>1. Occupants(h, k) \cap started' = P \cup {u} /\ u \notin P
      BY <1>2, <1>3, <2>4
    <3>2. /\ map_player_num'[<<h, k>>] = map_player_num[<<h, k>>] + 1
          /\ miscount'[<<h, k>>] = miscount[<<h, k>>]
      BY <1>1, <1>3, <1>4, <2>4 DEF n
    <3>3. miscount[<<h, k>>] \in Int
      BY <1>4
    <3> HIDE DEF P
    <3>4. Cardinality(P \cup {u}) = Cardinality(P) + 1
      BY <2>2, <3>1, FS_AddElement
    <3> QED BY <2>1, <2>2, <3>1, <3>2, <3>3, <3>4
  <2>5. CASE ~(h = g /\ k = m)
    <3>1. Occupants(h, k) \cap started' = P
      BY <2>5, <1>1, <1>3, OccupantsAre DEF m
    <3>2. /\ map_player_num'[<<h, k>>] = map_player_num[<<h, k>>]
          /\ miscount'[<<h, k>>] = miscount[<<h, k>>]
      BY <2>5, <1>3, <1>4
    <3> QED BY <2>1, <3>1, <3>2
  <2> QED BY <2>3, <2>4, <2>5
<1>6. StartedSit'
  BY <1>1, <1>3 DEF CountInv, StartedSit, Using
<1> QED BY <1>5, <1>6 DEF CountInv

LEMMA UserCloseAccounts ==
    ASSUME IInv, IInv', CountInv, NEW g \in Services, UserClose(g)
    PROVE  CountInv'
<1> DEFINE u == Requester(g)
           m == MapOf(u)
<1>1. CASE ~Using(u)
  <2>1. UNCHANGED <<tables, history>>
    BY <1>1 DEF UserClose
  <2> QED BY <2>1, CountUntouched DEF tables, history, Using
<1>2. CASE Using(u)
  <2> HIDE DEF u, m
  <2>1. /\ u \in Uids /\ stage[u].at = g /\ m \in Maps
        /\ u \in Occupants(g, m) /\ RemovePlayer(g, u)
        /\ \A h \in Services, n \in Maps :
              Occupants(h, n)' = IF <<h, n>> = <<g, m>>
                                 THEN Occupants(h, n) \ {u} ELSE Occupants(h, n)
    BY <1>2, LeaverIs DEF u, m
  <2>2. /\ map_player_num' = [map_player_num EXCEPT ![<<g, m>>] = @ - 1]
        /\ started' = started \ {u}
        /\ miscount' = IF u \in started THEN miscount
                       ELSE [miscount EXCEPT ![<<g, m>>] = @ - 1]
        /\ uid_2_playid' = [uid_2_playid EXCEPT ![u].state = "INVALID"]
    BY <2>1 DEF RemovePlayer, CountOut, m
  <2>3. /\ map_player_num \in [Services \X Maps -> Int]
        /\ miscount \in [Services \X Maps -> Int]
    BY DEF IInv, TypeOK
  <2>4. ASSUME NEW h \in Services, NEW k \in Maps
        PROVE  map_player_num'[<<h, k>>] =
                  Cardinality(Occupants(h, k)' \cap started') + miscount'[<<h, k>>]
    <3> DEFINE P == Occupants(h, k) \cap started
    <3>1. map_player_num[<<h, k>>] = Cardinality(P) + miscount[<<h, k>>]
      BY DEF CountInv, CountAccounted
    <3>2. IsFiniteSet(P) /\ Cardinality(P) \in Nat
      BY OccupantsAre, FS_Subset, FS_CardinalityType
    <3>3. miscount[<<h, k>>] \in Int
      BY <2>3
    <3>4. CASE <<h, k>> = <<g, m>> /\ u \in started
      <4>1. Occupants(h, k)' \cap started' = P \ {u} /\ u \in P
        BY <2>1, <2>2, <3>4
      <4>2. /\ map_player_num'[<<h, k>>] = map_player_num[<<h, k>>] - 1
            /\ miscount'[<<h, k>>] = miscount[<<h, k>>]
        BY <2>2, <2>3, <3>4
      <4> HIDE DEF P
      <4>3. Cardinality(P \ {u}) = Cardinality(P) - 1
        BY <3>2, <4>1, FS_RemoveElement
      <4>4. Cardinality(Occupants(h, k)' \cap started') = Cardinality(P) - 1
        BY <4>1, <4>3
      <4> DEFINE a == map_player_num[<<h, k>>]
                 b == map_player_num'[<<h, k>>]
                 c == Cardinality(P)
                 d == Cardinality(Occupants(h, k)' \cap started')
                 e == miscount[<<h, k>>]
                 f == miscount'[<<h, k>>]
      <4>5. a = c + e /\ c \in Nat /\ e \in Int /\ b = a - 1 /\ f = e /\ d = c - 1
        BY <3>1, <3>2, <3>3, <4>2, <4>4
      <4> SUFFICES b = d + f
        OBVIOUS
      <4> HIDE DEF a, b, c, d, e, f
      <4> QED BY <4>5
    <3>5. CASE <<h, k>> = <<g, m>> /\ u \notin started
      <4>1. Occupants(h, k)' \cap started' = P
        BY <2>1, <2>2, <3>5
      <4>2. /\ map_player_num'[<<h, k>>] = map_player_num[<<h, k>>] - 1
            /\ miscount'[<<h, k>>] = miscount[<<h, k>>] - 1
        BY <2>2, <2>3, <3>5
      <4>3. Cardinality(Occupants(h, k)' \cap started') = Cardinality(P)
        BY <4>1
      <4> DEFINE a == map_player_num[<<h, k>>]
                 b == map_player_num'[<<h, k>>]
                 c == Cardinality(P)
                 d == Cardinality(Occupants(h, k)' \cap started')
                 e == miscount[<<h, k>>]
                 f == miscount'[<<h, k>>]
      <4>4. a = c + e /\ c \in Nat /\ e \in Int /\ b = a - 1 /\ f = e - 1 /\ d = c
        BY <3>1, <3>2, <3>3, <4>2, <4>3
      <4> SUFFICES b = d + f
        OBVIOUS
      <4> HIDE DEF P, a, b, c, d, e, f
      <4> QED BY <4>4
    <3>6. CASE <<h, k>> # <<g, m>>
      <4>1. u \notin Occupants(h, k)
        BY <2>1, <3>6, OccupantsAre DEF m
      <4>2. Occupants(h, k)' \cap started' = P
        BY <2>1, <2>2, <3>6, <4>1
      <4>3. /\ map_player_num'[<<h, k>>] = map_player_num[<<h, k>>]
            /\ miscount'[<<h, k>>] = miscount[<<h, k>>]
        BY <2>2, <2>3, <3>6
      <4> QED BY <3>1, <4>2, <4>3
    <3> QED BY <3>4, <3>5, <3>6
  <2>5. StartedSit'
    <3>1. \A v \in Uids : v # u => uid_2_playid'[v] = uid_2_playid[v]
      BY <2>1, <2>2 DEF IInv, TypeOK
    <3> QED BY <2>2, <3>1 DEF CountInv, StartedSit, Using
  <2> QED BY <2>4, <2>5 DEF CountInv, CountAccounted
<1> QED BY <1>1, <1>2

LEMMA CountInit == Init => CountInv
<1> SUFFICES ASSUME Init PROVE CountInv
  OBVIOUS
<1>1. \A g \in Services, m \in Maps :
         map_player_num[<<g, m>>] = 0 /\ miscount[<<g, m>>] = 0
  BY DEF Init, TablesInit
<1>2. started = {}
  BY DEF Init, TablesInit
<1> QED BY <1>1, <1>2, FS_EmptySet DEF CountInv, CountAccounted, StartedSit

LEMMA CountStep ==
    ASSUME IInv, IInv', CountInv, [Next]_vars
    PROVE  CountInv'
<1>1. ASSUME NEW g \in Services, GameLogicStep(g) PROVE CountInv'
  <2>1. CASE NewPlayer(g) BY <2>1, NewPlayerAccounts
  <2>2. CASE Start(g)     BY <2>2, StartAccounts
  <2>3. CASE UserClose(g) BY <2>3, UserCloseAccounts
  <2>4. CASE Login(g) \/ Move(g) \/ Leave(g) \/ NullRequest(g) \/ Ignore(g)
    BY <2>4, CountUntouched DEF Login, Move, Leave, NullRequest, Ignore, tables, history, Using
  <2> QED BY <1>1, <2>1, <2>2, <2>3, <2>4 DEF GameLogicStep
<1>2. ASSUME Environment PROVE CountInv'
  BY <1>2, CountUntouched
     DEF Environment, Connect, Request, Disconnect, NetLogicDrain, Push, tables, history, Using
<1>3. ASSUME UNCHANGED vars PROVE CountInv'
  BY <1>3, CountUntouched DEF vars, tables, history, Using
<1> QED BY <1>1, <1>2, <1>3 DEF Next

\* What holds of the services whatever the clients send.
GameInv == IInv /\ ArrivalInv /\ CountInv

LEMMA GameInvHolds == Spec => []GameInv
<1>1. Init => GameInv
  BY IInvInit, ArrivalInit, CountInit DEF GameInv
<1>2. GameInv /\ [Next]_vars => GameInv'
  BY IInvStep, ArrivalStep, CountStep DEF GameInv
<1> QED BY <1>1, <1>2, PTL DEF Spec

(***************************************************************************)
(* map_player_num is the number of started players of the map, give or     *)
(* take the starts that came again and the closes of clients that never    *)
(* started, whatever the clients send and in whatever order                *)
(* (game_logic.c:363, 615).                                                *)
(***************************************************************************)
THEOREM CountCorrect == Spec => []CountAccounted
<1>1. GameInv => CountAccounted
  BY DEF GameInv, CountInv
<1> QED BY <1>1, GameInvHolds, PTL

(***************************************************************************)
(* The front of a broadcast list holds only clients that sit on its map,   *)
(* for orderly clients, and so a login never follows a NULL enemy          *)
(* (game_logic.c:454-455).                                                 *)
(***************************************************************************)
THEOREM FrontCorrect == ASSUME Orderly PROVE Spec => []FrontSeated
<1>1. PlayInv => FrontSeated
  BY DEF PlayInv, ListInv
<1> QED BY <1>1, PlayInvHolds, PTL

-----------------------------------------------------------------------------
(* A close that was forwarded.                                             *)

(***************************************************************************)
(* Of a client whose close net_logic has forwarded, that close still waits *)
(* for its service, or the client has no place and nothing about it waits. *)
(***************************************************************************)
CloseWaits ==
    \A u \in Uids : stage[u].sent = "C" =>
        Waits(u, 4) \/ (~Using(u) /\ \A n \in 0 .. 4 : ~Waits(u, n))

LEMMA CloseWaitsInit == Init => CloseWaits
BY DEF Init, CloseWaits

LEMMA PushMore ==
    ASSUME TypeOK, NEW g \in Services, NEW m \in UserMsgs(Uids), Push(g, m)
    PROVE  /\ Waits(m.uid, Turn(m))'
           /\ \A v \in Uids : v # m.uid => \A n \in 0 .. 4 : Waits(v, n)' <=> Waits(v, n)
           /\ \A v \in Uids, n \in 0 .. 4 : Waits(v, n) => Waits(v, n)'
<1> DEFINE q == que_2_gamelogic[g]
           p == Append(q, m)
<1>1. /\ q \in Seq(UserMsgs(Uids)) /\ p \in Seq(UserMsgs(Uids))
      /\ que_2_gamelogic'[g] = p
      /\ \A h \in Services \ {g} : que_2_gamelogic'[h] = que_2_gamelogic[h]
  BY DEF TypeOK, Push
<1>2. /\ Len(q) + 1 \in DOMAIN p /\ p[Len(q) + 1] = m
      /\ \A i \in DOMAIN q : i \in DOMAIN p /\ p[i] = q[i]
      /\ \A i \in DOMAIN p : (i \in DOMAIN q /\ p[i] = q[i]) \/ p[i] = m
  BY <1>1
<1> HIDE DEF q, p
<1>3. Waits(m.uid, Turn(m))'
  BY <1>1, <1>2 DEF Waits, Turn
<1>4. ASSUME NEW v \in Uids, NEW n \in 0 .. 4, Waits(v, n) PROVE Waits(v, n)'
  <2>1. PICK h \in Services : \E i \in DOMAIN que_2_gamelogic[h] :
           que_2_gamelogic[h][i].uid = v /\ Turn(que_2_gamelogic[h][i]) = n
    BY <1>4 DEF Waits
  <2>2. PICK i \in DOMAIN que_2_gamelogic[h] :
           que_2_gamelogic[h][i].uid = v /\ Turn(que_2_gamelogic[h][i]) = n
    BY <2>1
  <2>3. i \in DOMAIN que_2_gamelogic'[h] /\ que_2_gamelogic'[h][i] = que_2_gamelogic[h][i]
    BY <1>1, <1>2 DEF q
  <2> QED BY <2>2, <2>3 DEF Waits, Turn
<1>5. ASSUME NEW v \in Uids, v # m.uid, NEW n \in 0 .. 4, Waits(v, n)' PROVE Waits(v, n)
  <2>1. PICK h \in Services : \E i \in DOMAIN que_2_gamelogic'[h] :
           que_2_gamelogic'[h][i].uid = v /\ Turn(que_2_gamelogic'[h][i]) = n
    BY <1>5 DEF Waits, Turn
  <2>2. PICK i \in DOMAIN que_2_gamelogic'[h] :
           que_2_gamelogic'[h][i].uid = v /\ Turn(que_2_gamelogic'[h][i]) = n
    BY <2>1
  <2>3. i \in DOMAIN que_2_gamelogic[h] /\ que_2_gamelogic'[h][i] = que_2_gamelogic[h][i]
    BY <1>1, <1>2, <1>5, <2>2 DEF q
  <2> QED BY <2>2, <2>3 DEF Waits
<1> QED BY <1>3, <1>4, <1>5

LEMMA CloserUnseated ==
    ASSUME TypeOK, NEW g \in Services, UserClose(g), NEW u \in Uids, u = Requester(g)
    PROVE  ~Using(u)'
<1>1. uid_2_playid'[u].state # "USING"
  <2>1. CASE Using(u)
    <3>1. uid_2_playid' = [uid_2_playid EXCEPT ![u].state = "INVALID"]
      BY <2>1 DEF UserClose, RemovePlayer
    <3> QED BY <3>1 DEF TypeOK
  <2>2. CASE ~Using(u)
    <3>1. uid_2_playid' = uid_2_playid
      BY <2>2 DEF UserClose, tables
    <3> QED BY <2>2, <3>1 DEF Using
  <2> QED BY <2>1, <2>2
<1> QED BY <1>1 DEF Using

LEMMA CloseWaitsService ==
    ASSUME GameInv, CloseWaits, NEW g \in Services, GameLogicStep(g)
    PROVE  CloseWaits'
<1> DEFINE u == Requester(g)
           k == Turn(Head(que_2_gamelogic[g]))
<1>1. UNCHANGED stage
  BY StepPops
<1>2. PICK t : Pop(g, t) /\ (UserClose(g) <=> t = "C")
  <2>1. CASE UserClose(g)
    BY <2>1, StepPops, Zenon
  <2>2. CASE ~UserClose(g)
    <3>1. Pop(g, "S") \/ Pop(g, "D")
      BY <2>2, StepPops, Zenon
    <3>2. "S" # "C" /\ "D" # "C"
      OBVIOUS
    <3> QED BY <2>2, <3>1, <3>2, Zenon
  <2> QED BY <2>1, <2>2, Zenon
<1>3. IInv /\ u \in Uids
  BY <1>2, RequesterIsHere DEF GameInv
<1>4. k \in 0 .. 4 /\ (k = 4 <=> UserClose(g))
  BY <1>2, <1>3, HandledTurn
<1>5. /\ Waits(u, k)
      /\ \A n \in 0 .. 4 : n < k => ~Waits(u, n)
      /\ \A v \in Uids, n \in 0 .. 4 : v # u \/ n # k => (Waits(v, n)' <=> Waits(v, n))
      /\ \A v \in Uids, n \in 0 .. 4 : v = u /\ n = k /\ n # 3 => ~Waits(v, n)'
  <2>1. IInv /\ InTurn /\ UNCHANGED stage
    BY <1>1 DEF GameInv, ArrivalInv
  <2> QED BY <1>2, <2>1, PopWaits
<1>6. /\ \A v \in Uids : Using(v)' => Using(v) \/ (NewPlayer(g) /\ v = u)
      /\ \A v \in Uids : UserClose(g) /\ v = u => ~Using(v)'
  <2>1. \A v \in Uids : Using(v)' => Using(v) \/ (NewPlayer(g) /\ v = u)
    BY <1>3, SeatsGiven
  <2>2. ASSUME UserClose(g), NEW v \in Uids, v = u PROVE ~Using(v)'
    BY <1>3, <2>2, CloserUnseated DEF IInv
  <2> HIDE DEF u
  <2> QED BY <2>1, <2>2
<1> HIDE DEF u, k
<1> SUFFICES ASSUME NEW v \in Uids, stage[v].sent = "C"
             PROVE  Waits(v, 4)' \/ (~Using(v)' /\ \A n \in 0 .. 4 : ~Waits(v, n)')
  BY <1>1 DEF CloseWaits
<1>7. Waits(v, 4) \/ (~Using(v) /\ \A n \in 0 .. 4 : ~Waits(v, n))
  BY DEF CloseWaits
<1>8. CASE v # u
  BY <1>5, <1>6, <1>7, <1>8
<1>9. CASE v = u /\ k # 4
  BY <1>4, <1>5, <1>7, <1>9
<1>10. CASE v = u /\ k = 4
  <2>1. ~Using(v)'
    BY <1>4, <1>6, <1>10
  <2>2. ASSUME NEW n \in 0 .. 4 PROVE ~Waits(v, n)'
    BY <1>5, <1>10
  <2> QED BY <2>1, <2>2
<1> QED BY <1>8, <1>9, <1>10

LEMMA CloseWaitsPush ==
    ASSUME GameInv, CloseWaits, NEW g \in Services, NEW m \in UserMsgs(Uids), Push(g, m),
           \A v \in Uids \ {m.uid} : stage'[v] = stage[v],
           stage'[m.uid].sent = "C" => Turn(m) = 4
    PROVE  CloseWaits'
<1>1. /\ Waits(m.uid, Turn(m))'
      /\ \A v \in Uids : v # m.uid => \A n \in 0 .. 4 : Waits(v, n)' <=> Waits(v, n)
  BY PushMore DEF GameInv, IInv
<1>2. \A v \in Uids : Using(v)' <=> Using(v)
  BY DEF Push, tables, Using
<1> SUFFICES ASSUME NEW v \in Uids, stage'[v].sent = "C"
             PROVE  Waits(v, 4)' \/ (~Using(v)' /\ \A n \in 0 .. 4 : ~Waits(v, n)')
  BY DEF CloseWaits
<1>3. CASE v = m.uid
  BY <1>1, <1>3
<1>4. CASE v # m.uid
  BY <1>1, <1>2, <1>4 DEF CloseWaits
<1> QED BY <1>3, <1>4

LEMMA CloseWaitsStep ==
    ASSUME GameInv, CloseWaits, [Next]_vars
    PROVE  CloseWaits'
<1>1. ASSUME NEW g \in Services, GameLogicStep(g) PROVE CloseWaits'
  BY <1>1, CloseWaitsService
<1>2. ASSUME NEW u \in Uids, NEW g \in Services, Connect(u, g) PROVE CloseWaits'
  <2>1. New(u) \in UserMsgs(Uids) /\ New(u).uid = u /\ Push(g, New(u))
    BY <1>2 DEF Connect, New, UserMsgs
  <2>2. stage'[u].sent = "S" /\ \A v \in Uids \ {u} : stage'[v] = stage[v]
    BY <1>2 DEF Connect, GameInv, IInv, TypeOK
  <2>3. "S" # "C"
    OBVIOUS
  <2> QED BY <2>1, <2>2, <2>3, CloseWaitsPush
<1>3. ASSUME NEW u \in Uids, NEW r \in Requests, Request(u, r) PROVE CloseWaits'
  <2> DEFINE g == stage[u].at
  <2>1. Data(u, r) \in UserMsgs(Uids) /\ Data(u, r).uid = u /\ Push(g, Data(u, r))
    BY <1>3 DEF Request, Data, UserMsgs
  <2>2. g \in Services
    BY <1>3 DEF Request, Connected, GameInv, IInv, TypeOK
  <2>3. stage'[u].sent # "C" /\ \A v \in Uids \ {u} : stage'[v] = stage[v]
    BY <1>3 DEF Request, Connected, GameInv, IInv, TypeOK
  <2> HIDE DEF g
  <2> QED BY <2>1, <2>2, <2>3, CloseWaitsPush
<1>4. ASSUME NEW u \in Uids, Disconnect(u) PROVE CloseWaits'
  <2> DEFINE g == stage[u].at
  <2>1. Closed(u) \in UserMsgs(Uids) /\ Closed(u).uid = u /\ Push(g, Closed(u))
    BY <1>4 DEF Disconnect, Closed, UserMsgs
  <2>2. g \in Services
    BY <1>4 DEF Disconnect, Connected, GameInv, IInv, TypeOK
  <2>3. Turn(Closed(u)) = 4 /\ \A v \in Uids \ {u} : stage'[v] = stage[v]
    BY <1>4 DEF Disconnect, GameInv, IInv, TypeOK, Closed, Turn
  <2> HIDE DEF g
  <2> QED BY <2>1, <2>2, <2>3, CloseWaitsPush
<1>5. ASSUME NetLogicDrain \/ UNCHANGED vars PROVE CloseWaits'
  <2>1. UNCHANGED <<que_2_gamelogic, uid_2_playid, stage>>
    BY <1>5 DEF NetLogicDrain, vars, tables
  <2>2. \A v \in Uids, n \in 0 .. 4 : (Waits(v, n)' <=> Waits(v, n)) /\ (Using(v)' <=> Using(v))
    BY <2>1 DEF Waits, Turn, Using
  <2> QED BY <2>1, <2>2 DEF CloseWaits
<1> QED BY <1>1, <1>2, <1>3, <1>4, <1>5 DEF Next, Environment, Forwarded

(***************************************************************************)
(* The close of a client is the last thing its service hears of it, and    *)
(* frees its place, whatever it sent before (game_logic.c:803-812).        *)
(***************************************************************************)
THEOREM CloseServed == Spec => []CloseWaits
<1>1. Init => CloseWaits
  BY CloseWaitsInit
<1>2. GameInv /\ CloseWaits /\ [Next]_vars => CloseWaits'
  BY CloseWaitsStep
<1> QED BY <1>1, <1>2, GameInvHolds, PTL DEF Spec

-----------------------------------------------------------------------------
(* A place for everybody.                                                  *)

(***************************************************************************)
(* net_logic sends a service no more clients than it has places for, as    *)
(* CapRespected of NetLogic says.                                          *)
(***************************************************************************)
SentTo(g) == {w \in Uids : stage[w].at = g /\ stage[w].sent \notin {"NONE", "C"}}

Capped == \A g \in Services : Cardinality(SentTo(g)) <= MaxPlayers

Sitting(g) == {w \in Uids : Using(w) /\ stage[w].at = g}

\* Who can have a place when message i of q is handled, if S has places now.
Ahead(q, S, i) ==
    {w \in Uids :
        /\ w \in S \/ \E j \in 1 .. i - 1 : q[j].uid = w /\ Turn(q[j]) = 0
        /\ \A j \in 1 .. i - 1 : q[j].uid = w => Turn(q[j]) # 4}

RoomFor(q, S) ==
    \A i \in DOMAIN q : Turn(q[i]) = 0 => Cardinality(Ahead(q, S, i)) < MaxPlayers

\* Each 'S' that waits will find fewer clients than the service has places.
RoomForNew == \A g \in Services : RoomFor(que_2_gamelogic[g], Sitting(g))

LEMMA MaxPlayersIs == MaxPlayers \in Nat \ {0} /\ IsFiniteSet(Places)
    /\ Cardinality(Places) = PlayersPerMap /\ IsFiniteSet(Maps) /\ Cardinality(Maps) = MaxMap
<1>1. PlayersPerMap \in Nat \ {0} /\ MaxMap \in Nat \ {0}
  BY SizesAssumption
<1>2. \A n \in Nat \ {0} : IsFiniteSet(0 .. n - 1) /\ Cardinality(0 .. n - 1) = n
  <2> SUFFICES ASSUME NEW n \in Nat \ {0}
               PROVE  IsFiniteSet(0 .. n - 1) /\ Cardinality(0 .. n - 1) = n
    OBVIOUS
  <2>1. /\ IsFiniteSet(0 .. n - 1)
        /\ Cardinality(0 .. n - 1) = IF 0 > n - 1 THEN 0 ELSE (n - 1) - 0 + 1
    BY FS_Interval
  <2> QED BY <2>1
<1>3. MaxPlayers \in Nat \ {0}
  BY <1>1 DEF MaxPlayers
<1> QED BY <1>1, <1>2, <1>3 DEF Maps, Places

LEMMA FewerPlayers ==
    ASSUME NEW B \in SUBSET Uids, NEW A \in SUBSET B, Cardinality(B) < MaxPlayers
    PROVE  Cardinality(A) < MaxPlayers
<1>1. IsFiniteSet(B) /\ IsFiniteSet(A) /\ Cardinality(A) <= Cardinality(B)
  BY UidsAssumption, FS_Subset
<1>2. Cardinality(A) \in Nat /\ Cardinality(B) \in Nat
  BY <1>1, FS_CardinalityType
<1> QED BY <1>1, <1>2, MaxPlayersIs

\* The first message is handled: its sender may come, or goes.
LEMMA RoomAfterPop ==
    ASSUME NEW q \in Seq(UserMsgs(Uids)), q # <<>>, NEW S, NEW T, RoomFor(q, S),
           \A i, j \in DOMAIN q : i < j /\ q[i].uid = q[j].uid =>
              Turn(q[i]) < Turn(q[j]) \/ (Turn(q[i]) = 3 /\ Turn(q[j]) = 3),
           T \subseteq S \cup {Head(q).uid},
           Turn(Head(q)) # 0 => T \subseteq S,
           Turn(Head(q)) = 4 => Head(q).uid \notin T
    PROVE  RoomFor(Tail(q), T)
<1> DEFINE p == Tail(q)
           h == Head(q)
<1>1. /\ h = q[1] /\ 1 \in DOMAIN q /\ DOMAIN p \subseteq Nat \ {0}
      /\ \A i \in DOMAIN p : i + 1 \in DOMAIN q /\ p[i] = q[i + 1]
      /\ \A i \in DOMAIN p : \A j \in 1 .. i - 1 : j \in DOMAIN p
  OBVIOUS
<1> HIDE DEF p, h
<1>2. ASSUME NEW i \in DOMAIN p PROVE Ahead(p, T, i) \subseteq Ahead(q, S, i + 1)
  <2> SUFFICES ASSUME NEW w \in Ahead(p, T, i) PROVE w \in Ahead(q, S, i + 1)
    OBVIOUS
  <2>1. /\ w \in Uids
        /\ w \in T \/ \E j \in 1 .. i - 1 : p[j].uid = w /\ Turn(p[j]) = 0
        /\ \A j \in 1 .. i - 1 : p[j].uid = w => Turn(p[j]) # 4
    BY DEF Ahead
  <2>2. i \in Nat \ {0}
    BY <1>1
  <2>3. \A j \in 1 .. i - 1 : j \in DOMAIN p /\ j + 1 \in 1 .. i /\ p[j] = q[j + 1]
                              /\ j + 1 \in DOMAIN q /\ 1 < j + 1
    BY <1>1, <2>2
  <2>4. \A j \in 1 .. i : j = 1 \/ (j - 1 \in 1 .. i - 1 /\ (j - 1) + 1 = j)
    BY <2>2
  <2>5. w \in S \/ \E j \in 1 .. i : q[j].uid = w /\ Turn(q[j]) = 0
    <3>1. CASE w \in T
      <4>1. w \in S \/ (w = h.uid /\ Turn(h) = 0)
        BY <3>1 DEF h
      <4>2. 1 \in 1 .. i
        BY <2>2
      <4> QED BY <4>1, <4>2, <1>1
    <3>2. CASE \E j \in 1 .. i - 1 : p[j].uid = w /\ Turn(p[j]) = 0
      BY <3>2, <2>3
    <3> QED BY <2>1, <3>1, <3>2
  <2>6. ASSUME NEW j \in 1 .. i, q[j].uid = w, Turn(q[j]) = 4 PROVE FALSE
    <3>1. CASE j = 1
      <4>1. w \notin T /\ h.uid = w /\ Turn(q[1]) = 4
        BY <3>1, <2>6, <1>1 DEF h
      <4>2. PICK k \in 1 .. i - 1 : p[k].uid = w /\ Turn(p[k]) = 0
        BY <2>1, <4>1
      <4>3. q[1].uid = q[k + 1].uid /\ 1 < k + 1 /\ k + 1 \in DOMAIN q /\ Turn(q[k + 1]) = 0
        BY <4>1, <4>2, <2>3, <1>1
      <4>4. 4 < 0 \/ (4 = 3 /\ 0 = 3)
        BY <4>1, <4>3, <1>1
      <4> QED BY <4>4
    <3>2. CASE j # 1
      <4>1. PICK k \in 1 .. i - 1 : k + 1 = j
        BY <3>2, <2>4
      <4>2. p[k] = q[j]
        BY <4>1, <2>3
      <4> QED BY <4>1, <4>2, <2>1, <2>6
    <3> QED BY <3>1, <3>2
  <2>7. (i + 1) - 1 = i
    BY <2>2
  <2> QED BY <2>1, <2>5, <2>6, <2>7 DEF Ahead
<1>3. ASSUME NEW i \in DOMAIN p, Turn(p[i]) = 0 PROVE Cardinality(Ahead(p, T, i)) < MaxPlayers
  <2>1. Cardinality(Ahead(q, S, i + 1)) < MaxPlayers
    BY <1>1, <1>3 DEF RoomFor
  <2>2. Ahead(q, S, i + 1) \subseteq Uids
    BY DEF Ahead
  <2> QED BY <1>2, <1>3, <2>1, <2>2, FewerPlayers
<1> QED BY <1>3 DEF RoomFor, p

LEMMA RoomAfterPush ==
    ASSUME NEW q \in Seq(UserMsgs(Uids)), NEW m, NEW S, RoomFor(q, S),
           Turn(m) = 0 => Cardinality(Ahead(q, S, Len(q) + 1)) < MaxPlayers
    PROVE  RoomFor(Append(q, m), S)
<1> DEFINE p == Append(q, m)
<1>1. /\ DOMAIN p = 1 .. Len(q) + 1 /\ DOMAIN q = 1 .. Len(q) /\ Len(q) \in Nat
      /\ \A i \in 1 .. Len(q) : p[i] = q[i]
      /\ p[Len(q) + 1] = m
  OBVIOUS
<1> HIDE DEF p
<1>2. ASSUME NEW i \in 1 .. Len(q) + 1 PROVE Ahead(p, S, i) = Ahead(q, S, i)
  <2>1. \A j \in 1 .. i - 1 : p[j] = q[j]
    BY <1>1, <1>2
  <2> QED BY <2>1 DEF Ahead
<1>3. ASSUME NEW i \in DOMAIN p, Turn(p[i]) = 0 PROVE Cardinality(Ahead(p, S, i)) < MaxPlayers
  <2>1. CASE i = Len(q) + 1
    BY <2>1, <1>1, <1>2, <1>3
  <2>2. CASE i # Len(q) + 1
    <3>1. i \in DOMAIN q /\ p[i] = q[i]
      BY <2>2, <1>1
    <3>2. Cardinality(Ahead(q, S, i)) < MaxPlayers
      BY <3>1, <1>3 DEF RoomFor
    <3>3. Ahead(p, S, i) = Ahead(q, S, i)
      BY <1>1, <1>2
    <3> QED BY <3>2, <3>3
  <2> QED BY <2>1, <2>2
<1> QED BY <1>3 DEF RoomFor, p

\* All those are routed to the service when a new client is announced to it.
LEMMA AheadAreRouted ==
    ASSUME GameInv, CloseWaits, NEW g \in Services
    PROVE  Ahead(que_2_gamelogic[g], Sitting(g), Len(que_2_gamelogic[g]) + 1) \subseteq SentTo(g)
<1> DEFINE q == que_2_gamelogic[g]
<1>1. DOMAIN q = 1 .. Len(q) /\ Len(q) \in Nat
  BY QueueType DEF GameInv, IInv
<1>2. (Len(q) + 1) - 1 = Len(q)
  BY <1>1
<1> SUFFICES ASSUME NEW w \in Ahead(q, Sitting(g), Len(q) + 1) PROVE w \in SentTo(g)
  OBVIOUS
<1>3. /\ w \in Uids
      /\ w \in Sitting(g) \/ \E j \in DOMAIN q : q[j].uid = w /\ Turn(q[j]) = 0
      /\ \A j \in DOMAIN q : q[j].uid = w => Turn(q[j]) # 4
  BY <1>1, <1>2 DEF Ahead
<1>4. stage[w].at = g
  BY <1>3 DEF GameInv, IInv, AtItsService, Sitting
<1>5. stage[w].sent # "NONE"
  BY <1>3, <1>4, Ranges DEF GameInv, IInv, AtItsService
<1>6. ~Waits(w, 4)
  <2> SUFFICES ASSUME NEW h \in Services, NEW j \in DOMAIN que_2_gamelogic[h],
                      que_2_gamelogic[h][j].uid = w, Turn(que_2_gamelogic[h][j]) = 4
               PROVE  FALSE
    BY DEF Waits
  <2>1. h = g
    BY <1>4 DEF GameInv, IInv, AtItsService
  <2> QED BY <2>1, <1>3
<1>7. Using(w) \/ Waits(w, 0)
  BY <1>3 DEF Sitting, Waits
<1>8. stage[w].sent # "C"
  <2>1. 0 \in 0 .. 4
    OBVIOUS
  <2> QED BY <2>1, <1>3, <1>6, <1>7 DEF CloseWaits
<1> QED BY <1>3, <1>4, <1>5, <1>8 DEF SentTo

\* A handler seats or unseats nobody but the client it is about.
LEMMA SittingAfter ==
    ASSUME IInv, NEW g \in Services, GameLogicStep(g)
    PROVE  /\ UNCHANGED stage /\ \E t : Pop(g, t)
           /\ \A w \in Uids : w # Requester(g) => (Using(w)' <=> Using(w))
           /\ Head(que_2_gamelogic[g]).type # "S" => \A w \in Uids : Using(w)' => Using(w)
           /\ Head(que_2_gamelogic[g]).type = "C" => ~uid_2_playid'[Requester(g)].state = "USING"
           /\ Head(que_2_gamelogic[g]).type # "C" => \A w \in Uids : Using(w) => Using(w)'
<1> DEFINE u == Requester(g)
<1>1. uid_2_playid \in [Uids -> [state : {"INVALID", "USING"}, mapid : Maps, map_playerid : Places]]
  BY DEF IInv, TypeOK
<1>2. \A t : Pop(g, t) => u \in Uids
  BY RequesterIsHere
<1>3. CASE NewPlayer(g)
  <2>1. Pop(g, "S") /\ UNCHANGED stage
    BY <1>3 DEF NewPlayer
  <2>2. Head(que_2_gamelogic[g]).type = "S"
    BY <2>1 DEF Pop
  <2>3. \A w \in Uids : w # u => uid_2_playid'[w] = uid_2_playid[w]
    BY <1>1, <1>3 DEF NewPlayer, TakePlace, Requester
  <2>4. Using(u) => uid_2_playid' = uid_2_playid
    BY <1>3 DEF NewPlayer, Requester
  <2> QED BY <2>1, <2>2, <2>3, <2>4 DEF Using
<1>4. CASE UserClose(g)
  <2>1. Pop(g, "C") /\ UNCHANGED stage
    BY <1>4 DEF UserClose
  <2>2. Head(que_2_gamelogic[g]).type = "C" /\ u \in Uids
    BY <1>2, <2>1 DEF Pop
  <2>3. /\ \A w \in Uids : w # u => uid_2_playid'[w] = uid_2_playid[w]
        /\ ~uid_2_playid'[u].state = "USING"
    <3>1. CASE Using(u)
      <4>1. uid_2_playid' = [uid_2_playid EXCEPT ![u].state = "INVALID"]
        BY <1>4, <3>1 DEF UserClose, RemovePlayer
      <4> QED BY <4>1, <1>1, <2>2
    <3>2. CASE ~Using(u)
      <4>1. uid_2_playid' = uid_2_playid
        BY <1>4, <3>2 DEF UserClose, tables
      <4> QED BY <4>1, <3>2 DEF Using
    <3> QED BY <3>1, <3>2
  <2>4. \A w \in Uids : Using(w)' => Using(w)
    BY <2>3 DEF Using
  <2> QED BY <2>1, <2>2, <2>3, <2>4 DEF Using
<1>5. CASE Login(g) \/ Start(g) \/ Move(g) \/ Leave(g) \/ NullRequest(g) \/ Ignore(g)
  <2>1. Pop(g, "D") /\ UNCHANGED <<stage, uid_2_playid>>
    BY <1>5 DEF Login, Start, Move, Leave, NullRequest, Ignore, PopRequest, tables
  <2>2. Head(que_2_gamelogic[g]).type = "D"
    BY <2>1 DEF Pop
  <2> QED BY <2>1, <2>2 DEF Using
<1> QED BY <1>3, <1>4, <1>5 DEF GameLogicStep

\* What RoomForNew says of the next state.
LEMMA RoomThen ==
    ASSUME \A g \in Services : RoomFor(que_2_gamelogic'[g], Sitting(g)')
    PROVE  RoomForNew'
BY DEF RoomForNew, RoomFor, Ahead, Turn

LEMMA RoomAfterStep ==
    ASSUME GameInv, RoomForNew, NEW g \in Services, GameLogicStep(g)
    PROVE  RoomForNew'
<1> DEFINE q == que_2_gamelogic[g]
           u == Requester(g)
<1>1. IInv
  BY DEF GameInv
<1>2. PICK t : Pop(g, t)
  BY <1>1, SittingAfter
<1>3. /\ q \in Seq(UserMsgs(Uids)) /\ q # <<>>
      /\ que_2_gamelogic'[g] = Tail(q)
      /\ \A h \in Services \ {g} : que_2_gamelogic'[h] = que_2_gamelogic[h]
  BY <1>1, <1>2, QueueType DEF IInv, TypeOK, Pop
<1>4. u \in Uids /\ stage[u].at = g /\ u = Head(q).uid
  BY <1>1, <1>2, RequesterIsHere DEF Requester
<1>5. Head(q) \in UserMsgs(Uids)
  BY <1>3
<1>6. /\ Turn(Head(q)) = 0 <=> Head(q).type = "S"
      /\ Turn(Head(q)) = 4 <=> Head(q).type = "C"
  BY <1>5, TurnIs
<1>7. /\ UNCHANGED stage
      /\ \A w \in Uids : w # u => (Using(w)' <=> Using(w))
      /\ Head(q).type # "S" => \A w \in Uids : Using(w)' => Using(w)
      /\ Head(q).type = "C" => ~uid_2_playid'[u].state = "USING"
  BY <1>1, SittingAfter
<1> HIDE DEF q, u
<1>8. \A h \in Services \ {g} : Sitting(h)' = Sitting(h)
  BY <1>4, <1>7 DEF Sitting
<1>9. /\ Sitting(g)' \subseteq Sitting(g) \cup {Head(q).uid}
      /\ Turn(Head(q)) # 0 => Sitting(g)' \subseteq Sitting(g)
      /\ Turn(Head(q)) = 4 => Head(q).uid \notin Sitting(g)'
  <2>1. Sitting(g)' \subseteq Sitting(g) \cup {u}
    BY <1>7 DEF Sitting
  <2>2. Head(q).type # "S" => Sitting(g)' \subseteq Sitting(g)
    BY <1>7 DEF Sitting
  <2>3. Head(q).type = "C" => u \notin Sitting(g)'
    BY <1>7 DEF Sitting, Using
  <2> QED BY <1>4, <1>6, <2>1, <2>2, <2>3
<1>10. \A i, j \in DOMAIN q : i < j /\ q[i].uid = q[j].uid =>
          Turn(q[i]) < Turn(q[j]) \/ (Turn(q[i]) = 3 /\ Turn(q[j]) = 3)
  BY DEF GameInv, ArrivalInv, InTurn, q
<1>11. RoomFor(q, Sitting(g))
  BY DEF RoomForNew, q
<1>12. PICK T : T = Sitting(g)'
  OBVIOUS
<1>13. RoomFor(Tail(q), T)
  BY <1>3, <1>9, <1>10, <1>11, <1>12, RoomAfterPop
<1>14. \A h \in Services \ {g} : RoomFor(que_2_gamelogic[h], Sitting(h))
  BY DEF RoomForNew
<1>15. ASSUME NEW h \in Services PROVE RoomFor(que_2_gamelogic'[h], Sitting(h)')
  <2>1. CASE h = g
    BY <2>1, <1>3, <1>12, <1>13
  <2>2. CASE h # g
    BY <2>2, <1>3, <1>8, <1>14
  <2> QED BY <2>1, <2>2
<1> QED BY <1>15, RoomThen

\* A client net_logic has not yet announced is seated nowhere.
LEMMA NotYetSitting ==
    ASSUME IInv, NEW u \in Uids, stage[u].sent = "NONE"
    PROVE  stage[u].at \notin Services /\ ~Using(u)
BY SeatedHasService, Ranges DEF IInv, AtItsService

LEMMA RoomAfterPushes ==
    ASSUME GameInv, CloseWaits, Capped', RoomForNew, Environment
    PROVE  RoomForNew'
<1>1. IInv
  BY DEF GameInv
<1>2. ASSUME UNCHANGED <<que_2_gamelogic, uid_2_playid, stage>> PROVE RoomForNew'
  BY <1>2 DEF RoomForNew, RoomFor, Ahead, Turn, Sitting, Using
<1>3. ASSUME NEW g \in Services, NEW m, Push(g, m),
             \A h \in Services : Sitting(h)' = Sitting(h),
             Turn(m) = 0 => Cardinality(Ahead(que_2_gamelogic[g], Sitting(g),
                                              Len(que_2_gamelogic[g]) + 1)) < MaxPlayers
      PROVE  RoomForNew'
  <2> DEFINE q == que_2_gamelogic[g]
  <2>1. /\ q \in Seq(UserMsgs(Uids))
        /\ que_2_gamelogic'[g] = Append(q, m)
        /\ \A h \in Services \ {g} : que_2_gamelogic'[h] = que_2_gamelogic[h]
    BY <1>1, <1>3, QueueType DEF IInv, TypeOK, Push
  <2>2. RoomFor(q, Sitting(g)) /\ (Turn(m) = 0 => Cardinality(Ahead(q, Sitting(g), Len(q) + 1)) < MaxPlayers)
    BY <1>3 DEF RoomForNew
  <2> HIDE DEF q
  <2>3. RoomFor(Append(q, m), Sitting(g))
    BY <2>1, <2>2, RoomAfterPush
  <2>4. \A h \in Services \ {g} : RoomFor(que_2_gamelogic[h], Sitting(h))
    BY DEF RoomForNew
  <2>5. ASSUME NEW h \in Services PROVE RoomFor(que_2_gamelogic'[h], Sitting(h)')
    <3>1. CASE h = g
      BY <3>1, <1>3, <2>1, <2>3
    <3>2. CASE h # g
      BY <3>2, <1>3, <2>1, <2>4
    <3> QED BY <3>1, <3>2
  <2> QED BY <2>5, RoomThen
<1>4. ASSUME NEW u \in Uids, NEW r \in Requests, Request(u, r) PROVE RoomForNew'
  <2>1. stage[u].at \in Services /\ Push(stage[u].at, Data(u, r))
    BY <1>1, <1>4 DEF Request, Connected, IInv, TypeOK
  <2>2. \A h \in Services : Sitting(h)' = Sitting(h)
    <3>1. PICK x : UNCHANGED stage \/ stage' = [stage EXCEPT ![u].sent = x]
      BY <1>4, Zenon DEF Request
    <3>2. stage \in [Uids -> [at : Services \cup {INVALID}, sent : Requests \cup {"NONE", "S", "C"}]]
      BY <1>1 DEF IInv, TypeOK
    <3>3. \A w \in Uids : stage'[w].at = stage[w].at
      BY <3>1, <3>2
    <3> QED BY <1>4, <3>3 DEF Request, Push, tables, Sitting, Using
  <2>3. Turn(Data(u, r)) # 0
    BY DEF Turn, Data
  <2> QED BY <1>3, <2>1, <2>2, <2>3
<1>5. ASSUME NEW u \in Uids, Disconnect(u) PROVE RoomForNew'
  <2>1. stage[u].at \in Services /\ Push(stage[u].at, Closed(u))
    BY <1>1, <1>5 DEF Disconnect, Connected, IInv, TypeOK
  <2>2. \A h \in Services : Sitting(h)' = Sitting(h)
    <3>1. \A w \in Uids : stage'[w].at = stage[w].at
      BY <1>1, <1>5 DEF Disconnect, IInv, TypeOK
    <3> QED BY <1>5, <3>1 DEF Disconnect, Push, tables, Sitting, Using
  <2>3. Turn(Closed(u)) # 0
    BY DEF Turn, Closed
  <2> QED BY <1>3, <2>1, <2>2, <2>3
<1>6. ASSUME NEW u \in Uids, NEW g \in Services, Connect(u, g) PROVE RoomForNew'
  <2>1. Push(g, New(u)) /\ stage[u].sent = "NONE"
    BY <1>6 DEF Connect
  <2>2. stage[u].at \notin Services /\ ~Using(u)
    BY <1>1, <2>1, NotYetSitting
  <2>3. /\ stage'[u].at = g /\ stage'[u].sent = "S"
        /\ \A w \in Uids : w # u => stage'[w] = stage[w]
    BY <1>1, <1>6 DEF Connect, IInv, TypeOK
  <2>4. \A h \in Services : Sitting(h)' = Sitting(h)
    BY <2>1, <2>2, <2>3 DEF Push, tables, Sitting, Using
  <2>5. SentTo(g)' = SentTo(g) \cup {u} /\ u \notin SentTo(g)
    BY <2>1, <2>3 DEF SentTo
  <2>6. PICK R : R = SentTo(g)
    OBVIOUS
  <2>7. R \in SUBSET Uids /\ IsFiniteSet(R) /\ Cardinality(R) \in Nat
    BY <2>6, UidsAssumption, FS_Subset, FS_CardinalityType DEF SentTo
  <2>8. Cardinality(R \cup {u}) = Cardinality(R) + 1
    BY <2>5, <2>6, <2>7, FS_AddElement
  <2>9. Cardinality(R \cup {u}) <= MaxPlayers
    <3>1. Cardinality(SentTo(g)') <= MaxPlayers
      BY DEF Capped
    <3> QED BY <3>1, <2>5, <2>6
  <2>10. Cardinality(R) < MaxPlayers
    BY <2>7, <2>8, <2>9, MaxPlayersIs
  <2>11. Ahead(que_2_gamelogic[g], Sitting(g), Len(que_2_gamelogic[g]) + 1) \in SUBSET R
    BY <2>6, AheadAreRouted
  <2> QED BY <1>3, <2>1, <2>4, <2>7, <2>10, <2>11, FewerPlayers
<1>7. ASSUME NetLogicDrain PROVE RoomForNew'
  BY <1>2, <1>7 DEF NetLogicDrain, tables
<1> QED BY <1>4, <1>5, <1>6, <1>7 DEF Environment, Forwarded

\* With a free place a map has fewer clients than places, and only then.
LEMMA FullMap ==
    ASSUME IInv, NEW g \in Services, NEW m \in Maps
    PROVE  Cardinality(Occupants(g, m)) = PlayersPerMap <=> FreePlaces(g, m) = {}
<1> DEFINE O == Occupants(g, m)
           seat(i) == map_player_socket_uid[<<g, m, i>>]
<1>1. /\ O = {u \in Uids : Using(u) /\ stage[u].at = g /\ MapOf(u) = m}
      /\ IsFiniteSet(O) /\ Cardinality(O) \in Nat /\ Cardinality(O) <= PlayersPerMap
  BY OccupantsAre
<1>2. \A u \in O : PlaceOf(u) \in Places /\ seat(PlaceOf(u)) = u /\ u # INVALID
  BY <1>1, SeatOfRequester, UidsAssumption
<1>3. \A i \in Places : /\ i \in FreePlaces(g, m) <=> seat(i) = INVALID
                        /\ seat(i) # INVALID => seat(i) \in O /\ PlaceOf(seat(i)) = i
  <2> SUFFICES ASSUME NEW i \in Places
               PROVE  /\ i \in FreePlaces(g, m) <=> seat(i) = INVALID
                      /\ seat(i) # INVALID => seat(i) \in O /\ PlaceOf(seat(i)) = i
    OBVIOUS
  <2>1. player_state[<<g, m, i>>] \in {"INVALID", "USING"}
    BY DEF IInv, TypeOK, Seats
  <2>2. /\ player_state[<<g, m, i>>] = "USING" <=> seat(i) # INVALID
        /\ seat(i) # INVALID => uid_2_playid[seat(i)] =
              [state |-> "USING", mapid |-> m, map_playerid |-> i]
    <3>1. SeatTablesAgree
      BY DEF IInv
    <3> QED BY <3>1, Zenon DEF SeatTablesAgree
  <2>3. i \in FreePlaces(g, m) <=> seat(i) = INVALID
    BY <2>1, <2>2 DEF FreePlaces
  <2>4. seat(i) # INVALID => seat(i) \in O
    BY DEF Occupants
  <2>5. seat(i) # INVALID => PlaceOf(seat(i)) = i
    BY <2>2 DEF PlaceOf
  <2> QED BY <2>3, <2>4, <2>5
<1> HIDE DEF O, seat
<1>4. ASSUME NEW i \in FreePlaces(g, m) PROVE Cardinality(O) < PlayersPerMap
  <2>1. i \in Places /\ seat(i) = INVALID
    BY <1>3 DEF FreePlaces
  <2> DEFINE f == [u \in O |-> PlaceOf(u)]
  <2>2. f \in [O -> Places \ {i}]
    BY <1>2, <2>1
  <2>3. \A u, v \in O : f[u] = f[v] => u = v
    BY <1>2
  <2> HIDE DEF f
  <2>4. f \in Injection(O, Places \ {i})
    BY <2>2, <2>3, Fun_IsInj, Zenon
  <2>5. IsFiniteSet(Places \ {i}) /\ Cardinality(Places \ {i}) = PlayersPerMap - 1
    BY <2>1, MaxPlayersIs, FS_RemoveElement
  <2>6. Cardinality(O) <= PlayersPerMap - 1
    BY <2>4, <2>5, FS_Injection
  <2> QED BY <2>6, <1>1, SizesAssumption
<1>5. ASSUME FreePlaces(g, m) = {} PROVE PlayersPerMap <= Cardinality(O)
  <2> DEFINE f == [i \in Places |-> seat(i)]
  <2>1. f \in [Places -> O]
    BY <1>3, <1>5
  <2>2. \A i, j \in Places : f[i] = f[j] => i = j
    BY <1>3, <1>5
  <2> HIDE DEF f
  <2>3. f \in Injection(Places, O)
    BY <2>1, <2>2, Fun_IsInj, Zenon
  <2> QED BY <2>3, <1>1, MaxPlayersIs, FS_Injection
<1>6. PlayersPerMap \in Nat
  BY SizesAssumption
<1>7. CASE FreePlaces(g, m) = {}
  BY <1>1, <1>5, <1>6, <1>7 DEF O
<1>8. CASE FreePlaces(g, m) # {}
  <2>1. PICK i : i \in FreePlaces(g, m)
    BY <1>8
  <2> QED BY <1>1, <1>4, <1>6, <1>8, <2>1 DEF O
<1> QED BY <1>7, <1>8

\* The players of a service are those of its maps.
LEMMA SittingIs ==
    ASSUME IInv, NEW g \in Services
    PROVE  SeatedIn(map_player_socket_uid, g) = Sitting(g) /\ IsFiniteSet(Sitting(g))
<1>1. /\ UNION {Occupants(g, m) : m \in Maps} = SeatedIn(map_player_socket_uid, g)
      /\ IsFiniteSet(SeatedIn(map_player_socket_uid, g))
  BY SeatedInIs DEF Occupants, IInv, TypeOK
<1>2. \A m \in Maps : Occupants(g, m) = {u \in Uids : Using(u) /\ stage[u].at = g /\ MapOf(u) = m}
  BY OccupantsAre
<1>3. \A u \in Uids : MapOf(u) \in Maps
  BY DEF IInv, TypeOK, MapOf
<1>4. \A u : u \in UNION {Occupants(g, m) : m \in Maps} <=> \E m \in Maps : u \in Occupants(g, m)
  OBVIOUS
<1>5. \A u : u \in Sitting(g) <=> \E m \in Maps : u \in Occupants(g, m)
  BY <1>2, <1>3 DEF Sitting
<1> QED BY <1>1, <1>4, <1>5

\* No start of a map came twice, and nobody left it before its start.
CountRight(g) == \A m \in Maps : miscount[<<g, m>>] = 0

LEMMA CountRightIs ==
    ASSUME IInv, CountAccounted, NEW g \in Services, CountRight(g), NEW m \in Maps
    PROVE  /\ map_player_num[<<g, m>>] = Cardinality(Occupants(g, m) \cap started)
           /\ map_player_num[<<g, m>>] \in 0 .. PlayersPerMap
           /\ map_player_num[<<g, m>>] <= Cardinality(Occupants(g, m))
<1> DEFINE O == Occupants(g, m)
           P == O \cap started
           n == map_player_num[<<g, m>>]
<1>1. IsFiniteSet(O) /\ Cardinality(O) \in Nat /\ Cardinality(O) <= PlayersPerMap
  BY OccupantsAre
<1>2. n = Cardinality(P) + miscount[<<g, m>>] /\ miscount[<<g, m>>] = 0
  BY DEF CountAccounted, CountRight
<1> HIDE DEF O, n
<1>3. IsFiniteSet(P) /\ Cardinality(P) \in Nat /\ Cardinality(P) <= Cardinality(O)
  BY <1>1, FS_Subset, FS_CardinalityType
<1> HIDE DEF P
<1>4. n = Cardinality(P)
  BY <1>2, <1>3
<1> QED BY <1>1, <1>3, <1>4, SizesAssumption DEF O, P, n

\* As long as a service has fewer clients than places, some map has one free,
\* so not all maps count as full.
LEMMA OpenMapExists ==
    ASSUME IInv, CountAccounted, PlayersCounted, NEW g \in Services, CountRight(g),
           Cardinality(Sitting(g)) < MaxPlayers
    PROVE  OpenMaps(g) # {}
<1>1. player_num[g] < MaxPlayers
  BY CountedIs, SittingIs DEF IInv, Counted
<1> SUFFICES ASSUME OpenMaps(g) = {} PROVE FALSE
  OBVIOUS
<1>2. ~(player_num[g] >= MaxPlayers)
  BY <1>1, MaxPlayersIs DEF IInv, TypeOK
<1>3. \A m \in Maps : ~(map_player_num[<<g, m>>] < PlayersPerMap)
  BY <1>2 DEF OpenMaps
<1>4. ASSUME NEW m \in Maps PROVE FreePlaces(g, m) = {}
  <2>1. /\ map_player_num[<<g, m>>] \in 0 .. PlayersPerMap
        /\ map_player_num[<<g, m>>] <= Cardinality(Occupants(g, m))
        /\ Cardinality(Occupants(g, m)) \in Nat
        /\ Cardinality(Occupants(g, m)) <= PlayersPerMap
    BY CountRightIs, OccupantsAre
  <2>2. Cardinality(Occupants(g, m)) = PlayersPerMap
    BY <1>3, <2>1, SizesAssumption
  <2> QED BY <2>2, FullMap
<1>5. ASSUME NEW m \in Maps, NEW i \in Places
      PROVE  LET u == map_player_socket_uid[<<g, m, i>>] IN
             u \in Sitting(g) /\ MapOf(u) = m /\ PlaceOf(u) = i
  <2>1. PICK u : u = map_player_socket_uid[<<g, m, i>>]
    OBVIOUS
  <2>2. player_state[<<g, m, i>>] = "USING"
    BY <1>4 DEF FreePlaces, IInv, TypeOK, Seats
  <2>3. u # INVALID /\ uid_2_playid[u] = [state |-> "USING", mapid |-> m, map_playerid |-> i]
    BY <2>1, <2>2 DEF IInv, SeatTablesAgree
  <2>4. u \in Uids /\ stage[u].at = g
    BY <2>1, <2>3 DEF IInv, TypeOK, Seats, AtItsService
  <2> QED BY <2>1, <2>3, <2>4 DEF Sitting, Using, MapOf, PlaceOf
<1> DEFINE f == [x \in Maps \X Places |-> map_player_socket_uid[<<g, x[1], x[2]>>]]
<1>6. f \in [Maps \X Places -> Sitting(g)]
  BY <1>5
<1>7. ASSUME NEW x \in Maps \X Places, NEW y \in Maps \X Places, f[x] = f[y] PROVE x = y
  BY <1>5, <1>7
<1> HIDE DEF f
<1>8. f \in Injection(Maps \X Places, Sitting(g))
  BY <1>6, <1>7, Fun_IsInj, Zenon
<1>9. Cardinality(Maps \X Places) = MaxPlayers
  BY MaxPlayersIs, FS_Product DEF MaxPlayers
<1>10. IsFiniteSet(Sitting(g)) /\ Cardinality(Sitting(g)) \in Nat
  BY SittingIs, FS_CardinalityType
<1>11. MaxPlayers <= Cardinality(Sitting(g))
  BY <1>8, <1>9, <1>10, FS_Injection
<1> QED BY <1>10, <1>11, MaxPlayersIs

LEMMA TakesPlace ==
    ASSUME GameInv, PlayersCounted, RoomForNew, NEW g \in Services, CountRight(g),
           NewPlayer(g)
    PROVE  uid_2_playid'[Requester(g)].state = "USING" \/ LobbyFull(g)
<1> DEFINE u == Requester(g)
           q == que_2_gamelogic[g]
<1>1. IInv /\ ArrivalInv /\ CountAccounted
  BY DEF GameInv, CountInv
<1>2. Pop(g, "S") /\ UNCHANGED stage
  BY DEF NewPlayer
<1>3. u \in Uids /\ Turn(Head(q)) = 0 /\ stage[u].at = g
  BY <1>1, <1>2, RequesterIsHere DEF Pop, Turn
<1>4. ~Using(u)
  <2>1. Waits(u, 0)
    BY <1>1, <1>2, <1>3, PopWaits DEF ArrivalInv
  <2> QED BY <1>1, <1>3, <2>1 DEF ArrivalInv, NewNotSeated
<1>5. Cardinality(Sitting(g)) < MaxPlayers
  <2>1. 1 \in DOMAIN q /\ Head(q) = q[1]
    BY <1>1, <1>2, QueueType DEF IInv, Pop
  <2>2. Ahead(q, Sitting(g), 1) = Sitting(g)
    BY DEF Ahead, Sitting
  <2> QED BY <1>3, <2>1, <2>2 DEF RoomForNew, RoomFor
<1>6. OpenMaps(g) # {}
  BY <1>1, <1>5, OpenMapExists
<1> DEFINE m == First(OpenMaps(g))
           i == First(FreePlaces(g, m))
<1>7. m \in Maps /\ map_player_num[<<g, m>>] < PlayersPerMap
  <2>1. OpenMaps(g) \subseteq Maps
    BY DEF OpenMaps
  <2>2. m \in OpenMaps(g)
    BY <1>6, <2>1, FirstIsMember, Ranges
  <2> QED BY <2>2 DEF OpenMaps
<1>8. CASE FreePlaces(g, m) # {}
  <2>1. TakePlace(g, u, m, i)
    BY <1>4, <1>6, <1>8 DEF NewPlayer, Requester
  <2>2. i \in FreePlaces(g, m) /\ i \in Places
    <3>1. FreePlaces(g, m) \subseteq Places
      BY DEF FreePlaces
    <3> QED BY <1>8, <3>1, FirstIsMember, Ranges
  <2> HIDE DEF m, i
  <2>3. map_player_socket_uid[<<g, m, i>>] = INVALID
    <3>1. player_state[<<g, m, i>>] = "INVALID"
      BY <2>2 DEF FreePlaces
    <3> QED BY <3>1, <1>1, <1>7, <2>2 DEF IInv, SeatTablesAgree
  <2>4. uid_2_playid' = [uid_2_playid EXCEPT ![u] =
                 [state |-> "USING", mapid |-> m, map_playerid |-> i]]
    BY <2>1, <2>3 DEF TakePlace
  <2>5. uid_2_playid \in [Uids -> [state : {"INVALID", "USING"}, mapid : Maps, map_playerid : Places]]
    BY <1>1 DEF IInv, TypeOK
  <2> HIDE DEF u
  <2>6. uid_2_playid'[u].state = "USING"
    BY <1>3, <2>4, <2>5
  <2> QED BY <2>6 DEF u
<1>9. CASE FreePlaces(g, m) = {}
  <2> HIDE DEF m
  <2>1. Cardinality(Occupants(g, m)) = PlayersPerMap
    BY <1>1, <1>7, <1>9, FullMap
  <2>2. map_player_num[<<g, m>>] = Cardinality(Occupants(g, m) \cap started)
    BY <1>1, <1>7, CountRightIs
  <2>3. ASSUME Occupants(g, m) \subseteq started PROVE FALSE
    <3>1. Occupants(g, m) \cap started = Occupants(g, m)
      BY <2>3
    <3> QED BY <1>7, <2>1, <2>2, <3>1, SizesAssumption
  <2> QED BY <1>7, <1>9, <2>3 DEF LobbyFull
<1> QED BY <1>8, <1>9

LEMMA RoomIsKept == Spec /\ []Capped => [](GameInv /\ PlayersCounted /\ RoomForNew)
<1>1. Init => RoomForNew
  <2> SUFFICES ASSUME Init, NEW g \in Services PROVE RoomFor(que_2_gamelogic[g], Sitting(g))
    BY DEF RoomForNew
  <2>1. que_2_gamelogic[g] = <<>>
    BY DEF Init
  <2> QED BY <2>1 DEF RoomFor
<1>2. GameInv /\ CloseWaits /\ Capped' /\ RoomForNew /\ [Next]_vars => RoomForNew'
  <2> SUFFICES ASSUME GameInv, CloseWaits, Capped', RoomForNew, [Next]_vars PROVE RoomForNew'
    OBVIOUS
  <2>1. CASE UNCHANGED vars
    <3>1. UNCHANGED <<que_2_gamelogic, uid_2_playid, stage>>
      BY <2>1 DEF vars, tables
    <3> QED BY <3>1 DEF RoomForNew, RoomFor, Ahead, Turn, Sitting, Using
  <2> QED BY <2>1, RoomAfterStep, RoomAfterPushes DEF Next
<1> QED BY <1>1, <1>2, GameInvHolds, CloseServed, PlayersCorrect, PTL DEF Spec

\* A step that takes a message off the queue of a service is its thread's.
LEMMA OnlyItsThreadTakes ==
    ASSUME TypeOK, NEW g \in Services, NEW t, Pop(g, t), Next
    PROVE  GameLogicStep(g)
<1> DEFINE q == que_2_gamelogic[g]
<1>1. /\ que_2_gamelogic \in [Services -> Seq(UserMsgs(Uids))]
      /\ q \in Seq(UserMsgs(Uids)) /\ q # <<>> /\ que_2_gamelogic'[g] = Tail(q)
  BY DEF TypeOK, Pop
<1>2. Len(Tail(q)) < Len(q) /\ Len(q) \in Nat
  <2> HIDE DEF q
  <2>1. Len(Tail(q)) = Len(q) - 1 /\ Len(q) \in Nat
    BY <1>1
  <2> QED BY <2>1
<1>3. ASSUME NEW h \in Services, h # g, GameLogicStep(h) PROVE FALSE
  <2>1. \E x : Pop(h, x)
    BY <1>3, StepPops, Zenon
  <2>2. que_2_gamelogic'[g] = q
    BY <2>1, <1>1, <1>3 DEF Pop
  <2> QED BY <2>2, <1>1, <1>2
<1>4. ASSUME Environment PROVE FALSE
  <2>1. CASE NetLogicDrain
    <3>1. que_2_gamelogic'[g] = q
      BY <2>1 DEF NetLogicDrain
    <3> QED BY <3>1, <1>1, <1>2
  <2>2. CASE ~NetLogicDrain
    <3>1. PICK x, m : que_2_gamelogic' = [que_2_gamelogic EXCEPT ![x] = Append(@, m)]
      BY <2>2, <1>4 DEF Environment, Connect, Request, Disconnect, Push
    <3>2. que_2_gamelogic'[g] = q \/ que_2_gamelogic'[g] = Append(q, m)
      BY <3>1, <1>1
    <3>3. Len(Append(q, m)) = Len(q) + 1
      <4> HIDE DEF q
      <4> QED BY <1>1
    <3> QED BY <3>2, <3>3, <1>1, <1>2
  <2> QED BY <2>1, <2>2
<1> QED BY <1>3, <1>4 DEF Next

LEMMA TailIsShorter ==
    ASSUME NEW S, NEW q \in Seq(S), q # <<>>
    PROVE  Tail(q) # q
<1>1. PICK n \in Nat : Len(q) = n /\ Len(Tail(q)) = n - 1
  <2>1. Len(q) \in Nat /\ Len(Tail(q)) = Len(q) - 1
    OBVIOUS
  <2> QED BY <2>1
<1>2. n # n - 1
  OBVIOUS
<1>3. Len(q) # Len(Tail(q))
  BY <1>1, <1>2, Zenon
<1> QED BY <1>3, Zenon

\* The 'S' at the head of a queue is handled by NewPlayer.
LEMMA NewIsHandled ==
    ASSUME TypeOK, NEW g \in Services, Pop(g, "S"), [Next]_vars
    PROVE  Next /\ NewPlayer(g)
<1>1. Next
  <2>1. CASE UNCHANGED vars
    <3> DEFINE q == que_2_gamelogic[g]
    <3>1. q \in Seq(UserMsgs(Uids)) /\ q # <<>> /\ Tail(q) = q
      BY <2>1 DEF vars, TypeOK, Pop
    <3> QED BY <3>1, TailIsShorter, Zenon
  <2> QED BY <2>1
<1>2. GameLogicStep(g)
  BY <1>1, OnlyItsThreadTakes
<1>3. Head(que_2_gamelogic[g]).type = "S"
  BY DEF Pop
<1>4. ~Pop(g, "C") /\ ~Pop(g, "D")
  BY <1>3 DEF Pop
<1> QED BY <1>1, <1>2, <1>4, StepPops

(***************************************************************************)
(* As long as net_logic keeps to the capacity of the services, a service   *)
(* whose counts are right turns a client away only for a full lobby, for   *)
(* any number of maps and whatever the clients send                        *)
(* (net_logic.c:140-174, game_logic.c:270-299).                            *)
(***************************************************************************)
THEOREM OnlyLobbyTurnsAway == Spec /\ []Capped => TurnedAwayByLobby
<1> DEFINE Served ==
      \A g \in Services :
          Pop(g, "S") /\ (\A m \in Maps : miscount[<<g, m>>] = 0)
          => uid_2_playid'[Requester(g)].state = "USING" \/ LobbyFull(g)
<1>1. GameInv /\ PlayersCounted /\ RoomForNew /\ [Next]_vars => [Served]_vars
  <2> SUFFICES ASSUME GameInv, PlayersCounted, RoomForNew, [Next]_vars, NEW g \in Services,
                      Pop(g, "S"), \A m \in Maps : miscount[<<g, m>>] = 0
               PROVE  uid_2_playid'[Requester(g)].state = "USING" \/ LobbyFull(g)
    OBVIOUS
  <2>1. CountRight(g) /\ TypeOK
    BY DEF CountRight, GameInv, IInv
  <2> QED BY <2>1, NewIsHandled, TakesPlace
<1> QED BY <1>1, RoomIsKept, PTL DEF Spec, TurnedAwayByLobby

-----------------------------------------------------------------------------
(* Who is told what.                                                       *)

\* The messages of a step, and the messages to clients of T only.
AllNew(S) == \A i \in Len(que_2_net_logic) + 1 .. Len(que_2_net_logic') :
                que_2_net_logic'[i] \in S

Addressed(T) == {m \in Reply : \A k \in DOMAIN m.to : m.to[k] \in T}

LEMMA NewAreSent ==
    ASSUME TypeOK, NEW S, NEW msgs \in Seq(S), Send(msgs)
    PROVE  AllNew(S)
<1> DEFINE q == que_2_net_logic
<1>1. q \in Seq(Reply) /\ q' = q \o msgs
  BY DEF TypeOK, Reply, Send
<1> HIDE DEF q
<1>2. Len(q) \in Nat /\ Len(msgs) \in Nat /\ Len(q \o msgs) = Len(q) + Len(msgs)
  BY <1>1
<1>3. ASSUME NEW i \in Len(q) + 1 .. Len(q) + Len(msgs) PROVE (q \o msgs)[i] \in S
  <2>1. i - Len(q) \in 1 .. Len(msgs) /\ (q \o msgs)[i] = msgs[i - Len(q)]
    BY <1>1, <1>2
  <2> QED BY <2>1
<1> QED BY <1>1, <1>2, <1>3 DEF AllNew, q

\* What was sent before stays in the queue.
LEMMA OldAreKept ==
    ASSUME TypeOK, NEW g \in Services, GameLogicStep(g)
    PROVE  \A i \in DOMAIN que_2_net_logic :
              i \in DOMAIN que_2_net_logic' /\ que_2_net_logic'[i] = que_2_net_logic[i]
<1> DEFINE q == que_2_net_logic
           u == Requester(g)
           m == MapOf(u)
           n == map_player_num[<<g, m>>]
<1>1. q \in Seq(Reply)
  BY DEF TypeOK, Reply
<1> HIDE DEF q
<1>2. ASSUME NEW S, NEW msgs \in Seq(S), q' = q \o msgs
      PROVE  \A i \in DOMAIN q : i \in DOMAIN q' /\ q'[i] = q[i]
  <2>1. /\ Len(q) \in Nat /\ Len(msgs) \in Nat /\ DOMAIN q = 1 .. Len(q)
        /\ DOMAIN (q \o msgs) = 1 .. Len(q) + Len(msgs)
    BY <1>1, <1>2
  <2>2. \A i \in 1 .. Len(q) : (q \o msgs)[i] = q[i]
    BY <1>1, <1>2
  <2> QED BY <1>2, <2>1, <2>2
<1>3. ASSUME UNCHANGED q PROVE \A i \in DOMAIN q : i \in DOMAIN q' /\ q'[i] = q[i]
  BY <1>3
<1>4. CASE UNCHANGED q
  BY <1>3, <1>4 DEF q
<1>5. CASE Login(g) /\ q' # q
  <2> DEFINE enemies == Front(g, m, n)
             a == Broadcast("LOG_RSP", <<u>>, u)
             b == Broadcast("LOGIN_END", <<u>>, u)
             described == [k \in 1 .. n |-> Broadcast("ENEMY_MSG", <<u>>, enemies[k])]
             S == {a, b} \cup {described[k] : k \in 1 .. n}
  <2>1. q' = q \o (<<a>> \o described \o <<b>>)
    <3>1. q' = q \/ q' = q \o (<<a>> \o described \o <<b>>)
      BY <1>5, Zenon DEF Login, Send, q
    <3> QED BY <1>5, <3>1
  <2>2. n \in Int
    <3>1. u \in Uids /\ m \in Maps
      BY <1>5, PoppedType DEF Login, PopRequest, Requester, TypeOK, MapOf
    <3> QED BY <3>1 DEF TypeOK
  <2>3. described \in [1 .. n -> S] /\ a \in S /\ b \in S
    <3> HIDE DEF n, a, b, enemies
    <3> QED OBVIOUS
  <2> HIDE DEF S, n, described, a, b
  <2>4. described \in Seq(S)
    BY <2>2, <2>3, FunctionIsSequence
  <2>5. <<a>> \o described \o <<b>> \in Seq(S)
    BY <2>3, <2>4
  <2> QED BY <1>2, <2>1, <2>5 DEF q
<1>6. ASSUME NEW a, q' = q \o <<a>>
      PROVE  \A i \in DOMAIN q : i \in DOMAIN q' /\ q'[i] = q[i]
  <2>1. <<a>> \in Seq({a})
    OBVIOUS
  <2> QED BY <1>2, <1>6, <2>1
<1>7. ASSUME NEW a, NEW b, q' = q \o <<a, b>>
      PROVE  \A i \in DOMAIN q : i \in DOMAIN q' /\ q'[i] = q[i]
  <2>1. <<a, b>> \in Seq({a, b})
    OBVIOUS
  <2> QED BY <1>2, <1>7, <2>1
<1>8. CASE Start(g) /\ q' # q
  <2>1. \E a, b : q' = q \o <<a, b>>
    BY <1>8, Zenon DEF Start, Send, q
  <2> QED BY <1>7, <2>1 DEF q
<1>9. CASE (Move(g) \/ Leave(g) \/ UserClose(g)) /\ q' # q
  <2>1. CASE Move(g)
    <3>1. \E a : q' = q \o <<a>>
      BY <1>9, <2>1, Zenon DEF Move, Send, q
    <3> QED BY <1>6, <3>1 DEF q
  <2>2. CASE Leave(g)
    <3>1. \E a : q' = q \o <<a>>
      BY <1>9, <2>2, Zenon DEF Leave, Send, q
    <3> QED BY <1>6, <3>1 DEF q
  <2>3. CASE UserClose(g)
    <3>1. \E a : q' = q \o <<a>>
      BY <1>9, <2>3, Zenon DEF UserClose, RemovePlayer, Send, q
    <3> QED BY <1>6, <3>1 DEF q
  <2> QED BY <1>9, <2>1, <2>2, <2>3
<1>10. NewPlayer(g) \/ NullRequest(g) \/ Ignore(g) => UNCHANGED q
  BY DEF NewPlayer, NullRequest, Ignore, q
<1> QED BY <1>4, <1>5, <1>8, <1>9, <1>10 DEF GameLogicStep

LEMMA NoneNew ==
    ASSUME TypeOK, NEW S, UNCHANGED que_2_net_logic \/ NetLogicDrain
    PROVE  AllNew(S)
<1>1. que_2_net_logic \in Seq(Reply)
  BY DEF TypeOK, Reply
<1>2. que_2_net_logic' \in Seq(Reply) /\ Len(que_2_net_logic') <= Len(que_2_net_logic)
  BY <1>1, Drained
<1> QED BY <1>1, <1>2 DEF AllNew

LEMMA ToOne ==
    ASSUME NEW r \in Responses, NEW T, T \subseteq Uids, NEW u \in T,
           NEW v \in Uids \cup {Unset}
    PROVE  Broadcast(r, <<u>>, v) \in Addressed(T)
<1>1. Broadcast(r, <<u>>, v) \in Reply
  BY ReplyType
<1> QED BY <1>1 DEF Addressed, Broadcast

\* The front of a list of the state at hand or, after a rebuild, of the next.
LEMMA ToFront ==
    ASSUME NEW list \in [Seats -> Uids \cup {Unset}], NEW r \in Responses,
           NEW g \in Services, NEW m \in Maps, NEW n \in 0 .. PlayersPerMap,
           NEW T, \A k \in 0 .. n - 1 : list[<<g, m, k>>] \in T,
           NEW v \in Uids \cup {Unset}
    PROVE  Broadcast(r, [k \in 1 .. n |-> list[<<g, m, k - 1>>]], v) \in Addressed(T)
<1> DEFINE to == [k \in 1 .. n |-> list[<<g, m, k - 1>>]]
<1>1. to \in Seq(Uids \cup {Unset})
  BY FrontType, SizesAssumption
<1>2. \A k \in DOMAIN to : to[k] \in T
  BY SizesAssumption
<1> HIDE DEF to
<1>3. Broadcast(r, to, v) \in Reply
  BY <1>1 DEF Broadcast, Reply
<1> QED BY <1>2, <1>3 DEF Addressed, Broadcast, to

\* By its second request an orderly client with a place is named there.
LEMMA RequesterNamed ==
    ASSUME Orderly, IInv, OrderlyInv, NEW g \in Services, Pop(g, "D"), UNCHANGED stage,
           Using(Requester(g)), Turn(Head(que_2_gamelogic[g])) \in {2, 3}
    PROVE  /\ Named(Requester(g))
           /\ Requester(g) \in started <=> Turn(Head(que_2_gamelogic[g])) = 3
<1> DEFINE u == Requester(g)
           k == Turn(Head(que_2_gamelogic[g]))
<1>1. u \in Uids /\ stage[u].at = g /\ Progress(u)
  BY RequesterIsHere DEF OrderlyInv
<1>2. /\ Waits(u, k) /\ ~Waits(u, 0) /\ ~Waits(u, 1)
      /\ k = 3 => ~Waits(u, 2)
  BY PopWaits DEF OrderlyInv
<1>3. k <= Reached(stage[u].sent)
  <2>1. que_2_gamelogic[g] # <<>> /\ que_2_gamelogic[g] \in Seq(UserMsgs(Uids))
    BY QueueType DEF IInv, Pop
  <2>2. 1 \in DOMAIN que_2_gamelogic[g] /\ Head(que_2_gamelogic[g]) = que_2_gamelogic[g][1]
    BY <2>1
  <2> QED BY <2>2 DEF OrderlyInv, InTurn, Requester
<1> HIDE DEF k, u
<1>4. Reached(stage[u].sent) >= 3 /\ Reached(stage[u].sent) >= 1 /\ k \in {2, 3}
  BY <1>3, ReachedIs DEF k
<1>5. Named(u)
  BY <1>1, <1>2, <1>4 DEF Progress, u
<1>6. u \in started <=> k = 3
  BY <1>1, <1>2, <1>4 DEF Progress, u
<1> QED BY <1>5, <1>6 DEF u, k

LEMMA LoginTells ==
    ASSUME IInv, ListInv, NEW g \in Services, Login(g)
    PROVE  AllNew({e \in Addressed({Requester(g)}) :
                     e.about \in Occupants(g, MapOf(Requester(g)))})
<1> DEFINE u == Requester(g)
           m == MapOf(u)
           n == map_player_num[<<g, m>>]
           enemies == Front(g, m, n)
           T == Occupants(g, m)
           S == {e \in Addressed({u}) : e.about \in T}
           described == [k \in 1 .. n |-> Broadcast("ENEMY_MSG", <<u>>, enemies[k])]
           msgs == <<Broadcast("LOG_RSP", <<u>>, u)>> \o described
                      \o <<Broadcast("LOGIN_END", <<u>>, u)>>
<1>1. u \in Uids /\ m \in Maps /\ Using(u) /\ stage[u].at = g
  BY RequesterIsHere DEF Login, PopRequest, IInv, TypeOK, MapOf
<1>2. n \in 0 .. PlayersPerMap
  BY <1>1, CountBound DEF ListInv
<1>3. ASSUME NEW k \in 1 .. n PROVE enemies[k] \in T /\ Using(enemies[k])
  <2>1. enemies[k] = map_uid_list[<<g, m, k - 1>>] /\ k - 1 \in 0 .. n - 1
    BY <1>2 DEF Front
  <2>2. enemies[k] \in T
    BY <1>1, <2>1 DEF ListInv, FrontSeated
  <2> QED BY <2>2, <1>1, OccupantsAre
<1>4. T \subseteq Uids /\ u \in T
  BY <1>1, OccupantsAre
<1>5. Send(msgs)
  <2>1. ~(n > PlayersPerMap)
    BY <1>2, SizesAssumption
  <2>2. ~(\E k \in 1 .. n : enemies[k] \notin Uids \/ ~Using(enemies[k]))
    BY <1>3, <1>4
  <2> QED BY <2>1, <2>2, Zenon DEF Login
<1>6. msgs \in Seq(S)
  <2> HIDE DEF S
  <2>1. ASSUME NEW r \in Responses, NEW v \in T
        PROVE  Broadcast(r, <<u>>, v) \in S
    <3>1. Broadcast(r, <<u>>, v) \in Addressed({u})
      BY <1>1, <1>4, ToOne
    <3>2. Broadcast(r, <<u>>, v).about = v
      BY DEF Broadcast
    <3> QED BY <3>1, <3>2 DEF S
  <2>2. described \in [1 .. n -> S]
    <3> HIDE DEF enemies, n, u, T
    <3> QED BY <1>3, <2>1 DEF Responses
  <2>3. described \in Seq(S)
    <3> HIDE DEF described, n
    <3> QED BY <1>2, <2>2, FunctionIsSequence
  <2>4. Broadcast("LOG_RSP", <<u>>, u) \in S /\ Broadcast("LOGIN_END", <<u>>, u) \in S
    BY <1>4, <2>1 DEF Responses
  <2> HIDE DEF described
  <2> QED BY <2>3, <2>4
<1> HIDE DEF S, msgs
<1>7. AllNew(S)
  BY <1>5, <1>6, NewAreSent DEF IInv
<1> QED BY <1>7 DEF S, T

LEMMA StartTells ==
    ASSUME Orderly, IInv, OrderlyInv, ListInv, NEW g \in Services, Start(g)
    PROVE  AllNew({e \in Addressed(Occupants(g, MapOf(Requester(g)))) :
                     e.about = Requester(g)})
<1> DEFINE u == Requester(g)
           m == MapOf(u)
           n == map_player_num[<<g, m>>]
           T == Occupants(g, m)
           S == {e \in Addressed(T) : e.about = u}
           name == player_uid[<<g, m, PlaceOf(u)>>]
           msgs == <<Broadcast("NEW_ENEMY", Front(g, m, n), name),
                     Broadcast("GAME_START_RSP", <<u>>, u)>>
<1>1. u \in Uids /\ m \in Maps /\ Using(u) /\ stage[u].at = g
  BY RequesterIsHere DEF Start, PopRequest, IInv, TypeOK, MapOf
<1>2. u \in T /\ T \subseteq Uids
  BY <1>1, OccupantsAre
<1>3. /\ n \in 0 .. PlayersPerMap
      /\ \A k \in 0 .. n - 1 : map_uid_list[<<g, m, k>>] \in T
  BY <1>1, CountBound DEF ListInv, FrontSeated
<1>4. name = u
  <2>1. Pop(g, "D") /\ UNCHANGED stage /\ Turn(Head(que_2_gamelogic[g])) = 2
    BY DEF Start, PopRequest, Pop, Turn
  <2>2. Named(u)
    BY <1>1, <2>1, RequesterNamed
  <2> QED BY <1>1, <2>2 DEF Named
<1>5. map_uid_list \in [Seats -> Uids \cup {Unset}]
  BY DEF IInv, TypeOK
<1>6. Send(msgs) \/ UNCHANGED que_2_net_logic
  <2>1. CASE n >= PlayersPerMap BY <2>1 DEF Start
  <2>2. CASE ~(n >= PlayersPerMap) BY <2>2, Zenon DEF Start
  <2> QED BY <2>1, <2>2
<1>7. msgs \in Seq(S)
  <2>1. Broadcast("GAME_START_RSP", <<u>>, u) \in Addressed(T)
    BY <1>1, <1>2, ToOne DEF Responses
  <2>2. Broadcast("NEW_ENEMY", Front(g, m, n), u) \in Addressed(T)
    <3> HIDE DEF u, m, n, T, name
    <3> QED BY <1>1, <1>3, <1>5, ToFront DEF Front, Responses
  <2>3. \A r, to : Broadcast(r, to, u).about = u
    BY DEF Broadcast
  <2> HIDE DEF u, T, name
  <2> QED BY <1>4, <2>1, <2>2, <2>3
<1> HIDE DEF msgs, S
<1>8. AllNew(S)
  BY <1>6, <1>7, NewAreSent, NoneNew DEF IInv
<1> QED BY <1>8 DEF S, T

LEMMA MoveTells ==
    ASSUME Orderly, IInv, OrderlyInv, ListInv, NEW g \in Services, Move(g)
    PROVE  AllNew({e \in Addressed(Occupants(g, MapOf(Requester(g)))) :
                     e.about = Requester(g)})
<1> DEFINE u == Requester(g)
           m == MapOf(u)
           n == map_player_num[<<g, m>>]
           T == Occupants(g, m)
           S == {e \in Addressed(T) : e.about = u}
           name == player_uid[<<g, m, PlaceOf(u)>>]
           msgs == <<Broadcast("ENEMY_MSG", Front(g, m, n), name)>>
<1>1. u \in Uids /\ m \in Maps /\ Using(u) /\ stage[u].at = g
  BY RequesterIsHere DEF Move, PopRequest, IInv, TypeOK, MapOf
<1>2. /\ n \in 0 .. PlayersPerMap
      /\ \A k \in 0 .. n - 1 : map_uid_list[<<g, m, k>>] \in T
  BY <1>1, CountBound DEF ListInv, FrontSeated
<1>3. name = u
  <2>1. Pop(g, "D") /\ UNCHANGED stage /\ Turn(Head(que_2_gamelogic[g])) = 3
    BY DEF Move, PopRequest, Pop, Turn
  <2>2. Named(u)
    BY <1>1, <2>1, RequesterNamed
  <2> QED BY <1>1, <2>2 DEF Named
<1>4. map_uid_list \in [Seats -> Uids \cup {Unset}]
  BY DEF IInv, TypeOK
<1>5. Send(msgs) \/ UNCHANGED que_2_net_logic
  <2>1. CASE n > PlayersPerMap BY <2>1 DEF Move
  <2>2. CASE ~(n > PlayersPerMap) BY <2>2, Zenon DEF Move
  <2> QED BY <2>1, <2>2
<1>6. msgs \in Seq(S)
  <2>1. Broadcast("ENEMY_MSG", Front(g, m, n), u) \in Addressed(T)
    <3> HIDE DEF u, m, n, T, name
    <3> QED BY <1>1, <1>2, <1>4, ToFront DEF Front, Responses
  <2>2. \A r, to : Broadcast(r, to, u).about = u
    BY DEF Broadcast
  <2> HIDE DEF u, T, name
  <2> QED BY <1>3, <2>1, <2>2
<1> HIDE DEF msgs, S
<1>7. AllNew(S)
  BY <1>5, <1>6, NewAreSent, NoneNew DEF IInv
<1> QED BY <1>7 DEF S, T

\* The answer to a leave request goes to the name of the place: the client's.
LEMMA LeaveTells ==
    ASSUME Orderly, IInv, OrderlyInv, NEW g \in Services, Leave(g)
    PROVE  AllNew({e \in Addressed({Requester(g)}) : e.about = Requester(g)})
<1> DEFINE u == Requester(g)
           S == {e \in Addressed({u}) : e.about = u}
           msgs == <<Broadcast("LEAVE_RSP", <<u>>, u)>>
<1>1. Pop(g, "D") /\ Using(u) /\ UNCHANGED stage /\ u \in Uids /\ stage[u].at = g
  BY RequesterIsHere DEF Leave, PopRequest
<1>2. Turn(Head(que_2_gamelogic[g])) = 3
  <2>1. Head(que_2_gamelogic[g]) \in UserMsgs(Uids)
    BY <1>1, PoppedType DEF IInv
  <2> QED BY <2>1 DEF Leave, PopRequest, Pop, Turn, UserMsgs
<1>3. Named(u)
  BY <1>1, <1>2, RequesterNamed
<1>4. Send(msgs)
  BY <1>1, <1>3 DEF Leave, Named
<1>5. msgs \in Seq(S)
  <2>1. Broadcast("LEAVE_RSP", <<u>>, u) \in Addressed({u})
    BY <1>1, ToOne DEF Responses
  <2>2. Broadcast("LEAVE_RSP", <<u>>, u).about = u
    BY DEF Broadcast
  <2> QED BY <2>1, <2>2
<1> HIDE DEF msgs, S
<1>6. AllNew(S)
  BY <1>4, <1>5, NewAreSent DEF IInv
<1> QED BY <1>6 DEF S

LEMMA CloseTells ==
    ASSUME IInv, IInv', OrderlyInv, ListInv, ListInv', NEW g \in Services, UserClose(g),
           NEW u, u = Requester(g), Using(u), NEW m, m = MapOf(u)
    PROVE  AllNew({e \in Addressed(Occupants(g, m)') : e.about = u})
<1> DEFINE n == map_player_num[<<g, m>>] - 1
           T == Occupants(g, m)'
           S == {e \in Addressed(T) : e.about = u}
           list == map_uid_list'
           msgs == <<Broadcast("ENEMY_LEAVE", [k \in 1 .. n |-> list[<<g, m, k - 1>>]], u)>>
<1>1. /\ u \in Uids /\ m \in Maps /\ RemovePlayer(g, u) /\ stage[u].at = g
      /\ player_uid[<<g, m, PlaceOf(u)>>] = u
      /\ u \in Occupants(g, m) /\ u \in started
  BY CloserIs DEF Named
<1>2. map_player_num'[<<g, m>>] = n
  BY <1>1 DEF RemovePlayer, CountOut, IInv, TypeOK
<1>3. n \in 0 .. PlayersPerMap
  <2>1. map_player_num[<<g, m>>] \in 0 .. PlayersPerMap
    BY <1>1, CountBound DEF ListInv
  <2>2. map_player_num[<<g, m>>] # 0
    <3>1. map_player_num[<<g, m>>] = Cardinality(Occupants(g, m) \cap started)
      BY <1>1 DEF ListInv, CountIsStarted
    <3>2. IsFiniteSet(Occupants(g, m) \cap started) /\ Occupants(g, m) \cap started # {}
      BY <1>1, OccupantsAre, FS_Subset
    <3> QED BY <3>1, <3>2, FS_EmptySet
  <2> QED BY <2>1, <2>2, SizesAssumption
<1>4. \A k \in 0 .. n - 1 : list[<<g, m, k>>] \in T
  BY <1>1, <1>2 DEF ListInv, FrontSeated
<1>5. list \in [Seats -> Uids \cup {Unset}]
  BY DEF IInv, TypeOK
<1>6. Send(msgs)
  <2>1. ~(n > PlayersPerMap)
    BY <1>3, SizesAssumption
  <2> QED BY <1>1, <2>1 DEF RemovePlayer
<1>7. msgs \in Seq(S)
  <2>1. Broadcast("ENEMY_LEAVE", [k \in 1 .. n |-> list[<<g, m, k - 1>>]], u) \in Addressed(T)
    <3> HIDE DEF n, T, list
    <3> QED BY <1>1, <1>3, <1>4, <1>5, ToFront DEF Responses
  <2>2. \A to : Broadcast("ENEMY_LEAVE", to, u).about = u
    BY DEF Broadcast
  <2> QED BY <2>1, <2>2
<1> HIDE DEF msgs, S
<1>8. AllNew(S)
  BY <1>6, <1>7, NewAreSent DEF IInv
<1> QED BY <1>8 DEF S

\* The clients net_logic has announced to the game services.
Met == {u \in Uids : stage[u].sent # "NONE"}

LEMMA ServedAreMet ==
    ASSUME IInv, NEW g \in Services, NEW u \in Uids, stage[u].at = g
    PROVE  u \in Met
BY Ranges DEF IInv, AtItsService, Met

LEMMA MetStay == IInv /\ [Next]_vars => Met \subseteq Met'
<1> SUFFICES ASSUME IInv, [Next]_vars, NEW u \in Met PROVE stage'[u].sent # "NONE"
  BY DEF Met
<1>1. /\ u \in Uids /\ stage[u].sent # "NONE"
      /\ stage \in [Uids -> [at : Services \cup {INVALID},
                            sent : Requests \cup {"NONE", "S", "C"}]]
  BY DEF Met, IInv, TypeOK
<1>2. ASSUME NEW g \in Services, GameLogicStep(g) PROVE UNCHANGED stage
  BY <1>2, StepPops
<1>3. ASSUME NEW v \in Uids, NEW g \in Services, Connect(v, g)
      PROVE  stage' = [stage EXCEPT ![v] = [at |-> g, sent |-> "S"]]
  BY <1>3 DEF Connect
<1>4. ASSUME NEW v \in Uids, NEW r \in Requests, Request(v, r)
      PROVE  stage'[u].sent # "NONE"
  <2>1. \/ UNCHANGED stage
        \/ stage' = [stage EXCEPT ![v].sent = IF r \in {"LOG_REQ", "GAME_START_REQ"}
                                              THEN r ELSE @]
    BY <1>4 DEF Request
  <2> QED BY <1>1, <2>1
<1>5. ASSUME NEW v \in Uids, Disconnect(v) PROVE stage'[u].sent # "NONE"
  BY <1>1, <1>5 DEF Disconnect
<1>6. ASSUME NetLogicDrain \/ UNCHANGED vars PROVE UNCHANGED stage
  BY <1>6 DEF NetLogicDrain, vars
<1> QED BY <1>1, <1>2, <1>3, <1>4, <1>5, <1>6 DEF Next, Environment, Forwarded

(***************************************************************************)
(* As long as no service has died, what it reads of a broadcast list are   *)
(* clients it has been told of, whatever they send; and so are the names   *)
(* at its places, where there is one.                                      *)
(***************************************************************************)
FrontKnown ==
    fault = "none" =>
        \A g \in Services, m \in Maps :
            /\ map_player_num[<<g, m>>] <= PlayersPerMap
            /\ \A k \in Places : k < map_player_num[<<g, m>>] =>
                  map_uid_list[<<g, m, k>>] \in Met

NamesKnown == \A x \in Seats : player_uid[x] \in Met \cup {Unset}

KnownInv == FrontKnown /\ NamesKnown

LEMMA KnownInit == Init => KnownInv
<1> SUFFICES ASSUME Init PROVE KnownInv
  OBVIOUS
<1>1. \A g \in Services, m \in Maps : map_player_num[<<g, m>>] = 0
  BY DEF Init, TablesInit
<1>2. \A x \in Seats : player_uid[x] = Unset
  BY DEF Init, TablesInit, Seats
<1>3. \A k \in Places : ~(k < 0)
  BY SizesAssumption DEF Places
<1> QED BY <1>1, <1>2, <1>3, SizesAssumption DEF KnownInv, FrontKnown, NamesKnown

LEMMA KnownUntouched ==
    ASSUME KnownInv, Met \subseteq Met',
           UNCHANGED <<map_player_num, map_uid_list, player_uid>>,
           fault' = "none" => fault = "none"
    PROVE  KnownInv'
BY DEF KnownInv, FrontKnown, NamesKnown

LEMMA LoginKnown ==
    ASSUME IInv, KnownInv, NEW g \in Services, Login(g)
    PROVE  KnownInv'
<1> DEFINE u == Requester(g)
           x == <<g, MapOf(u), PlaceOf(u)>>
<1>1. /\ Pop(g, "D") /\ UNCHANGED <<stage, map_player_num, map_uid_list>>
      /\ u \in Uids /\ stage[u].at = g
  BY RequesterIsHere DEF Login, PopRequest
<1>2. u \in Met /\ Met' = Met
  BY <1>1, ServedAreMet DEF Met
<1>3. fault = "none"
  BY <1>1 DEF Pop
<1>4. player_uid' = [player_uid EXCEPT ![x] = u]
  BY DEF Login, user_msg_load
<1>5. player_uid \in [Seats -> Uids \cup {Unset}]
  BY DEF IInv, TypeOK
<1> HIDE DEF u, x
<1>6. NamesKnown'
  BY <1>2, <1>4, <1>5 DEF KnownInv, NamesKnown
<1>7. FrontKnown'
  BY <1>1, <1>2, <1>3 DEF KnownInv, FrontKnown
<1> QED BY <1>6, <1>7 DEF KnownInv

LEMMA StartKnown ==
    ASSUME IInv, KnownInv, NEW g \in Services, Start(g)
    PROVE  KnownInv'
<1> DEFINE u == Requester(g)
           m == MapOf(u)
           n == map_player_num[<<g, m>>]
<1>1. /\ Pop(g, "D") /\ UNCHANGED <<stage, player_uid>>
      /\ u \in Uids /\ stage[u].at = g /\ m \in Maps
  BY RequesterIsHere DEF Start, PopRequest, IInv, TypeOK, MapOf
<1>2. u \in Met /\ Met' = Met
  BY <1>1, ServedAreMet DEF Met
<1>3. fault = "none"
  BY <1>1 DEF Pop
<1>4. /\ map_player_num' = [map_player_num EXCEPT ![<<g, m>>] = n + 1]
      /\ map_uid_list' = IF n \in Places
                         THEN [map_uid_list EXCEPT ![<<g, m, n>>] = u]
                         ELSE map_uid_list
      /\ fault' = IF n >= PlayersPerMap THEN "list_overflow" ELSE fault
  BY DEF Start
<1>5. /\ map_player_num \in [Services \X Maps -> Int]
      /\ map_uid_list \in [Seats -> Uids \cup {Unset}] /\ n \in Int
  BY <1>1 DEF IInv, TypeOK
<1> HIDE DEF u, m
<1>6. FrontKnown'
  <2> SUFFICES ASSUME fault' = "none", NEW h \in Services, NEW o \in Maps
               PROVE  /\ map_player_num'[<<h, o>>] <= PlayersPerMap
                      /\ \A k \in Places : k < map_player_num'[<<h, o>>] =>
                            map_uid_list'[<<h, o, k>>] \in Met
    BY <1>2 DEF FrontKnown
  <2>1. n < PlayersPerMap /\ PlayersPerMap \in Nat
    BY <1>4, <1>5, SizesAssumption
  <2>2. /\ map_player_num[<<h, o>>] <= PlayersPerMap /\ map_player_num[<<h, o>>] \in Int
        /\ \A k \in Places : k < map_player_num[<<h, o>>] =>
              map_uid_list[<<h, o, k>>] \in Met
    BY <1>3, <1>5 DEF KnownInv, FrontKnown
  <2>3. CASE <<h, o>> = <<g, m>>
    <3>1. map_player_num'[<<h, o>>] = n + 1 /\ n = map_player_num[<<h, o>>]
      BY <1>4, <1>5, <2>3
    <3>2. ASSUME NEW k \in Places, k < n + 1 PROVE map_uid_list'[<<h, o, k>>] \in Met
      <4>1. k \in Int /\ 0 <= k
        BY DEF Places
      <4>2. CASE k = n
        <5>1. map_uid_list'[<<h, o, k>>] = u
          BY <1>4, <1>5, <2>3, <4>2 DEF Seats
        <5> QED BY <5>1, <1>2
      <4>3. CASE k # n
        <5>1. k < n
          BY <1>5, <3>2, <4>1, <4>3
        <5>2. map_uid_list'[<<h, o, k>>] = map_uid_list[<<h, o, k>>]
          BY <1>4, <1>5, <4>3 DEF Seats
        <5> QED BY <2>2, <3>1, <5>1, <5>2
      <4> QED BY <4>2, <4>3
    <3>3. n + 1 <= PlayersPerMap
      BY <1>5, <2>1
    <3> QED BY <3>1, <3>2, <3>3
  <2>4. CASE <<h, o>> # <<g, m>>
    <3>1. map_player_num'[<<h, o>>] = map_player_num[<<h, o>>]
      BY <1>4, <1>5, <2>4
    <3>2. \A k \in Places : map_uid_list'[<<h, o, k>>] = map_uid_list[<<h, o, k>>]
      BY <1>4, <1>5, <2>4 DEF Seats
    <3> QED BY <2>2, <3>1, <3>2
  <2> QED BY <2>3, <2>4
<1>7. NamesKnown'
  BY <1>1, <1>2 DEF KnownInv, NamesKnown
<1> QED BY <1>6, <1>7 DEF KnownInv

\* An entry after a rebuild: somebody that stays, or what was there before.
LEMMA RebuiltEntry ==
    ASSUME IInv, NEW g \in Services, NEW m \in Maps, NEW u, NEW x \in Seats
    PROVE  \/ map_uid_list_rebuild(g, m, u)[x] = map_uid_list[x]
           \/ map_uid_list_rebuild(g, m, u)[x] \in Occupants(g, m)
<1> DEFINE Kept == {i \in Places : map_player_socket_uid[<<g, m, i>>] \notin {INVALID, u}}
           Rank(i) == Cardinality({j \in Kept : j < i})
           hit == x[1] = g /\ x[2] = m /\ \E i \in Kept : Rank(i) = x[3]
           i == CHOOSE i \in Kept : Rank(i) = x[3]
<1>1. DOMAIN map_uid_list = Seats
  BY DEF IInv, TypeOK
<1>2. map_uid_list_rebuild(g, m, u)[x] =
        IF hit THEN map_player_socket_uid[<<g, m, i>>] ELSE map_uid_list[x]
  BY <1>1 DEF map_uid_list_rebuild
<1>3. ASSUME hit PROVE map_player_socket_uid[<<g, m, i>>] \in Occupants(g, m)
  <2>1. i \in Kept
    <3> HIDE DEF Kept, Rank
    <3> QED BY <1>3
  <2> HIDE DEF i
  <2> QED BY <2>1 DEF Occupants
<1> HIDE DEF hit, i
<1> QED BY <1>2, <1>3

LEMMA CloseKnown ==
    ASSUME IInv, KnownInv, NEW g \in Services, UserClose(g),
           NEW u, u = Requester(g), Using(u)
    PROVE  KnownInv'
<1> DEFINE m == MapOf(u)
           n == map_player_num[<<g, m>>]
<1>1. /\ Pop(g, "C") /\ UNCHANGED <<stage, player_uid>> /\ RemovePlayer(g, u)
      /\ u \in Uids /\ stage[u].at = g /\ m \in Maps
  BY RequesterIsHere DEF UserClose, RemovePlayer, IInv, TypeOK, MapOf
<1>2. Met' = Met
  BY <1>1 DEF Met
<1>3. fault = "none"
  BY <1>1 DEF Pop
<1>4. /\ map_player_num' = [map_player_num EXCEPT ![<<g, m>>] = n - 1]
      /\ map_uid_list' = map_uid_list_rebuild(g, m, u)
  BY <1>1 DEF RemovePlayer, CountOut
<1>5. map_player_num \in [Services \X Maps -> Int] /\ n \in Int
  BY <1>1 DEF IInv, TypeOK
<1>6. Occupants(g, m) \subseteq Met
  BY <1>1, OccupantsAre, ServedAreMet
<1>7. ASSUME NEW h \in Services, NEW o \in Maps, NEW k \in Places
      PROVE  \/ map_uid_list'[<<h, o, k>>] = map_uid_list[<<h, o, k>>]
             \/ map_uid_list'[<<h, o, k>>] \in Met
  BY <1>1, <1>4, <1>6, RebuiltEntry DEF Seats
<1> HIDE DEF m, n
<1>8. ASSUME NEW h \in Services, NEW o \in Maps
      PROVE  /\ map_player_num'[<<h, o>>] <= PlayersPerMap
             /\ \A k \in Places : k < map_player_num'[<<h, o>>] =>
                   map_uid_list'[<<h, o, k>>] \in Met
  <2>1. /\ map_player_num[<<h, o>>] <= PlayersPerMap /\ map_player_num[<<h, o>>] \in Int
        /\ \A k \in Places : k < map_player_num[<<h, o>>] =>
              map_uid_list[<<h, o, k>>] \in Met
    BY <1>3, <1>5 DEF KnownInv, FrontKnown
  <2>2. /\ map_player_num'[<<h, o>>] \in Int
        /\ map_player_num'[<<h, o>>] <= map_player_num[<<h, o>>]
    BY <1>4, <1>5, <2>1 DEF n
  <2>3. map_player_num'[<<h, o>>] <= PlayersPerMap
    BY <2>1, <2>2, SizesAssumption
  <2>4. \A k \in Places : k < map_player_num'[<<h, o>>] => k < map_player_num[<<h, o>>]
    BY <2>1, <2>2 DEF Places
  <2> QED BY <1>7, <2>1, <2>3, <2>4
<1>9. FrontKnown'
  BY <1>2, <1>8 DEF FrontKnown
<1>10. NamesKnown'
  BY <1>1, <1>2 DEF KnownInv, NamesKnown
<1> QED BY <1>9, <1>10 DEF KnownInv

LEMMA KnownStep ==
    ASSUME IInv, KnownInv, [Next]_vars
    PROVE  KnownInv'
<1>0. Met \subseteq Met'
  BY MetStay
<1>1. ASSUME NEW g \in Services, GameLogicStep(g) PROVE KnownInv'
  <2>1. CASE Login(g) BY <2>1, LoginKnown
  <2>2. CASE Start(g) BY <2>2, StartKnown
  <2>3. CASE UserClose(g) /\ Using(Requester(g))
    BY <2>3, CloseKnown
  <2>4. CASE \/ NewPlayer(g) \/ Move(g) \/ Leave(g) \/ NullRequest(g) \/ Ignore(g)
             \/ UserClose(g) /\ ~Using(Requester(g))
    <3>1. \E t : Pop(g, t)
      BY <1>1, StepPops, Zenon
    <3>2. fault = "none"
      BY <3>1 DEF Pop
    <3>3. UNCHANGED <<map_player_num, map_uid_list, player_uid>>
      BY <2>4 DEF NewPlayer, Move, Leave, NullRequest, Ignore, UserClose, tables
    <3> QED BY <1>0, <3>2, <3>3, KnownUntouched
  <2> QED BY <1>1, <2>1, <2>2, <2>3, <2>4 DEF GameLogicStep
<1>2. ASSUME Environment \/ UNCHANGED vars PROVE KnownInv'
  <2>1. UNCHANGED <<map_player_num, map_uid_list, player_uid, fault>>
    BY <1>2 DEF Environment, Connect, Request, Disconnect, NetLogicDrain, Push, tables, vars
  <2> QED BY <1>0, <2>1, KnownUntouched
<1> QED BY <1>1, <1>2 DEF Next

\* A message to clients of T, or an answer to a leave request to nobody.
Told(T) == {e \in Reply : \A k \in DOMAIN e.to :
               e.to[k] \in T \/ (e.proto = "LEAVE_RSP" /\ e.to[k] = Unset)}

LEMMA AddressedAreTold ==
    ASSUME NEW T, NEW R, R \subseteq T, AllNew(Addressed(R)) PROVE AllNew(Told(T))
BY DEF AllNew, Addressed, Told

LEMMA KnownFront ==
    ASSUME IInv, KnownInv, fault = "none", NEW g \in Services, NEW m \in Maps,
           NEW r \in Responses, NEW v \in Uids \cup {Unset}
    PROVE  Broadcast(r, Front(g, m, map_player_num[<<g, m>>]), v) \in Addressed(Met)
<1> DEFINE n == map_player_num[<<g, m>>]
           to == Front(g, m, n)
<1>1. /\ n \in Int /\ n <= PlayersPerMap
      /\ \A k \in Places : k < n => map_uid_list[<<g, m, k>>] \in Met
  BY DEF KnownInv, FrontKnown, IInv, TypeOK
<1> HIDE DEF n
<1>2. ASSUME NEW k \in 1 .. n PROVE map_uid_list[<<g, m, k - 1>>] \in Met
  <2>1. k - 1 \in Places /\ k - 1 < n
    BY <1>1, SizesAssumption DEF Places
  <2> QED BY <1>1, <2>1
<1>3. to \in [1 .. n -> Met]
  BY <1>2 DEF Front
<1> HIDE DEF to
<1>4. to \in Seq(Met)
  BY <1>1, <1>3, FunctionIsSequence
<1>5. to \in Seq(Uids \cup {Unset})
  BY <1>4 DEF Met
<1>6. \A k \in DOMAIN to : to[k] \in Met
  BY <1>4
<1>7. Broadcast(r, to, v) \in Reply
  BY <1>5 DEF Broadcast, Reply
<1> QED BY <1>6, <1>7 DEF Addressed, Broadcast, to, n

(***************************************************************************)
(* Whatever a game thread sends goes to clients announced to it, but for   *)
(* the answer to a leave request from a place without a name.              *)
(***************************************************************************)
LEMMA NamesMet ==
    ASSUME IInv, IInv', KnownInv, KnownInv', NEW g \in Services, GameLogicStep(g)
    PROVE  UNCHANGED stage /\ AllNew(Told(Met))
<1> DEFINE u == Requester(g)
           m == MapOf(u)
           n == map_player_num[<<g, m>>]
<1>1. UNCHANGED stage
  BY StepPops
<1>2. PICK t : Pop(g, t)
  BY StepPops, Zenon
<1>3. /\ u \in Uids /\ stage[u].at = g /\ u \in Met /\ m \in Maps /\ PlaceOf(u) \in Places
      /\ fault = "none" /\ Met' = Met /\ TypeOK
      /\ <<g, m, PlaceOf(u)>> \in Seats
  <2>1. u \in Uids /\ stage[u].at = g
    BY <1>2, RequesterIsHere
  <2>2. fault = "none"
    BY <1>2 DEF Pop
  <2>3. m \in Maps /\ PlaceOf(u) \in Places
    BY <2>1 DEF IInv, TypeOK, MapOf, PlaceOf
  <2> QED BY <1>1, <2>1, <2>2, <2>3, ServedAreMet DEF Met, IInv, Seats
<1>4. Met \subseteq Uids
  BY DEF Met
<1> SUFFICES AllNew(Told(Met))
  BY <1>1
<1>5. ASSUME UNCHANGED que_2_net_logic PROVE AllNew(Told(Met))
  BY <1>3, <1>5, NoneNew
<1>6. \A msgs \in Seq(Addressed(Met)) : Send(msgs) => AllNew(Told(Met))
  BY <1>3, NewAreSent, AddressedAreTold
<1>7. CASE \/ NewPlayer(g) \/ NullRequest(g) \/ Ignore(g)
           \/ UserClose(g) /\ ~Using(u)
  BY <1>5, <1>7 DEF NewPlayer, NullRequest, Ignore, UserClose
<1>8. \A v \in Uids \cup {Unset}, r \in Responses :
          /\ Broadcast(r, <<u>>, v) \in Addressed(Met)
          /\ Broadcast(r, Front(g, m, n), v) \in Addressed(Met)
  BY <1>3, <1>4, ToOne, KnownFront
<1>9. CASE Login(g) /\ que_2_net_logic' # que_2_net_logic
  <2> DEFINE enemies == Front(g, m, n)
             a == Broadcast("LOG_RSP", <<u>>, u)
             b == Broadcast("LOGIN_END", <<u>>, u)
             described == [k \in 1 .. n |-> Broadcast("ENEMY_MSG", <<u>>, enemies[k])]
  <2>1. /\ Send(<<a>> \o described \o <<b>>)
        /\ \A k \in 1 .. n : enemies[k] \in Uids
    <3>1. CASE n > PlayersPerMap
      BY <1>9, <3>1, Zenon DEF Login
    <3>2. CASE /\ ~(n > PlayersPerMap)
               /\ \E k \in 1 .. n : enemies[k] \notin Uids \/ ~Using(enemies[k])
      BY <1>9, <3>2, Zenon DEF Login
    <3>3. CASE /\ ~(n > PlayersPerMap)
               /\ ~\E k \in 1 .. n : enemies[k] \notin Uids \/ ~Using(enemies[k])
      BY <1>9, <3>3, Zenon DEF Login
    <3> QED BY <3>1, <3>2, <3>3
  <2>2. n \in Int
    BY <1>3 DEF TypeOK
  <2>3. a \in Addressed(Met) /\ b \in Addressed(Met)
    BY <1>3, <1>8 DEF Responses
  <2>4. described \in [1 .. n -> Addressed(Met)]
    <3> HIDE DEF u, m, n, enemies
    <3> QED BY <1>8, <2>1 DEF Responses
  <2> HIDE DEF described, a, b, n
  <2>5. described \in Seq(Addressed(Met))
    BY <2>2, <2>4, FunctionIsSequence
  <2>6. <<a>> \o described \o <<b>> \in Seq(Addressed(Met))
    BY <2>3, <2>5
  <2> QED BY <1>6, <2>1, <2>6
<1>10. CASE (Start(g) \/ Move(g)) /\ que_2_net_logic' # que_2_net_logic
  <2> DEFINE name == player_uid[<<g, m, PlaceOf(u)>>]
             a == Broadcast("NEW_ENEMY", Front(g, m, n), name)
             b == Broadcast("GAME_START_RSP", <<u>>, u)
             c == Broadcast("ENEMY_MSG", Front(g, m, n), name)
  <2>1. name \in Uids \cup {Unset}
    BY <1>3 DEF TypeOK
  <2>2. a \in Addressed(Met) /\ b \in Addressed(Met) /\ c \in Addressed(Met)
    BY <1>3, <1>8, <2>1 DEF Responses
  <2>3. Send(<<a, b>>) \/ Send(<<c>>)
    <3>1. CASE Start(g)
      <4>1. CASE n >= PlayersPerMap
        BY <1>10, <3>1, <4>1, Zenon DEF Start
      <4>2. CASE ~(n >= PlayersPerMap)
        BY <3>1, <4>2, Zenon DEF Start
      <4> QED BY <4>1, <4>2
    <3>2. CASE Move(g)
      <4>1. CASE n > PlayersPerMap
        BY <1>10, <3>2, <4>1, Zenon DEF Move
      <4>2. CASE ~(n > PlayersPerMap)
        BY <3>2, <4>2, Zenon DEF Move
      <4> QED BY <4>1, <4>2
    <3> QED BY <1>10, <3>1, <3>2
  <2> HIDE DEF a, b, c
  <2>4. <<a, b>> \in Seq(Addressed(Met)) /\ <<c>> \in Seq(Addressed(Met))
    BY <2>2
  <2> QED BY <1>6, <2>3, <2>4
<1>11. CASE Leave(g)
  <2>1. PICK v : v = player_uid[<<g, m, PlaceOf(u)>>]
    OBVIOUS
  <2>2. v \in Met \cup {Unset} /\ v \in Uids \cup {Unset}
    BY <1>3, <2>1 DEF KnownInv, NamesKnown, TypeOK
  <2>3. Send(<<Broadcast("LEAVE_RSP", <<v>>, v)>>)
    BY <1>11, <2>1 DEF Leave
  <2>4. Broadcast("LEAVE_RSP", <<v>>, v) \in Told(Met)
    <3>1. <<v>> \in Seq(Uids \cup {Unset}) /\ DOMAIN <<v>> = {1} /\ <<v>>[1] = v
      BY <2>2
    <3>2. Broadcast("LEAVE_RSP", <<v>>, v) \in Reply
      BY <2>2, <3>1 DEF Broadcast, Reply, Responses
    <3> QED BY <2>2, <3>1, <3>2 DEF Told, Broadcast
  <2>5. <<Broadcast("LEAVE_RSP", <<v>>, v)>> \in Seq(Told(Met))
    BY <2>4
  <2> QED BY <1>3, <2>3, <2>5, NewAreSent
<1>12. CASE UserClose(g) /\ Using(u)
  <2>1. PICK v, o : v = u /\ o = m
    OBVIOUS
  <2> DEFINE k0 == map_player_num[<<g, o>>] - 1
             name == player_uid[<<g, o, PlaceOf(v)>>]
             to == [k \in 1 .. k0 |-> map_uid_list'[<<g, o, k - 1>>]]
  <2>2. RemovePlayer(g, v) /\ o = MapOf(v) /\ o \in Maps
    BY <1>3, <1>12, <2>1 DEF UserClose
  <2>3. CASE k0 > PlayersPerMap
    <3>1. UNCHANGED que_2_net_logic
      BY <2>2, <2>3, Zenon DEF RemovePlayer
    <3> QED BY <1>5, <3>1
  <2>4. CASE ~(k0 > PlayersPerMap)
    <3>1. Send(<<Broadcast("ENEMY_LEAVE", to, name)>>) /\ UNCHANGED fault
      BY <2>2, <2>4, Zenon DEF RemovePlayer
    <3>2. /\ map_player_num'[<<g, o>>] = k0 /\ k0 \in Int
          /\ name \in Uids \cup {Unset}
      BY <1>3, <2>1, <2>2 DEF RemovePlayer, CountOut, TypeOK
    <3>3. /\ k0 <= PlayersPerMap
          /\ \A k \in Places : k < k0 => map_uid_list'[<<g, o, k>>] \in Met
      BY <1>3, <2>2, <3>1, <3>2 DEF KnownInv, FrontKnown
    <3> HIDE DEF k0, name
    <3>4. ASSUME NEW k \in 1 .. k0 PROVE map_uid_list'[<<g, o, k - 1>>] \in Met
      <4>1. k - 1 \in Places /\ k - 1 < k0
        BY <3>2, <3>3, SizesAssumption DEF Places
      <4> QED BY <3>3, <4>1
    <3>5. to \in [1 .. k0 -> Met]
      BY <3>4
    <3> HIDE DEF to
    <3>6. to \in Seq(Met)
      BY <3>2, <3>5, FunctionIsSequence
    <3>7. Broadcast("ENEMY_LEAVE", to, name) \in Addressed(Met)
      <4>1. to \in Seq(Uids \cup {Unset}) /\ \A k \in DOMAIN to : to[k] \in Met
        BY <1>4, <3>6
      <4> QED BY <3>2, <4>1 DEF Broadcast, Reply, Responses, Addressed
    <3>8. <<Broadcast("ENEMY_LEAVE", to, name)>> \in Seq(Addressed(Met))
      BY <3>7
    <3> QED BY <1>6, <3>1, <3>8
  <2> QED BY <2>3, <2>4
<1> QED BY <1>5, <1>7, <1>9, <1>10, <1>11, <1>12 DEF GameLogicStep

\* The seats change only when a client comes or goes.
LEMMA SeatsChange ==
    ASSUME [Next]_vars, ~(\E g \in Services : NewPlayer(g) \/ UserClose(g))
    PROVE  UNCHANGED <<uid_2_playid, map_player_socket_uid>>
<1>1. ASSUME NEW g \in Services, GameLogicStep(g)
      PROVE  UNCHANGED <<uid_2_playid, map_player_socket_uid>>
  BY <1>1 DEF GameLogicStep, Login, Start, Move, Leave, NullRequest, Ignore, tables
<1>2. ASSUME Environment PROVE UNCHANGED <<uid_2_playid, map_player_socket_uid>>
  BY <1>2 DEF Environment, Connect, Request, Disconnect, NetLogicDrain, Push, tables
<1> QED BY <1>1, <1>2 DEF Next, vars, tables

TellsSeated ==
    \A i \in Len(que_2_net_logic) + 1 .. Len(que_2_net_logic') :
        \A k \in DOMAIN que_2_net_logic'[i].to :
            uid_2_playid'[que_2_net_logic'[i].to[k]].state = "USING"

LEMMA ToldAreSeated ==
    ASSUME NEW T, AllNew(Addressed(T)), \A v \in T : uid_2_playid'[v].state = "USING"
    PROVE  TellsSeated
BY DEF AllNew, Addressed, TellsSeated

(***************************************************************************)
(* A game thread tells only clients seated with it once the handler is     *)
(* done, for orderly clients: none whose close it has handled              *)
(* (game_logic.c:803-812).                                                 *)
(***************************************************************************)
THEOREM RecipientsCorrect == ASSUME Orderly PROVE Spec => RecipientsSeated
<1>1. ASSUME PlayInv, PlayInv', [Next]_vars
      PROVE  TellsSeated
  <2>1. ASSUME UNCHANGED que_2_net_logic \/ NetLogicDrain
        PROVE  AllNew(Addressed({}))
    BY <2>1, <1>1, NoneNew DEF PlayInv, IInv
  <2>2. ASSUME NEW g \in Services, NewPlayer(g) PROVE AllNew(Addressed({}))
    BY <2>1, <2>2 DEF NewPlayer
  <2>3. ASSUME NEW g \in Services, Login(g) \/ Leave(g)
        PROVE  \E v \in Uids : Using(v) /\ UNCHANGED uid_2_playid /\ AllNew(Addressed({v}))
    <3>1. Using(Requester(g)) /\ UNCHANGED uid_2_playid /\ Requester(g) \in Uids
      BY <2>3, <1>1, RequesterIsHere DEF Login, Leave, PopRequest, tables, PlayInv
    <3>2. AllNew(Addressed({Requester(g)}))
      BY <2>3, <1>1, LoginTells, LeaveTells DEF PlayInv, AllNew
    <3> QED BY <3>1, <3>2
  <2>4. ASSUME NEW g \in Services, Start(g) \/ Move(g)
        PROVE  \E m \in Maps : UNCHANGED uid_2_playid /\ AllNew(Addressed(Occupants(g, m)))
    <3>1. MapOf(Requester(g)) \in Maps /\ UNCHANGED uid_2_playid
      BY <2>4, <1>1, RequesterIsHere
         DEF Start, Move, PopRequest, tables, PlayInv, MapOf, IInv, TypeOK
    <3>2. AllNew(Addressed(Occupants(g, MapOf(Requester(g)))))
      BY <2>4, <1>1, StartTells, MoveTells DEF PlayInv, AllNew
    <3> QED BY <3>1, <3>2
  <2>5. ASSUME NEW g \in Services, NullRequest(g) \/ Ignore(g) PROVE AllNew(Addressed({}))
    BY <2>1, <2>5 DEF NullRequest, Ignore
  <2>6. ASSUME NEW g \in Services, UserClose(g)
        PROVE  AllNew(Addressed({})) \/ \E m \in Maps : AllNew(Addressed(Occupants(g, m)'))
    <3>1. CASE ~Using(Requester(g))
      BY <2>1, <2>6, <3>1 DEF UserClose
    <3>2. CASE Using(Requester(g))
      <4>1. PICK u, m : u = Requester(g) /\ Using(u) /\ m = MapOf(u)
        BY <3>2
      <4>2. AllNew({e \in Addressed(Occupants(g, m)') : e.about = u}) /\ m \in Maps
        BY <4>1, <2>6, <1>1, CloseTells, CloserIs DEF PlayInv
      <4> QED BY <4>2 DEF AllNew
    <3> QED BY <3>1, <3>2
  <2>7. ASSUME Environment \/ UNCHANGED vars PROVE AllNew(Addressed({}))
    BY <2>1, <2>7 DEF Environment, Connect, Request, Disconnect, Push, vars
  <2>8. ASSUME AllNew(Addressed({}))
        PROVE  TellsSeated
    BY <2>8, ToldAreSeated
  <2>9. ASSUME NEW g \in Services, NEW m \in Maps
        PROVE  /\ \A v \in Occupants(g, m) : Using(v)
               /\ \A v \in Occupants(g, m)' : uid_2_playid'[v].state = "USING"
    BY <1>1, OccupantsNow, OccupantsThen DEF PlayInv, OccupantsAreSeated, SeatedAt, Using
  <2>10. ASSUME NEW g \in Services, GameLogicStep(g)
         PROVE  TellsSeated
    <3>1. CASE NewPlayer(g) BY <3>1, <2>2, <2>8
    <3>2. CASE Login(g) \/ Leave(g)
      <4>1. PICK v \in Uids : Using(v) /\ UNCHANGED uid_2_playid /\ AllNew(Addressed({v}))
        BY <3>2, <2>3
      <4>2. \A w \in {v} : uid_2_playid'[w].state = "USING"
        BY <4>1 DEF Using
      <4> QED BY <4>1, <4>2, ToldAreSeated
    <3>3. CASE Start(g) \/ Move(g)
      <4>1. PICK m \in Maps : UNCHANGED uid_2_playid /\ AllNew(Addressed(Occupants(g, m)))
        BY <3>3, <2>4
      <4>2. \A v \in Occupants(g, m) : uid_2_playid'[v].state = "USING"
        BY <4>1, <2>9 DEF Using
      <4> QED BY <4>1, <4>2, ToldAreSeated
    <3>4. CASE NullRequest(g) \/ Ignore(g) BY <3>4, <2>5, <2>8
    <3>5. CASE UserClose(g)
      <4>1. CASE AllNew(Addressed({})) BY <4>1, <2>8
      <4>2. CASE \E m \in Maps : AllNew(Addressed(Occupants(g, m)'))
        BY <4>2, <2>9, ToldAreSeated
      <4> QED BY <3>5, <4>1, <4>2, <2>6
    <3> QED BY <2>10, <3>1, <3>2, <3>3, <3>4, <3>5 DEF GameLogicStep
  <2> QED BY <1>1, <2>7, <2>8, <2>10 DEF Next
<1>2. Spec => []PlayInv
  BY PlayInvHolds
<1> QED BY <1>1, <1>2, PTL DEF Spec, RecipientsSeated, TellsSeated

(***************************************************************************)
(* A close while everybody on the map has started leaves the list exact:   *)
(* its front is each remaining player once (game_logic.c:495-518).         *)
(***************************************************************************)
THEOREM RebuildCorrect == ASSUME Orderly PROVE Spec => RebuildExact
<1> DEFINE Shrinks(g, m) == /\ Occupants(g, m) \subseteq started
                            /\ Occupants(g, m)' # Occupants(g, m)
                            /\ Occupants(g, m)' \subseteq Occupants(g, m)
           Exact(g, m) == /\ map_player_num'[<<g, m>>] = Cardinality(Occupants(g, m)')
                          /\ {map_uid_list'[<<g, m, k>>] :
                                 k \in 0 .. map_player_num'[<<g, m>>] - 1}
                               = Occupants(g, m)'
<1>1. ASSUME PlayInv, PlayInv', [Next]_vars,
             NEW g \in Services, NEW m \in Maps, Shrinks(g, m)
      PROVE  Exact(g, m)
  <2>1. PICK h \in Services : NewPlayer(h) \/ UserClose(h)
    <3>1. map_player_socket_uid' # map_player_socket_uid
      BY <1>1 DEF Occupants
    <3> QED BY <3>1, <1>1, SeatsChange
  <2>2. ~NewPlayer(h)
    <3>1. NewPlayer(h) => Occupants(g, m) \subseteq Occupants(g, m)'
      BY <1>1, NewPlayerOccupants DEF PlayInv
    <3> QED BY <1>1, <3>1
  <2>3. Using(Requester(h))
    <3>1. map_player_socket_uid' # map_player_socket_uid
      BY <1>1 DEF Occupants
    <3> QED BY <2>1, <2>2, <3>1 DEF UserClose, tables
  <2>4. PICK u : u = Requester(h) /\ Using(u)
    BY <2>3
  <2>5. /\ RemovePlayer(h, u) /\ <<g, m>> = <<h, MapOf(u)>>
        /\ Occupants(g, m)' = Occupants(g, m) \ {u}
    BY <1>1, <2>1, <2>2, <2>4, CloserIs DEF PlayInv
  <2>6. {map_uid_list'[<<g, m, k>>] : k \in 0 .. Cardinality(Occupants(g, m)') - 1}
           = Occupants(g, m)'
    BY <1>1, <2>1, <2>2, <2>4, <2>5, CloseRebuilds DEF PlayInv
  <2>7. map_player_num'[<<g, m>>] = Cardinality(Occupants(g, m)')
    <3>1. started' = started \ {u}
      BY <2>5 DEF RemovePlayer
    <3>2. Occupants(g, m)' \cap started' = Occupants(g, m)'
      BY <1>1, <2>5, <3>1
    <3>3. map_player_num'[<<g, m>>] = Cardinality(Occupants(g, m)' \cap started')
      BY <1>1 DEF PlayInv, ListInv, CountIsStarted
    <3> QED BY <3>2, <3>3
  <2> QED BY <2>6, <2>7
<1>2. ASSUME PlayInv, PlayInv', [Next]_vars
      PROVE  \A g \in Services, m \in Maps : Shrinks(g, m) => Exact(g, m)
  BY <1>1, <1>2
<1>3. Spec => []PlayInv
  BY PlayInvHolds
<1> QED BY <1>2, <1>3, PTL DEF Spec, RebuildExact

-----------------------------------------------------------------------------
(* What a step shows.                                                      *)

\* Message m tells u of v.
Tells(m, u, v) ==
    m.proto \in {"NEW_ENEMY", "ENEMY_MSG", "ENEMY_LEAVE"} /\ m.about = v /\ u \in Range(m.to)

LEMMA LastIsMember ==
    ASSUME NEW n \in Nat, NEW T, T \subseteq 1 .. n, T # {}
    PROVE  Last(T) \in T
<1> DEFINE R == {n - i : i \in T}
<1>1. R \subseteq Nat /\ R # {}
  <2>1. \A i \in T : i \in 1 .. n
    OBVIOUS
  <2>2. \A i \in 1 .. n : n - i \in Nat
    OBVIOUS
  <2> QED BY <2>1, <2>2
<1>2. PICK x \in R : \A y \in R : ~(y < x)
  BY <1>1, LeastNatural
<1>3. PICK i \in T : x = n - i
  BY <1>2
<1>4. ASSUME NEW j \in T PROVE j <= i
  <2>1. n - j \in R /\ i \in 1 .. n /\ j \in 1 .. n
    OBVIOUS
  <2>2. ~(n - j < n - i)
    BY <2>1, <1>2, <1>3
  <2> HIDE DEF R
  <2> QED BY <2>1, <2>2
<1> QED BY <1>4 DEF Last

LEMMA PushedIs ==
    ASSUME TypeOK, NEW msgs \in Seq(Reply), Send(msgs)
    PROVE  Pushed = msgs
<1> DEFINE q == que_2_net_logic
           p == q \o msgs
           new == SubSeq(p, Len(q) + 1, Len(p))
<1>1. q \in Seq(Reply) /\ que_2_net_logic' = p
  BY DEF TypeOK, Reply, Send
<1> HIDE DEF q
<1>2. /\ Len(q) \in Nat /\ Len(msgs) \in Nat /\ Len(p) = Len(q) + Len(msgs) /\ p \in Seq(Reply)
      /\ \A i \in 1 .. Len(msgs) : p[Len(q) + i] = msgs[i]
  BY <1>1
<1> HIDE DEF p
<1>3. \A a, b \in Nat : a + b - (a + 1) + 1 = b
  OBVIOUS
<1>4. /\ new \in Seq(Reply) /\ Len(new) = Len(msgs)
      /\ \A i \in 1 .. Len(msgs) : new[i] = p[Len(q) + i]
  BY <1>2, <1>3
<1>5. new = msgs
  <2> HIDE DEF new
  <2>1. \A i \in 1 .. Len(msgs) : new[i] = msgs[i]
    BY <1>2, <1>4
  <2> QED BY <2>1, <1>4
<1> QED BY <1>1, <1>5 DEF Pushed, q

\* The same in terms of the set of the messages.
LEMMA SeenIs ==
    ASSUME TypeOK, NEW g, NEW msgs \in Seq(Reply), Send(msgs),
           NEW u \in Uids, NEW v \in Uids
    PROVE  /\ (\A e \in Range(msgs) : ~Tells(e, u, v)) => Seen(g)[u][v] = view[u][v]
           /\ \A x : /\ \E e \in Range(msgs) : Tells(e, u, v)
                     /\ \A e \in Range(msgs) : Tells(e, u, v) => Shown(g, e) = x
                     => Seen(g)[u][v] = x
<1> DEFINE T == {i \in DOMAIN msgs : Tells(msgs[i], u, v)}
<1>1. Pushed = msgs
  BY PushedIs
<1>2. Telling(u, v) = T
  BY <1>1 DEF Telling, Tells
<1>3. Seen(g)[u][v] = IF T = {} THEN view[u][v] ELSE Shown(g, msgs[Last(T)])
  BY <1>1, <1>2, Zenon DEF Seen
<1>4. T # {} => Last(T) \in T
  <2>1. Len(msgs) \in Nat /\ T \subseteq 1 .. Len(msgs)
    OBVIOUS
  <2> HIDE DEF T
  <2> QED BY <2>1, LastIsMember
<1>5. ASSUME \A e \in Range(msgs) : ~Tells(e, u, v)
      PROVE  Seen(g)[u][v] = view[u][v]
  <2>1. T = {}
    BY <1>5 DEF Range
  <2> QED BY <2>1, <1>3
<1>6. ASSUME NEW x, \E e \in Range(msgs) : Tells(e, u, v),
             \A e \in Range(msgs) : Tells(e, u, v) => Shown(g, e) = x
      PROVE  Seen(g)[u][v] = x
  <2>1. T # {}
    BY <1>6 DEF Range
  <2>2. Last(T) \in T
    BY <2>1, <1>4
  <2>3. Shown(g, msgs[Last(T)]) = x
    BY <2>2, <1>6 DEF Range
  <2> HIDE DEF T
  <2> QED BY <2>1, <2>3, <1>3
<1> QED BY <1>5, <1>6

LEMMA SeenNothing ==
    ASSUME TypeOK, NEW g, UNCHANGED que_2_net_logic, NEW u \in Uids, NEW v \in Uids
    PROVE  Seen(g)[u][v] = view[u][v]
<1> DEFINE none == <<>>
<1>1. none \in Seq(Reply) /\ Range(none) = {}
  BY DEF Range
<1>2. Send(none)
  BY DEF TypeOK, Send, Reply
<1> HIDE DEF none
<1> QED BY <1>1, <1>2, SeenIs

-----------------------------------------------------------------------------
(* The messages of the handlers.                                           *)

LEMMA OccupantSeat ==
    ASSUME IInv, NEW g \in Services, NEW m \in Maps, NEW u \in Occupants(g, m)
    PROVE  /\ u \in Uids /\ Using(u) /\ MapOf(u) = m /\ stage[u].at = g
           /\ SeatOf(g, u) \in Seats /\ map_player_socket_uid[SeatOf(g, u)] = u
<1>1. u \in Uids /\ Using(u) /\ MapOf(u) = m /\ stage[u].at = g
  BY OccupantsAre
<1>2. PICK i \in Places : map_player_socket_uid[<<g, m, i>>] = u
  BY DEF Occupants
<1>3. u # INVALID
  BY <1>1, UidsAssumption
<1>4. uid_2_playid[u] = [state |-> "USING", mapid |-> m, map_playerid |-> i]
  BY <1>2, <1>3 DEF IInv, SeatTablesAgree
<1>5. PlaceOf(u) = i
  BY <1>4 DEF PlaceOf
<1> QED BY <1>1, <1>2, <1>5 DEF SeatOf, Seats

\* The first n entries of a list, and the set of them.
FrontOf(list, g, m, n) == [k \in 1 .. n |-> list[<<g, m, k - 1>>]]
FrontSet(list, g, m, n) == {list[<<g, m, k>>] : k \in 0 .. n - 1}

LEMMA FrontRange ==
    ASSUME NEW list, NEW g, NEW m, NEW n \in Int
    PROVE  Range(FrontOf(list, g, m, n)) = FrontSet(list, g, m, n)
<1> DEFINE f == [k \in 1 .. n |-> list[<<g, m, k - 1>>]]
           R == {list[<<g, m, k>>] : k \in 0 .. n - 1}
<1>1. ASSUME NEW k \in 1 .. n PROVE f[k] \in R
  <2>1. k - 1 \in 0 .. n - 1
    OBVIOUS
  <2> QED BY <2>1
<1>2. ASSUME NEW k \in 0 .. n - 1 PROVE \E i \in 1 .. n : f[i] = list[<<g, m, k>>]
  <2>1. k + 1 \in 1 .. n /\ (k + 1) - 1 = k
    OBVIOUS
  <2> QED BY <2>1
<1>3. DOMAIN f = 1 .. n
  OBVIOUS
<1> HIDE DEF f
<1>4. Range(f) = {f[k] : k \in 1 .. n}
  BY <1>3 DEF Range
<1>5. Range(f) = R
  BY <1>1, <1>2, <1>4
<1> QED BY <1>5 DEF f, FrontOf, FrontSet

LEMMA Bracketed ==
    ASSUME NEW T, NEW a \in T, NEW b \in T, NEW d \in Seq(T)
    PROVE  /\ <<a>> \o d \o <<b>> \in Seq(T)
           /\ Range(<<a>> \o d \o <<b>>) = {a, b} \cup Range(d)
<1> DEFINE n == Len(d)
           all == <<a>> \o d \o <<b>>
<1>1. /\ n \in Nat /\ all \in Seq(T) /\ DOMAIN all = 1 .. n + 2
      /\ all[1] = a /\ all[n + 2] = b /\ \A k \in 1 .. n : all[k + 1] = d[k]
  OBVIOUS
<1>2. DOMAIN d = 1 .. n
  OBVIOUS
<1> HIDE DEF all, n
<1>3. ASSUME NEW i \in 1 .. n + 2 PROVE all[i] \in {a, b} \cup Range(d)
  <2>1. CASE i = 1 \/ i = n + 2
    BY <2>1, <1>1
  <2>2. CASE ~(i = 1 \/ i = n + 2)
    <3>1. i - 1 \in 1 .. n /\ (i - 1) + 1 = i
      BY <2>2, <1>1
    <3>2. all[i] = d[i - 1]
      BY <3>1, <1>1
    <3> QED BY <3>1, <3>2, <1>2 DEF Range
  <2> QED BY <2>1, <2>2
<1>4. 1 \in 1 .. n + 2 /\ n + 2 \in 1 .. n + 2 /\ \A k \in 1 .. n : k + 1 \in 1 .. n + 2
  BY <1>1
<1>5. a \in Range(all) /\ b \in Range(all) /\ Range(d) \subseteq Range(all)
  BY <1>1, <1>2, <1>4 DEF Range
<1>6. Range(all) \subseteq {a, b} \cup Range(d)
  BY <1>1, <1>3 DEF Range
<1> QED BY <1>1, <1>5, <1>6 DEF all

\* The front of the broadcast list is the players of the map.
FrontIs(g, m) == FrontSet(map_uid_list, g, m, map_player_num[<<g, m>>]) = Playing(g, m)

LEMMA FrontReaches ==
    ASSUME NEW g, NEW m, map_player_num[<<g, m>>] \in Int, FrontIs(g, m)
    PROVE  Range(Front(g, m, map_player_num[<<g, m>>])) = Playing(g, m)
<1> DEFINE n == map_player_num[<<g, m>>]
           list == map_uid_list
<1>1. Front(g, m, n) = FrontOf(list, g, m, n)
  BY DEF Front, FrontOf
<1>2. FrontSet(list, g, m, n) = Playing(g, m) /\ n \in Int
  BY DEF FrontIs
<1> HIDE DEF n, list
<1>3. Range(FrontOf(list, g, m, n)) = FrontSet(list, g, m, n)
  BY <1>2, FrontRange
<1>4. Range(Front(g, m, n)) = Playing(g, m)
  BY <1>1, <1>2, <1>3
<1> QED BY <1>4 DEF n

\* A login shows who logs in every player of its map.
LEMMA LoginSeen ==
    ASSUME IInv, ListInv, NEW g \in Services, Login(g),
           NEW u, u = Requester(g), NEW m, m = MapOf(u), FrontIs(g, m),
           NEW w \in Uids, NEW v \in Uids
    PROVE  Seen(g)[w][v] = IF w = u /\ v \in Playing(g, m) THEN pos'[SeatOf(g, v)]
                           ELSE view[w][v]
<1> DEFINE n == map_player_num[<<g, m>>]
           enemies == Front(g, m, n)
           Enemy(e) == Broadcast("ENEMY_MSG", <<u>>, e)
           first == Broadcast("LOG_RSP", <<u>>, u)
           last == Broadcast("LOGIN_END", <<u>>, u)
           described == [k \in 1 .. n |-> Enemy(enemies[k])]
           msgs == <<first>> \o described \o <<last>>
<1>1. u \in Uids /\ m \in Maps
  BY PoppedType, Zenon DEF Login, PopRequest, Requester, IInv, TypeOK, MapOf
<1>2. n \in 0 .. PlayersPerMap /\ n \in Int /\ n <= PlayersPerMap
  BY <1>1, CountBound, SizesAssumption DEF ListInv
<1>3. Range(enemies) = Playing(g, m) /\ DOMAIN enemies = 1 .. n
  <2>1. DOMAIN enemies = 1 .. n
    BY DEF Front
  <2> QED BY <2>1, <1>2, FrontReaches
<1>4. \A e \in Playing(g, m) : e \in Uids /\ Using(e)
  BY <1>1, OccupantsAre DEF Playing
<1>5. Send(msgs)
  <2>1. ~(n > PlayersPerMap)
    BY <1>2, SizesAssumption
  <2>2. \A k \in 1 .. n : enemies[k] \in Range(enemies)
    BY <1>3 DEF Range
  <2>3. ~(\E k \in 1 .. n : enemies[k] \notin Uids \/ ~Using(enemies[k]))
    BY <2>2, <1>3, <1>4
  <2> QED BY <2>1, <2>3, Zenon DEF Login
<1>6. Range(described) = {Enemy(e) : e \in Playing(g, m)}
  <2> HIDE DEF enemies, n
  <2>1. Range(described) = {Enemy(enemies[k]) : k \in 1 .. n}
    BY DEF Range
  <2>2. Range(enemies) = {enemies[k] : k \in 1 .. n}
    BY <1>3 DEF Range
  <2> QED BY <2>1, <2>2, <1>3
<1>7. \A e \in Uids : Enemy(e) \in Reply
  BY <1>1, ReplyType DEF Responses
<1>8. first \in Reply /\ last \in Reply
  BY <1>1, ReplyType DEF Responses
<1>9. described \in Seq(Reply)
  <2>1. \A k \in 1 .. n : enemies[k] \in Uids
    BY <1>3, <1>4 DEF Range
  <2> HIDE DEF Enemy, enemies, n
  <2>2. described \in [1 .. n -> Reply]
    BY <2>1, <1>7
  <2> QED BY <2>2, <1>2, FunctionIsSequence
<1> HIDE DEF n, enemies, Enemy, first, last
<1>10. msgs \in Seq(Reply) /\ Range(msgs) = {first, last} \cup {Enemy(e) : e \in Playing(g, m)}
  <2> HIDE DEF described
  <2> QED BY <1>6, <1>8, <1>9, Bracketed
<1>11. ~Tells(first, w, v) /\ ~Tells(last, w, v)
  BY DEF Tells, first, last, Broadcast
<1>12. \A e : /\ Tells(Enemy(e), w, v) <=> e = v /\ w = u
              /\ Shown(g, Enemy(e)) = pos'[SeatOf(g, e)]
  BY DEF Tells, Shown, Enemy, Broadcast, Range
<1> HIDE DEF msgs
<1>13. CASE w = u /\ v \in Playing(g, m)
  <2>1. \E e \in Range(msgs) : Tells(e, w, v)
    BY <1>10, <1>12, <1>13
  <2>2. \A e \in Range(msgs) : Tells(e, w, v) => Shown(g, e) = pos'[SeatOf(g, v)]
    BY <1>10, <1>11, <1>12
  <2> QED BY <2>1, <2>2, <1>5, <1>10, <1>13, SeenIs DEF IInv
<1>14. CASE ~(w = u /\ v \in Playing(g, m))
  <2>1. \A e \in Range(msgs) : ~Tells(e, w, v)
    BY <1>10, <1>11, <1>12, <1>14
  <2>2. Seen(g)[w][v] = view[w][v]
    BY <2>1, <1>5, <1>10, SeenIs DEF IInv
  <2> QED BY <2>2, <1>14
<1> QED BY <1>13, <1>14

\* A message about u to the clients of T shows them u, and nothing else changes.
LEMMA OneShown ==
    ASSUME TypeOK, NEW g, NEW msgs \in Seq(Reply), Send(msgs),
           NEW u, NEW T, NEW e \in Range(msgs),
           e.proto \in {"NEW_ENEMY", "ENEMY_MSG", "ENEMY_LEAVE"}, e.about = u,
           Range(e.to) = T,
           \A d \in Range(msgs) \ {e} :
              d.proto \notin {"NEW_ENEMY", "ENEMY_MSG", "ENEMY_LEAVE"},
           NEW w \in Uids, NEW v \in Uids
    PROVE  Seen(g)[w][v] = IF v = u /\ w \in T THEN Shown(g, e) ELSE view[w][v]
<1>1. Tells(e, w, v) <=> v = u /\ w \in T
  BY DEF Tells
<1>2. \A d \in Range(msgs) : d # e => ~Tells(d, w, v)
  BY DEF Tells
<1>3. CASE v = u /\ w \in T
  <2>1. \A d \in Range(msgs) : Tells(d, w, v) => Shown(g, d) = Shown(g, e)
    BY <1>2
  <2> QED BY <2>1, <1>1, <1>3, SeenIs
<1>4. CASE ~(v = u /\ w \in T)
  BY <1>1, <1>2, <1>4, SeenIs
<1> QED BY <1>3, <1>4

\* A start shows the player to the players of its map.
LEMMA StartSeen ==
    ASSUME Orderly, IInv, OrderlyInv, ListInv, NEW g \in Services, Start(g),
           NEW u, u = Requester(g), NEW m, m = MapOf(u), FrontIs(g, m),
           NEW w \in Uids, NEW v \in Uids
    PROVE  Seen(g)[w][v] = IF v = u /\ w \in Playing(g, m) THEN pos'[SeatOf(g, u)]
                           ELSE view[w][v]
<1> DEFINE n == map_player_num[<<g, m>>]
           to == Front(g, m, n)
           told == Broadcast("NEW_ENEMY", to, u)
           reply == Broadcast("GAME_START_RSP", <<u>>, u)
           msgs == <<told, reply>>
<1>1. /\ u \in Uids /\ m \in Maps /\ Using(u) /\ stage[u].at = g
      /\ Pop(g, "D") /\ UNCHANGED stage /\ Turn(Head(que_2_gamelogic[g])) = 2
  BY RequesterIsHere DEF Start, PopRequest, Pop, Turn, IInv, TypeOK, MapOf
<1>2. player_uid[<<g, m, PlaceOf(u)>>] = u /\ u \notin started
  BY <1>1, RequesterNamed DEF Named
<1>3. n \in 0 .. PlayersPerMap /\ n < PlayersPerMap /\ n \in Int /\ n <= PlayersPerMap
  BY <1>1, <1>2, CountBound, OccupantsAre, SizesAssumption DEF ListInv
<1>4. Range(to) = Playing(g, m) /\ to \in Seq(Uids \cup {Unset})
  BY <1>1, <1>3, FrontReaches, FrontOfList DEF IInv
<1>5. Send(msgs)
  <2>1. ~(n >= PlayersPerMap)
    BY <1>3, SizesAssumption
  <2> QED BY <1>2, <2>1, Zenon DEF Start
<1>6. msgs \in Seq(Reply) /\ Range(msgs) = {told, reply}
  <2>1. told \in Reply
    <3> HIDE DEF to
    <3> QED BY <1>1, <1>4 DEF Broadcast, Reply, Responses
  <2>2. reply \in Reply
    BY <1>1, ReplyType DEF Responses
  <2> HIDE DEF told, reply
  <2>3. DOMAIN msgs = {1, 2} /\ msgs[1] = told /\ msgs[2] = reply
    OBVIOUS
  <2> QED BY <2>1, <2>2, <2>3 DEF Range
<1> HIDE DEF to
<1>7. /\ told.proto = "NEW_ENEMY" /\ told.about = u /\ Range(told.to) = Playing(g, m)
      /\ reply.proto = "GAME_START_RSP" /\ Shown(g, told) = pos'[SeatOf(g, u)]
  BY <1>4 DEF Broadcast, Shown
<1> HIDE DEF told, reply, msgs
<1>8. Seen(g)[w][v] = IF v = u /\ w \in Playing(g, m) THEN Shown(g, told) ELSE view[w][v]
  BY <1>5, <1>6, <1>7, OneShown DEF IInv
<1> QED BY <1>7, <1>8

\* A move shows the new position to the players of the map.
LEMMA MoveSeen ==
    ASSUME Orderly, IInv, OrderlyInv, ListInv, NEW g \in Services, Move(g),
           NEW u, u = Requester(g), NEW m, m = MapOf(u), FrontIs(g, m),
           NEW w \in Uids, NEW v \in Uids
    PROVE  Seen(g)[w][v] = IF v = u /\ w \in Playing(g, m) THEN pos'[SeatOf(g, u)]
                           ELSE view[w][v]
<1> DEFINE n == map_player_num[<<g, m>>]
           to == Front(g, m, n)
           told == Broadcast("ENEMY_MSG", to, u)
           msgs == <<told>>
<1>1. /\ u \in Uids /\ m \in Maps /\ Using(u) /\ stage[u].at = g
      /\ Pop(g, "D") /\ UNCHANGED stage /\ Turn(Head(que_2_gamelogic[g])) = 3
  BY RequesterIsHere DEF Move, PopRequest, Pop, Turn, IInv, TypeOK, MapOf
<1>2. player_uid[<<g, m, PlaceOf(u)>>] = u
  BY <1>1, RequesterNamed DEF Named
<1>3. n \in 0 .. PlayersPerMap /\ n \in Int /\ n <= PlayersPerMap
  BY <1>1, CountBound, SizesAssumption DEF ListInv
<1>4. Range(to) = Playing(g, m) /\ to \in Seq(Uids \cup {Unset})
  BY <1>1, <1>3, FrontReaches, FrontOfList DEF IInv
<1>5. Send(msgs)
  <2>1. ~(n > PlayersPerMap)
    BY <1>3, SizesAssumption
  <2> QED BY <1>2, <2>1, Zenon DEF Move
<1>6. msgs \in Seq(Reply) /\ Range(msgs) = {told}
  <2>1. told \in Reply
    <3> HIDE DEF to
    <3> QED BY <1>1, <1>4 DEF Broadcast, Reply, Responses
  <2> HIDE DEF told
  <2>2. DOMAIN msgs = {1} /\ msgs[1] = told
    OBVIOUS
  <2> QED BY <2>1, <2>2 DEF Range
<1> HIDE DEF to
<1>7. /\ told.proto = "ENEMY_MSG" /\ told.about = u /\ Range(told.to) = Playing(g, m)
      /\ Shown(g, told) = pos'[SeatOf(g, u)]
  BY <1>4 DEF Broadcast, Shown
<1> HIDE DEF told, msgs
<1>8. Seen(g)[w][v] = IF v = u /\ w \in Playing(g, m) THEN Shown(g, told) ELSE view[w][v]
  BY <1>5, <1>6, <1>7, OneShown DEF IInv
<1> QED BY <1>7, <1>8

\* A close takes the leaver off the pictures of those on the list it leaves.
LEMMA CloseSeen ==
    ASSUME IInv, IInv', OrderlyInv, ListInv, ListInv', NEW g \in Services, UserClose(g),
           NEW u, u = Requester(g), Using(u), NEW m, m = MapOf(u), FrontIs(g, m)',
           NEW w \in Uids, NEW v \in Uids
    PROVE  Seen(g)[w][v] = IF v = u /\ w \in Playing(g, m)' THEN Unknown ELSE view[w][v]
<1> DEFINE n == map_player_num[<<g, m>>] - 1
           list == map_uid_list'
           to == [k \in 1 .. n |-> list[<<g, m, k - 1>>]]
           told == Broadcast("ENEMY_LEAVE", to, u)
           msgs == <<told>>
           T == Playing(g, m)'
<1>1. /\ u \in Uids /\ m \in Maps /\ RemovePlayer(g, u)
      /\ player_uid[<<g, m, PlaceOf(u)>>] = u
  BY CloserIs DEF Named
<1>2. map_player_num'[<<g, m>>] = n
  BY <1>1 DEF RemovePlayer, CountOut, IInv, TypeOK
<1>3. n \in Int /\ n <= PlayersPerMap
  BY <1>1, CountBound, SizesAssumption DEF ListInv
<1>4. Range(to) = T /\ to \in Seq(Uids \cup {Unset})
  <2>1. list \in [Seats -> Uids \cup {Unset}]
    BY DEF IInv, TypeOK
  <2>2. FrontSet(list, g, m, n) = T
    BY <1>2 DEF FrontIs
  <2>3. to = FrontOf(list, g, m, n)
    BY DEF FrontOf
  <2> HIDE DEF list, n, T
  <2>5. Range(to) = T
    <3> HIDE DEF to
    <3> QED BY <1>3, <2>2, <2>3, FrontRange
  <2>4. to \in Seq(Uids \cup {Unset})
    BY <1>1, <1>3, <2>1, FrontType
  <2> QED BY <2>4, <2>5
<1>5. Send(msgs)
  <2>1. ~(n > PlayersPerMap)
    BY <1>3, SizesAssumption
  <2> QED BY <1>1, <2>1 DEF RemovePlayer
<1>6. msgs \in Seq(Reply) /\ Range(msgs) = {told}
  <2>1. told \in Reply
    <3> HIDE DEF to
    <3> QED BY <1>1, <1>4 DEF Broadcast, Reply, Responses
  <2> HIDE DEF told
  <2>2. DOMAIN msgs = {1} /\ msgs[1] = told
    OBVIOUS
  <2> QED BY <2>1, <2>2 DEF Range
<1> HIDE DEF to
<1>7. /\ told.proto = "ENEMY_LEAVE" /\ told.about = u /\ Range(told.to) = T
      /\ Shown(g, told) = Unknown
  BY <1>4 DEF Broadcast, Shown
<1> HIDE DEF told, msgs, T
<1>8. Seen(g)[w][v] = IF v = u /\ w \in T THEN Shown(g, told) ELSE view[w][v]
  BY <1>5, <1>6, <1>7, OneShown DEF IInv
<1> QED BY <1>7, <1>8 DEF T

-----------------------------------------------------------------------------
(* A client is seated, logged in and started once.                         *)

\* A place has the name of a client only after its 'S' was handled, and no
\* login waits of a client that has started.
OnceEach ==
    /\ \A s \in Seats, u \in Uids : player_uid[s] = u =>
          stage[u].sent # "NONE" /\ ~Waits(u, 0)
    /\ \A u \in started : ~Waits(u, 1)

LEMMA PopKeepsOnce ==
    ASSUME IInv, OrderlyInv, OnceEach, NEW g \in Services, NEW t, Pop(g, t), UNCHANGED stage,
           \/ UNCHANGED player_uid
           \/ /\ Turn(Head(que_2_gamelogic[g])) = 1
              /\ \E s \in Seats : player_uid' = [player_uid EXCEPT ![s] = Requester(g)],
           \/ started' \subseteq started
           \/ /\ Turn(Head(que_2_gamelogic[g])) = 2
              /\ started' = started \cup {Requester(g)}
    PROVE  OnceEach'
<1> DEFINE u == Requester(g)
           k == Turn(Head(que_2_gamelogic[g]))
<1>1. u \in Uids /\ stage[u].at = g /\ g # INVALID
  BY RequesterIsHere, Ranges
<1>2. /\ \A v \in Uids, n \in 0 .. 4 : Waits(v, n)' => Waits(v, n)
      /\ \A n \in 0 .. 4 : n < k => ~Waits(u, n)
  BY PopWaits DEF OrderlyInv
<1>3. stage[u].sent # "NONE"
  BY <1>1 DEF IInv, AtItsService
<1> HIDE DEF u, k
<1>4. ASSUME NEW s \in Seats, NEW v \in Uids, player_uid'[s] = v
      PROVE  stage'[v].sent # "NONE" /\ ~Waits(v, 0)'
  <2>1. CASE player_uid[s] = v
    BY <2>1, <1>2 DEF OnceEach
  <2>2. CASE player_uid[s] # v
    <3>1. k = 1 /\ v = u
      BY <2>2, <1>4 DEF k, u, IInv, TypeOK
    <3>2. ~Waits(v, 0)
      BY <3>1, <1>2
    <3> QED BY <3>1, <3>2, <1>2, <1>3
  <2> QED BY <2>1, <2>2
<1>5. ASSUME NEW v \in started' PROVE ~Waits(v, 1)'
  <2>1. CASE v \in started
    <3>1. v \in Uids
      BY <2>1 DEF IInv, TypeOK
    <3> QED BY <2>1, <3>1, <1>2 DEF OnceEach
  <2>2. CASE v \notin started
    <3>1. k = 2 /\ v = u
      BY <2>2, <1>5 DEF k, u
    <3>2. ~Waits(v, 1)
      BY <3>1, <1>2
    <3> QED BY <3>1, <3>2, <1>1, <1>2
  <2> QED BY <2>1, <2>2
<1> QED BY <1>4, <1>5 DEF OnceEach

LEMMA PushAdds ==
    ASSUME IInv, NEW g \in Services, NEW m \in UserMsgs(Uids), Push(g, m),
           NEW v \in Uids, NEW n \in 0 .. 4, Waits(v, n)'
    PROVE  Waits(v, n) \/ (v = m.uid /\ n = Turn(m))
<1>1. PICK h \in Services : \E i \in DOMAIN que_2_gamelogic'[h] :
        que_2_gamelogic'[h][i].uid = v /\ Turn(que_2_gamelogic'[h][i]) = n
  BY DEF Waits, Turn
<1>2. PICK i \in DOMAIN que_2_gamelogic'[h] :
        que_2_gamelogic'[h][i].uid = v /\ Turn(que_2_gamelogic'[h][i]) = n
  BY <1>1
<1>3. que_2_gamelogic' = [que_2_gamelogic EXCEPT ![g] = Append(@, m)]
  BY DEF Push
<1>4. CASE h # g
  <2>1. que_2_gamelogic'[h] = que_2_gamelogic[h]
    BY <1>3, <1>4 DEF IInv, TypeOK
  <2> QED BY <1>2, <2>1 DEF Waits
<1>5. CASE h = g
  <2>1. que_2_gamelogic'[h] = Append(que_2_gamelogic[g], m)
    BY <1>3, <1>5 DEF IInv, TypeOK
  <2>2. que_2_gamelogic[g] \in Seq(UserMsgs(Uids))
    BY QueueType DEF IInv
  <2>3. \/ i \in DOMAIN que_2_gamelogic[g] /\ que_2_gamelogic'[h][i] = que_2_gamelogic[g][i]
        \/ que_2_gamelogic'[h][i] = m
    BY <1>2, <2>1, <2>2, AppendElement
  <2> QED BY <1>2, <2>3 DEF Waits
<1> QED BY <1>4, <1>5

LEMMA PushKeepsOnce ==
    ASSUME IInv, OrderlyInv, OnceEach, NEW g \in Services, NEW m \in UserMsgs(Uids), Push(g, m),
           Turn(m) = 0 => stage[m.uid].sent = "NONE",
           Turn(m) = 1 => m.uid \notin started,
           \A v \in Uids : stage[v].sent # "NONE" => stage'[v].sent # "NONE"
    PROVE  OnceEach'
<1>1. UNCHANGED <<player_uid, started>>
  BY DEF Push, tables, history
<1>2. ASSUME NEW s \in Seats, NEW v \in Uids, player_uid'[s] = v
      PROVE  stage'[v].sent # "NONE" /\ ~Waits(v, 0)'
  <2>1. stage[v].sent # "NONE" /\ ~Waits(v, 0)
    BY <1>1, <1>2 DEF OnceEach
  <2>2. ~Waits(v, 0)'
    <3>1. 0 \in 0 .. 4
      OBVIOUS
    <3> QED BY <2>1, <3>1, PushAdds
  <2> QED BY <2>1, <2>2
<1>3. ASSUME NEW v \in started' PROVE ~Waits(v, 1)'
  <2>1. v \in started /\ v \in Uids /\ ~Waits(v, 1)
    BY <1>1 DEF OnceEach, IInv, TypeOK
  <2>2. 1 \in 0 .. 4
    OBVIOUS
  <2> QED BY <2>1, <2>2, PushAdds
<1> QED BY <1>2, <1>3 DEF OnceEach

LEMMA OnceStep ==
    ASSUME Orderly, IInv, OrderlyInv, OnceEach, [Next]_vars
    PROVE  OnceEach'
<1>1. ASSUME NEW g \in Services, GameLogicStep(g) PROVE OnceEach'
  <2>1. CASE NewPlayer(g)
    <3>1. Pop(g, "S") /\ UNCHANGED <<stage, player_uid, started>>
      BY <2>1 DEF NewPlayer, history
    <3> QED BY <3>1, PopKeepsOnce
  <2>2. CASE Login(g)
    <3> DEFINE u == Requester(g)
               s == <<g, MapOf(u), PlaceOf(u)>>
    <3>1. /\ Pop(g, "D") /\ UNCHANGED <<stage, started>> /\ Using(u)
          /\ player_uid' = [player_uid EXCEPT ![s] = u]
          /\ Turn(Head(que_2_gamelogic[g])) = 1
      BY <2>2 DEF Login, PopRequest, Pop, history, user_msg_load, Turn
    <3>2. u \in Uids /\ stage[u].at = g
      BY <3>1, RequesterIsHere
    <3>3. s \in Seats
      BY <3>1, <3>2, SeatOfRequester DEF Seats
    <3> HIDE DEF s
    <3> QED BY <3>1, <3>3, PopKeepsOnce
  <2>3. CASE Start(g)
    <3>1. /\ Pop(g, "D") /\ UNCHANGED <<stage, player_uid>>
          /\ started' = started \cup {Requester(g)}
          /\ Turn(Head(que_2_gamelogic[g])) = 2
      BY <2>3 DEF Start, PopRequest, Pop, Turn
    <3> QED BY <3>1, PopKeepsOnce
  <2>4. CASE Move(g) \/ Leave(g) \/ NullRequest(g) \/ Ignore(g)
    <3>1. Pop(g, "D") /\ UNCHANGED <<stage, player_uid, started>>
      BY <2>4 DEF Move, Leave, NullRequest, Ignore, PopRequest, tables, history
    <3> QED BY <3>1, PopKeepsOnce
  <2>5. CASE UserClose(g)
    <3>1. Pop(g, "C") /\ UNCHANGED <<stage, player_uid>> /\ started' \subseteq started
      BY <2>5 DEF UserClose, RemovePlayer, tables, history
    <3> QED BY <3>1, PopKeepsOnce
  <2> QED BY <1>1, <2>1, <2>2, <2>3, <2>4, <2>5 DEF GameLogicStep
<1>2. ASSUME NEW u \in Uids, NEW g \in Services, Connect(u, g) PROVE OnceEach'
  <2>1. New(u) \in UserMsgs(Uids) /\ New(u).uid = u /\ Turn(New(u)) = 0
    BY DEF New, UserMsgs, Turn
  <2>2. stage[u].sent = "NONE" /\ Push(g, New(u))
    BY <1>2 DEF Connect
  <2>3. \A v \in Uids : stage[v].sent # "NONE" => stage'[v].sent # "NONE"
    BY <1>2 DEF Connect, IInv, TypeOK
  <2> QED BY <2>1, <2>2, <2>3, PushKeepsOnce
<1>3. ASSUME NEW u \in Uids, NEW r \in Requests, Request(u, r) PROVE OnceEach'
  <2> DEFINE m == Data(u, r)
             g == stage[u].at
  <2>1. m \in UserMsgs(Uids) /\ m.uid = u /\ Turn(m) # 0 /\ (Turn(m) = 1 => r = "LOG_REQ")
    BY DEF Data, UserMsgs, Turn
  <2>2. /\ Push(g, m) /\ r \in InOrder(stage[u].sent) /\ g # INVALID
        /\ stage' = [stage EXCEPT ![u].sent = IF r \in {"LOG_REQ", "GAME_START_REQ"}
                                              THEN r ELSE @]
    BY <1>3 DEF Request, Connected
  <2>3. g \in Services
    BY <2>2 DEF IInv, TypeOK
  <2>4. \A v \in Uids : stage[v].sent # "NONE" => stage'[v].sent # "NONE"
    BY <2>2 DEF IInv, TypeOK
  <2>5. ASSUME Turn(m) = 1 PROVE u \notin started
    <3>1. stage[u].sent = "S"
      BY <2>1, <2>2, <2>5, InOrderIs
    <3>2. Reached("S") = 0
      BY DEF Reached
    <3>3. Progress(u)
      BY DEF OrderlyInv
    <3> QED BY <3>1, <3>2, <3>3 DEF Progress
  <2> HIDE DEF m, g
  <2> QED BY <2>1, <2>2, <2>3, <2>4, <2>5, PushKeepsOnce
<1>4. ASSUME NEW u \in Uids, Disconnect(u) PROVE OnceEach'
  <2> DEFINE g == stage[u].at
  <2>1. Closed(u) \in UserMsgs(Uids) /\ Turn(Closed(u)) = 4
    BY DEF Closed, UserMsgs, Turn
  <2>2. Push(g, Closed(u)) /\ g # INVALID /\ stage' = [stage EXCEPT ![u].sent = "C"]
    BY <1>4 DEF Disconnect, Connected
  <2>3. g \in Services
    BY <2>2 DEF IInv, TypeOK
  <2>4. \A v \in Uids : stage[v].sent # "NONE" => stage'[v].sent # "NONE"
    BY <2>2 DEF IInv, TypeOK
  <2> HIDE DEF g
  <2> QED BY <2>1, <2>2, <2>3, <2>4, PushKeepsOnce
<1>5. ASSUME NetLogicDrain \/ UNCHANGED vars PROVE OnceEach'
  <2>1. UNCHANGED <<que_2_gamelogic, player_uid, started, stage>>
    BY <1>5 DEF NetLogicDrain, vars, tables, history
  <2>2. \A v \in Uids, n \in 0 .. 4 : Waits(v, n)' <=> Waits(v, n)
    BY <2>1 DEF Waits, Turn
  <2>3. started \subseteq Uids
    BY DEF IInv, TypeOK
  <2> QED BY <2>1, <2>2, <2>3 DEF OnceEach
<1> QED BY <1>1, <1>2, <1>3, <1>4, <1>5 DEF Next, Environment, Forwarded

LEMMA OnceInit == Init => OnceEach
<1> SUFFICES ASSUME Init PROVE OnceEach
  OBVIOUS
<1>1. \A s \in Seats : player_uid[s] = Unset
  BY DEF Init, TablesInit, Seats
<1>2. started = {}
  BY DEF Init, TablesInit
<1> QED BY <1>1, <1>2, UidsAssumption DEF OnceEach, Unset

-----------------------------------------------------------------------------
(* The types.                                                              *)

LEMMA MovedType ==
    ASSUME NEW p \in Point, NEW move
    PROVE  Moved(p, move) \in Point
<1>1. p.x \in 0 .. MAP_NAX_X - 1 /\ p.y \in 0 .. MAP_NAX_Y - 1
  BY DEF Point
<1>2. START_STEP \in Nat /\ MAP_NAX_X \in Nat /\ MAP_NAX_Y \in Nat
  BY MapAssumption
<1>3. p.x - START_STEP > 0 => p.x - START_STEP \in 0 .. MAP_NAX_X - 1
  BY <1>1, <1>2
<1>4. p.x + START_STEP < MAP_NAX_X => p.x + START_STEP \in 0 .. MAP_NAX_X - 1
  BY <1>1, <1>2
<1>5. p.y - START_STEP > 0 => p.y - START_STEP \in 0 .. MAP_NAX_Y - 1
  BY <1>1, <1>2
<1>6. p.y + START_STEP < MAP_NAX_Y => p.y + START_STEP \in 0 .. MAP_NAX_Y - 1
  BY <1>1, <1>2
<1>7. /\ \A k \in 0 .. MAP_NAX_X - 1 : [p EXCEPT !.x = k] \in Point
      /\ \A k \in 0 .. MAP_NAX_Y - 1 : [p EXCEPT !.y = k] \in Point
  BY DEF Point
<1>8. p.x - START_STEP > 0 => [p EXCEPT !.x = @ - START_STEP] \in Point
  BY <1>3, <1>7
<1>9. p.x + START_STEP < MAP_NAX_X => [p EXCEPT !.x = @ + START_STEP] \in Point
  BY <1>4, <1>7
<1>10. p.y - START_STEP > 0 => [p EXCEPT !.y = @ - START_STEP] \in Point
  BY <1>5, <1>7
<1>11. p.y + START_STEP < MAP_NAX_Y => [p EXCEPT !.y = @ + START_STEP] \in Point
  BY <1>6, <1>7
<1> QED BY <1>8, <1>9, <1>10, <1>11, Zenon DEF Moved

LEMMA SeatOfType ==
    ASSUME TypeOK, NEW g \in Services, NEW u \in Uids
    PROVE  SeatOf(g, u) \in Seats
BY DEF TypeOK, SeatOf, MapOf, PlaceOf, Seats

LEMMA SeenType ==
    ASSUME TypeOK, TypeOK', NEW g \in Services, pos' \in [Seats -> Point],
           view \in [Uids -> [Uids -> Point \cup {Unknown}]]
    PROVE  Seen(g) \in [Uids -> [Uids -> Point \cup {Unknown}]]
<1>1. ASSUME NEW u \in Uids, NEW v \in Uids, Telling(u, v) # {}
      PROVE  Shown(g, Pushed[Last(Telling(u, v))]) \in Point \cup {Unknown}
  <2> DEFINE T == Telling(u, v)
  <2>1. Pushed \in Seq(Reply)
    <3> DEFINE q == que_2_net_logic
               p == que_2_net_logic'
    <3>1. q \in Seq(Reply) /\ p \in Seq(Reply)
      BY DEF TypeOK, Reply
    <3> HIDE DEF q, p
    <3>2. Len(q) \in Nat
      BY <3>1
    <3>3. Len(p) \in Nat
      BY <3>1
    <3>4. \A i \in Len(q) + 1 .. Len(p) : p[i] \in Reply
      BY <3>1, <3>2, <3>3
    <3>5. SubSeq(p, Len(q) + 1, Len(p)) \in Seq(Reply)
      BY <3>1, <3>2, <3>3, <3>4
    <3> QED BY <3>5 DEF Pushed, q, p
  <2>2. Len(Pushed) \in Nat /\ T \subseteq 1 .. Len(Pushed)
    BY <2>1 DEF Telling
  <2>3. T # {}
    BY <1>1
  <2> HIDE DEF T
  <2>4. Last(T) \in T
    BY <2>2, <2>3, LastIsMember
  <2>5. Pushed[Last(T)].about = v
    BY <2>4 DEF T, Telling
  <2>6. pos'[SeatOf(g, v)] \in Point
    BY SeatOfType
  <2>7. Shown(g, Pushed[Last(T)]) \in Point \cup {Unknown}
    BY <2>5, <2>6 DEF Shown
  <2> QED BY <2>7 DEF T
<1>2. \A u, v \in Uids : view[u][v] \in Point \cup {Unknown}
  OBVIOUS
<1>3. \A u, v \in Uids :
         (IF Telling(u, v) = {} THEN view[u][v]
          ELSE Shown(g, Pushed[Last(Telling(u, v))])) \in Point \cup {Unknown}
  BY <1>1, <1>2
<1> QED BY <1>3, Zenon DEF Seen

LEMMA ViewTypeInit == ViewInit => ViewTypeOK
<1> SUFFICES ASSUME ViewInit PROVE ViewTypeOK
  OBVIOUS
<1>1. START_POSITION \in Point
  BY MapAssumption DEF START_POSITION, Point
<1> QED BY <1>1 DEF ViewInit, ViewTypeOK

LEMMA ViewTypeStep ==
    ASSUME TypeOK, TypeOK', ViewTypeOK, [ViewNext]_<<vars, viewVars>>
    PROVE  ViewTypeOK'
<1> DEFINE Picture == [Uids -> Point \cup {Unknown}]
<1>1. pos \in [Seats -> Point] /\ view \in [Uids -> Picture]
  BY DEF ViewTypeOK, Seats
<1>2. ASSUME NEW g \in Services, pos' \in [Seats -> Point] PROVE Seen(g) \in [Uids -> Picture]
  BY <1>1, <1>2, SeenType
<1>3. \A g \in Services : pos' = pos => Seen(g) \in [Uids -> Picture]
  BY <1>1, <1>2
<1> HIDE DEF Picture
<1>4. ASSUME NEW g \in Services, ViewLogin(g) PROVE ViewTypeOK'
  <2>1. START_POSITION \in Point
    BY MapAssumption DEF START_POSITION, Point
  <2>2. pos' \in [Seats -> Point]
    BY <1>1, <1>4, <2>1 DEF ViewLogin
  <2>3. view' \in [Uids -> Picture]
    BY <1>2, <1>4, <2>2 DEF ViewLogin, See
  <2> QED BY <1>4, <2>2, <2>3 DEF ViewLogin, ViewTypeOK, Seats, Picture
<1>5. ASSUME NEW g \in Services, ViewStart(g) PROVE ViewTypeOK'
  <2>1. Requester(g) \in Uids
    BY <1>5, PoppedType DEF ViewStart, Start, PopRequest, Requester
  <2>2. behind' \in [Uids -> SUBSET Uids]
    BY <1>5, <2>1 DEF ViewStart, ViewTypeOK
  <2>3. view' \in [Uids -> Picture] /\ pos' = pos /\ calm' = calm
    BY <1>3, <1>5 DEF ViewStart, See
  <2> QED BY <1>1, <2>2, <2>3 DEF ViewTypeOK, Seats, Picture
<1>6. ASSUME NEW g \in Services, ViewMove(g) PROVE ViewTypeOK'
  <2> DEFINE u == Requester(g)
             s == SeatOf(g, u)
  <2>1. u \in Uids
    BY <1>6, PoppedType DEF ViewMove, Move, PopRequest, Requester
  <2>2. s \in Seats
    BY <2>1, SeatOfType
  <2>3. PICK move \in Moves : pos' = [pos EXCEPT ![s] = Moved(@, move)]
    BY <1>6 DEF ViewMove
  <2> HIDE DEF s
  <2>4. pos' \in [Seats -> Point]
    BY <1>1, <2>2, <2>3, MovedType
  <2>5. view' \in [Uids -> Picture] /\ calm' = calm
    BY <1>2, <1>6, <2>4 DEF ViewMove, See
  <2>6. behind' \in [Uids -> SUBSET Uids]
    BY <1>6, <2>1 DEF ViewMove, ViewTypeOK
  <2> QED BY <2>4, <2>5, <2>6 DEF ViewTypeOK, Seats, Picture
<1>7. ASSUME NEW g \in Services, ViewClose(g) PROVE ViewTypeOK'
  <2> DEFINE u == Requester(g)
             gone == [v \in Uids |-> Unknown]
  <2>1. pos' = pos /\ view' = [Seen(g) EXCEPT ![u] = gone]
    BY <1>7 DEF ViewClose
  <2>2. gone \in Picture
    BY DEF Picture
  <2> HIDE DEF gone, u
  <2>3. view' \in [Uids -> Picture]
    BY <1>3, <2>1, <2>2
  <2>4. behind' \in [Uids -> SUBSET Uids] /\ calm' \in BOOLEAN
    BY <1>7 DEF ViewClose, ViewTypeOK
  <2> QED BY <1>1, <2>1, <2>3, <2>4 DEF ViewTypeOK, Seats, Picture
<1>8. ASSUME UNCHANGED viewVars PROVE ViewTypeOK'
  BY <1>8 DEF viewVars, ViewTypeOK
<1> QED BY <1>4, <1>5, <1>6, <1>7, <1>8 DEF ViewNext, ViewStep

\* The steps of the model with views are steps of the game threads.
LEMMA ViewRefines == [ViewNext]_<<vars, viewVars>> => [Next]_vars
BY DEF ViewNext, ViewStep, ViewLogin, ViewStart, ViewMove, ViewClose, Next, GameLogicStep

LEMMA ViewIsSpec == ViewSpec => Spec
<1>1. ViewInit => Init
  BY DEF ViewInit
<1> QED BY <1>1, ViewRefines, PTL DEF ViewSpec, Spec

(***************************************************************************)
(* The pictures and positions stay what they are declared to be, of any    *)
(* clients: no step leads off the map (game_logic.c:663-707).              *)
(***************************************************************************)
THEOREM ViewTypes == ViewSpec => []ViewTypeOK
<1>1. ViewInit => ViewTypeOK
  BY ViewTypeInit
<1>2. TypeOK /\ TypeOK' /\ ViewTypeOK /\ [ViewNext]_<<vars, viewVars>> => ViewTypeOK'
  BY ViewTypeStep
<1> QED BY <1>1, <1>2, TypeCorrect, ViewIsSpec, PTL DEF ViewSpec

-----------------------------------------------------------------------------
(* What everybody sees, while nobody of a map left in somebody's wait.     *)

\* Who has no place sees nobody.
Blank == \A u, v \in Uids : ~Using(u) => view[u][v] = Unknown

\* A client with a place sees only players of its map ...
SeesOnly(g, m) ==
    \A u \in Occupants(g, m), v \in Uids : view[u][v] # Unknown => v \in Playing(g, m)

\* ... and those where they are, once it has logged in.
SeesThere(g, m) ==
    \A u \in Playing(g, m) \cup Waiting(g, m), v \in Playing(g, m) :
        u # v /\ v \notin behind[u] => view[u][v] = pos[SeatOf(g, v)]

MapInv(g, m) == FrontIs(g, m) /\ SeesOnly(g, m) /\ SeesThere(g, m)

Pictures == calm => Blank /\ \A g \in Services, m \in Maps : MapInv(g, m)

ViewInv == OnceEach /\ ViewTypeOK /\ Pictures

LEMMA SeatsDiffer ==
    ASSUME IInv, NEW g \in Services, NEW m \in Maps, NEW u \in Occupants(g, m),
           NEW h \in Services, NEW n \in Maps, NEW v \in Occupants(h, n), u # v
    PROVE  SeatOf(g, u) # SeatOf(h, v)
BY OccupantSeat

LEMMA OneMap ==
    ASSUME IInv, NEW g \in Services, NEW m \in Maps, NEW u \in Occupants(g, m),
           NEW h \in Services, NEW n \in Maps, <<h, n>> # <<g, m>>
    PROVE  u \notin Occupants(h, n)
BY OccupantSeat

\* A step that changes nothing of a map.
LEMMA MapUntouched ==
    ASSUME NEW h \in Services, NEW n \in Maps, SeesOnly(h, n), SeesThere(h, n),
           Occupants(h, n)' = Occupants(h, n), Playing(h, n)' = Playing(h, n),
           \A w \in Occupants(h, n) :
              /\ SeatOf(h, w)' = SeatOf(h, w)
              /\ player_uid'[SeatOf(h, w)] = player_uid[SeatOf(h, w)]
              /\ pos'[SeatOf(h, w)] = pos[SeatOf(h, w)]
              /\ \A v \in Uids : view'[w][v] = view[w][v]
              /\ \A v \in Occupants(h, n) : v \in behind'[w] <=> v \in behind[w],
           Playing(h, n) \subseteq Uids
    PROVE  SeesOnly(h, n)' /\ SeesThere(h, n)'
<1>1. Lobby(h, n)' = Lobby(h, n)
  <2>1. Lobby(h, n) = Occupants(h, n) \ Playing(h, n)
    BY DEF Lobby, Playing
  <2>2. Lobby(h, n)' = Occupants(h, n)' \ Playing(h, n)'
    BY DEF Lobby, Playing
  <2> QED BY <2>1, <2>2
<1>2. Lobby(h, n) \subseteq Occupants(h, n) /\ Playing(h, n) \subseteq Occupants(h, n)
  BY DEF Lobby, Playing
<1>3. Waiting(h, n)' = Waiting(h, n)
  <2>1. \A w \in Lobby(h, n) : player_uid[SeatOf(h, w)]' = player_uid[SeatOf(h, w)]
    BY <1>2
  <2> QED BY <1>1, <2>1 DEF Waiting
<1>4. SeesOnly(h, n)'
  BY DEF SeesOnly
<1>5. ASSUME NEW u \in Playing(h, n) \cup Waiting(h, n), NEW v \in Playing(h, n),
             u # v, v \notin behind'[u]
      PROVE  view'[u][v] = pos'[SeatOf(h, v)']
  <2>1. u \in Occupants(h, n) /\ v \in Occupants(h, n) /\ v \in Uids
    BY <1>2 DEF Waiting
  <2>2. view[u][v] = pos[SeatOf(h, v)]
    BY <1>5, <2>1 DEF SeesThere
  <2> QED BY <2>1, <2>2
<1>6. SeesThere(h, n)'
  BY <1>3, <1>5 DEF SeesThere
<1> QED BY <1>4, <1>6

\* Unchanged tables leave the clients where they are.
LEMMA SeatsUnchanged ==
    ASSUME UNCHANGED <<uid_2_playid, map_player_socket_uid>>
    PROVE  /\ \A g \in Services, m \in Maps : Occupants(g, m)' = Occupants(g, m)
           /\ \A g \in Services, u \in Uids : SeatOf(g, u)' = SeatOf(g, u)
           /\ \A u \in Uids : Using(u)' <=> Using(u)
BY DEF Occupants, SeatOf, MapOf, PlaceOf, Using

LEMMA QuietPictures ==
    ASSUME IInv, Pictures,
           UNCHANGED <<uid_2_playid, map_player_socket_uid, map_player_num, map_uid_list,
                       player_uid, started, viewVars>>
    PROVE  Pictures'
<1> SUFFICES ASSUME calm' PROVE Blank' /\ \A g \in Services, m \in Maps : MapInv(g, m)'
  BY DEF Pictures
<1>1. calm /\ Blank /\ UNCHANGED <<pos, view, behind>>
  BY DEF viewVars, Pictures
<1>2. Blank'
  BY <1>1, SeatsUnchanged DEF Blank
<1>3. ASSUME NEW g \in Services, NEW m \in Maps PROVE MapInv(g, m)'
  <2>1. MapInv(g, m)
    BY <1>1 DEF Pictures
  <2>2. Occupants(g, m)' = Occupants(g, m) /\ Playing(g, m)' = Playing(g, m)
    BY SeatsUnchanged DEF Playing
  <2>3. Occupants(g, m) \subseteq Uids /\ Playing(g, m) \subseteq Uids
    BY OccupantsAre DEF Playing
  <2>4. FrontIs(g, m)'
    BY <2>1, <2>2 DEF MapInv, FrontIs, FrontSet
  <2>5. \A w \in Occupants(g, m) : SeatOf(g, w)' = SeatOf(g, w)
    BY <2>3, SeatsUnchanged
  <2>6. SeesOnly(g, m)' /\ SeesThere(g, m)'
    BY <1>1, <2>1, <2>2, <2>3, <2>5, MapUntouched DEF MapInv
  <2> QED BY <2>4, <2>6 DEF MapInv
<1> QED BY <1>2, <1>3

LEMMA LoginPictures ==
    ASSUME Orderly, PlayInv, ViewInv, NEW g \in Services, ViewLogin(g),
           NEW u, u = Requester(g), NEW m, m = MapOf(u)
    PROVE  Pictures'
<1> SUFFICES ASSUME calm' PROVE Blank' /\ \A h \in Services, n \in Maps : MapInv(h, n)'
  BY DEF Pictures
<1> DEFINE s == SeatOf(g, u)
<1>1. /\ Login(g) /\ pos' = [pos EXCEPT ![s] = START_POSITION] /\ view' = Seen(g)
      /\ behind' = behind /\ calm
  BY DEF ViewLogin, See
<1>2. /\ Using(u) /\ player_uid' = [player_uid EXCEPT ![s] = u] /\ Pop(g, "D")
      /\ UNCHANGED <<uid_2_playid, map_player_socket_uid, map_player_num, map_uid_list,
                     started, stage>>
      /\ Turn(Head(que_2_gamelogic[g])) = 1
  BY <1>1 DEF Login, PopRequest, Pop, history, user_msg_load, Turn, SeatOf
<1>3. u \in Uids /\ stage[u].at = g
  BY <1>2, RequesterIsHere DEF PlayInv
<1>4. m \in Maps /\ u \in Occupants(g, m) /\ s \in Seats
  BY <1>2, <1>3, SeatOfRequester, OccupantsAre DEF PlayInv, SeatOf, Seats
<1>5. u \notin started
  <2>1. Waits(u, 1)
    BY <1>2, PopWaits DEF PlayInv, OrderlyInv
  <2> QED BY <2>1 DEF ViewInv, OnceEach
<1>6. /\ Blank /\ \A h \in Services, n \in Maps : MapInv(h, n)
      /\ pos \in [Seats -> Point] /\ player_uid \in [Seats -> Uids \cup {Unset}]
  BY <1>1 DEF ViewInv, Pictures, ViewTypeOK, PlayInv, IInv, TypeOK, Seats
<1>7. \A w, v \in Uids : view'[w][v] = IF w = u /\ v \in Playing(g, m) THEN pos'[SeatOf(g, v)]
                                       ELSE view[w][v]
  BY <1>1, <1>4, <1>6, LoginSeen DEF PlayInv, MapInv
<1> HIDE DEF s
<1>8. /\ \A h \in Services, n \in Maps : Occupants(h, n)' = Occupants(h, n)
      /\ \A h \in Services, n \in Maps : Playing(h, n)' = Playing(h, n)
      /\ \A h \in Services, w \in Uids : SeatOf(h, w)' = SeatOf(h, w)
      /\ \A w \in Uids : Using(w)' <=> Using(w)
  BY <1>2, SeatsUnchanged DEF Playing
<1>9. Blank'
  BY <1>2, <1>6, <1>7, <1>8 DEF Blank
<1>10. ASSUME NEW h \in Services, NEW n \in Maps PROVE FrontIs(h, n)'
  <2>1. FrontIs(h, n) /\ Playing(h, n)' = Playing(h, n)
    BY <1>6, <1>8 DEF MapInv
  <2> QED BY <2>1, <1>2 DEF FrontIs, FrontSet
<1>11. \A h \in Services, n \in Maps :
          Occupants(h, n) \subseteq Uids /\ Playing(h, n) \subseteq Occupants(h, n)
  BY OccupantsAre DEF Playing, PlayInv
<1>12. ASSUME NEW h \in Services, NEW n \in Maps, NEW w \in Occupants(h, n), w # u
       PROVE  /\ SeatOf(h, w)' = SeatOf(h, w)
              /\ player_uid'[SeatOf(h, w)] = player_uid[SeatOf(h, w)]
              /\ pos'[SeatOf(h, w)] = pos[SeatOf(h, w)]
              /\ \A v \in Uids : view'[w][v] = view[w][v]
  <2>1. w \in Uids /\ SeatOf(h, w) \in Seats
    BY OccupantSeat DEF PlayInv
  <2>2. SeatOf(h, w) # s
    BY <1>4, <1>12, SeatsDiffer DEF s, PlayInv
  <2>3. player_uid'[SeatOf(h, w)] = player_uid[SeatOf(h, w)]
    BY <2>1, <2>2, <1>2, <1>4, <1>6
  <2>4. pos'[SeatOf(h, w)] = pos[SeatOf(h, w)]
    BY <2>1, <2>2, <1>1, <1>4, <1>6
  <2> QED BY <2>1, <2>3, <2>4, <1>7, <1>8, <1>12
<1>13. ASSUME NEW h \in Services, NEW n \in Maps, <<h, n>> # <<g, m>>
       PROVE  SeesOnly(h, n)' /\ SeesThere(h, n)'
  <2>1. u \notin Occupants(h, n)
    BY <1>4, <1>13, OneMap DEF PlayInv
  <2>2. Playing(h, n) \subseteq Uids
    BY <1>11
  <2>3. SeesOnly(h, n) /\ SeesThere(h, n)
    BY <1>6 DEF MapInv
  <2> QED BY <2>1, <2>2, <2>3, <1>1, <1>8, <1>12, MapUntouched
<1>14. SeesOnly(g, m)'
  <2>1. SeesOnly(g, m)
    BY <1>4, <1>6 DEF MapInv
  <2>2. ASSUME NEW w \in Occupants(g, m), NEW v \in Uids, view'[w][v] # Unknown
        PROVE  v \in Playing(g, m)
    BY <2>1, <2>2, <1>4, <1>7, <1>11 DEF SeesOnly
  <2> QED BY <2>2, <1>4, <1>8 DEF SeesOnly
<1>15. SeesThere(g, m)'
  <2>1. SeesThere(g, m)
    BY <1>4, <1>6 DEF MapInv
  <2>2. ASSUME NEW w \in Playing(g, m)' \cup Waiting(g, m)', NEW v \in Playing(g, m),
               w # v, v \notin behind[w]
        PROVE  view'[w][v] = pos'[SeatOf(g, v)]
    <3>1. w \in Occupants(g, m) /\ v \in Occupants(g, m) /\ w \in Uids /\ v \in Uids
      BY <1>4, <1>8, <1>11 DEF Waiting, Lobby
    <3>2. CASE w = u
      BY <3>1, <3>2, <1>7
    <3>3. CASE w # u
      <4>1. w \in Playing(g, m) \cup Waiting(g, m)
        <5>1. w \in Playing(g, m)' => w \in Playing(g, m)
          BY <1>4, <1>8
        <5>2. w \in Waiting(g, m)' => w \in Waiting(g, m)
          BY <3>1, <3>3, <1>2, <1>4, <1>12 DEF Waiting, Lobby
        <5> QED BY <5>1, <5>2
      <4>2. view[w][v] = pos[SeatOf(g, v)]
        BY <4>1, <2>1, <2>2 DEF SeesThere
      <4>3. v # u
        BY <1>5 DEF Playing
      <4> QED BY <4>2, <4>3, <3>1, <3>3, <1>4, <1>12
    <3> QED BY <3>2, <3>3
  <2>3. \A v \in Playing(g, m) : SeatOf(g, v)' = SeatOf(g, v)
    BY <1>4, <1>8, <1>11
  <2> QED BY <2>2, <2>3, <1>1, <1>4, <1>8 DEF SeesThere
<1> QED BY <1>9, <1>10, <1>13, <1>14, <1>15 DEF MapInv

LEMMA StartPictures ==
    ASSUME Orderly, PlayInv, ViewInv, NEW g \in Services, ViewStart(g),
           NEW u, u = Requester(g), NEW m, m = MapOf(u)
    PROVE  Pictures'
<1> SUFFICES ASSUME calm' PROVE Blank' /\ \A h \in Services, n \in Maps : MapInv(h, n)'
  BY DEF Pictures
<1> DEFINE k == map_player_num[<<g, m>>]
<1>1. /\ Start(g) /\ pos' = pos /\ view' = Seen(g) /\ calm
      /\ behind' = [v \in Uids |-> IF v \in Waiting(g, m) \ {u}
                                   THEN behind[v] \cup {u} ELSE behind[v]]
  BY DEF ViewStart, See
<1>2. /\ Using(u) /\ Pop(g, "D")
      /\ UNCHANGED <<uid_2_playid, map_player_socket_uid, player_uid, stage>>
      /\ map_player_num' = [map_player_num EXCEPT ![<<g, m>>] = k + 1]
      /\ map_uid_list' = IF k \in Places THEN [map_uid_list EXCEPT ![<<g, m, k>>] = u]
                         ELSE map_uid_list
      /\ started' = started \cup {u}
      /\ Turn(Head(que_2_gamelogic[g])) = 2
  BY <1>1 DEF Start, PopRequest, Pop, Turn
<1>3. u \in Uids /\ stage[u].at = g
  BY <1>2, RequesterIsHere DEF PlayInv
<1>4. m \in Maps /\ u \in Occupants(g, m)
  <2>1. m \in Maps
    BY <1>2, <1>3, SeatOfRequester DEF PlayInv
  <2>2. Occupants(g, m) = {w \in Uids : Using(w) /\ stage[w].at = g /\ MapOf(w) = m}
    BY <2>1, OccupantsAre DEF PlayInv
  <2> QED BY <1>2, <1>3, <2>1, <2>2
<1>5. player_uid[SeatOf(g, u)] = u /\ u \notin started
  BY <1>2, <1>3, RequesterNamed DEF PlayInv, Named, SeatOf
<1>6. Blank /\ \A h \in Services, n \in Maps : MapInv(h, n)
  BY <1>1 DEF ViewInv, Pictures
<1>7. \A w, v \in Uids : view'[w][v] = IF v = u /\ w \in Playing(g, m) THEN pos'[SeatOf(g, u)]
                                       ELSE view[w][v]
  BY <1>1, <1>4, <1>6, StartSeen DEF PlayInv, MapInv
<1>8. /\ k \in Places /\ k \in Nat
      /\ map_player_num \in [Services \X Maps -> Int] /\ map_uid_list \in [Seats -> Uids \cup {Unset}]
  BY <1>4, <1>5, CountBound, Ranges DEF PlayInv, ListInv, IInv, TypeOK
<1> HIDE DEF k
<1>9. /\ \A h \in Services, n \in Maps : Occupants(h, n)' = Occupants(h, n)
      /\ \A h \in Services, w \in Uids : SeatOf(h, w)' = SeatOf(h, w)
      /\ \A w \in Uids : Using(w)' <=> Using(w)
  BY <1>2, SeatsUnchanged
<1>10. \A h \in Services, n \in Maps :
          Occupants(h, n) \subseteq Uids /\ Playing(h, n) \subseteq Occupants(h, n)
  BY OccupantsAre DEF Playing, PlayInv
<1>11. /\ Playing(g, m)' = Playing(g, m) \cup {u}
       /\ Lobby(g, m)' = Lobby(g, m) \ {u}
  BY <1>2, <1>4, <1>9 DEF Playing, Lobby
<1>12. Waiting(g, m)' = Waiting(g, m) \ {u} /\ u \in Waiting(g, m)
  <2>1. \A w \in Lobby(g, m) : SeatOf(g, w)' = SeatOf(g, w)
    BY <1>4, <1>9, <1>10 DEF Lobby
  <2> QED BY <2>1, <1>2, <1>4, <1>5, <1>11 DEF Waiting, Lobby
<1>13. ASSUME NEW h \in Services, NEW n \in Maps, <<h, n>> # <<g, m>>
       PROVE  MapInv(h, n)'
  <2>1. u \notin Occupants(h, n)
    BY <1>4, <1>13, OneMap DEF PlayInv
  <2>2. Playing(h, n)' = Playing(h, n) /\ Playing(h, n) \subseteq Uids
    BY <2>1, <1>2, <1>9, <1>10 DEF Playing
  <2>3. SeesOnly(h, n) /\ SeesThere(h, n) /\ FrontIs(h, n)
    BY <1>6 DEF MapInv
  <2>4. FrontIs(h, n)'
    <3>1. map_player_num'[<<h, n>>] = map_player_num[<<h, n>>]
      BY <1>2, <1>8, <1>13
    <3>2. \A i : <<h, n, i>> # <<g, m, k>>
      BY <1>13
    <3>3. \A i \in Places : map_uid_list'[<<h, n, i>>] = map_uid_list[<<h, n, i>>]
      BY <1>2, <1>8, <3>2 DEF Seats
    <3>4. map_player_num[<<h, n>>] \in 0 .. PlayersPerMap
      BY CountBound DEF PlayInv, ListInv
    <3>5. 0 .. map_player_num[<<h, n>>] - 1 \subseteq Places
      BY <3>4, SizesAssumption DEF Places
    <3> QED BY <3>1, <3>3, <3>5, <2>2, <2>3 DEF FrontIs, FrontSet
  <2>5. ASSUME NEW w \in Occupants(h, n)
        PROVE  /\ \A v \in Uids : view'[w][v] = view[w][v]
               /\ behind'[w] = behind[w]
               /\ SeatOf(h, w)' = SeatOf(h, w)
    <3>1. w \in Uids /\ w \notin Occupants(g, m)
      BY <1>4, <1>10, <1>13, OneMap DEF PlayInv
    <3>2. w \notin Playing(g, m) /\ w \notin Waiting(g, m)
      BY <3>1 DEF Playing, Waiting, Lobby
    <3> QED BY <3>1, <3>2, <1>1, <1>7, <1>9
  <2>6. SeesOnly(h, n)' /\ SeesThere(h, n)'
    BY <2>2, <2>3, <2>5, <1>1, <1>2, <1>9, MapUntouched
  <2> QED BY <2>4, <2>6 DEF MapInv
<1>14. FrontIs(g, m)'
  <2>1. map_player_num'[<<g, m>>] = k + 1
    BY <1>2, <1>4, <1>8
  <2>2. <<g, m, k>> \in Seats
    BY <1>4, <1>8 DEF Seats
  <2>3. map_uid_list'[<<g, m, k>>] = u /\
        \A i \in 0 .. k - 1 : map_uid_list'[<<g, m, i>>] = map_uid_list[<<g, m, i>>]
    <3>1. \A i \in 0 .. k - 1 : i \in Places /\ i # k
      BY <1>8, SizesAssumption DEF Places
    <3>2. \A i \in 0 .. k - 1 : <<g, m, i>> \in Seats /\ <<g, m, i>> # <<g, m, k>>
      BY <3>1, <1>4 DEF Seats
    <3> QED BY <3>2, <2>2, <1>2, <1>8
  <2>4. FrontSet(map_uid_list', g, m, k + 1) = FrontSet(map_uid_list, g, m, k) \cup {u}
    <3> DEFINE list == map_uid_list
               new == map_uid_list'
    <3>1. k \in Nat
      BY <1>8
    <3>2. new[<<g, m, k>>] = u
      BY <2>3
    <3>3. \A i \in 0 .. k - 1 : new[<<g, m, i>>] = list[<<g, m, i>>]
      BY <2>3
    <3> HIDE DEF list, new
    <3>4. ASSUME NEW x \in FrontSet(new, g, m, k + 1) PROVE x \in FrontSet(list, g, m, k) \cup {u}
      <4>1. PICK i \in 0 .. (k + 1) - 1 : x = new[<<g, m, i>>]
        BY DEF FrontSet
      <4>2. i \in 0 .. k - 1 \/ i = k
        BY <3>1
      <4>3. i = k => x = u
        BY <4>1, <3>2
      <4>4. i \in 0 .. k - 1 => x = list[<<g, m, i>>]
        BY <4>1, <3>3
      <4> QED BY <4>2, <4>3, <4>4 DEF FrontSet
    <3>5. ASSUME NEW x \in FrontSet(list, g, m, k) \cup {u} PROVE x \in FrontSet(new, g, m, k + 1)
      <4>1. k \in 0 .. (k + 1) - 1 /\ \A i \in 0 .. k - 1 : i \in 0 .. (k + 1) - 1
        BY <3>1
      <4>2. CASE x = u
        BY <4>2, <4>1, <3>2 DEF FrontSet
      <4>3. CASE x \in FrontSet(list, g, m, k)
        <5>1. PICK i \in 0 .. k - 1 : x = list[<<g, m, i>>]
          BY <4>3 DEF FrontSet
        <5>2. i \in 0 .. (k + 1) - 1 /\ x = new[<<g, m, i>>]
          BY <5>1, <4>1, <3>3
        <5> QED BY <5>2 DEF FrontSet
      <4> QED BY <3>5, <4>2, <4>3
    <3>6. FrontSet(new, g, m, k + 1) = FrontSet(list, g, m, k) \cup {u}
      BY <3>4, <3>5
    <3> QED BY <3>6 DEF list, new
  <2>5. FrontSet(map_uid_list, g, m, k) = Playing(g, m)
    BY <1>4, <1>6 DEF MapInv, FrontIs, k
  <2> QED BY <2>1, <2>4, <2>5, <1>11 DEF FrontIs
<1>15. SeesOnly(g, m)'
  <2>1. SeesOnly(g, m)
    BY <1>4, <1>6 DEF MapInv
  <2>2. ASSUME NEW w \in Occupants(g, m), NEW v \in Uids, view'[w][v] # Unknown
        PROVE  v \in Playing(g, m) \cup {u}
    BY <2>1, <2>2, <1>4, <1>7, <1>10 DEF SeesOnly
  <2> QED BY <2>2, <1>4, <1>9, <1>11 DEF SeesOnly
<1>16. SeesThere(g, m)'
  <2>1. SeesThere(g, m)
    BY <1>4, <1>6 DEF MapInv
  <2>2. ASSUME NEW w \in Playing(g, m)' \cup Waiting(g, m)', NEW v \in Playing(g, m)',
               w # v, v \notin behind'[w]
        PROVE  view'[w][v] = pos'[SeatOf(g, v)]
    <3>1. /\ w \in Playing(g, m) \cup Waiting(g, m) /\ v \in Playing(g, m) \cup {u}
          /\ w \in Uids /\ v \in Uids
      BY <1>3, <1>4, <1>10, <1>11, <1>12 DEF Waiting, Lobby
    <3>2. CASE v = u
      <4>1. w \notin Waiting(g, m)
        BY <3>1, <3>2, <2>2, <1>1
      <4> QED BY <4>1, <3>1, <3>2, <1>7
    <3>3. CASE v # u
      <4>1. v \notin behind[w]
        BY <3>1, <2>2, <1>1
      <4>2. view[w][v] = pos[SeatOf(g, v)]
        BY <4>1, <3>1, <3>3, <2>1, <2>2 DEF SeesThere
      <4> QED BY <4>2, <3>1, <3>3, <1>1, <1>7
    <3> QED BY <3>2, <3>3
  <2>3. \A v \in Playing(g, m)' : SeatOf(g, v)' = SeatOf(g, v)
    BY <1>3, <1>4, <1>9, <1>10, <1>11
  <2> QED BY <2>2, <2>3 DEF SeesThere
<1>17. Blank'
  <2>1. \A w \in Playing(g, m) : Using(w)
    BY <1>4, OccupantsAre DEF Playing, PlayInv
  <2> QED BY <2>1, <1>6, <1>7, <1>9 DEF Blank
<1> QED BY <1>13, <1>14, <1>15, <1>16, <1>17 DEF MapInv

LEMMA MovePictures ==
    ASSUME Orderly, PlayInv, ViewInv, NEW g \in Services, ViewMove(g),
           NEW u, u = Requester(g), NEW m, m = MapOf(u)
    PROVE  Pictures'
<1> SUFFICES ASSUME calm' PROVE Blank' /\ \A h \in Services, n \in Maps : MapInv(h, n)'
  BY DEF Pictures
<1> DEFINE s == SeatOf(g, u)
<1>1. /\ Move(g) /\ view' = Seen(g) /\ calm
      /\ \E move \in Moves : pos' = [pos EXCEPT ![s] = Moved(@, move)]
      /\ behind' = [v \in Uids |-> IF v \in Waiting(g, m) THEN behind[v] \cup {u}
                                   ELSE IF v \in started THEN behind[v] \ {u}
                                   ELSE behind[v]]
  BY DEF ViewMove, See
<1>2. /\ Using(u) /\ Pop(g, "D")
      /\ UNCHANGED <<uid_2_playid, map_player_socket_uid, map_player_num, map_uid_list,
                     player_uid, started, stage>>
      /\ Turn(Head(que_2_gamelogic[g])) = 3
  BY <1>1 DEF Move, PopRequest, Pop, tables, history, Turn
<1>3. u \in Uids /\ stage[u].at = g
  BY <1>2, RequesterIsHere DEF PlayInv
<1>4. m \in Maps /\ u \in Occupants(g, m) /\ s \in Seats
  BY <1>2, <1>3, SeatOfRequester, OccupantsAre DEF PlayInv, SeatOf, Seats
<1>5. u \in started
  BY <1>2, <1>3, RequesterNamed DEF PlayInv
<1>6. /\ Blank /\ \A h \in Services, n \in Maps : MapInv(h, n)
      /\ pos \in [Seats -> Point]
  BY <1>1 DEF ViewInv, Pictures, ViewTypeOK, Seats
<1>7. \A w, v \in Uids : view'[w][v] = IF v = u /\ w \in Playing(g, m) THEN pos'[s]
                                       ELSE view[w][v]
  BY <1>1, <1>4, <1>6, MoveSeen DEF PlayInv, MapInv
<1>8. \A x \in Seats : x # s => pos'[x] = pos[x]
  BY <1>1, <1>4, <1>6
<1> HIDE DEF s
<1>9. /\ \A h \in Services, n \in Maps : Occupants(h, n)' = Occupants(h, n)
      /\ \A h \in Services, n \in Maps : Playing(h, n)' = Playing(h, n)
      /\ \A h \in Services, w \in Uids : SeatOf(h, w)' = SeatOf(h, w)
      /\ \A w \in Uids : Using(w)' <=> Using(w)
  BY <1>2, SeatsUnchanged DEF Playing
<1>10. \A h \in Services, n \in Maps :
          Occupants(h, n) \subseteq Uids /\ Playing(h, n) \subseteq Occupants(h, n)
  BY OccupantsAre DEF Playing, PlayInv
<1>11. ASSUME NEW h \in Services, NEW n \in Maps PROVE FrontIs(h, n)'
  <2>1. FrontIs(h, n) /\ Playing(h, n)' = Playing(h, n)
    BY <1>6, <1>9 DEF MapInv
  <2> QED BY <2>1, <1>2 DEF FrontIs, FrontSet
<1>12. ASSUME NEW h \in Services, NEW n \in Maps, NEW w \in Occupants(h, n), w # u
       PROVE  pos'[SeatOf(h, w)] = pos[SeatOf(h, w)]
  <2>1. SeatOf(h, w) \in Seats
    BY OccupantSeat DEF PlayInv
  <2>2. SeatOf(h, w) # s
    BY <1>4, <1>12, SeatsDiffer DEF s, PlayInv
  <2> QED BY <2>1, <2>2, <1>8
<1>13. ASSUME NEW h \in Services, NEW n \in Maps, <<h, n>> # <<g, m>>
       PROVE  SeesOnly(h, n)' /\ SeesThere(h, n)'
  <2>1. u \notin Occupants(h, n) /\ Playing(h, n) \subseteq Uids
    BY <1>4, <1>10, <1>13, OneMap DEF PlayInv
  <2>2. SeesOnly(h, n) /\ SeesThere(h, n)
    BY <1>6 DEF MapInv
  <2>3. ASSUME NEW w \in Occupants(h, n)
        PROVE  /\ \A v \in Uids : view'[w][v] = view[w][v]
               /\ \A v \in Occupants(h, n) : v \in behind'[w] <=> v \in behind[w]
               /\ SeatOf(h, w)' = SeatOf(h, w)
               /\ pos'[SeatOf(h, w)] = pos[SeatOf(h, w)]
    <3>1. w \in Uids /\ w \notin Occupants(g, m) /\ w # u
      BY <2>1, <1>4, <1>10, <1>13, OneMap DEF PlayInv
    <3>2. w \notin Playing(g, m)
      BY <3>1 DEF Playing
    <3>3. behind'[w] = behind[w] \/ behind'[w] = behind[w] \cup {u}
             \/ behind'[w] = behind[w] \ {u}
      BY <3>1, <1>1
    <3> QED BY <3>1, <3>2, <3>3, <2>1, <1>7, <1>9, <1>12
  <2> QED BY <2>1, <2>2, <2>3, <1>2, <1>9, MapUntouched
<1>14. SeesOnly(g, m)'
  <2>1. SeesOnly(g, m)
    BY <1>4, <1>6 DEF MapInv
  <2>2. ASSUME NEW w \in Occupants(g, m), NEW v \in Uids, view'[w][v] # Unknown
        PROVE  v \in Playing(g, m)
    <3>1. u \in Playing(g, m)
      BY <1>4, <1>5 DEF Playing
    <3> QED BY <3>1, <2>1, <2>2, <1>4, <1>7, <1>10 DEF SeesOnly
  <2> QED BY <2>2, <1>4, <1>9 DEF SeesOnly
<1>15. SeesThere(g, m)'
  <2>1. SeesThere(g, m)
    BY <1>4, <1>6 DEF MapInv
  <2>2. Waiting(g, m)' = Waiting(g, m)
    <3>1. Lobby(g, m)' = Lobby(g, m) /\ Lobby(g, m) \subseteq Uids
      BY <1>2, <1>4, <1>9, <1>10 DEF Lobby
    <3> QED BY <3>1, <1>2, <1>9 DEF Waiting
  <2>3. ASSUME NEW w \in Playing(g, m) \cup Waiting(g, m), NEW v \in Playing(g, m),
               w # v, v \notin behind'[w]
        PROVE  view'[w][v] = pos'[SeatOf(g, v)]
    <3>1. w \in Uids /\ v \in Uids /\ v \in Occupants(g, m)
      BY <1>4, <1>10 DEF Waiting, Lobby
    <3>2. CASE v = u
      <4>1. w \notin Waiting(g, m)
        BY <3>1, <3>2, <2>3, <1>1
      <4> QED BY <4>1, <3>1, <3>2, <1>7 DEF s
    <3>3. CASE v # u
      <4>1. v \notin behind[w]
        BY <3>1, <3>3, <2>3, <1>1
      <4>2. view[w][v] = pos[SeatOf(g, v)]
        BY <4>1, <2>1, <2>3 DEF SeesThere
      <4> QED BY <4>2, <3>1, <3>3, <1>4, <1>7, <1>12
    <3> QED BY <3>2, <3>3
  <2>4. \A v \in Playing(g, m) : SeatOf(g, v)' = SeatOf(g, v)
    BY <1>3, <1>4, <1>9, <1>10
  <2> QED BY <2>2, <2>3, <2>4, <1>4, <1>9 DEF SeesThere
<1>16. Blank'
  <2>1. \A w \in Playing(g, m) : Using(w)
    BY <1>4, OccupantsAre DEF Playing, PlayInv
  <2> QED BY <2>1, <1>6, <1>7, <1>9 DEF Blank
<1> QED BY <1>11, <1>13, <1>14, <1>15, <1>16 DEF MapInv

LEMMA NewPlayerPictures ==
    ASSUME PlayInv, PlayInv', ViewInv, NEW g \in Services, NewPlayer(g), UNCHANGED viewVars,
           NEW u, u = Requester(g)
    PROVE  Pictures'
<1> SUFFICES ASSUME calm' PROVE Blank' /\ \A h \in Services, n \in Maps : MapInv(h, n)'
  BY DEF Pictures
<1>1. /\ UNCHANGED <<pos, view, behind>> /\ calm
      /\ Pop(g, "S")
      /\ UNCHANGED <<map_player_num, map_uid_list, player_uid, started, stage>>
  BY DEF viewVars, NewPlayer, history
<1>2. u \in Uids /\ Turn(Head(que_2_gamelogic[g])) = 0
  BY <1>1, RequesterIsHere DEF PlayInv, Pop, Turn
<1>3. Waits(u, 0) /\ ~Using(u) /\ u \notin started
  <2>1. Waits(u, 0)
    BY <1>1, <1>2, PopWaits DEF PlayInv, OrderlyInv
  <2> QED BY <2>1, <1>2 DEF PlayInv, OrderlyInv, Progress
<1>4. Blank /\ \A h \in Services, n \in Maps : MapInv(h, n)
  BY <1>1 DEF ViewInv, Pictures
<1>5. \A v \in Uids : v # u => uid_2_playid'[v] = uid_2_playid[v]
  BY DEF NewPlayer, TakePlace, PlayInv, IInv, TypeOK, Requester
<1>6. /\ \A v \in Uids : v # u => (Using(v)' <=> Using(v))
      /\ \A h \in Services, v \in Uids : v # u => SeatOf(h, v)' = SeatOf(h, v)
  BY <1>5 DEF Using, SeatOf, MapOf, PlaceOf
<1>7. Blank'
  BY <1>1, <1>3, <1>4, <1>6 DEF Blank
<1>8. ASSUME NEW h \in Services, NEW n \in Maps PROVE MapInv(h, n)'
  <2>1. FrontIs(h, n) /\ SeesOnly(h, n) /\ SeesThere(h, n)
    BY <1>4 DEF MapInv
  <2>2. /\ Occupants(h, n) \subseteq Occupants(h, n)'
        /\ Occupants(h, n)' \subseteq Occupants(h, n) \cup {u}
        /\ Occupants(h, n) \subseteq Uids
        /\ u \notin Occupants(h, n)
    BY <1>3, NewPlayerOccupants, OccupantsAre DEF PlayInv
  <2>3. Playing(h, n)' = Playing(h, n) /\ Playing(h, n) \subseteq Occupants(h, n)
    BY <2>2, <1>1, <1>3 DEF Playing
  <2>4. FrontIs(h, n)'
    BY <2>1, <2>3, <1>1 DEF FrontIs, FrontSet
  <2>5. SeesOnly(h, n)'
    <3>1. ASSUME NEW w \in Occupants(h, n)', NEW v \in Uids, view[w][v] # Unknown
          PROVE  v \in Playing(h, n)
      <4>1. w # u
        BY <3>1, <1>2, <1>3, <1>4 DEF Blank
      <4> QED BY <4>1, <3>1, <2>1, <2>2 DEF SeesOnly
    <3> QED BY <3>1, <2>3, <1>1 DEF SeesOnly
  <2>6. ASSUME NEW w \in Waiting(h, n)' PROVE w \in Waiting(h, n)
    <3>1. w \in Occupants(h, n)' /\ w \notin started /\ player_uid[SeatOf(h, w)'] = w
      BY <2>6, <1>1 DEF Waiting, Lobby
    <3>2. w \in Uids /\ SeatOf(h, w)' \in Seats
      <4>1. w \in Uids
        BY <3>1, <2>2, <1>2
      <4>2. uid_2_playid'[w].mapid \in Maps /\ uid_2_playid'[w].map_playerid \in Places
        BY <4>1 DEF PlayInv, IInv, TypeOK
      <4> QED BY <4>1, <4>2 DEF SeatOf, MapOf, PlaceOf, Seats
    <3>3. w # u
      BY <3>1, <3>2, <1>3 DEF ViewInv, OnceEach
    <3> QED BY <3>1, <3>2, <3>3, <2>2, <1>6 DEF Waiting, Lobby
  <2>7. SeesThere(h, n)'
    <3>1. \A v \in Playing(h, n) : SeatOf(h, v)' = SeatOf(h, v)
      BY <2>2, <2>3, <1>6
    <3> QED BY <3>1, <2>1, <2>3, <2>6, <1>1 DEF SeesThere
  <2> QED BY <2>4, <2>5, <2>7 DEF MapInv
<1> QED BY <1>7, <1>8

\* The close of a client without a place.
LEMMA IdleClosePictures ==
    ASSUME PlayInv, ViewInv, NEW g \in Services, ViewClose(g),
           NEW u, u = Requester(g), ~Using(u)
    PROVE  Pictures'
<1> SUFFICES ASSUME calm' PROVE Blank' /\ \A h \in Services, n \in Maps : MapInv(h, n)'
  BY DEF Pictures
<1>1. /\ pos' = pos /\ calm
      /\ view' = [Seen(g) EXCEPT ![u] = [v \in Uids |-> Unknown]]
      /\ behind' = [behind EXCEPT ![u] = {}]
  BY DEF ViewClose
<1>2. /\ UNCHANGED <<uid_2_playid, map_player_socket_uid, map_player_num, map_uid_list,
                     player_uid, started>>
      /\ UNCHANGED que_2_net_logic
  BY DEF ViewClose, UserClose, tables, history
<1>3. Blank /\ \A h \in Services, n \in Maps : MapInv(h, n)
  BY <1>1 DEF ViewInv, Pictures
<1>4. \A w, v \in Uids : Seen(g)[w][v] = view[w][v]
  BY <1>2, SeenNothing DEF PlayInv, IInv
<1>5. \A w, v \in Uids : view'[w][v] = view[w][v]
  <2>1. Seen(g) = [w \in Uids |-> Seen(g)[w]]
    BY DEF Seen
  <2>2. \A w \in Uids : w # u => view'[w] = Seen(g)[w]
    BY <2>1, <1>1
  <2>3. \A w, v \in Uids : w = u => view'[w][v] = Unknown
    BY <2>1, <1>1
  <2> QED BY <2>2, <2>3, <1>3, <1>4 DEF Blank
<1>6. \A w \in Uids : w # u => behind'[w] = behind[w]
  BY <1>1 DEF ViewInv, ViewTypeOK
<1>7. Blank'
  BY <1>2, <1>3, <1>5, SeatsUnchanged DEF Blank
<1>8. ASSUME NEW h \in Services, NEW n \in Maps PROVE MapInv(h, n)'
  <2>1. FrontIs(h, n) /\ SeesOnly(h, n) /\ SeesThere(h, n)
    BY <1>3 DEF MapInv
  <2>2. Occupants(h, n)' = Occupants(h, n) /\ Playing(h, n)' = Playing(h, n)
    BY <1>2, SeatsUnchanged DEF Playing
  <2>3. /\ Occupants(h, n) \subseteq Uids /\ Playing(h, n) \subseteq Uids
        /\ u \notin Occupants(h, n)
    BY OccupantsAre DEF Playing, PlayInv
  <2>4. FrontIs(h, n)'
    BY <2>1, <2>2, <1>2 DEF FrontIs, FrontSet
  <2>5. \A w \in Occupants(h, n) :
           /\ SeatOf(h, w)' = SeatOf(h, w)
           /\ behind'[w] = behind[w]
           /\ \A v \in Uids : view'[w][v] = view[w][v]
    BY <2>3, <1>2, <1>5, <1>6, SeatsUnchanged
  <2>6. SeesOnly(h, n)' /\ SeesThere(h, n)'
    BY <2>1, <2>2, <2>3, <2>5, <1>1, <1>2, MapUntouched
  <2> QED BY <2>4, <2>6 DEF MapInv
<1> QED BY <1>7, <1>8

\* The close of a player.
LEMMA ClosePictures ==
    ASSUME PlayInv, PlayInv', ViewInv, NEW g \in Services, ViewClose(g),
           NEW u, u = Requester(g), Using(u), NEW m, m = MapOf(u)
    PROVE  Pictures'
<1> SUFFICES ASSUME calm' PROVE Blank' /\ \A h \in Services, n \in Maps : MapInv(h, n)'
  BY DEF Pictures
<1>1. /\ pos' = pos /\ calm /\ UserClose(g)
      /\ view' = [Seen(g) EXCEPT ![u] = [v \in Uids |-> Unknown]]
      /\ behind' = [behind EXCEPT ![u] = {}]
      /\ Lobby(g, m) = {}
  BY DEF ViewClose
<1>2. /\ u \in Uids /\ m \in Maps /\ u \in Occupants(g, m) /\ RemovePlayer(g, u)
      /\ \A h \in Services, n \in Maps :
            Occupants(h, n)' = IF <<h, n>> = <<g, m>> THEN Occupants(h, n) \ {u}
                               ELSE Occupants(h, n)
  BY <1>1, CloserIs DEF PlayInv
<1>3. /\ uid_2_playid' = [uid_2_playid EXCEPT ![u].state = "INVALID"]
      /\ UNCHANGED player_uid /\ started' = started \ {u}
      /\ map_player_num' = [map_player_num EXCEPT ![<<g, m>>] = @ - 1]
  BY <1>2 DEF RemovePlayer, CountOut
<1>4. Blank /\ \A h \in Services, n \in Maps : MapInv(h, n)
  BY <1>1 DEF ViewInv, Pictures
<1>5. \A h \in Services, n \in Maps :
         Occupants(h, n) \subseteq Uids /\ Playing(h, n) \subseteq Occupants(h, n)
  BY OccupantsAre DEF Playing, PlayInv
<1>6. /\ Occupants(g, m)' = Occupants(g, m) \ {u}
      /\ Occupants(g, m) \subseteq started
      /\ Playing(g, m) = Occupants(g, m)
      /\ Playing(g, m)' = Occupants(g, m)'
      /\ Playing(g, m)' = Playing(g, m) \ {u}
  <2>1. Occupants(g, m)' = Occupants(g, m) \ {u}
    BY <1>2
  <2>2. Occupants(g, m) \subseteq started
    BY <1>1 DEF Lobby
  <2> QED BY <2>1, <2>2, <1>3 DEF Playing
<1>7. FrontIs(g, m)'
  <2> DEFINE N == Cardinality(Occupants(g, m)')
  <2>1. {map_uid_list'[<<g, m, i>>] : i \in 0 .. N - 1} = Occupants(g, m)'
    BY <1>1, CloseRebuilds DEF PlayInv
  <2>2. map_player_num'[<<g, m>>] = Cardinality(Playing(g, m)')
    BY <1>2 DEF PlayInv, ListInv, CountIsStarted, Playing
  <2>3. map_player_num'[<<g, m>>] = N
    BY <2>2, <1>6
  <2>4. {map_uid_list'[<<g, m, i>>] : i \in 0 .. N - 1} = Playing(g, m)'
    BY <2>1, <1>6
  <2> HIDE DEF N
  <2> QED BY <2>3, <2>4 DEF FrontIs, FrontSet
<1>8. \A w, v \in Uids : Seen(g)[w][v] = IF v = u /\ w \in Playing(g, m)' THEN Unknown
                                         ELSE view[w][v]
  BY <1>1, <1>7, CloseSeen DEF PlayInv
<1>9. \A w, v \in Uids :
         view'[w][v] = IF w = u \/ (v = u /\ w \in Playing(g, m)') THEN Unknown
                       ELSE view[w][v]
  <2>1. Seen(g) = [w \in Uids |-> Seen(g)[w]]
    BY DEF Seen
  <2>2. \A w \in Uids : w # u => view'[w] = Seen(g)[w]
    BY <2>1, <1>1
  <2>3. \A w, v \in Uids : w = u => view'[w][v] = Unknown
    BY <2>1, <1>1
  <2> QED BY <2>2, <2>3, <1>8
<1>10. \A w \in Uids : w # u =>
          /\ behind'[w] = behind[w]
          /\ \A h \in Services : SeatOf(h, w)' = SeatOf(h, w)
          /\ Using(w)' <=> Using(w)
  BY <1>1, <1>3 DEF ViewInv, ViewTypeOK, SeatOf, MapOf, PlaceOf, Using, PlayInv, IInv, TypeOK
<1>11. ASSUME NEW h \in Services, NEW n \in Maps, <<h, n>> # <<g, m>> PROVE MapInv(h, n)'
  <2>1. FrontIs(h, n) /\ SeesOnly(h, n) /\ SeesThere(h, n)
    BY <1>4 DEF MapInv
  <2>2. u \notin Occupants(h, n) /\ Occupants(h, n)' = Occupants(h, n)
    BY <1>2, <1>11, OneMap DEF PlayInv
  <2>3. Playing(h, n)' = Playing(h, n) /\ Playing(h, n) \subseteq Uids
    BY <2>2, <1>3, <1>5 DEF Playing
  <2>4. FrontIs(h, n)'
    <3>1. map_player_num'[<<h, n>>] = map_player_num[<<h, n>>]
      BY <1>2, <1>3, <1>11 DEF PlayInv, IInv, TypeOK
    <3>2. \A i \in Places : map_uid_list'[<<h, n, i>>] = map_uid_list[<<h, n, i>>]
      BY <1>1, <1>11, CloseRebuilds DEF PlayInv
    <3>3. map_player_num[<<h, n>>] \in 0 .. PlayersPerMap
      BY CountBound DEF PlayInv, ListInv
    <3>4. 0 .. map_player_num[<<h, n>>] - 1 \subseteq Places
      BY <3>3, SizesAssumption DEF Places
    <3> QED BY <3>1, <3>2, <3>4, <2>1, <2>3 DEF FrontIs, FrontSet
  <2>5. ASSUME NEW w \in Occupants(h, n)
        PROVE  /\ \A v \in Uids : view'[w][v] = view[w][v]
               /\ behind'[w] = behind[w]
               /\ SeatOf(h, w)' = SeatOf(h, w)
    <3>1. w \in Uids /\ w # u /\ w \notin Playing(g, m)'
      BY <2>2, <1>2, <1>5, <1>6, <1>11, OneMap DEF PlayInv
    <3> QED BY <3>1, <1>9, <1>10
  <2>6. SeesOnly(h, n)' /\ SeesThere(h, n)'
    BY <2>1, <2>2, <2>3, <2>5, <1>1, <1>3, MapUntouched
  <2> QED BY <2>4, <2>6 DEF MapInv
<1>12. SeesOnly(g, m)'
  <2>1. SeesOnly(g, m)
    BY <1>2, <1>4 DEF MapInv
  <2>2. ASSUME NEW w \in Occupants(g, m)', NEW v \in Uids, view'[w][v] # Unknown
        PROVE  v \in Playing(g, m)'
    <3>1. w \in Occupants(g, m) /\ w \in Uids /\ w \in Playing(g, m)'
      BY <1>2, <1>5, <1>6
    <3>2. v # u /\ view[w][v] # Unknown
      BY <3>1, <2>2, <1>9
    <3>3. v \in Playing(g, m)
      BY <3>1, <3>2, <2>1 DEF SeesOnly
    <3> QED BY <3>2, <3>3, <1>6
  <2> QED BY <2>2 DEF SeesOnly
<1>13. SeesThere(g, m)'
  <2>1. SeesThere(g, m)
    BY <1>2, <1>4 DEF MapInv
  <2>2. Waiting(g, m)' = {}
    BY <1>6 DEF Waiting, Lobby, Playing
  <2>3. ASSUME NEW w \in Playing(g, m)', NEW v \in Playing(g, m)', w # v, v \notin behind'[w]
        PROVE  view'[w][v] = pos'[SeatOf(g, v)']
    <3>1. /\ w \in Playing(g, m) /\ v \in Playing(g, m) /\ w # u /\ v # u
          /\ w \in Uids /\ v \in Uids
      BY <1>2, <1>5, <1>6
    <3>2. view[w][v] = pos[SeatOf(g, v)]
      BY <3>1, <2>1, <2>3, <1>10 DEF SeesThere
    <3> QED BY <3>1, <3>2, <1>1, <1>9, <1>10
  <2> QED BY <2>2, <2>3 DEF SeesThere
<1>14. Blank'
  <2>1. \A w \in Playing(g, m)' : Using(w)
    BY <1>2, <1>6, OccupantsAre DEF PlayInv
  <2> QED BY <2>1, <1>4, <1>9, <1>10 DEF Blank
<1> QED BY <1>7, <1>11, <1>12, <1>13, <1>14 DEF MapInv

LEMMA ViewInvInit == ViewInit => ViewInv
<1> SUFFICES ASSUME ViewInit PROVE ViewInv
  OBVIOUS
<1>1. Init
  BY DEF ViewInit
<1>2. Blank
  BY DEF Blank, ViewInit
<1>3. /\ map_player_socket_uid = [x \in Services \X Maps \X Places |-> INVALID]
      /\ map_player_num = [x \in Services \X Maps |-> 0]
  BY <1>1 DEF Init, TablesInit
<1>4. ASSUME NEW g \in Services, NEW m \in Maps PROVE MapInv(g, m)
  <2>1. Occupants(g, m) = {}
    BY <1>3 DEF Occupants
  <2>2. FrontSet(map_uid_list, g, m, map_player_num[<<g, m>>]) = {}
    <3>1. map_player_num[<<g, m>>] = 0
      BY <1>3
    <3> QED BY <3>1 DEF FrontSet
  <2> QED BY <2>1, <2>2 DEF MapInv, FrontIs, SeesOnly, SeesThere, Playing, Waiting, Lobby
<1> QED BY <1>1, <1>2, <1>4, OnceInit, ViewTypeInit DEF ViewInv, Pictures

LEMMA ViewInvStep ==
    ASSUME Orderly, PlayInv, PlayInv', ViewInv, [ViewNext]_<<vars, viewVars>>
    PROVE  ViewInv'
<1>1. ViewTypeOK'
  BY ViewTypeStep DEF PlayInv, IInv, ViewInv
<1>2. OnceEach'
  BY ViewRefines, OnceStep DEF PlayInv, ViewInv
<1>3. ASSUME NEW g \in Services, ViewStep(g) PROVE Pictures'
  <2>1. CASE ViewLogin(g)
    BY <2>1, LoginPictures
  <2>2. CASE ViewStart(g)
    BY <2>2, StartPictures
  <2>3. CASE ViewMove(g)
    BY <2>3, MovePictures
  <2>4. CASE ViewClose(g)
    BY <2>4, IdleClosePictures, ClosePictures
  <2>5. CASE NewPlayer(g) /\ UNCHANGED viewVars
    BY <2>5, NewPlayerPictures
  <2>6. CASE (Leave(g) \/ NullRequest(g) \/ Ignore(g)) /\ UNCHANGED viewVars
    <3>1. UNCHANGED tables /\ UNCHANGED history
      BY <2>6 DEF Leave, NullRequest, Ignore
    <3> QED BY <3>1, <2>6, QuietPictures DEF tables, history, PlayInv, ViewInv
  <2> QED BY <1>3, <2>1, <2>2, <2>3, <2>4, <2>5, <2>6 DEF ViewStep
<1>4. ASSUME (Environment /\ UNCHANGED viewVars) \/ UNCHANGED <<vars, viewVars>>
      PROVE  Pictures'
  <2>1. UNCHANGED tables /\ UNCHANGED history /\ UNCHANGED viewVars
    BY <1>4 DEF Environment, Connect, Request, Disconnect, NetLogicDrain, Push, vars
  <2> QED BY <2>1, QuietPictures DEF tables, history, PlayInv, ViewInv
<1> QED BY <1>1, <1>2, <1>3, <1>4 DEF ViewInv, ViewNext

LEMMA ViewInvHolds == ASSUME Orderly PROVE ViewSpec => [](PlayInv /\ ViewInv)
<1>1. ViewInit => ViewInv
  BY ViewInvInit
<1>2. PlayInv /\ PlayInv' /\ ViewInv /\ [ViewNext]_<<vars, viewVars>> => ViewInv'
  BY ViewInvStep
<1>3. Spec => []PlayInv
  BY PlayInvHolds
<1> QED BY <1>1, <1>2, <1>3, ViewIsSpec, PTL DEF ViewSpec

(***************************************************************************)
(* A player has every other player of its map where it is, but for those   *)
(* it missed in the lobby (game_logic.c:592-600, 613-617), as long as      *)
(* nobody left its map during somebody's wait there.                       *)
(***************************************************************************)
THEOREM PlacesSeen == ASSUME Orderly PROVE ViewSpec => []OthersAreWhereSeen
<1>1. ViewInv => OthersAreWhereSeen
  BY DEF ViewInv, Pictures, MapInv, SeesThere, OthersAreWhereSeen
<1> QED BY <1>1, ViewInvHolds, PTL

(***************************************************************************)
(* ... and it sees nobody that is gone (game_logic.c:803-812).             *)
(***************************************************************************)
THEOREM NobodyGoneSeen == ASSUME Orderly PROVE ViewSpec => []NobodyElseSeen
<1>1. ViewInv => NobodyElseSeen
  BY DEF ViewInv, Pictures, MapInv, SeesOnly, NobodyElseSeen, Playing
<1> QED BY <1>1, ViewInvHolds, PTL

\* A step that takes a move of a player off a queue is that move.
LEMMA OnlyItsThreadPops ==
    ASSUME TypeOK, NEW g \in Services, NEW reqs, PopRequest(g, reqs), ViewNext
    PROVE  ViewStep(g)
<1> DEFINE q == que_2_gamelogic[g]
<1>1. /\ que_2_gamelogic \in [Services -> Seq(UserMsgs(Uids))]
      /\ q \in Seq(UserMsgs(Uids)) /\ q # <<>> /\ que_2_gamelogic'[g] = Tail(q)
  BY DEF TypeOK, PopRequest, Pop
<1>2. Len(Tail(q)) < Len(q) /\ Len(q) \in Nat
  <2> HIDE DEF q
  <2>1. Len(Tail(q)) = Len(q) - 1 /\ Len(q) \in Nat
    BY <1>1
  <2> QED BY <2>1
<1>3. ASSUME NEW h \in Services, h # g, ViewStep(h) PROVE FALSE
  <2>1. \E t : Pop(h, t)
    BY <1>3 DEF ViewStep, ViewLogin, ViewStart, ViewMove, ViewClose,
                Login, Start, Move, UserClose, NewPlayer, Leave, NullRequest,
                Ignore, PopRequest
  <2>2. que_2_gamelogic'[g] = q
    BY <2>1, <1>1, <1>3 DEF Pop
  <2> QED BY <2>2, <1>1, <1>2
<1>4. ASSUME Environment PROVE FALSE
  <2>1. CASE NetLogicDrain
    <3>1. que_2_gamelogic'[g] = q
      BY <2>1 DEF NetLogicDrain
    <3> QED BY <3>1, <1>1, <1>2
  <2>2. CASE ~NetLogicDrain
    <3>1. PICK x, m : que_2_gamelogic' = [que_2_gamelogic EXCEPT ![x] = Append(@, m)]
      BY <2>2, <1>4 DEF Environment, Connect, Request, Disconnect, Push
    <3>2. que_2_gamelogic'[g] = q \/ que_2_gamelogic'[g] = Append(q, m)
      BY <3>1, <1>1
    <3>3. Len(Append(q, m)) = Len(q) + 1
      <4> HIDE DEF q
      <4> QED BY <1>1
    <3> QED BY <3>2, <3>3, <1>1, <1>2
  <2> QED BY <2>1, <2>2
<1> QED BY <1>3, <1>4 DEF ViewNext

LEMMA MoveTaken ==
    ASSUME PlayInv, NEW g \in Services, PopRequest(g, {"MOVE_REQ"}),
           Requester(g) \in started, ViewNext
    PROVE  ViewMove(g)
<1>1. ViewStep(g)
  BY OnlyItsThreadPops DEF PlayInv, IInv
<1>2. Head(que_2_gamelogic[g]).type = "D" /\ Head(que_2_gamelogic[g]).req = "MOVE_REQ"
  BY DEF PopRequest, Pop
<1>3. Using(Requester(g))
  <2>1. Requester(g) \in Uids
    BY RequesterIsHere DEF PlayInv, PopRequest
  <2> QED BY <2>1 DEF PlayInv, OrderlyInv, Progress
<1> QED BY <1>1, <1>2, <1>3 DEF ViewStep, ViewLogin, ViewStart, ViewClose, Login, Start,
           UserClose, NewPlayer, Leave, NullRequest, Ignore, PopRequest, Pop

(***************************************************************************)
(* Whatever a player missed, the next move of the other shows it where it  *)
(* is, and who moves gets its own new position (game_logic.c:757).         *)
(***************************************************************************)
THEOREM MoversSeen == ASSUME Orderly PROVE ViewSpec => MoveIsSeen
<1> DEFINE Shows ==
      calm => \A g \in Services : PopRequest(g, {"MOVE_REQ"}) /\ Requester(g) \in started
          => \A u \in Playing(g, MapOf(Requester(g))) :
                view'[u][Requester(g)] = pos'[SeatOf(g, Requester(g))]
<1>1. PlayInv /\ ViewInv /\ [ViewNext]_<<vars, viewVars>> => [Shows]_<<vars, viewVars>>
  <2> SUFFICES ASSUME PlayInv, ViewInv, ViewNext, calm, NEW g \in Services,
                      PopRequest(g, {"MOVE_REQ"}), Requester(g) \in started,
                      NEW u, u = Requester(g), NEW m, m = MapOf(u), NEW w \in Playing(g, m)
               PROVE  view'[w][u] = pos'[SeatOf(g, u)]
    OBVIOUS
  <2>1. ViewMove(g)
    BY MoveTaken
  <2>2. Move(g) /\ view' = Seen(g)
    BY <2>1 DEF ViewMove, See
  <2>3. u \in Uids
    BY RequesterIsHere DEF PlayInv, PopRequest
  <2>4. m \in Maps /\ w \in Uids
    BY <2>3, OccupantsAre DEF PlayInv, IInv, TypeOK, MapOf, Playing
  <2>5. FrontIs(g, m)
    BY <2>4 DEF ViewInv, Pictures, MapInv
  <2> QED BY <2>2, <2>3, <2>4, <2>5, MoveSeen DEF PlayInv
<1> QED BY <1>1, ViewInvHolds, PTL DEF ViewSpec, MoveIsSeen
=============================================================================
