----------------------------- MODULE PlayerView -----------------------------
(***************************************************************************)
(* What the players see of each other.  The game threads of GameLogic with *)
(* the positions of the players, and each client's picture of the others,  *)
(* which ENEMY_MSG, NEW_ENEMY and ENEMY_LEAVE build up: one message for    *)
(* each change, sent to the players on the broadcast list at that moment,  *)
(* and never a second time.                                                *)
(*                                                                         *)
(* The queues keep the order of the messages, so the picture is taken when *)
(* a message is pushed.                                                    *)
(***************************************************************************)
EXTENDS GameLogic

CONSTANTS
    MAP_NAX_X, MAP_NAX_Y,
    START_STEP,
    Unknown            \* nothing heard of this player

ASSUME MapAssumption ==
    /\ START_STEP \in Nat \ {0}
    /\ MAP_NAX_X \in Nat \ {0} /\ MAP_NAX_Y \in Nat \ {0}

VARIABLES
    pos,       \* [g, map, place]: map_player[..].pos
    view,      \* [u][v]: where the messages to u put v
    behind,    \* history: [u]: who started or moved while u was in the lobby
    calm       \* history: nobody left while somebody of its map was in the lobby

viewVars == <<pos, view, behind, calm>>

Point == [x : 0 .. MAP_NAX_X - 1, y : 0 .. MAP_NAX_Y - 1]
START_POSITION == [x |-> 0, y |-> 0]
Moves == {"STOP", "LEFT", "RIGHT", "UP", "DOWN"}

ViewInit ==
    /\ Init
    /\ pos = [s \in Services \X Maps \X Places |-> START_POSITION]
    /\ view = [u \in Uids |-> [v \in Uids |-> Unknown]]
    /\ behind = [u \in Uids |-> {}]
    /\ calm = TRUE

-----------------------------------------------------------------------------

\* The switch of dispose_move_request; a step onto or over the edge is not
\* made, and the edge on the left and above is never reached again.
Moved(p, move) ==
    CASE move = "LEFT"  /\ p.x - START_STEP > 0 -> [p EXCEPT !.x = @ - START_STEP]
      [] move = "RIGHT" /\ p.x + START_STEP < MAP_NAX_X -> [p EXCEPT !.x = @ + START_STEP]
      [] move = "UP"    /\ p.y - START_STEP > 0 -> [p EXCEPT !.y = @ - START_STEP]
      [] move = "DOWN"  /\ p.y + START_STEP < MAP_NAX_Y -> [p EXCEPT !.y = @ + START_STEP]
      [] OTHER -> p

SeatOf(g, u) == <<g, MapOf(u), PlaceOf(u)>>

(***************************************************************************)
(* What a message shows of the player it is about: nothing any more, or    *)
(* the position that player has when the message is pushed.                *)
(***************************************************************************)
Shown(g, m) ==
    IF m.proto = "ENEMY_LEAVE" THEN Unknown ELSE pos'[SeatOf(g, m.about)]

\* The messages of a step, and those of them that tell u of v.
Pushed == SubSeq(que_2_net_logic', Len(que_2_net_logic) + 1, Len(que_2_net_logic'))

Telling(u, v) ==
    {i \in DOMAIN Pushed : /\ Pushed[i].proto \in {"NEW_ENEMY", "ENEMY_MSG", "ENEMY_LEAVE"}
                           /\ Pushed[i].about = v
                           /\ u \in Range(Pushed[i].to)}

Last(T) == CHOOSE i \in T : \A j \in T : j <= i

\* The last of them is what u sees.
Seen(g) ==
    [u \in Uids |-> [v \in Uids |->
       IF Telling(u, v) = {} THEN view[u][v]
       ELSE Shown(g, Pushed[Last(Telling(u, v))])]]

See(g) == view' = Seen(g)

\* Clients that have a place and have not started.
Lobby(g, m) == Occupants(g, m) \ started

\* Those in the lobby that know the players of their map already.
Waiting(g, m) == {u \in Lobby(g, m) : player_uid[SeatOf(g, u)] = u}

ViewLogin(g) ==
    /\ Login(g)
    /\ pos' = [pos EXCEPT ![SeatOf(g, Requester(g))] = START_POSITION]
    /\ See(g)
    /\ UNCHANGED <<behind, calm>>

ViewStart(g) ==
    /\ Start(g)
    /\ UNCHANGED pos
    /\ See(g)
    /\ LET u == Requester(g) IN
       behind' = [v \in Uids |-> IF v \in Waiting(g, MapOf(u)) \ {u}
                                 THEN behind[v] \cup {u} ELSE behind[v]]
    /\ UNCHANGED calm

ViewMove(g) ==
    /\ Move(g)
    /\ \E move \in Moves :
          pos' = [pos EXCEPT ![SeatOf(g, Requester(g))] = Moved(@, move)]
    /\ See(g)
    /\ LET u == Requester(g) IN
       behind' = [v \in Uids |-> IF v \in Waiting(g, MapOf(u)) THEN behind[v] \cup {u}
                                 ELSE IF v \in started THEN behind[v] \ {u}
                                 ELSE behind[v]]
    /\ UNCHANGED calm

\* The picture of a client that is gone is gone with it.
ViewClose(g) ==
    LET u == Requester(g) IN
    /\ UserClose(g)
    /\ view' = [Seen(g) EXCEPT ![u] = [v \in Uids |-> Unknown]]
    /\ behind' = [behind EXCEPT ![u] = {}]
    /\ calm' = (calm /\ (Using(u) => Lobby(g, MapOf(u)) = {}))
    /\ UNCHANGED pos

ViewStep(g) ==
    \/ ViewLogin(g)
    \/ ViewStart(g)
    \/ ViewMove(g)
    \/ ViewClose(g)
    \/ (NewPlayer(g) \/ Leave(g) \/ NullRequest(g) \/ Ignore(g)) /\ UNCHANGED viewVars

ViewNext ==
    \/ \E g \in Services : ViewStep(g)
    \/ Environment /\ UNCHANGED viewVars

ViewSpec == ViewInit /\ [][ViewNext]_<<vars, viewVars>>

-----------------------------------------------------------------------------
(* Properties, of clients that log in, start, play and leave in that order.*)

ViewTypeOK ==
    /\ pos \in [Services \X Maps \X Places -> Point]
    /\ view \in [Uids -> [Uids -> Point \cup {Unknown}]]
    /\ behind \in [Uids -> SUBSET Uids]
    /\ calm \in BOOLEAN

Playing(g, m) == Occupants(g, m) \cap started

(***************************************************************************)
(* A player has every other player of its map where it is, but for those   *)
(* that started or moved between its own login and start and have not      *)
(* moved since: the login's list is not brought up to date, and who waits  *)
(* in the lobby is on no broadcast list (game_logic.c:592-600, 613-617).   *)
(* After a close during somebody's wait nothing is said: the rebuild puts  *)
(* the lobby on the list, before players that have started (513).          *)
(***************************************************************************)
OthersAreWhereSeen ==
    calm => \A g \in Services, m \in Maps : \A u, v \in Playing(g, m) :
              u # v /\ v \notin behind[u] => view[u][v] = pos[SeatOf(g, v)]

(***************************************************************************)
(* ... and it sees nobody that is gone (game_logic.c:803-812).             *)
(***************************************************************************)
NobodyElseSeen ==
    calm => \A g \in Services, m \in Maps : \A u \in Playing(g, m), v \in Uids :
              view[u][v] # Unknown => v \in Playing(g, m)

(***************************************************************************)
(* Whatever a player missed, the next move of the other shows it where it  *)
(* is, and the one that moves gets its own new position (game_logic.c:757).*)
(***************************************************************************)
MoveIsSeen ==
    [][ calm => \A g \in Services : PopRequest(g, {"MOVE_REQ"}) /\ Requester(g) \in started
          => \A u \in Playing(g, MapOf(Requester(g))) :
                view'[u][Requester(g)] = pos'[SeatOf(g, Requester(g))] ]_<<vars, viewVars>>
=============================================================================
