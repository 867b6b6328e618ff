------------------------------- MODULE Proto -------------------------------
(***************************************************************************)
(* What the service threads put in the queues between them: the messages   *)
(* about one client that net_io sends to net_logic and net_logic to a      *)
(* game_logic thread, and the messages the game threads send back.         *)
(* Payloads are abstracted to the request or response type; the conversion *)
(* between bytes and protobuf structures has no effect on control.         *)
(***************************************************************************)
EXTENDS Integers, Sequences

INVALID == -1        \* PLAYER_TYPE_INVALID, PLAYER_UID_NULL

(***************************************************************************)
(* The requests a client may send.  "OTHER" stands for the ones every      *)
(* handler ignores: HERO_MSG_REQ, and GAME_START_REQ with start set to     *)
(* false.  Of a request whose body does not unpack the pointer handed on   *)
(* is NULL: net_logic itself reads it in a login ("BAD_LOG_REQ"), the game *)
(* handlers in a start or a move ("BAD_REQ"), and nobody in the others.    *)
(***************************************************************************)
Requests  == {"LOG_REQ", "GAME_START_REQ", "MOVE_REQ", "LEAVE_REQ", "OTHER",
              "BAD_LOG_REQ", "BAD_REQ"}
Responses == {"LOG_RSP", "ENEMY_MSG", "LOGIN_END", "NEW_ENEMY",
              "GAME_START_RSP", "LEAVE_RSP", "ENEMY_LEAVE"}

(***************************************************************************)
(* A message about client uid: 'S' a client connected, 'D' it sent a       *)
(* request, 'C' it is gone (struct _msg_head).                             *)
(***************************************************************************)
New(u)     == [type |-> "S", uid |-> u, req |-> "NONE"]
Data(u, r) == [type |-> "D", uid |-> u, req |-> r]
Closed(u)  == [type |-> "C", uid |-> u, req |-> "NONE"]

UserMsgs(uids) == [type : {"S", "C"}, uid : uids, req : {"NONE"}]
                    \cup [type : {"D"}, uid : uids, req : Requests]

(***************************************************************************)
(* A message of a game thread: the response type, the recipients copied    *)
(* from the broadcast list and the client it tells them about.             *)
(* struct _broadcast: list.uid_list[0 .. broadcast_player_num - 1].        *)
(***************************************************************************)
Broadcast(r, to, u) == [proto |-> r, to |-> to, about |-> u]

(***************************************************************************)
(* A node of the queue from net_logic to net_io: a packed broadcast        *)
(* (NULL_TYPE) or the order to drop a client (TYPE_EVENT_SERVICE_FULL).    *)
(***************************************************************************)
ToNetIo(m)     == [event |-> "NULL", msg |-> m]
ServiceFull(u) == [event |-> "F", uid |-> u]

(***************************************************************************)
(* How the process dies, whichever thread it is that dies: net_io out of   *)
(* ids, on its assertion or by SIGPIPE, net_logic and the game threads on  *)
(* a request that is NULL, a game thread on an enemy that is NULL, or by a *)
(* write behind the broadcast list.                                        *)
(***************************************************************************)
GameFaults == {"null_request", "null_enemy", "list_overflow"}
Faults     == {"none", "no id", "assertion", "SIGPIPE", "null_login"} \cup GameFaults

\* Conversions of an int stored in a uint8_t and in a (signed) char.
Uint8(n) == n % 256
Char(n)  == IF n % 256 < 128 THEN n % 256 ELSE (n % 256) - 256
=============================================================================
