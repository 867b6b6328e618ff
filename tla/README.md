# A verification project for the game server

This directory holds TLA+ specifications of the server under `src/service-c`, the TLC
configurations that check them on small instances, and proofs of their central
invariants for every size, checked by TLAPS.

## 1. The system

One process of six threads (`main.c`), joined by seven queues (`lock_queue.c`). Each push
is followed by a one-byte write to a socket that wakes the reader.

    clients <--TCP--> net_io <--2 queues--> net_logic --4 queues--> game_logic 0..3
                                                ^------- 1 queue ---------'

| component | state | operations | what makes it correct |
|---|---|---|---|
| **net_io** `socket_server.c`, `socket_epoll.c` | `socket_pool` of slots (a slot's index is a client's uid), `alloc_id`, the batch of epoll events, `que_check`, a buffer of unsent data per slot | accept, read a request, find the end of a stream, send a broadcast, send buffered data, drop a refused client | a uid names one connection; an event is handled for the connection it is about; net_logic hears 'S', 'D's, 'C' of each uid; buffered data is waited on; only live sockets are written |
| **net_logic** `net_logic.c` | the routing table `sock_id2game_logic`, `online_player` per service, `game_service_id`, the queue being drained | give a new client a service or refuse it, forward its requests, forward its close and clear the route, pass broadcasts on | the counters count the routes; no service beyond its capacity; what a game thread hears is backed by a route; a full server refuses |
| **game_logic** ×4 `game_logic.c` | per thread: maps of places, `map_player_socket_uid`, `map_player_num`, `player_num`, the broadcast list `map_uid_list`; shared by all: `uid_2_playid` | seat a client, login, start, move, leave request, close | the seat tables agree; the counts are right; the front of the broadcast list is the started players; messages go to seated clients and name the right one |
| **queues** `lock_queue.c`, `spin_lock.h` | a linked list under a lock | push, pop | FIFO, nothing lost |
| **wake-up sockets** in the three service files | bytes in socket buffers, `check_que` | `send_msg2_service`, `dispose_service_read_msg` | a thread with work is awake; no thread reads a socket that is empty |
| **start-up** `main.c`, `*_connect*`, `*_listen*` | fixed ports, backlogs, the first slots of the pool, `service_pool` | create the threads, listen, connect, accept | each thread finds its peers; the pool the loop relies on; waking a service wakes the reader of its queue |
| **configuration** `configure.c`, **protobuf** `message.pb-c.*`, `proto.h` | — | parse, pack | — |

Outside the build (not in the makefile's `SRCS`): `log_server.c`, `common_socket.c`,
`service_start.c`, `epoll_test.c`; and the demonstrations under `test/`.

What is hard in this code: three threads know each client and none of them asks the
others, so everything depends on the order of messages; state is read after it was
cleared, or through fields an earlier message left behind; counters kept in two places;
batches of events over slots that change under them; and limits (ids, places, list
lengths, 8-bit conversions) no test drives it to. `PROJECT.json` lists these hazards,
each at its line with the properties that cover it.

## 2. The modules

| module | models | kind |
|---|---|---|
| `Proto` | the messages in the queues, and the conversions of an int to `uint8_t` and `char` | data |
| `SessionTable` | what the routing table promises | abstract specification |
| `NetLogic` | the net_logic thread; the other threads push and pop freely | component |
| `GameLogic` | the game_logic threads; net_logic forwards 'S', requests, 'C' of each client | component |
| `PlayerView` | extends `GameLogic` with the positions of the players and with what each client has been told of the others | component |
| `SocketServer` | the net_io thread, the kernel's end of the connections, the clients | component |
| `RequestStream` | `readn` and the framing of requests, one `read(2)` per action | component |
| `AppendBuffer` | the bytes written to one client: `send_data`, `append_remaindata`, `send_buffer` | component |
| `GameServer` | the whole process: the three thread modules by `INSTANCE` over shared queues | composition |
| `Fifo` | what a queue promises | abstract specification |
| `LockQueue` | one queue: the list, its lock and the nodes' memory, one access per action | component |
| `Wakeup` | all threads' loops, their queues as counters and their sockets as bounded counts of bytes | component |
| `Startup` | from `main` to the loops of the threads | component |
| `MC*` | constants, symmetry, and for `SocketServer` an environment that sends broadcasts, also to the uid 0, and refusals | for TLC |
| `NetLogicProofs`, `GameLogicProofs`, `SocketServerProofs`, `RequestStreamProofs`, `WakeupProofs`, `StartupProofs` | theorems; `GameLogicProofs` has those of `PlayerView` too | for TLAPS |
| `ListProofs` | theorems of the two linked lists, `LockQueue` and `AppendBuffer` | for TLAPS |
| `GameServerProofs` | theorems of the composition, on top of those of the threads' modules by `INSTANCE` | for TLAPS |

Variables carry the names of the C fields and actions those of the handlers where there
is one; the `map` of `PROJECT.json` gives each definition's lines. Variables marked
*history* in their declaration, and `stage`, exist for the properties or the environment
and the code never reads them; the `conn` of an event is recorded for `EventsCurrent`
only. An operator with the comment "A slip" is a plausible mistake in the definition
behind it and belongs to no specification.

### Grain, and what justifies it

The thread modules are coarse where a finer module shows that they may be:

| taken in | as | because of |
|---|---|---|
| `NetLogic`, `GameLogic`, `SocketServer`, `GameServer` | a queue is a sequence; push and pop are atomic | `LockQueue` implements `Fifo`, proved |
| the same | a queue that is not empty wakes its reader | `NoLostWakeup` of `Wakeup`, proved; with scheduling `AllServed` |
| `SocketServer`, `GameServer` | a request arrives whole, or stops the thread | `RequestsAsSent` and `ReadBeforeClosed` of `RequestStream`, proved |
| `SocketServer` | what is unsent is a flag | `InOrder` and `Accounted` of `AppendBuffer`, proved |
| `SocketServer` | the pool begins with the listening socket and net_logic | `PoolReady` of `Startup`, proved |
| `Wakeup`, `NetLogic` | a service's byte goes to the thread that reads its queue | `Wired` of `Startup`, proved |
| `GameLogic` | net_logic sends a client's messages to one service, 'S' first and 'C' last | `QueuedUnderRoute` of `NetLogic`, `SessionProtocol` of `SocketServer`, both proved; `GameLogicServed` of `GameServerProofs`: the whole process is such an environment |

* **One pop and its handler are one action** in net_logic and game_logic. Between two
  pops a thread touches only its own state and pushes to queues; another thread sees a
  handler's pushes later, never its intermediate state. The shared `uid_2_playid` is
  touched at entries of the thread's own clients only; `OneService` is the theorem that
  says so.
* **net_io** is finer: one action per event of a batch, per queue node, and per recipient
  of a broadcast, because the kernel changes connections in between. `EpollWait` picks
  any `MaxEvent` of the ready slots; `Take` looks at the slot's type when the event is
  handled, as the code does.
* `Wakeup` separates a push from the write of its byte, and in `LockQueue` each read and
  write of the list is a step.

### Undefined behaviour and faults

`fault` (and `stray_write` in the router) records what the process dies of, or the
memory it damages: the assertion of `send_data`; `SIGPIPE`; `socket_pool[-1]` when the
ids are used up (the slot "before" the pool almost never holds the one type the
assertion accepts, and the model takes the process to die there); a request that protobuf
cannot unpack, which is a NULL pointer: net_logic reads the name of a login through it
(`net_logic.c:239`), a game thread a start or a move (`game_logic.c:608`, `:721`), while a
hero message or a leave request is handled without looking (`"BAD_LOG_REQ"` and `"BAD_REQ"`
of `Proto`); a NULL enemy; the broadcast list or a copy of it written beyond its end. The
`Faults` are those of the whole process, which ends with the thread that meets one.
`FrontSeated` includes that no fault of the game threads occurs. A write to `map_uid_list[-1]` lands in the allocator's
header of the list, is never read by the server and is recorded in `list_underflow` only.
`stray_write` damages memory behind `online_player`; the model records it and goes on.
A request of length 0 is passed on (`RequestStream`), and its type is then read from memory
behind an empty allocation: it is any of the requests, as are all others in the modules
behind `RequestStream`. Memory fresh from malloc reads as zero (queues, locks, the uids of unused places): the
threads allocate it at start-up, before anything is freed. `char` is signed, as on the
x86 the makefile builds for.

### Not modelled

* `configure.c` reads three values from a text file, once, before a second thread exists;
  its steps are the characters of lines, and nothing else in the server depends on how
  they are cut. Of its result only the fixed ports matter, and `Startup` has those.
* `message.pb-c.*` is generated, and `proto.h` wraps it; `Proto` keeps the request and
  response types. Names, and the contents of messages other than positions, are left out.
* `log_server.c`, `common_socket.c`, `service_start.c` and `epoll_test.c` are not built;
  `test/` shares no code with the server.
* Failures of malloc, of `fcntl` and of `accept` in the running server (the loop tries
  again), of `epoll_create` and `epoll_ctl` during the start-up, and memory that is not
  given back (the deserialised requests): the server keeps no count that depends on it.
* `TYPE_EVENT_PLAYER_ERROR`, which nobody sends; a second start-up; sockets between
  threads that close, which no thread does while it runs.
* A request that does nothing (`HERO_MSG_REQ`, `GAME_START_REQ` with `start` false, a type
  there is none of) is `"OTHER"`.
* The byte written behind `buf` when a read fills it (`socket_server.c:374`,
  `net_logic.c:712`): it belongs to no state of the models.

## 3. The runs

Every run lists its properties in its `.cfg`; each property of a passing run has a mutant
in `PROJECT.json`, a slip in a mapped definition that makes TLC report it.

| run | instance | states | shows |
|---|---|---|---|
| `net_logic` | 3 clients, 2 services of 1 place, 3 messages in flight, any sender | 713K | counters, routes and queues agree; `SessionTable` is implemented |
| `game_logic` | 3 clients, 2 services × 2 maps × 1 place, any request and any close at any time | 1.03M | seat tables and `player_num` agree, and `map_player_num` is off by exactly the repeated starts and the closes from the lobby, even for clients that restart or overflow the list |
| `player_view` | 3 orderly clients, 1 map × 3 places of 9 × 1 points | 861K | the broadcast list, its count and its recipients; each player has the others where they are |
| `socket_server` | 3 clients, 2 client ids, batches of 3, one request in halves, 1 broadcast or refusal, `epoll_ctl` may fail | 602K | ids, batches, EPOLLOUT, the message protocol towards net_logic |
| `request_stream` | 2 clients, 3 requests of 0 to 2 bytes in pieces of any size, ends and resets anywhere | 294K | requests are passed on whole and in order, and all of them, unless a client stops within one for ever |
| `append_buffer` | messages of up to 4 bytes, 9 bytes in all, any partial write | 62K | order, and that what was put aside leaves |
| `game_server` | 2 clients, 2 maps with 1 place, any 2 logins, starts or leave requests at any time, ends and resets at any time | 1.81M | agreement of the three threads on who is there; whom messages go to; whom a service turns away |
| `game_server_live` | 2 clients, 1 start, ends and resets at any time, fairness | 128K | ends are noticed, leavers unseated |
| `send_assertion` | 2 clients, 1 login or start | | violates the assertion at `socket_server.c:454` |
| `lock_queue` | 2 pushing threads and one popping, 4 nodes used again and again | 34K | one place per node, `Fifo` is implemented, no deadlock |
| `wakeup` | net_io, net_logic, 2 game threads, sockets of 1 byte, reads of 1 byte, 3 messages | 197K | no lost wake-up, no read without a byte, everything handled but for the mutual wait |
| `startup` | 3 game threads, 2 clients that connect to either port, backlogs of 2, ports that may be taken | 9K | the threads find each other, the pool is ready, clients are answered |

The bounds are small, and chosen so that each limit is reached: a third client for two
places or ids; a service that fills and empties; two clients on a map with one leaving
while the other acts; two events for one slot; a broadcast to two while one of them
leaves; bodies of requests whose bytes are also lengths, so that a reader out of step
shows; messages of four bytes, so that a write can take exactly half of a block, and
three of them in the list; sockets of one byte, so that every write may have to wait;
four nodes for three threads, so that each is freed and handed out again while others
look at the list. More clients repeat the same pairs, since each handler relates at most
one client, its map and its list. The map of `player_view` is wide enough for two steps
along x and one point deep: the four branches of the move are the same code for each
direction, and on this map the vertical ones all meet the edge.

`CHECK_DEADLOCK FALSE` stands wherever the run really may stop: clients connect once and
requests are counted, threads reach their loops, two threads may wait for each other in
`wakeup`, and the process may die. `lock_queue` checks deadlock.

### Clients the code trusts, and those it need not

Only `player_view` sets `Orderly`: clients log in, start and close in that order, and
start once. The code trusts them to: without that order a map's count, its broadcast list
and the names at its places are wrong (`game_logic.c:363`), and the pictures that clients
have of each other mean nothing. Within `PlayerView`, `behind` and `calm` state two limits
of the code exactly: a player that starts or moves while another waits in the lobby is on
no list that other gets again (until it moves), and a close while somebody is in the lobby
rebuilds the list with the lobby in it, after which nothing is claimed of the pictures.

Everywhere else clients send what they like, when they like, and end or reset at any time:
in `game_logic`, in the runs of `GameServer`, and in all theorems about the whole
process. What then holds is stated with its exceptions, kept in history variables that no
action reads:
* `miscount` is how many starts came again, less the closes of clients that never started.
  `CountAccounted` says that this is all by which `map_player_num` is off, and
  `TurnedAwayByLobby` speaks of a service where it is zero.
* `was_reset` is who reset its connection. After a failed write the close is reported for id
  0, net_logic keeps the route and the game thread the place; `NoGhosts` says that nobody else
  is left behind. `LeaverUnseated` speaks of connections that ended their stream.
* `RecipientsKnown` has one exception without a variable: a leave request from a place in
  which no login has stored a uid is answered to the uid 0, which is no client's slot.

### Where the code and its comments part

`send_assertion` checks `assert(socket_pool[..].type == CONNECT_ADD)` (`socket_server.c:454`):
a broadcast that is already in the queues when its recipient leaves ends the process.
These others are in the models as the code does them:

* "服务器达到处理人数上限->通知netio服务,关闭连接" (`net_logic.c:459`). The `-1` is returned as
  `uint8_t` and compared as 255: nobody is refused, and a counter outside `online_player`
  is written (`stray_write`).
* "地图内有效的玩家uid永远位于最前面" (`game_logic.h:57`). A close while somebody waits in
  the lobby drops a started player from the broadcasts (`map_uid_list_rebuild`).
* "一个游戏逻辑线程最大支持20*10个玩家在线" (a game logic thread supports at most 20*10 players
  online, `net_logic.h:38`). Ten clients in the lobby of the first map block the service
  (`NewPlayer`): the map is chosen by its started players, and no other is tried.
  `TurnedAwayByLobby` says that, but for counts that are off, nothing else does.
* "每个地图里面的玩家数目" (the number of players in each map, `game_logic.h:51`). A close from
  the lobby brings `map_player_num` down though the client was never counted, below zero on
  an empty map (`CountOut`). `CountAccounted` says by how much the count can be off.
* "最多支持32k个socket连接" (`socket_server.h:17`). Ids are never used again, and the search
  behind the last one fails (`apply_id`).
* "socket uid" (`net_logic.h:71`). After a failed write the close is reported for id 0,
  since the slot is cleared first (`socket_server.c:470`).
* "这一块数据已经发送完成" (this block has been sent completely, `socket_server.c:431`). `tmp->size`
  has just been brought down by what was written, so after exactly half of a block it equals
  `n`, and the block is freed with its rest: `lost` in `AppendBuffer`, of which the theorem on
  `Accounted` says that there is no other way to lose a byte.
* `strncpy` copies a message put aside up to its first zero byte (`socket_server.c:91`,
  `blanked`).
* "为 true 才会向另一个服务发送一个字节的信息" (`net_logic.c:100`): a byte is to be sent only to
  a thread that sleeps. It is sent for every message (`socket_server.c:304`), so bytes add
  up, and net_io drops some while it drains (`:374`). `Wakeup` shows that no wake-up is lost
  by it.
* net_logic and a game thread can wait for each other on two full sockets
  (`MutualBlock` of `Wakeup`; real sockets hold some thousand bytes).
* A leave request is only answered; the place is given up by the close
  (`game_logic.c:664`).

### Fairness

* `game_server_live`: weak fairness of each thread. It is a kernel thread that blocks only
  in `epoll_wait`, `select` or a queue's lock, and is awake while it has an event or a
  message. Clients get none. Requests arrive whole in this run. The traffic is bounded;
  under endless broadcasts net_logic would never leave one queue for the other
  (`net_logic.c:743`).
* `wakeup`: weak fairness of each thread. A thread in a blocked write is not enabled, so
  `AllServed` needs the exception `MutualBlock`, and TLC finds no other.
* `startup`: weak fairness of `main`, of listening and of the accepting threads; strong
  fairness of the two connects, which are retried every second and compete with clients
  for a backlog that fills and empties.
* `append_buffer`: weak fairness of the event and of the write; the client goes on
  reading, so a socket in the write set is reported in the end.
* `request_stream`: weak fairness of net_io, and none of the clients. `readn` tries again
  without a timeout, so a client that stops within a request holds up the thread for all
  others. `AllRead` has that as its one exception (`HeldUp`), and TLC finds no other.

## 4. The proofs

All obligations are discharged by SMT, Zenon and the temporal prover, with no
assumptions beyond the named `ASSUME`s of the modules: finitely many clients whose uids
are not `INVALID` (nor 0, in `GameLogic`, where `Unset` is 0 and `socket_pool[0]` never
becomes a client's), 1 to 127 services in `NetLogic` (what a signed char can hold), more
than three slots, distinct names of threads, and positive sizes.

**NetLogic.** `IInv == TypeOK /\ OnlineMatchesRoute /\ CapRespected`.
* The type invariant needs `DistributeResult`: the 8-bit result of
  `route_distribute_gamelogic` is a service with room, or 255, and `Char(255)` is
  `INVALID`. That is why the table stays clean although no client is refused.
* `OnlineMatchesRoute` needs that `ForwardClose` decrements the service that
  `SendToGameLogic` has just looked up in the same handler, and the lemmas `RouteSet` and
  `RouteCleared` on how one change of the table moves the sets of clients.
* `CapRespected` needs both: the guard reads the counter, the claim counts routes. So the
  three are inductive together and `CapRespected` is not alone.
* `RefinesSessionTable`: each step maps to `Join`, `Leave` or a stutter; `Join`'s room
  comes from the invariant.
* `QueuedCorrect` is by its own induction: a message in a game queue is backed by the
  route or by the close behind it; `BackedAppend`, `BackedTail` and `BackedReroute` say
  what pushes, pops and changes of the table do to that.

**GameLogic.** `IInv == TypeOK /\ AtItsService /\ SeatTablesAgree`.
* `SeatTablesAgree` speaks of all services at once, and a handler of one service could
  break it for a client seated at another. `AtItsService` rules that out: messages of a
  client wait only at the service it was given, and only there it has a place. It is
  the part of net_logic's behaviour the game threads rely on.
* `SeatOfRequester` and `RequesterIsHere` then give that the client at the head of the
  queue is seated here or nowhere, and each handler touches one seat.
* `PlayersCorrect` is a second induction above `IInv`: `SeatTaken` and `SeatLeft` say how
  one place changes the set of a service's clients, `SeatTablesAgree` that the newcomer
  was not in it and the leaver had no other place.

* `CountCorrect` is an induction of its own (`CountInv`), for any clients: a start adds the
  client to `started` or, if it was there, one to `miscount`; a close takes it out of
  `started` or one from `miscount`; and a new client is in no `started`, as whoever is there
  has a place (`StartedSit`), so no other step moves either side.
* `CloseServed` and `OnlyLobbyTurnsAway` need the order in which net_logic forwards, and
  nothing of what clients send (`ArrivalInv`): of each client the queue holds an 'S', requests
  and a 'C' in this order, and who has a place has no 'S' waiting.
* `OnlyLobbyTurnsAway` joins two counts. The router counts what it has routed to a service,
  the service counts whom it has seated, and in between are the queue's 'S's and 'C's.
  `RoomForNew` ties them together for each waiting 'S': those that have a place or an 'S' in
  front of it, without those whose 'C' is in front of it, leave a place free. It is kept when
  the 'S' is put in the queue because the router keeps to the capacity (`Capped`) and all that
  are ahead are routed (`AheadAreRouted`). When its turn comes some map has a place free; the
  thread takes the first map whose count is below `MAX_PLAYER`, and if that count is right and
  there is no place, the map is full with a lobby (`TakesPlace`).
* `KnownInv` is for the composition: as long as no fault occurs, the list up to the count of
  a map, and the uids stored at its places, are of clients whose 'S' was forwarded. The count
  goes up by one only with a write at its old value, and what a close leaves below it was
  written before.

The rest is for clients that send in the order of section 3 (`ASSUME Orderly` in the
theorems): the list, its recipients and the pictures. Clients that do not make the formulas
false, and the runs and theorems above are for them.
* `OrderlyInv` says what that order leaves in the queues: messages of one client wait in
  the order of their kinds (`InTurn`), nothing waits that the client has not sent yet,
  and each client's tables are as far as the first message that still waits (`Progress`):
  it has no place before its 'S', a name once its login is handled, and is in `started`
  exactly between its start and its close. It is preserved by one lemma per handler, with
  `PopWaits` and `PushWaits` for what a pop and a push do to the messages that wait.
* `CountIsStarted` and `FrontCorrect` are one induction (`ListInv`): the close decrements the
  count without asking, which is right because the leaver has started by `Progress`; the
  start writes the list at the index of the count, which is inside by `CountBound`, as the
  starter has a place and is not counted. `RankIsBijection` shows that the rebuild's ranks
  are a bijection onto the first indices, so that the rebuilt front is exactly who is left
  (`RebuiltFront`, `RebuildCorrect`).
* `RecipientsCorrect` follows step by step: each handler addresses the front of a list, and
  the front holds seated clients.

**PlayerView.** `ViewInv == OnceEach /\ ViewTypeOK /\ Pictures`, above the invariants of the
game threads: a step of `PlayerView` is a step of `GameLogic` (`ViewIsSpec`).
* `Pictures` says, as long as `calm` holds, that who has no place sees nobody (`Blank`), and
  of each map that the front of the list is the *whole* set of its players (`FrontIs`, which
  `FrontSeated` does not say), that everybody with a place sees players only, and that also
  those who *wait in the lobby* have them where they are. Without the lobby the invariant is
  not inductive: what a player sees when it starts is what it saw while it waited.
* `LoginSeen`, `StartSeen`, `MoveSeen` and `CloseSeen` compute what the messages of a step
  show to whom; that is the same set of players that `FrontIs` names.
* A close with an empty lobby keeps `FrontIs` by `RebuildCorrect`'s lemma. With somebody in
  the lobby it does not, and `calm` is the condition under which the theorems hold.
* `OnceEach` keeps names and positions apart: nobody is named at a place before its 'S', and
  no login waits of a player that has started, which would put it back to the start.
* `ViewTypes` needs no order: whatever clients send, a move does not leave the map.

**SocketServer.** `IInv == Types /\ Current`, where `Current` joins the properties of
the run with `Fresh` (nothing refers to an id that was not handed out), `Sessions` (who is
in epoll has been reported and owns its slot, from which `AddedIsTold` follows) and
`Waiting`.
* net_logic is not assumed to behave: any messages may come from it. Ids are unique
  because they only go up (`Fresh`), which is also why they run out.
* `IdsAreUnique`, `EventsAreCurrent`, `RestsAreWatched`, `SessionsAreReported` and
  `AddedAreTold` are inductive only together:
  an event of a batch may be for a slot an earlier event of the batch closed, and that it
  is not handled for a newcomer needs that no newcomer gets that id.

**LockQueue.** `IInv == TypeOK /\ OneInside /\ InHand /\ Chain /\ NodeHasOnePlace /\ Pointers`.
`contents` is the queue the pointers stand for; `Chain` follows `next` along it, and
`Pointers` says for each place inside the lock what `head`, `tail` and the chain are while
an operation is half done. `QueueIsFifo` maps a push to the step that links the node, a
pop to the step that moves `head`, and everything else to a stutter.

**AppendBuffer.** `BufferInv` joins types with `InOrder`, `Accounted`, `RemainCounts` and
`ClosedIsEmpty`, for
messages of any length and any partial writes. `InOrder` alone is not inductive: that a new
message's bytes come behind all others needs that blocks end at `given`.

**RequestStream.** For any requests, empty ones included, any cuts and any ends, the reader never gets out of step
with what a client sends. Beside types, whom net_io reads (`Reader`) and how each client
ended (`Ends`), `IInv` has `ReadBeforeClosed`, `PassedAsSent` (what was passed on is the
beginning of what was sent) and `Aligned`, which says where the reader is: there are offsets of the requests in the stream (`Frames`), and the bytes
not yet read are those of the stream behind the reader's `Position` (`Remains`), byte by
byte, length bytes and bodies. So no function that concatenates requests is needed, and no
induction over it.
* A length byte read at the `Position` is the length of the next request, because the
  position is an offset there; `readn` asks for that many bytes, and gets those of the body
  (`BodyBegun`). Bodies contain the values of length bytes, so nothing else would do.
* `ReadBeforeClosed` is in the invariant because the end is only handled with nothing left to
  read, and then the position is the offset behind the last request, or within one that the
  client never finished.

**Wakeup.** `IInv == TypeOK /\ NoLostWakeup /\ EventsHaveBytes`, for any number of game
threads and any sizes of sockets and reads.

**Startup.** `IInv == TypeOK /\ Pool /\ RouterOnce /\ Sockets /\ GamesOnce`: `RouterOnce` and
`GamesOnce` follow each connecting thread from its own state over the backlog to the
table, where it is once, also when strangers connect to either port; from that follow
`PoolIsReady` and `ServicesAreWired`.

**GameServer.** What the composition adds is how the threads' states belong together while
messages are on their way. `IInv == ThreadsInv /\ Glue /\ Resets /\ NoRefusals /\
RecipientsKnown`, for any number of clients, sockets, services, maps and places, and for
clients that send anything and end or reset at any time.
* `ThreadsInv` is the invariants of `SocketServer`, `NetLogic` and `GameLogic`, each over the
  variables of the process. Their modules' environments are arbitrary enough, or the process
  is shown to be one, so their lemmas about single steps are used as they are: a step of
  net_io maps to a step of `SocketServer`, and so on (`NetIoCases`, `NetLogicKeeps`,
  `GameLogicKeeps`).
* `Glue` follows each client's messages from net_io's queue to the router. Messages have a
  turn ('S' 0, requests 1, 'C' 2). `TurnsKept` says that the queue holds each client's
  messages in turn, and `UidOrderly` that they are behind what net_logic has forwarded of it
  (`Level`), that they are what net_io has told and net_logic not forwarded, and that the
  route is there exactly between the forwarded 'S' and 'C'. None is inductive alone: that a
  request is forwarded after its 'S' needs that the 'S' was told first (net_io), that the
  queue kept the order, and that the router has not cleared the route. Closes that net_io
  reports for id 0 are in the queue, too, and concern nobody, as 0 is never routed.
* A client that a full server turned away is `Refused`: net_logic drops its requests, since
  its route is 255 or -1, and the exception has to be carried through all of `Glue`.
* `GameLogicServed` is a refinement: every step of the process is a step of `GameLogic` with
  `Orderly` false and queues without a bound, or leaves it alone. `Fault` maps the ways the
  process dies to those a game thread can die of, and `stage`, a history variable of the
  composition, to what net_logic has forwarded. With it `GameThreadsCorrect` carries the
  theorems of `GameLogic` over to the process.
* `SeatedCorrect` joins `AtItsService` and `CloseServed` of `GameLogic` with the route in
  `UidOrderly`: the client seated was announced to that service, and either its route stands
  or its 'C' was forwarded and, as it still has its place, waits. With `AtItsService` no
  client is seated by two services, for any number of them; the runs have one.
* `RecipientsCorrect` needs `KnownInv` of `GameLogic` and that whoever was forwarded has been
  told (`MetAreKnown`).
* `NoGhostsStay` needs one invariant more (`Resets`): a client that net_logic was told of and
  not told closed is in epoll, or it has reset. Only the write paths close without telling,
  and they fail only on a connection that was reset.
* `LobbyTurnsAway` carries `OnlyLobbyTurnsAway` over: `Capped` is `CapRespected` of the router in
  terms of the process (`CappedIs`).

Model-checked only: everything about liveness. Fairness and ENABLED are beyond this prover,
so `Delivered`, `AllServed`, `AllRunning`, `ClientAnswered`, `AllRead`, `EndNoticed` and
`LeaverUnseated` rest on the runs; so does `LeaverNamed`. `CountIsStarted` is part of the
invariant `PlayInv`. Every other property of a passing run, refinements included, is stated by a
theorem.

## 5. What is left

`RequestStream` as a refinement of the whole requests of `SocketServer`.
