---------------------------- MODULE WakeupProofs ----------------------------
(***************************************************************************)
(* That no message sleeps (NoLostWakeup), for any number of game threads,  *)
(* any room in the sockets and any size of the reads.                      *)
(***************************************************************************)
EXTENDS Wakeup, TLAPS

IInv == TypeOK /\ NoLostWakeup /\ EventsHaveBytes

USE ThreadsAssumption, SizesAssumption

LEMMA Names ==
    /\ NetIo \in Peers /\ NetIo \in Threads /\ NetLogic \in Threads
    /\ NetLogic \notin Peers /\ QueGames # NetIo
    /\ \A p \in Peers : p \in Threads /\ p # NetLogic /\ UpQueue(p) \in UpQueues
    /\ \A g \in Games : g \in Peers /\ g # NetIo
BY DEF Peers, Threads, NetIo, NetLogic, QueGames, UpQueue, UpQueues

LEMMA InitIInv == Init => IInv
<1> SUFFICES ASSUME Init PROVE IInv
  OBVIOUS
<1>1. TypeOK
  BY Names DEF Init, TypeOK
<1>2. NoLostWakeup
  BY DEF Init, NoLostWakeup, PeerIsWoken, RouterIsWoken
<1>3. EventsHaveBytes
  BY DEF Init, EventsHaveBytes
<1> QED BY <1>1, <1>2, <1>3 DEF IInv

-----------------------------------------------------------------------------
LEMMA TypeStep == TypeOK /\ [Next]_vars => TypeOK'
<1> SUFFICES ASSUME TypeOK, [Next]_vars PROVE TypeOK'
  OBVIOUS
<1> USE Names
<1>1. CASE ClientEvent
  BY <1>1 DEF TypeOK, ClientEvent, Handle
<1>2. ASSUME NEW p \in Peers, NEW size \in Nat \ {0}, PeerWakes(p, size)
      PROVE  TypeOK'
  BY <1>2 DEF TypeOK, PeerWakes, Smaller
<1>3. ASSUME NEW p \in Peers, PeerQueueNull(p) PROVE TypeOK'
  BY <1>3 DEF TypeOK, PeerQueueNull
<1>4. ASSUME NEW p \in Peers, NEW n \in 0 .. MaxPush, PeerPops(p, n), arrived' \in Nat
      PROVE  TypeOK'
  BY <1>4 DEF TypeOK, PeerPops, Handle, Draining
<1>5. ASSUME NEW p \in Peers, PeerPushes(p) PROVE TypeOK'
  BY <1>5 DEF TypeOK, PeerPushes
<1>6. CASE NetioSends
  BY <1>6 DEF TypeOK, NetioSends, Sent, Smaller
<1>7. ASSUME NEW g \in Games, GameSends(g) PROVE TypeOK'
  BY <1>7 DEF TypeOK, GameSends, Sent
<1>8. CASE Netio
  <2>1. ASSUME NEW n \in 0 .. MaxPush, NetioPops(n) PROVE TypeOK'
    BY <2>1, <1>4 DEF NetioPops, TypeOK
  <2> QED BY <1>8, <1>2, <1>3, <1>5, <1>6, <2>1 DEF Netio, NetioWakes
<1>9. ASSUME NEW g \in Games, Game(g) PROVE TypeOK'
  <2>1. ASSUME NEW n \in 0 .. MaxPush, GamePops(g, n) PROVE TypeOK'
    BY <2>1, <1>4 DEF GamePops, TypeOK
  <2> QED BY <1>9, <1>2, <1>3, <1>5, <1>7, <2>1 DEF Game, GameWakes
<1>10. CASE Router
  <2>1. CASE EpollWait
    BY <2>1 DEF TypeOK, EpollWait
  <2>2. CASE RouterQueueNull
    BY <2>2 DEF TypeOK, RouterQueueNull
  <2>3. CASE RouterPushes
    BY <2>3 DEF TypeOK, RouterPushes
  <2>4. CASE RouterSends
    BY <2>4 DEF TypeOK, RouterSends, Sent
  <2>5. ASSUME NEW p \in Peers, RouterWakes(p) PROVE TypeOK'
    <3>1. to_router[p] \in Nat /\ to_router[p] <= SockBuf
      BY DEF TypeOK
    <3>2. to_router[p] - Smaller(to_router[p], ServiceRead) \in 0 .. SockBuf
      BY <3>1 DEF Smaller
    <3>3. to_router' \in [Peers -> 0 .. SockBuf]
      BY <2>5, <3>2 DEF TypeOK, RouterWakes
    <3>4. events' \subseteq Peers /\ check_que' \in [Threads -> BOOLEAN]
      BY <2>5 DEF TypeOK, RouterWakes
    <3>5. UNCHANGED <<up, down, to_service, pc, todo, dest, arrived>> /\ current_serice' = p
      BY <2>5 DEF RouterWakes
    <3>6. /\ up' \in [UpQueues -> Nat] /\ down' \in [Peers -> Nat]
          /\ pc' \in [Threads -> {"loop", "push", "wake"}] /\ todo' \in [Threads -> Nat]
          /\ \A t \in Threads : pc'[t] = "push" => todo'[t] > 0
      BY <3>5 DEF TypeOK
    <3>7. current_serice' \in Peers /\ dest' \in Peers /\ arrived' \in Nat
      BY <3>5 DEF TypeOK
    <3>8. to_service' \in [Peers -> 0 .. SockBuf]
      BY <3>5 DEF TypeOK
    <3> QED BY <3>3, <3>4, <3>6, <3>7, <3>8 DEF TypeOK
  <2>6. ASSUME NEW p \in Peers, NEW n \in 0 .. 1, RouterPops(p, n) PROVE TypeOK'
    <3>1. current_que \in UpQueues /\ up[current_que] \in Nat /\ up[current_que] > 0
      BY <2>6 DEF TypeOK, RouterPops, current_que
    <3>2. up' \in [UpQueues -> Nat]
      BY <2>6, <3>1 DEF TypeOK, RouterPops
    <3>3. /\ pc' \in [Threads -> {"loop", "push", "wake"}] /\ todo' \in [Threads -> Nat]
          /\ \A t \in Threads : pc'[t] = "push" => todo'[t] > 0
      BY <2>6 DEF TypeOK, RouterPops, Handle
    <3> QED BY <2>6, <3>2, <3>3 DEF TypeOK, RouterPops
  <2> QED BY <1>10, <2>1, <2>2, <2>3, <2>4, <2>5, <2>6 DEF Router
<1>11. CASE UNCHANGED vars
  BY <1>11 DEF TypeOK, vars
<1> QED BY <1>1, <1>8, <1>9, <1>10, <1>11 DEF Next
-----------------------------------------------------------------------------
\* Only net_logic reads what its peers write, and each socket of a batch once.
LEMMA EventsStep == TypeOK /\ EventsHaveBytes /\ [Next]_vars => EventsHaveBytes'
<1> SUFFICES ASSUME TypeOK, EventsHaveBytes, [Next]_vars PROVE EventsHaveBytes'
  OBVIOUS
<1> USE Names
<1>1. CASE EpollWait
  BY <1>1 DEF EpollWait, EventsHaveBytes
<1>2. ASSUME NEW p \in Peers, RouterWakes(p) PROVE EventsHaveBytes'
  BY <1>2 DEF RouterWakes, EventsHaveBytes, TypeOK
<1>3. CASE NetioSends
  <2>1. events' = events /\ events \subseteq Peers
    BY <1>3 DEF NetioSends, TypeOK
  <2>2. ASSUME NEW p \in events PROVE to_router'[p] > 0
    <3>1. to_router[p] \in Nat /\ to_router[p] > 0
      BY <2>1 DEF EventsHaveBytes, TypeOK
    <3> QED BY <1>3, <2>1, <3>1 DEF NetioSends, TypeOK, Smaller
  <2> QED BY <2>1, <2>2 DEF EventsHaveBytes
<1>4. ASSUME NEW g \in Games, GameSends(g) PROVE EventsHaveBytes'
  <2>1. events' = events /\ events \subseteq Peers
    BY <1>4 DEF GameSends, TypeOK
  <2>2. ASSUME NEW p \in events PROVE to_router'[p] > 0
    <3>1. to_router[p] \in Nat /\ to_router[p] > 0
      BY <2>1 DEF EventsHaveBytes, TypeOK
    <3> QED BY <1>4, <2>1, <3>1 DEF GameSends, TypeOK
  <2> QED BY <2>1, <2>2 DEF EventsHaveBytes
<1>5. CASE UNCHANGED <<events, to_router>>
  BY <1>5 DEF EventsHaveBytes
<1> QED
  BY <1>1, <1>2, <1>3, <1>4, <1>5
     DEF Next, ClientEvent, Netio, NetioWakes, NetioPops, Game, GameWakes, GamePops,
         PeerWakes, PeerQueueNull, PeerPops, PeerPushes, Router, RouterQueueNull,
         RouterPushes, RouterSends, RouterPops, vars

-----------------------------------------------------------------------------
(* A message for a peer has a byte before it or behind it.                 *)

PeerWoken(p) ==
  down[p] > 0 => \/ check_que[p] \/ to_service[p] > 0
                 \/ pc[NetLogic] = "wake" /\ dest = p

LEMMA PeerStep == TypeOK /\ PeerIsWoken /\ [Next]_vars => PeerIsWoken'
<1> SUFFICES ASSUME TypeOK, PeerIsWoken, [Next]_vars, NEW p \in Peers
             PROVE  PeerWoken(p)'
  BY DEF PeerIsWoken, PeerWoken
<1> USE Names
<1>0. PeerWoken(p)
  BY DEF PeerIsWoken, PeerWoken
<1>1. ASSUME NEW r \in Peers, NEW size \in Nat \ {0}, PeerWakes(r, size)
      PROVE  PeerWoken(p)'
  BY <1>0, <1>1 DEF PeerWakes, PeerWoken, TypeOK
<1>2. ASSUME NEW r \in Peers, PeerQueueNull(r) PROVE PeerWoken(p)'
  BY <1>0, <1>2 DEF PeerQueueNull, PeerWoken, TypeOK
<1>3. ASSUME NEW r \in Peers, NEW n \in 0 .. MaxPush, PeerPops(r, n)
      PROVE  PeerWoken(p)'
  <2>1. down'[p] > 0 => down[p] > 0
    BY <1>3 DEF PeerPops, TypeOK
  <2>2. /\ UNCHANGED <<to_service, check_que, dest>>
        /\ pc'[NetLogic] = pc[NetLogic]
    BY <1>3 DEF PeerPops, Handle, TypeOK
  <2> QED BY <1>0, <2>1, <2>2 DEF PeerWoken
<1>4. ASSUME NEW r \in Peers, PeerPushes(r) PROVE PeerWoken(p)'
  BY <1>0, <1>4 DEF PeerPushes, PeerWoken, TypeOK
<1>5. ASSUME NEW r \in Peers, Sent(r), UNCHANGED <<down, to_service, check_que, dest>>
      PROVE  PeerWoken(p)'
  <2>1. pc'[NetLogic] = pc[NetLogic]
    BY <1>5 DEF Sent, TypeOK
  <2> QED BY <1>0, <1>5, <2>1 DEF PeerWoken
<1>6. CASE ClientEvent
  <2>1. pc'[NetLogic] = pc[NetLogic]
    BY <1>6 DEF ClientEvent, Handle, TypeOK
  <2> QED BY <1>0, <1>6, <2>1 DEF ClientEvent, PeerWoken
<1>7. CASE Netio
  BY <1>7, <1>1, <1>2, <1>3, <1>4, <1>5 DEF Netio, NetioWakes, NetioPops, NetioSends
<1>8. ASSUME NEW g \in Games, Game(g) PROVE PeerWoken(p)'
  BY <1>8, <1>1, <1>2, <1>3, <1>4, <1>5 DEF Game, GameWakes, GamePops, GameSends
<1>9. CASE Router
  <2>1. CASE EpollWait \/ RouterQueueNull
    BY <1>0, <2>1 DEF EpollWait, RouterQueueNull, PeerWoken, TypeOK
  <2>2. CASE RouterPushes
    BY <1>0, <2>2 DEF RouterPushes, PeerWoken, TypeOK
  <2>3. CASE RouterSends
    <3>1. to_service'[p] >= to_service[p] /\ (dest = p => to_service'[p] > 0)
      BY <2>3 DEF RouterSends, TypeOK
    <3>2. UNCHANGED <<down, check_que>> /\ to_service[p] \in Nat /\ to_service'[p] \in Int
      BY <2>3, <3>1 DEF RouterSends, TypeOK
    <3> QED BY <1>0, <3>1, <3>2 DEF PeerWoken
  <2>4. ASSUME NEW r \in Peers, RouterWakes(r) PROVE PeerWoken(p)'
    BY <1>0, <2>4 DEF RouterWakes, PeerWoken, TypeOK
  <2>5. ASSUME NEW r \in Peers, NEW n \in 0 .. 1, RouterPops(r, n) PROVE PeerWoken(p)'
    BY <1>0, <2>5 DEF RouterPops, Draining, PeerWoken, TypeOK
  <2> QED BY <1>9, <2>1, <2>2, <2>3, <2>4, <2>5 DEF Router
<1>10. CASE UNCHANGED vars
  BY <1>0, <1>10 DEF vars, PeerWoken
<1> QED BY <1>6, <1>7, <1>8, <1>9, <1>10 DEF Next
-----------------------------------------------------------------------------
(* A message for net_logic: a byte of one of those that push to its queue. *)

RouterWoken(q) ==
  up[q] > 0 => \/ check_que[NetLogic] /\ current_que = q
               \/ \E p \in Peers : UpQueue(p) = q /\ (to_router[p] > 0 \/ pc[p] = "wake")

LEMMA RouterStep == TypeOK /\ RouterIsWoken /\ [Next]_vars => RouterIsWoken'
<1> SUFFICES ASSUME TypeOK, RouterIsWoken, [Next]_vars, NEW q \in UpQueues
             PROVE  RouterWoken(q)'
  BY DEF RouterIsWoken, RouterWoken
<1> USE Names
<1>0. RouterWoken(q)
  BY DEF RouterIsWoken, RouterWoken
\* Steps that push nothing, read nothing of net_logic's and move no byte away.
<1>1. ASSUME up'[q] > 0 => up[q] > 0, current_serice' = current_serice,
             check_que'[NetLogic] = check_que[NetLogic],
             \A p \in Peers : to_router[p] > 0 \/ pc[p] = "wake"
                              => to_router'[p] > 0 \/ pc'[p] = "wake"
      PROVE  RouterWoken(q)'
  BY <1>0, <1>1 DEF RouterWoken, current_que
<1>2. CASE ClientEvent
  BY <1>1, <1>2 DEF ClientEvent, Handle, Waiting, TypeOK
<1>3. ASSUME NEW r \in Peers, NEW size \in Nat \ {0}, PeerWakes(r, size)
      PROVE  RouterWoken(q)'
  BY <1>1, <1>3 DEF PeerWakes, TypeOK
<1>4. ASSUME NEW r \in Peers, PeerQueueNull(r) PROVE RouterWoken(q)'
  BY <1>1, <1>4 DEF PeerQueueNull, TypeOK
<1>5. ASSUME NEW r \in Peers, NEW n \in 0 .. MaxPush, PeerPops(r, n)
      PROVE  RouterWoken(q)'
  BY <1>1, <1>5 DEF PeerPops, Handle, Draining, TypeOK
<1>6. ASSUME NEW r \in Peers, PeerPushes(r) PROVE RouterWoken(q)'
  <2>1. pc'[r] = "wake" /\ \A p \in Peers \ {r} : pc'[p] = pc[p]
    BY <1>6 DEF PeerPushes, TypeOK
  <2>2. UNCHANGED <<to_router, check_que, current_serice>>
    BY <1>6 DEF PeerPushes
  <2>3. CASE UpQueue(r) = q
    BY <2>1, <2>3 DEF RouterWoken
  <2>4. CASE UpQueue(r) # q
    <3>1. up'[q] = up[q]
      BY <1>6, <2>4 DEF PeerPushes, TypeOK
    <3> QED BY <1>1, <2>1, <2>2, <3>1
  <2> QED BY <2>3, <2>4
<1>7. ASSUME NEW r \in Peers, Sent(r), to_router'[r] > 0,
             \A p \in Peers \ {r} : to_router'[p] = to_router[p],
             UNCHANGED <<up, check_que, current_serice>>
      PROVE  RouterWoken(q)'
  <2>1. \A p \in Peers \ {r} : pc'[p] = pc[p]
    BY <1>7 DEF Sent, TypeOK
  <2> QED BY <1>1, <1>7, <2>1
<1>8. CASE NetioSends
  <2>1. to_router'[NetIo] > 0 /\ \A p \in Peers \ {NetIo} : to_router'[p] = to_router[p]
    BY <1>8 DEF NetioSends, Smaller, TypeOK
  <2> QED BY <1>7, <1>8, <2>1 DEF NetioSends
<1>9. ASSUME NEW g \in Games, GameSends(g) PROVE RouterWoken(q)'
  <2>1. to_router'[g] > 0 /\ \A p \in Peers \ {g} : to_router'[p] = to_router[p]
    BY <1>9 DEF GameSends, TypeOK
  <2> QED BY <1>7, <1>9, <2>1 DEF GameSends
<1>10. CASE Netio
  BY <1>10, <1>3, <1>4, <1>5, <1>6, <1>8 DEF Netio, NetioWakes, NetioPops
<1>11. ASSUME NEW g \in Games, Game(g) PROVE RouterWoken(q)'
  BY <1>11, <1>3, <1>4, <1>5, <1>6, <1>9 DEF Game, GameWakes, GamePops
<1>12. CASE Router
  <2>1. CASE EpollWait
    BY <1>1, <2>1 DEF EpollWait
  <2>2. CASE RouterQueueNull
    <3>1. up' = up /\ up[current_que] = 0 /\ UNCHANGED <<to_router, pc>>
      BY <2>2 DEF RouterQueueNull
    <3>2. CASE current_que = q
      BY <3>1, <3>2 DEF RouterWoken
    <3>3. CASE current_que # q
      BY <1>0, <3>1, <3>3 DEF RouterWoken
    <3> QED BY <3>2, <3>3
  <2>3. CASE RouterPushes
    BY <1>1, <2>3 DEF RouterPushes, TypeOK
  <2>4. CASE RouterSends
    BY <1>1, <2>4 DEF RouterSends, Sent, TypeOK
  <2>5. ASSUME NEW r \in Peers, RouterWakes(r) PROVE RouterWoken(q)'
    <3>1. check_que'[NetLogic] = TRUE /\ current_serice' = r /\ UNCHANGED <<up, pc>>
      BY <2>5 DEF RouterWakes, TypeOK
    <3>2. \A p \in Peers \ {r} : to_router'[p] = to_router[p]
      BY <2>5 DEF RouterWakes, TypeOK
    <3>3. CASE UpQueue(r) = q
      BY <3>1, <3>3 DEF RouterWoken, current_que
    <3>4. CASE UpQueue(r) # q
      <4>1. ~check_que[NetLogic]
        BY <2>5 DEF RouterWakes, Waiting
      <4> QED BY <1>0, <3>1, <3>2, <3>4, <4>1 DEF RouterWoken
    <3> QED BY <3>3, <3>4
  <2>6. ASSUME NEW r \in Peers, NEW n \in 0 .. 1, RouterPops(r, n) PROVE RouterWoken(q)'
    <3>1. up'[q] > 0 => up[q] > 0
      BY <2>6 DEF RouterPops, TypeOK
    <3>2. \A p \in Peers : pc'[p] = pc[p]
      BY <2>6 DEF RouterPops, Handle, TypeOK
    <3> QED BY <1>1, <2>6, <3>1, <3>2 DEF RouterPops
  <2> QED BY <1>12, <2>1, <2>2, <2>3, <2>4, <2>5, <2>6 DEF Router
<1>13. CASE UNCHANGED vars
  BY <1>1, <1>13 DEF vars
<1> QED BY <1>2, <1>10, <1>11, <1>12, <1>13 DEF Next

-----------------------------------------------------------------------------
LEMMA Invariant == Spec => []IInv
<1>1. IInv /\ [Next]_vars => IInv'
  BY TypeStep, EventsStep, PeerStep, RouterStep DEF IInv, NoLostWakeup
<1> QED BY InitIInv, <1>1, PTL DEF Spec

\* Counters stay in their ranges, the sockets' among them.
THEOREM TypeCorrect == Spec => []TypeOK
<1>1. IInv => TypeOK
  BY DEF IInv
<1> QED BY <1>1, Invariant, PTL

\* A message in a queue always has its reader draining, or a byte on the way.
THEOREM NoMessageSleeps == Spec => []NoLostWakeup
<1>1. IInv => NoLostWakeup
  BY DEF IInv
<1> QED BY <1>1, Invariant, PTL

\* net_logic never reads a socket that has nothing to read.
THEOREM ReadsFindBytes == Spec => []EventsHaveBytes
<1>1. IInv => EventsHaveBytes
  BY DEF IInv
<1> QED BY <1>1, Invariant, PTL
=============================================================================
