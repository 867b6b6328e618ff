----------------------------- MODULE ListProofs -----------------------------
(***************************************************************************)
(* Theorems about the two linked lists of the program.  The queue between  *)
(* services, for any number of threads and nodes: the list keeps its       *)
(* shape, no node of it is freed, and it is a first-in first-out queue.    *)
(* The bytes written to one client, for messages of any length and any     *)
(* writes the kernel makes of them.                                        *)
(***************************************************************************)
EXTENDS LockQueue, AppendBuffer, TLAPS

-----------------------------------------------------------------------------
(* The queue (lock_queue.c).                                               *)

(***************************************************************************)
(* The inductive invariant: who is inside, what each thread has in hand,   *)
(* the chain, and the pointers at every label of a thread that is inside.  *)
(***************************************************************************)
OneInside == \A t \in Threads : pc[t] \in Inside <=> lock = t

InHand ==
  /\ \A p \in Producers : pc[p] = "idle" <=> qnode[p] = NULL
  /\ \A p \in Producers : pc[p] # "idle" => qnode[p] \in allocated
  /\ \A p \in Producers : pc[p] \in {"lock", "head", "tail"} =>
       qnode[p] \notin Linked /\ next[qnode[p]] = NULL
  /\ \A c \in Consumers : pc[c] \in {"idle", "lock", "test", "take"} => qnode[c] = NULL

Chain ==
  /\ \A i \in 1 .. Len(contents) - 1 : next[contents[i]] = contents[i + 1]
  /\ ~Empty => next[Last] = NULL

AtRest ==
  /\ head = IF Empty THEN NULL ELSE First
  /\ tail = IF Empty THEN NULL ELSE Last

AtLabel(t) ==
  /\ pc[t] \in {"head", "test", "unlock"} => AtRest
  /\ pc[t] = "tail" =>
       /\ head = IF Empty THEN qnode[t] ELSE First
       /\ tail = IF Empty THEN NULL ELSE Last
  /\ pc[t] = "link" =>
       /\ Len(contents) > 1
       /\ head = First
       /\ Last = qnode[t]
  /\ pc[t] = "take" =>
       /\ ~Empty
       /\ head = First
       /\ tail = IF Len(contents) = 1 THEN NULL ELSE Last

Pointers ==
  /\ lock = NULL => AtRest
  /\ \A t \in Threads : AtLabel(t)

IInv == TypeOK /\ OneInside /\ InHand /\ Chain /\ NodeHasOnePlace /\ Pointers

-----------------------------------------------------------------------------
(* Sequences of nodes.                                                     *)

LEMMA AppendFacts ==
    ASSUME NEW s \in Seq(Nodes), NEW n \in Nodes
    PROVE  /\ Append(s, n) \in Seq(Nodes)
           /\ Len(Append(s, n)) = Len(s) + 1
           /\ \A i \in 1 .. Len(s) : Append(s, n)[i] = s[i]
           /\ Append(s, n)[Len(s) + 1] = n
OBVIOUS

LEMMA TailFacts ==
    ASSUME NEW s \in Seq(Nodes), s # <<>>
    PROVE  /\ Tail(s) \in Seq(Nodes)
           /\ Len(s) > 0
           /\ Head(s) = s[1]
           /\ Len(Tail(s)) = Len(s) - 1
           /\ \A i \in 1 .. Len(Tail(s)) : Tail(s)[i] = s[i + 1]
OBVIOUS

LEMMA EmptyFacts ==
    ASSUME NEW s \in Seq(Nodes)
    PROVE  s = <<>> <=> Len(s) = 0
OBVIOUS

-----------------------------------------------------------------------------
LEMMA InitIInv == Init => IInv
BY ThreadsAssumption, NodesAssumption
   DEF Init, IInv, TypeOK, OneInside, InHand, Chain, NodeHasOnePlace, Pointers, AtRest,
       AtLabel, Inside, PushLabels, PopLabels, Threads, Empty, Linked

LEMMA LockStep ==
    ASSUME IInv, NEW t \in Threads, Lock(t)
    PROVE  IInv'
<1> USE ThreadsAssumption, NodesAssumption DEF IInv, Lock, Goto, list, Threads
<1>1. TypeOK'
  BY DEF TypeOK, PushLabels, PopLabels, Inside
<1>2. OneInside'
  BY DEF OneInside, TypeOK, Inside
<1>3. InHand'
  BY DEF InHand, TypeOK, Linked
<1>4. Chain' /\ NodeHasOnePlace'
  BY DEF Chain, NodeHasOnePlace, Empty, Last, Linked
<1>5. Pointers'
  BY DEF Pointers, AtLabel, AtRest, TypeOK, OneInside, Inside, Empty, First, Last
<1> QED BY <1>1, <1>2, <1>3, <1>4, <1>5

LEMMA UnlockStep ==
    ASSUME IInv, NEW t \in Threads, Unlock(t)
    PROVE  IInv'
<1> USE ThreadsAssumption, NodesAssumption DEF IInv, Unlock, Goto, list, Threads
<1>1. TypeOK'
  BY DEF TypeOK, PushLabels, PopLabels, Inside
<1>2. OneInside'
  BY DEF OneInside, TypeOK, Inside
<1>3. InHand'
  BY DEF InHand, TypeOK, Linked
<1>4. Chain' /\ NodeHasOnePlace'
  BY DEF Chain, NodeHasOnePlace, Empty, Last, Linked, TypeOK
<1>5. Pointers'
  BY DEF Pointers, AtLabel, AtRest, TypeOK, OneInside, Inside, Empty, First, Last
<1> QED BY <1>1, <1>2, <1>3, <1>4, <1>5

LEMMA CreateStep ==
    ASSUME IInv, NEW t \in Producers, NEW n \in Nodes, QnodeCreate(t, n)
    PROVE  IInv'
<1> USE ThreadsAssumption, NodesAssumption DEF IInv, QnodeCreate, Goto, list, Threads
<1>1. TypeOK'
  BY DEF TypeOK, PushLabels, PopLabels, Inside
<1>2. OneInside'
  BY DEF OneInside, TypeOK, Inside
<1>3. n \notin Linked /\ \A u \in Threads : qnode[u] # n
  BY DEF NodeHasOnePlace, InHand, TypeOK
<1>4. InHand'
  BY <1>3 DEF InHand, TypeOK, Linked
<1>5. Chain'
  BY <1>3, EmptyFacts DEF Chain, TypeOK, Empty, Last, Linked
<1>6. NodeHasOnePlace'
  BY <1>3 DEF NodeHasOnePlace, TypeOK, Linked
<1>7. Pointers'
  BY DEF Pointers, AtLabel, AtRest, TypeOK, OneInside, Inside, Empty, First, Last
<1> QED BY <1>1, <1>2, <1>4, <1>5, <1>6, <1>7

LEMMA PushHeadStep ==
    ASSUME IInv, NEW t \in Producers, PushHead(t)
    PROVE  IInv'
<1> USE ThreadsAssumption, NodesAssumption DEF IInv, PushHead, Goto, list, Threads
<1>1. TypeOK'
  BY DEF TypeOK, PushLabels, PopLabels, Inside
<1>2. OneInside'
  BY DEF OneInside, TypeOK, Inside
<1>3. InHand' /\ Chain' /\ NodeHasOnePlace'
  BY DEF InHand, TypeOK, Linked, Chain, NodeHasOnePlace, Empty, Last
<1>4. Pointers'
  BY EmptyFacts
     DEF Pointers, AtLabel, AtRest, TypeOK, OneInside, Inside, Empty, First, Last
<1> QED BY <1>1, <1>2, <1>3, <1>4

LEMMA PushFirstStep ==
    ASSUME IInv, NEW t \in Producers, PushFirst(t)
    PROVE  IInv'
<1> USE ThreadsAssumption, NodesAssumption DEF IInv, PushFirst, Goto, list, Threads
<1> DEFINE n == qnode[t]
<1>1. n \in Nodes /\ contents = <<>> /\ head = n
  BY EmptyFacts DEF Pointers, AtLabel, TypeOK, InHand, Empty, Last
<1>2. Len(contents') = 1 /\ contents'[1] = n /\ contents' \in Seq(Nodes)
  BY <1>1, AppendFacts DEF TypeOK
<1>3. Linked' = {n} /\ Linked = {} /\ ~(Empty') /\ First' = n /\ Last' = n
  BY <1>1, <1>2, EmptyFacts DEF Linked, Empty, First, Last
<1>4. TypeOK'
  BY <1>1, <1>2 DEF TypeOK, PushLabels, PopLabels, Inside
<1>5. OneInside'
  BY DEF OneInside, TypeOK, Inside
<1>6. n # NULL /\ n \in allocated /\ next[n] = NULL
  BY <1>1 DEF InHand
<1>7. \A u \in Threads : u # t => qnode[u] # n
  BY <1>6 DEF NodeHasOnePlace
<1>8. InHand'
  BY <1>3, <1>7 DEF InHand, TypeOK
<1>9. Chain'
  BY <1>2, <1>3, <1>6 DEF Chain
<1>10. NodeHasOnePlace'
  BY <1>2, <1>3, <1>6, <1>7 DEF NodeHasOnePlace
<1>11. Pointers'
  BY <1>1, <1>2, <1>3
     DEF Pointers, AtLabel, AtRest, TypeOK, OneInside, Inside
<1> QED BY <1>4, <1>5, <1>8, <1>9, <1>10, <1>11

LEMMA PushBehindStep ==
    ASSUME IInv, NEW t \in Producers, PushBehind(t)
    PROVE  IInv'
<1> USE ThreadsAssumption, NodesAssumption DEF IInv, PushBehind, Goto, list, Threads
<1> DEFINE n == qnode[t]  k == Len(contents)
<1>1. n \in Nodes /\ contents # <<>> /\ head = First /\ tail = Last
  BY EmptyFacts DEF Pointers, AtLabel, TypeOK, InHand, Empty
<1>2. k > 0 /\ k \in Nat /\ Last = contents[k] /\ Last \in Nodes
  BY <1>1, EmptyFacts DEF TypeOK, Last
<1>3. /\ contents' \in Seq(Nodes) /\ Len(contents') = k + 1
      /\ \A i \in 1 .. k : contents'[i] = contents[i]
      /\ contents'[k + 1] = n
  BY <1>1, AppendFacts DEF TypeOK
<1>4. Linked' = Linked \cup {n} /\ ~(Empty') /\ First' = First /\ Last' = n
  BY <1>2, <1>3, EmptyFacts DEF Linked, Empty, First, Last
<1>5. TypeOK'
  BY <1>1, <1>3 DEF TypeOK, PushLabels, PopLabels, Inside
<1>6. OneInside'
  BY DEF OneInside, TypeOK, Inside
<1>7. n # NULL /\ n \in allocated /\ n \notin Linked /\ next[n] = NULL
  BY <1>1 DEF InHand
<1>8. \A u \in Threads : u # t => qnode[u] # n
  BY <1>7 DEF NodeHasOnePlace
<1>9. Last \in Linked
  BY <1>2 DEF Linked
<1>10. InHand'
  BY <1>1, <1>4, <1>8, <1>9 DEF InHand, TypeOK
<1>11. \A i, j \in 1 .. k : contents[i] = contents[j] => i = j
  BY DEF NodeHasOnePlace
<1>12. next' = [next EXCEPT ![contents[k]] = n] /\ next \in [Nodes -> Nodes \cup {NULL}]
  BY <1>1, <1>2 DEF TypeOK
<1>13. \A i \in 1 .. k : contents[i] \in Nodes /\ contents[i] # n
  BY <1>7 DEF TypeOK, Linked
<1>14. ASSUME NEW i \in 1 .. k PROVE next'[contents'[i]] = contents'[i + 1]
  <2>1. CASE i = k
    BY <2>1, <1>2, <1>3, <1>12
  <2>2. CASE i # k
    <3>1. i \in 1 .. k - 1 /\ i + 1 \in 1 .. k /\ contents[i] # contents[k]
      BY <2>2, <1>2, <1>11
    <3>2. next[contents[i]] = contents[i + 1]
      BY <3>1 DEF Chain
    <3> QED BY <3>1, <3>2, <1>3, <1>12, <1>13
  <2> QED BY <2>1, <2>2
<1>15. next'[n] = NULL
  BY <1>1, <1>2, <1>7, <1>12, <1>13
<1>16. Chain'
  BY <1>2, <1>3, <1>4, <1>14, <1>15 DEF Chain
<1>17. \A i, j \in 1 .. k + 1 : contents'[i] = contents'[j] => i = j
  BY <1>2, <1>3, <1>11, <1>13
<1>18. NodeHasOnePlace'
  BY <1>3, <1>4, <1>7, <1>8, <1>17 DEF NodeHasOnePlace
<1>19. Pointers'
  BY <1>1, <1>2, <1>3, <1>4
     DEF Pointers, AtLabel, AtRest, TypeOK, OneInside, Inside
<1> QED BY <1>5, <1>6, <1>10, <1>16, <1>18, <1>19

LEMMA PushTailStep ==
    ASSUME IInv, NEW t \in Producers, PushTail(t)
    PROVE  IInv'
<1> USE ThreadsAssumption, NodesAssumption DEF IInv, PushTail, Goto, list, Threads
<1>1. TypeOK'
  BY DEF TypeOK, PushLabels, PopLabels, Inside
<1>2. OneInside'
  BY DEF OneInside, TypeOK, Inside
<1>3. InHand' /\ Chain' /\ NodeHasOnePlace'
  BY DEF InHand, TypeOK, Linked, Chain, NodeHasOnePlace, Empty, Last
<1>4. Pointers'
  BY EmptyFacts
     DEF Pointers, AtLabel, AtRest, TypeOK, OneInside, Inside, Empty, First, Last
<1> QED BY <1>1, <1>2, <1>3, <1>4

\* The steps of a pop that only test.
LEMMA PopCallStep ==
    ASSUME IInv, NEW t \in Consumers, PopCall(t) \/ PopNothing(t)
    PROVE  IInv'
<1> USE ThreadsAssumption, NodesAssumption
    DEF IInv, PopCall, PopNothing, Goto, list, Threads
<1>1. TypeOK'
  BY DEF TypeOK, PushLabels, PopLabels, Inside
<1>2. OneInside'
  BY DEF OneInside, TypeOK, Inside
<1>3. InHand' /\ Chain' /\ NodeHasOnePlace'
  BY DEF InHand, TypeOK, Linked, Chain, NodeHasOnePlace, Empty, Last
<1>4. Pointers'
  BY DEF Pointers, AtLabel, AtRest, TypeOK, OneInside, Inside, Empty, First, Last
<1> QED BY <1>1, <1>2, <1>3, <1>4

LEMMA PopTailStep ==
    ASSUME IInv, NEW t \in Consumers, PopTail(t)
    PROVE  IInv'
<1> USE ThreadsAssumption, NodesAssumption DEF IInv, PopTail, Goto, list, Threads
<1>1. TypeOK'
  BY DEF TypeOK, PushLabels, PopLabels, Inside
<1>2. OneInside'
  BY DEF OneInside, TypeOK, Inside
<1>3. InHand' /\ Chain' /\ NodeHasOnePlace'
  BY DEF InHand, TypeOK, Linked, Chain, NodeHasOnePlace, Empty, Last
<1>4. AtRest
  BY DEF Pointers, AtLabel
<1>5. ~Empty /\ head = First /\ tail = Last
  BY <1>4 DEF AtRest
<1>6. Len(contents) = 1 <=> head = tail
  <2>1. Len(contents) \in Nat /\ Len(contents) > 0
    BY <1>5, EmptyFacts DEF TypeOK, Empty
  <2>2. contents[1] = contents[Len(contents)] => 1 = Len(contents)
    <3>1. 1 \in 1 .. Len(contents) /\ Len(contents) \in 1 .. Len(contents)
      BY <2>1
    <3>2. \A i, j \in 1 .. Len(contents) : contents[i] = contents[j] => i = j
      BY DEF NodeHasOnePlace
    <3> QED BY <3>1, <3>2
  <2> QED BY <1>5, <2>2 DEF First, Last
<1>7. Pointers'
  BY <1>5, <1>6
     DEF Pointers, AtLabel, AtRest, TypeOK, OneInside, Inside, Empty, First, Last
<1> QED BY <1>1, <1>2, <1>3, <1>7

LEMMA PopHeadStep ==
    ASSUME IInv, NEW t \in Consumers, PopHead(t)
    PROVE  /\ IInv'
           /\ contents # <<>>
           /\ qnode'[t] = Head(contents)
<1> USE ThreadsAssumption, NodesAssumption DEF IInv, PopHead, Goto, list, Threads
<1> DEFINE n == First  k == Len(contents)
<1>1. ~Empty /\ head = First /\ tail = IF k = 1 THEN NULL ELSE Last
  BY DEF Pointers, AtLabel
<1>2. /\ contents' \in Seq(Nodes)
      /\ k \in Nat /\ k > 0 /\ Head(contents) = n /\ n \in Nodes
      /\ Len(contents') = k - 1
      /\ \A i \in 1 .. k - 1 : contents'[i] = contents[i + 1]
  BY <1>1, TailFacts DEF TypeOK, Empty, First
<1>3. \A i, j \in 1 .. k : contents[i] = contents[j] => i = j
  BY DEF NodeHasOnePlace
<1>4. Linked' = Linked \ {n}
  <2>1. ASSUME NEW x \in Linked, x # n PROVE x \in Linked'
    <3>1. PICK i \in 1 .. k : x = contents[i]
      BY DEF Linked
    <3>2. i # 1
      BY <2>1, <3>1 DEF First
    <3>3. i - 1 \in 1 .. k - 1 /\ (i - 1) + 1 = i
      BY <3>2, <1>2
    <3>4. contents'[i - 1] = contents[(i - 1) + 1]
      BY <3>3, <1>2, Zenon
    <3> QED BY <3>1, <3>3, <3>4, <1>2 DEF Linked
  <2>2. ASSUME NEW x \in Linked' PROVE x \in Linked /\ x # n
    <3>1. PICK i \in 1 .. k - 1 : x = contents'[i]
      BY <1>2 DEF Linked
    <3>2. i + 1 \in 1 .. k /\ i + 1 # 1 /\ 1 \in 1 .. k /\ x = contents[i + 1]
      BY <3>1, <1>2
    <3> QED BY <3>2, <1>3 DEF Linked, First
  <2> QED BY <2>1, <2>2
<1>5. n \in Linked /\ Linked \subseteq allocated
  BY <1>2 DEF Linked, First, NodeHasOnePlace
<1>6. \A u \in Threads : u # t => qnode[u] # n
  <2>1. lock = t /\ pc[t] = "take"
    BY DEF OneInside, Inside
  <2>2. \A u \in Threads : u # t => pc[u] \notin Inside
    BY <2>1 DEF OneInside
  <2>3. \A c \in Consumers : qnode[c] # n
    BY <1>2, <1>5 DEF NodeHasOnePlace, TypeOK
  <2>4. ASSUME NEW p \in Producers PROVE qnode[p] # n
    <3>1. pc[p] \in {"idle", "lock"}
      BY <2>2 DEF TypeOK, PushLabels, Inside
    <3> QED BY <3>1, <1>2, <1>5 DEF InHand
  <2> QED BY <2>3, <2>4
<1>7. qnode' = [qnode EXCEPT ![t] = n]
  BY <1>1
<1>8. next[n] = IF k = 1 THEN NULL ELSE contents[2]
  <2>1. CASE k = 1
    BY <2>1, <1>1 DEF Chain, First, Last
  <2>2. CASE k # 1
    <3>1. 1 \in 1 .. k - 1
      BY <2>2, <1>2
    <3> QED BY <2>2, <3>1 DEF Chain, First
  <2> QED BY <2>1, <2>2
<1>9. TypeOK'
  BY <1>1, <1>2, <1>7 DEF TypeOK, PushLabels, PopLabels, Inside
<1>10. OneInside'
  BY DEF OneInside, TypeOK, Inside
<1>11. InHand'
  BY <1>4, <1>7 DEF InHand, TypeOK
<1>12. Chain'
  <2>1. ASSUME NEW i \in 1 .. (k - 1) - 1 PROVE next[contents'[i]] = contents'[i + 1]
    <3>1. i \in 1 .. k - 1 /\ i + 1 \in 1 .. k - 1
      BY <1>2
    <3>2. next[contents[i + 1]] = contents[i + 1 + 1]
      BY <3>1 DEF Chain
    <3> QED BY <3>1, <3>2, <1>2
  <2>2. ASSUME k > 1 PROVE contents'[k - 1] = contents[k]
    BY <2>2, <1>2
  <2>3. ~(Empty') => k > 1 /\ next[contents'[Len(contents')]] = NULL
    BY <2>2, <1>1, <1>2, EmptyFacts DEF Chain, Last, Empty
  <2> QED BY <1>2, <2>1, <2>3 DEF Chain, Last
<1>13. NodeHasOnePlace'
  <2>1. \A i, j \in 1 .. k - 1 : contents'[i] = contents'[j] => i = j
    BY <1>2, <1>3
  <2>2. \A c \in Consumers : qnode'[c] # NULL => qnode'[c] \in allocated \ Linked'
    BY <1>4, <1>5, <1>7 DEF NodeHasOnePlace, TypeOK
  <2>3. \A u, v \in Threads : u # v /\ qnode'[u] # NULL => qnode'[u] # qnode'[v]
    BY <1>6, <1>7 DEF NodeHasOnePlace, TypeOK
  <2> QED BY <1>2, <1>4, <1>5, <2>1, <2>2, <2>3 DEF NodeHasOnePlace
<1>14. Pointers'
  <2>1. AtRest'
    <3>1. CASE k = 1
      BY <3>1, <1>1, <1>2, <1>8, EmptyFacts DEF AtRest, Empty
    <3>2. CASE k # 1
      <4>1. /\ Len(contents') = k - 1 /\ k > 1
            /\ 1 \in 1 .. k - 1 /\ k - 1 \in 1 .. k - 1
        BY <3>2, <1>2
      <4>2. contents'[1] = contents[2] /\ contents'[k - 1] = contents[k]
        BY <4>1, <1>2
      <4>3. First' = contents[2] /\ Last' = contents[k]
        BY <4>1, <4>2 DEF First, Last
      <4>4. ~(Empty')
        <5>1. \A s \in Seq(Nodes) : Len(s) # 0 => s # <<>>
          BY EmptyFacts
        <5>2. contents' \in Seq(Nodes) /\ Len(contents') # 0
          BY <4>1, <1>2
        <5>3. contents' # <<>>
          BY <5>1, <5>2, Zenon
        <5> QED BY <5>3 DEF Empty
      <4> QED BY <3>2, <4>3, <4>4, <1>1, <1>8 DEF AtRest, Last
    <3> QED BY <3>1, <3>2
  <2>2. \A u \in Threads : AtLabel(u)'
    <3>1. \A u \in Threads : u # t => pc'[u] \notin Inside
      BY DEF OneInside, TypeOK, Inside
    <3>2. pc'[t] = "unlock"
      BY DEF TypeOK
    <3> QED BY <2>1, <3>1, <3>2 DEF AtLabel, Inside
  <2> QED BY <2>1, <2>2 DEF Pointers
<1> QED BY <1>1, <1>2, <1>7, <1>9, <1>10, <1>11, <1>12, <1>13, <1>14 DEF TypeOK, Empty

LEMMA DisposeStep ==
    ASSUME IInv, NEW t \in Consumers, Dispose(t)
    PROVE  IInv'
<1> USE ThreadsAssumption, NodesAssumption DEF IInv, Dispose, Goto, list, Threads
<1>1. TypeOK'
  BY DEF TypeOK, PushLabels, PopLabels, Inside
<1>2. OneInside'
  BY DEF OneInside, TypeOK, Inside
<1>3. NULL \notin allocated
  BY DEF TypeOK
<1>4. \A u \in Threads : u # t /\ qnode[u] \in allocated => qnode[u] \in allocated'
  BY <1>3 DEF NodeHasOnePlace
<1>5. InHand'
  BY <1>4 DEF InHand, TypeOK, Linked
<1>6. Chain'
  BY DEF Chain, Empty, Last
<1>7. NodeHasOnePlace'
  BY <1>4, <1>3 DEF NodeHasOnePlace, TypeOK, Linked
<1>8. Pointers'
  BY DEF Pointers, AtLabel, AtRest, TypeOK, OneInside, Inside, Empty, First, Last
<1> QED BY <1>1, <1>2, <1>5, <1>6, <1>7, <1>8

LEMMA Stutter == IInv /\ UNCHANGED vars => IInv'
BY DEF IInv, vars, list, TypeOK, OneInside, InHand, Chain, NodeHasOnePlace, Pointers,
       AtRest, AtLabel, Empty, First, Last, Linked

LEMMA NextIInv == IInv /\ [Next]_vars => IInv'
<1> SUFFICES ASSUME IInv, [Next]_vars PROVE IInv'
  OBVIOUS
<1>1. CASE \E t \in Threads : Lock(t) \/ Unlock(t)
  BY <1>1, LockStep, UnlockStep
<1>2. CASE \E t \in Producers : PushStep(t)
  BY <1>2, CreateStep, PushHeadStep, PushFirstStep, PushBehindStep, PushTailStep
     DEF PushStep
<1>3. CASE \E t \in Consumers : PopStep(t)
  BY <1>3, PopCallStep, PopTailStep, PopHeadStep, DisposeStep DEF PopStep
<1>4. CASE UNCHANGED vars
  BY <1>4, Stutter
<1> QED BY <1>1, <1>2, <1>3, <1>4 DEF Next

-----------------------------------------------------------------------------
(* The inductive invariant holds in every behaviour of the queue.          *)
LEMMA Invariant == Spec => []IInv
BY InitIInv, NextIInv, PTL DEF Spec

\* The pointers take and return values of their types.
THEOREM TypeCorrect == Spec => []TypeOK
<1>1. IInv => TypeOK
  BY DEF IInv
<1> QED BY <1>1, Invariant, PTL

\* Whenever nobody is inside the lock the pointers are exactly the queue.
THEOREM ShapeKept == Spec => []ListShape
<1>1. IInv => ListShape
  BY DEF IInv, ListShape, Pointers, AtRest, Chain
<1> QED BY <1>1, Invariant, PTL

\* No node of the list is freed or in the hand of a thread that popped it.
THEOREM OnePlace == Spec => []NodeHasOnePlace
<1>1. IInv => NodeHasOnePlace
  BY DEF IInv
<1> QED BY <1>1, Invariant, PTL

-----------------------------------------------------------------------------
(* Refinement: a push takes effect at the step that links the node, a pop  *)
(* at the step that moves head, and a pop of nothing at its test.          *)

LEMMA AnswerStep ==
    ASSUME IInv, NEW t \in Consumers,
           \A u \in Threads : u # t => pc'[u] = pc[u] /\ qnode'[u] = qnode[u]
    PROVE  [c \in Consumers |-> Answer(c)]' =
             [[c \in Consumers |-> Answer(c)] EXCEPT ![t] = Answer(t)']
BY DEF Answer, Threads

LEMMA AnswerKept ==
    ASSUME \A c \in Consumers : Answer(c)' = Answer(c)
    PROVE  [c \in Consumers |-> Answer(c)]' = [c \in Consumers |-> Answer(c)]
OBVIOUS

LEMMA InitRefines == Init => Abstract!Init
BY DEF Init, Abstract!Init, Answer, Threads

\* A pushing thread touches no answer.
LEMMA PushRefines ==
    ASSUME IInv, NEW t \in Producers, PushStep(t)
    PROVE  Abstract!Next \/ UNCHANGED Abstract!vars
<1> USE ThreadsAssumption DEF Threads
<1>1. \A c \in Consumers : pc'[c] = pc[c] /\ qnode'[c] = qnode[c]
  BY DEF IInv, TypeOK, PushStep, QnodeCreate, PushHead, PushFirst, PushBehind, PushTail, Goto
<1>2. \A c \in Consumers : Answer(c)' = Answer(c)
  BY <1>1 DEF Answer
<1>3. [c \in Consumers |-> Answer(c)]' = [c \in Consumers |-> Answer(c)]
  BY <1>2, AnswerKept
<1>4. CASE PushFirst(t) \/ PushBehind(t)
  <2>1. contents' = Append(contents, qnode[t])
    BY <1>4 DEF PushFirst, PushBehind
  <2>2. qnode[t] \in Nodes /\ qnode[t] \notin Linked
    BY <1>4 DEF IInv, TypeOK, InHand, PushFirst, PushBehind
  <2>3. Linked = Abstract!Queued
    BY DEF IInv, TypeOK, Linked, Abstract!Queued
  <2>4. Abstract!Push(qnode[t])
    BY <1>3, <2>1, <2>2, <2>3 DEF Abstract!Push
  <2> QED BY <2>2, <2>4 DEF Abstract!Next
<1>5. CASE ~(PushFirst(t) \/ PushBehind(t))
  <2>1. contents' = contents
    BY <1>5 DEF PushStep, QnodeCreate, PushHead, PushTail
  <2> QED BY <2>1, <1>3 DEF Abstract!vars
<1> QED BY <1>4, <1>5

LEMMA PopRefines ==
    ASSUME IInv, NEW t \in Consumers, PopStep(t)
    PROVE  Abstract!Next \/ UNCHANGED Abstract!vars
<1> DEFINE ret == [c \in Consumers |-> Answer(c)]
<1> USE ThreadsAssumption, NodesAssumption DEF Threads
<1>1. /\ \A u \in Threads : u # t => pc'[u] = pc[u] /\ qnode'[u] = qnode[u]
      /\ pc[t] \in PopLabels /\ qnode[t] \in Nodes \cup {NULL}
  BY DEF IInv, TypeOK, PopStep, PopCall, PopNothing, PopTail, PopHead, Dispose, Goto
<1>2. ret' = [ret EXCEPT ![t] = Answer(t)']
  BY <1>1, AnswerStep
<1>3. ret[t] = Answer(t)
  OBVIOUS
<1> HIDE DEF ret
<1>4. CASE PopCall(t)
  <2>1. Answer(t) # Waiting /\ Answer(t)' = Waiting
    BY <1>4, <1>1 DEF IInv, TypeOK, PopCall, Goto, Answer
  <2>2. Abstract!Call(t)
    BY <1>2, <1>3, <1>4, <2>1 DEF Abstract!Call, PopCall, ret
  <2> QED BY <2>2 DEF Abstract!Next
<1>5. CASE PopNothing(t)
  <2>1. Answer(t) = Waiting /\ Answer(t)' = NULL
    BY <1>5, <1>1 DEF IInv, TypeOK, InHand, PopNothing, Goto, Answer
  <2>2. contents = <<>>
    <3>1. AtRest
      BY <1>5 DEF IInv, Pointers, AtLabel, PopNothing
    <3>2. ~Empty => First \in Nodes
      BY EmptyFacts DEF IInv, TypeOK, Empty, First
    <3> QED BY <1>5, <3>1, <3>2 DEF AtRest, Empty, PopNothing
  <2>3. Abstract!PopEmpty(t)
    BY <1>2, <1>3, <1>5, <2>1, <2>2 DEF Abstract!PopEmpty, PopNothing, ret
  <2> QED BY <2>3 DEF Abstract!Next
<1>6. CASE PopTail(t)
  <2>1. Answer(t)' = Answer(t)
    BY <1>6, <1>1 DEF IInv, TypeOK, PopTail, Goto, Answer
  <2>2. \A c \in Consumers : Answer(c)' = Answer(c)
    BY <1>1, <2>1 DEF Answer
  <2>3. ret' = ret
    BY <2>2, AnswerKept DEF ret
  <2> QED BY <1>6, <2>3 DEF Abstract!vars, PopTail, ret
<1>7. CASE PopHead(t)
  <2>1. contents # <<>> /\ qnode'[t] = Head(contents)
    BY <1>7, PopHeadStep
  <2>2. Answer(t) = Waiting /\ Answer(t)' = Head(contents)
    BY <1>7, <1>1, <2>1 DEF IInv, TypeOK, PopHead, Goto, Answer
  <2>3. Abstract!PopNode(t)
    BY <1>2, <1>3, <1>7, <2>1, <2>2 DEF Abstract!PopNode, PopHead, ret
  <2> QED BY <2>3 DEF Abstract!Next
<1>8. CASE Dispose(t)
  <2>1. Answer(t) # Waiting /\ Answer(t)' = NULL
    BY <1>8, <1>1 DEF IInv, TypeOK, Dispose, Goto, Answer
  <2>2. Abstract!Drop(t)
    BY <1>2, <1>3, <1>8, <2>1 DEF Abstract!Drop, Dispose, ret
  <2> QED BY <2>2 DEF Abstract!Next
<1> QED BY <1>4, <1>5, <1>6, <1>7, <1>8 DEF PopStep

\* Taking the lock, giving it back and a stuttering step change nothing.
LEMMA LockRefines ==
    ASSUME IInv, UNCHANGED vars \/ \E t \in Threads : Lock(t) \/ Unlock(t)
    PROVE  UNCHANGED Abstract!vars
<1> USE ThreadsAssumption DEF Threads
<1>1. contents' = contents
  BY DEF vars, Lock, Unlock
<1>2. ASSUME NEW c \in Consumers PROVE Answer(c)' = Answer(c)
  BY DEF IInv, TypeOK, vars, Lock, Unlock, Goto, Answer
<1>3. [c \in Consumers |-> Answer(c)]' = [c \in Consumers |-> Answer(c)]
  BY <1>2, AnswerKept
<1> QED BY <1>1, <1>3 DEF Abstract!vars

LEMMA NextRefines == IInv /\ [Next]_vars => [Abstract!Next]_(Abstract!vars)
<1> SUFFICES ASSUME IInv, [Next]_vars PROVE Abstract!Next \/ UNCHANGED Abstract!vars
  OBVIOUS
<1> QED BY PushRefines, PopRefines, LockRefines DEF Next

\* The list, its lock and the reuse of its nodes implement a first-in
\* first-out queue.
THEOREM QueueIsFifo == Spec => ImplementsFifo
BY InitRefines, NextRefines, Invariant, PTL DEF Spec, ImplementsFifo, Abstract!Spec

-----------------------------------------------------------------------------
(* The bytes written to one client (socket_server.c).                      *)

(* The properties need nothing besides each other, and that a closed       *)
(* socket has no blocks.                                                   *)
ClosedIsEmpty == phase = "closed" => blocks = <<>>

BufferInv == BufferTypeOK /\ InOrder /\ Accounted /\ RemainCounts /\ ClosedIsEmpty

-----------------------------------------------------------------------------
(* Sequences.                                                              *)

Bytes(s) == {s[i] : i \in 1 .. Len(s)}
Held(s) == UNION {s[i].current .. s[i].last : i \in 1 .. Len(s)}

LEMMA BlockIs ==
    ASSUME NEW a \in Nat, NEW b \in Nat, NEW c \in Nat
    PROVE  [current |-> a, last |-> b, zero |-> c] \in Block
BY DEF Block

LEMMA Concatenated ==
    ASSUME NEW s \in Seq(Nat), NEW t \in Seq(Nat)
    PROVE  /\ s \o t \in Seq(Nat)
           /\ Len(s) \in Nat
           /\ Len(s \o t) = Len(s) + Len(t)
           /\ \A i \in 1 .. Len(s) : (s \o t)[i] = s[i]
           /\ \A i \in 1 .. Len(t) : (s \o t)[Len(s) + i] = t[i]
OBVIOUS

LEMMA RunFacts ==
    ASSUME NEW s \in Seq(Nat), NEW from \in Nat, NEW n \in Nat
    PROVE  /\ s \o Run(from, n) \in Seq(Nat)
           /\ Len(s) \in Nat
           /\ Len(s \o Run(from, n)) = Len(s) + n
           /\ \A i \in 1 .. Len(s) : (s \o Run(from, n))[i] = s[i]
           /\ \A i \in Len(s) + 1 .. Len(s) + n :
                (s \o Run(from, n))[i] = from + (i - Len(s)) - 1
<1> DEFINE t == Run(from, n)
<1>1. t \in Seq(Nat) /\ Len(t) = n /\ \A i \in 1 .. n : t[i] = from + i - 1
  BY DEF Run
<1> HIDE DEF t
<1>2. /\ s \o t \in Seq(Nat) /\ Len(s) \in Nat /\ Len(s \o t) = Len(s) + n
      /\ \A i \in 1 .. Len(s) : (s \o t)[i] = s[i]
      /\ \A i \in 1 .. n : (s \o t)[Len(s) + i] = t[i]
  BY <1>1, Concatenated
<1>3. ASSUME NEW i \in Len(s) + 1 .. Len(s) + n
      PROVE  (s \o t)[i] = from + (i - Len(s)) - 1
  <2>1. i - Len(s) \in 1 .. n /\ Len(s) + (i - Len(s)) = i
    BY <1>2
  <2>2. (s \o t)[Len(s) + (i - Len(s))] = t[i - Len(s)]
    BY <2>1, <1>2
  <2> QED BY <2>1, <2>2, <1>1
<1> QED BY <1>2, <1>3 DEF t

LEMMA BlockParts ==
    ASSUME NEW s \in Seq(Block), NEW i \in 1 .. Len(s)
    PROVE  /\ s[i] \in Block
           /\ s[i].current \in Nat /\ s[i].last \in Nat /\ s[i].zero \in Nat
<1>1. s[i] \in Block
  OBVIOUS
<1> QED BY <1>1 DEF Block

LEMMA RunBytes ==
    ASSUME NEW s \in Seq(Nat), NEW from \in Nat, NEW n \in Nat
    PROVE  Bytes(s \o Run(from, n)) = Bytes(s) \cup from .. from + n - 1
<1> DEFINE r == s \o Run(from, n)
<1>1. /\ Len(r) = Len(s) + n /\ Len(s) \in Nat
      /\ \A i \in 1 .. Len(s) : r[i] = s[i]
      /\ \A i \in Len(s) + 1 .. Len(s) + n : r[i] = from + (i - Len(s)) - 1
  BY RunFacts, Zenon
<1> HIDE DEF r
<1>2. ASSUME NEW b \in Bytes(r) PROVE b \in Bytes(s) \cup from .. from + n - 1
  <2>1. PICK i \in 1 .. Len(s) + n : b = r[i]
    BY <1>1 DEF Bytes
  <2>2. CASE i <= Len(s)
    BY <2>1, <2>2, <1>1 DEF Bytes
  <2>3. CASE i > Len(s)
    BY <2>1, <2>3, <1>1
  <2> QED BY <2>2, <2>3, <1>1
<1>3. ASSUME NEW b \in Bytes(s) PROVE b \in Bytes(r)
  <2>1. PICK i \in 1 .. Len(s) : b = s[i]
    BY DEF Bytes
  <2>2. i \in 1 .. Len(r) /\ b = r[i]
    BY <2>1, <1>1
  <2> QED BY <2>2 DEF Bytes
<1>4. ASSUME NEW b \in from .. from + n - 1 PROVE b \in Bytes(r)
  <2>1. Len(s) + 1 + b - from \in Len(s) + 1 .. Len(s) + n
    BY <1>1
  <2>2. r[Len(s) + 1 + b - from] = b
    BY <2>1, <1>1
  <2> QED BY <2>1, <2>2, <1>1 DEF Bytes
<1> QED BY <1>2, <1>3, <1>4 DEF r

\* Bytes that follow the last one keep the order.
LEMMA RunInOrder ==
    ASSUME NEW s \in Seq(Nat), NEW from \in Nat, NEW n \in Nat,
           \A i, j \in 1 .. Len(s) : i < j => s[i] < s[j],
           \A i \in 1 .. Len(s) : s[i] < from
    PROVE  LET r == s \o Run(from, n) IN
           /\ \A i, j \in 1 .. Len(r) : i < j => r[i] < r[j]
           /\ \A i \in 1 .. Len(r) : r[i] < from + n
<1> DEFINE r == s \o Run(from, n)
<1>1. /\ Len(r) = Len(s) + n /\ Len(s) \in Nat
      /\ \A i \in 1 .. Len(s) : r[i] = s[i]
      /\ \A i \in Len(s) + 1 .. Len(s) + n : r[i] = from + (i - Len(s)) - 1
  BY RunFacts, Zenon
<1> HIDE DEF r
<1>2. \A i \in 1 .. Len(s) : s[i] \in Nat
  OBVIOUS
<1>3. ASSUME NEW i \in 1 .. Len(r), NEW j \in 1 .. Len(r), i < j
      PROVE  r[i] < r[j]
  <2>1. CASE j <= Len(s)
    <3>1. i \in 1 .. Len(s) /\ j \in 1 .. Len(s)
      BY <1>1, <1>3, <2>1
    <3> QED BY <1>1, <1>3, <3>1
  <2>2. CASE i <= Len(s) /\ j > Len(s)
    <3>1. i \in 1 .. Len(s) /\ j \in Len(s) + 1 .. Len(s) + n
      BY <1>1, <2>2
    <3>2. r[i] = s[i] /\ r[j] = from + (j - Len(s)) - 1 /\ s[i] < from
      BY <1>1, <3>1
    <3> QED BY <1>1, <1>2, <3>1, <3>2
  <2>3. CASE i > Len(s)
    <3>1. i \in Len(s) + 1 .. Len(s) + n /\ j \in Len(s) + 1 .. Len(s) + n
      BY <1>1, <1>3, <2>3
    <3>2. r[i] = from + (i - Len(s)) - 1 /\ r[j] = from + (j - Len(s)) - 1
      BY <1>1, <3>1
    <3> QED BY <1>1, <1>3, <3>1, <3>2
  <2> QED BY <1>1, <2>1, <2>2, <2>3
<1>4. ASSUME NEW i \in 1 .. Len(r) PROVE r[i] < from + n
  <2>1. CASE i \in 1 .. Len(s)
    BY <1>1, <1>2, <2>1
  <2>2. CASE i \in Len(s) + 1 .. Len(s) + n
    BY <1>1, <2>2
  <2> QED BY <1>1, <2>1, <2>2
<1> QED BY <1>3, <1>4 DEF r

LEMMA AppendHeld ==
    ASSUME NEW s \in Seq(Block), NEW x \in Block
    PROVE  /\ Append(s, x) \in Seq(Block)
           /\ Len(Append(s, x)) = Len(s) + 1
           /\ \A i \in 1 .. Len(s) : Append(s, x)[i] = s[i]
           /\ Append(s, x)[Len(s) + 1] = x
           /\ Held(Append(s, x)) = Held(s) \cup x.current .. x.last
<1> DEFINE r == Append(s, x)
<1>1. /\ r \in Seq(Block) /\ Len(r) = Len(s) + 1 /\ Len(s) \in Nat
      /\ \A i \in 1 .. Len(s) : r[i] = s[i]
      /\ r[Len(s) + 1] = x
  OBVIOUS
<1> HIDE DEF r
<1>2. 1 .. Len(r) = 1 .. Len(s) \cup {Len(s) + 1}
  BY <1>1
<1>3. Held(r) = Held(s) \cup x.current .. x.last
  BY <1>1, <1>2 DEF Held
<1> QED BY <1>1, <1>3 DEF r

LEMMA TailHeld ==
    ASSUME NEW s \in Seq(Block), s # <<>>
    PROVE  /\ Tail(s) \in Seq(Block) /\ Head(s) = s[1]
           /\ Len(s) \in Nat /\ Len(s) > 0 /\ Len(Tail(s)) = Len(s) - 1
           /\ \A i \in 1 .. Len(s) - 1 : Tail(s)[i] = s[i + 1]
           /\ Held(s) = s[1].current .. s[1].last \cup Held(Tail(s))
<1> DEFINE r == Tail(s)
<1>1. /\ r \in Seq(Block) /\ Head(s) = s[1]
      /\ Len(s) \in Nat /\ Len(s) > 0 /\ Len(r) = Len(s) - 1
      /\ \A i \in 1 .. Len(s) - 1 : r[i] = s[i + 1]
  OBVIOUS
<1> HIDE DEF r
<1>2. ASSUME NEW b \in Held(s) PROVE b \in s[1].current .. s[1].last \cup Held(r)
  <2>1. PICK i \in 1 .. Len(s) : b \in s[i].current .. s[i].last
    BY DEF Held
  <2>2. CASE i = 1
    BY <2>1, <2>2
  <2>3. CASE i # 1
    <3>1. i - 1 \in 1 .. Len(r) /\ r[i - 1] = s[i]
      BY <2>3, <1>1
    <3> QED BY <2>1, <3>1 DEF Held
  <2> QED BY <2>2, <2>3
<1>3. ASSUME NEW b \in Held(r) PROVE b \in Held(s)
  <2>1. PICK i \in 1 .. Len(r) : b \in r[i].current .. r[i].last
    BY DEF Held
  <2>2. i + 1 \in 1 .. Len(s) /\ r[i] = s[i + 1]
    BY <1>1
  <2> QED BY <2>1, <2>2 DEF Held
<1>4. s[1].current .. s[1].last \subseteq Held(s)
  BY <1>1 DEF Held
<1> QED BY <1>1, <1>2, <1>3, <1>4 DEF r

LEMMA HeadReplaced ==
    ASSUME NEW s \in Seq(Block), s # <<>>, NEW x \in Block
    PROVE  LET r == [s EXCEPT ![1] = x] IN
           /\ r \in Seq(Block) /\ Len(r) = Len(s) /\ r[1] = x
           /\ \A i \in 2 .. Len(s) : r[i] = s[i]
           /\ Held(r) = x.current .. x.last \cup Held(Tail(s))
<1> DEFINE r == [s EXCEPT ![1] = x]
<1>1. Len(s) \in Nat /\ Len(s) > 0
  BY TailHeld
<1>2. r \in Seq(Block) /\ Len(r) = Len(s) /\ r[1] = x /\ \A i \in 2 .. Len(s) : r[i] = s[i]
  BY <1>1
<1> HIDE DEF r
<1>3. r # <<>>
  BY <1>1, <1>2
<1>4. Held(r) = x.current .. x.last \cup Held(Tail(r))
  BY <1>2, <1>3, TailHeld
<1>5. Len(Tail(r)) = Len(Tail(s)) /\ \A i \in 1 .. Len(Tail(s)) : Tail(r)[i] = Tail(s)[i]
  BY <1>2, <1>3, TailHeld
<1>6. Held(Tail(r)) = Held(Tail(s))
  BY <1>5 DEF Held
<1> QED BY <1>2, <1>4, <1>6 DEF r

-----------------------------------------------------------------------------
LEMMA BufferInvInit == BufferInit => BufferInv
<1> SUFFICES ASSUME BufferInit PROVE BufferInv
  OBVIOUS
<1>1. Len(blocks) = 0 /\ Len(wire) = 0 /\ remain_size = 0 /\ given = 0
  BY DEF BufferInit
<1>2. BufferTypeOK
  <2>1. blocks = <<>> /\ wire = <<>>
    BY DEF BufferInit
  <2>2. blocks \in Seq(Block) /\ wire \in Seq(Nat)
    BY <2>1
  <2>3. epollout \in BOOLEAN /\ phase \in {"idle", "writable", "writing", "closed"}
    BY DEF BufferInit
  <2>4. blanked \subseteq Nat /\ lost \subseteq Nat
    BY DEF BufferInit
  <2> QED BY <1>1, <2>2, <2>3, <2>4 DEF BufferTypeOK
<1>3. InOrder
  BY <1>1 DEF InOrder
<1>4. Sent = {} /\ Buffered = {} /\ lost = {}
  BY <1>1 DEF BufferInit, Sent, Buffered
<1>5. Accounted
  BY <1>1, <1>4 DEF Accounted
<1>6. RemainCounts
  BY <1>1 DEF RemainCounts
<1>7. ClosedIsEmpty
  BY DEF BufferInit, ClosedIsEmpty
<1> QED BY <1>2, <1>3, <1>5, <1>6, <1>7 DEF BufferInv

LEMMA SentIs == Sent = Bytes(wire) /\ Buffered = Held(blocks)
BY DEF Sent, Buffered, Bytes, Held

\* What a send to an empty list does: n bytes leave, the rest is a block.
LEMMA DirectStep ==
    ASSUME BufferInv, NEW len \in 1 .. MaxLen, NEW zero \in 1 .. len, NEW n \in 0 .. len,
           phase = "idle", given' = given + len, SendDirect(len, zero, n),
           UNCHANGED <<phase, blanked, lost>>
    PROVE  BufferInv'
<1> USE LimitsAssumption
<1> DEFINE x == [current |-> given + n + 1, last |-> given + len, zero |-> given + zero]
<1>1. /\ len \in Nat /\ zero \in Nat /\ n \in Nat /\ n <= len /\ len > 0
      /\ given \in Nat /\ remain_size \in Int /\ wire \in Seq(Nat)
      /\ epollout \in BOOLEAN /\ lost \subseteq Nat
  BY DEF BufferInv, BufferTypeOK
<1>2. blocks = <<>> /\ Held(blocks) = {} /\ Len(blocks) = 0
  BY DEF SendDirect, Held
<1>3. wire' = wire \o Run(given + 1, n)
  BY DEF SendDirect
<1>4. /\ wire' \in Seq(Nat) /\ Len(wire) \in Nat /\ Len(wire') = Len(wire) + n
      /\ \A i \in 1 .. Len(wire) : wire'[i] = wire[i]
      /\ \A i \in Len(wire) + 1 .. Len(wire) + n :
           wire'[i] = given + 1 + (i - Len(wire)) - 1
  <2> DEFINE from == given + 1
             r == wire \o Run(from, n)
  <2>1. from \in Nat
    BY <1>1
  <2>2. n \in Nat /\ wire \in Seq(Nat)
    BY <1>1
  <2>3. wire' = r
    BY <1>3
  <2> HIDE DEF from
  <2>4. r \in Seq(Nat) /\ Len(wire) \in Nat /\ Len(r) = Len(wire) + n
    BY <2>1, <2>2, RunFacts, Zenon
  <2>5. \A i \in 1 .. Len(wire) : r[i] = wire[i]
    BY <2>1, <2>2, RunFacts, Zenon
  <2>6. \A i \in Len(wire) + 1 .. Len(wire) + n : r[i] = from + (i - Len(wire)) - 1
    BY <2>1, <2>2, RunFacts, Zenon
  <2> HIDE DEF r
  <2> QED BY <2>3, <2>4, <2>5, <2>6, Zenon DEF from
<1>5. Bytes(wire') = Bytes(wire) \cup given + 1 .. given + n
  BY <1>1, <1>3, RunBytes
<1>6. \A i \in 1 .. Len(wire) : wire[i] \in 1 .. given
  BY <1>1, <1>4, SentIs DEF BufferInv, Accounted, Bytes
<1>11. phase' = "idle" /\ remain_size = given - Len(wire)
  BY DEF BufferInv, RemainCounts
<1>12. ClosedIsEmpty'
  BY <1>11 DEF ClosedIsEmpty
<1>7. /\ \A i, j \in 1 .. Len(wire') : i < j => wire'[i] < wire'[j]
      /\ \A i \in 1 .. Len(wire') : wire'[i] < given + 1 + n
  <2>1. /\ \A i, j \in 1 .. Len(wire) : i < j => wire[i] < wire[j]
        /\ \A i \in 1 .. Len(wire) : wire[i] < given + 1
        /\ given + 1 \in Nat
    BY <1>1, <1>6 DEF BufferInv, InOrder
  <2>2. LET r == wire \o Run(given + 1, n) IN
        /\ \A i, j \in 1 .. Len(r) : i < j => r[i] < r[j]
        /\ \A i \in 1 .. Len(r) : r[i] < given + 1 + n
    BY <1>1, <2>1, RunInOrder, Zenon
  <2> QED BY <1>3, <2>2, Zenon
<1>9. CASE n = len
  <2>1. UNCHANGED <<blocks, remain_size, epollout>>
    BY <1>9 DEF SendDirect
  <2>2. BufferTypeOK'
    BY <2>1, <1>1, <1>4 DEF BufferInv, BufferTypeOK
  <2>3. InOrder'
    BY <2>1, <1>2, <1>7 DEF InOrder
  <2>4. Accounted'
    <3>1. Sent' = Bytes(wire) \cup given + 1 .. given + len /\ Buffered' = {}
      BY <2>1, <1>2, <1>5, <1>9, SentIs DEF Sent, Buffered, Bytes
    <3>2. Bytes(wire) \cup lost = 1 .. given /\ lost \cap Bytes(wire) = {}
      BY <1>2, SentIs DEF BufferInv, Accounted
    <3> QED BY <3>1, <3>2, <1>1 DEF Accounted
  <2>5. RemainCounts'
    BY <2>1, <1>1, <1>4, <1>9, <1>11 DEF RemainCounts
  <2> QED BY <2>2, <2>3, <2>4, <2>5, <1>12 DEF BufferInv
<1>10. CASE n # len
  <2>1. /\ blocks' = Append(blocks, x) /\ epollout' = TRUE
        /\ remain_size' = remain_size + (len - n)
    BY <1>10 DEF SendDirect, AppendRemaindata, Rest
  <2>2. x \in Block
    BY <1>1, BlockIs
  <2>3. /\ blocks' \in Seq(Block) /\ Len(blocks') = 1 /\ blocks'[1] = x
        /\ Held(blocks') = given + n + 1 .. given + len
    <3>1. blocks \in Seq(Block)
      BY DEF BufferInv, BufferTypeOK
    <3> HIDE DEF x
    <3>2. /\ Append(blocks, x) \in Seq(Block)
          /\ Len(Append(blocks, x)) = Len(blocks) + 1
          /\ Append(blocks, x)[Len(blocks) + 1] = x
          /\ Held(Append(blocks, x)) = Held(blocks) \cup x.current .. x.last
      BY <3>1, <2>2, AppendHeld
    <3>3. Len(blocks') = 1 /\ blocks'[1] = x /\ blocks' \in Seq(Block)
      BY <3>2, <2>1, <1>2
    <3>4. Held(blocks') = x.current .. x.last
      BY <3>2, <2>1, <1>2
    <3> QED BY <3>3, <3>4 DEF x
  <2>4. BufferTypeOK'
    <3>1. given + n + 1 <= given + len
      BY <1>1, <1>10
    <3>2. blocks'[1].current <= blocks'[1].last
      BY <2>3, <3>1
    <3>3. \A i \in 1 .. Len(blocks') : blocks'[i].current <= blocks'[i].last
      BY <2>3, <3>2
    <3>4. remain_size' \in Int /\ given' \in Nat /\ epollout' \in BOOLEAN
      BY <1>1, <2>1
    <3>5. blanked' \subseteq Nat /\ lost' \subseteq Nat /\ phase' = "idle"
      BY DEF BufferInv, BufferTypeOK
    <3> QED BY <1>4, <2>3, <3>3, <3>4, <3>5 DEF BufferTypeOK
  <2>5. InOrder'
    <3>1. blocks'[1].current = given + n + 1 /\ blocks'[1].last = given + len
      BY <2>3
    <3>2. \A j \in 1 .. Len(blocks') : j = 1
      BY <2>3
    <3>3. \A i \in 1 .. Len(wire') : wire'[i] < blocks'[1].current
      BY <1>1, <1>4, <1>7, <3>1
    <3>4. blocks'[1].last <= given'
      BY <1>1, <3>1
    <3> QED BY <1>7, <3>2, <3>3, <3>4 DEF InOrder
  <2>6. Accounted'
    <3>1. /\ Sent' = Bytes(wire) \cup given + 1 .. given + n
          /\ Buffered' = given + n + 1 .. given + len
      BY <2>3, <1>5 DEF Sent, Buffered, Bytes, Held
    <3>2. Bytes(wire) \cup lost = 1 .. given /\ lost \cap Bytes(wire) = {}
      BY <1>2, SentIs DEF BufferInv, Accounted
    <3> QED BY <3>1, <3>2, <1>1 DEF Accounted
  <2>7. RemainCounts'
    BY <2>1, <1>1, <1>4, <1>11 DEF RemainCounts
  <2> QED BY <2>4, <2>5, <2>6, <2>7, <1>12 DEF BufferInv
<1> QED BY <1>9, <1>10

\* What a send behind a list does: the whole message is its last block.
LEMMA BehindStep ==
    ASSUME BufferInv, NEW len \in 1 .. MaxLen, NEW zero \in 1 .. len,
           phase = "idle", given' = given + len, SendBehind(len, zero),
           UNCHANGED <<phase, blanked, lost>>
    PROVE  BufferInv'
<1> USE LimitsAssumption
<1> DEFINE x == [current |-> given + 1, last |-> given + len, zero |-> given + zero]
           k == Len(blocks)
<1>1. /\ len \in Nat /\ zero \in Nat /\ len > 0
      /\ given \in Nat /\ remain_size \in Int /\ wire \in Seq(Nat) /\ k \in Nat
      /\ Len(wire) \in Nat /\ blocks \in Seq(Block)
  BY DEF BufferInv, BufferTypeOK
<1>2. /\ blocks' = Append(blocks, x) /\ UNCHANGED <<wire, epollout>>
      /\ remain_size' = remain_size + len
  BY <1>1 DEF SendBehind, AppendRemaindata, Rest
<1>3. x \in Block
  BY <1>1, BlockIs
<1>4. /\ blocks' \in Seq(Block) /\ Len(blocks') = k + 1
      /\ \A i \in 1 .. k : blocks'[i] = blocks[i]
      /\ blocks'[k + 1] = x
      /\ Held(blocks') = Held(blocks) \cup given + 1 .. given + len
  BY <1>1, <1>2, <1>3, AppendHeld
<1>5. \A i \in 1 .. k + 1 : i \in 1 .. k \/ i = k + 1
  BY <1>1
<1>6. BufferTypeOK'
  BY <1>1, <1>2, <1>4, <1>5 DEF BufferInv, BufferTypeOK
<1>7. \A i \in 1 .. Len(wire) : wire[i] \in 1 .. given
  BY <1>1, SentIs DEF BufferInv, Accounted, Bytes
<1>8. \A j \in 1 .. k : blocks[j].last \in Nat /\ blocks[j].current \in Nat
  BY <1>1, BlockParts
<1>9. InOrder'
  <2>5. blocks'[k + 1].current = given + 1 /\ blocks'[k + 1].last = given + len
    BY <1>4
  <2>6. \A j \in 1 .. k : blocks[j].last <= given /\ blocks[j].last \in Nat
    BY <1>8 DEF BufferInv, InOrder
  <2>1. ASSUME NEW i \in 1 .. Len(wire), NEW j \in 1 .. k + 1
        PROVE  wire[i] < blocks'[j].current
    <3>1. CASE j = k + 1
      BY <3>1, <2>5, <1>1, <1>7
    <3>2. CASE j \in 1 .. k
      BY <3>2, <1>4 DEF BufferInv, InOrder
    <3> QED BY <3>1, <3>2, <1>5
  <2>2. ASSUME NEW i \in 1 .. k + 1, NEW j \in 1 .. k + 1, i < j
        PROVE  blocks'[i].last < blocks'[j].current
    <3>0. i \in 1 .. k
      BY <2>2, <1>1
    <3>1. CASE j = k + 1
      <4>1. blocks'[i].last = blocks[i].last
        BY <3>0, <1>4
      <4>2. blocks[i].last <= given /\ blocks[i].last \in Nat
        BY <3>0, <2>6
      <4>3. blocks'[j].current = given + 1
        BY <3>1, <2>5
      <4> QED BY <4>1, <4>2, <4>3, <1>1
    <3>2. CASE j \in 1 .. k
      BY <2>2, <3>0, <3>2, <1>4 DEF BufferInv, InOrder
    <3> QED BY <3>1, <3>2, <1>5
  <2>3. ASSUME NEW j \in 1 .. k + 1 PROVE blocks'[j].last <= given + len
    <3>1. CASE j = k + 1
      BY <3>1, <2>5, <1>1
    <3>2. CASE j \in 1 .. k
      <4>1. blocks'[j].last = blocks[j].last
        BY <3>2, <1>4
      <4>2. blocks[j].last <= given /\ blocks[j].last \in Nat
        BY <3>2, <2>6
      <4> QED BY <4>1, <4>2, <1>1
    <3> QED BY <3>1, <3>2, <1>5
  <2>4. \A i, j \in 1 .. Len(wire) : i < j => wire[i] < wire[j]
    BY DEF BufferInv, InOrder
  <2> QED BY <1>2, <1>4, <2>1, <2>2, <2>3, <2>4 DEF InOrder
<1>10. Accounted'
  <2>1. Sent' = Sent /\ Buffered' = Buffered \cup given + 1 .. given + len
    BY <1>2, <1>4, SentIs DEF Sent, Buffered, Held
  <2>2. Sent \cup Buffered \cup lost = 1 .. given /\ lost \cap (Sent \cup Buffered) = {}
    BY DEF BufferInv, Accounted
  <2> QED BY <2>1, <2>2, <1>1 DEF Accounted
<1>11. phase' = "idle" /\ remain_size = given - Len(wire)
  BY DEF BufferInv, RemainCounts
<1>12. RemainCounts' /\ ClosedIsEmpty'
  BY <1>1, <1>2, <1>11 DEF RemainCounts, ClosedIsEmpty
<1> QED BY <1>6, <1>9, <1>10, <1>12 DEF BufferInv

LEMMA WrittenIs ==
    ASSUME NEW x \in Block, NEW n \in Nat
    PROVE  /\ Written(x, n) \in Block
           /\ Written(x, n).current = x.current + n
           /\ Written(x, n).last = x.last
<1>1. x.current \in Nat /\ x.last \in Nat /\ x.zero \in Nat
  BY DEF Block
<1>2. x.current + n \in Nat
  BY <1>1
<1> QED BY <1>1, <1>2 DEF Block, Written

\* The block a write leaves ends where it did; if it is kept some of it is left.
LEMMA DoneIs ==
    ASSUME NEW x \in Block, NEW n \in Nat, n \in 1 .. SizeOf(x)
    PROVE  /\ n <= x.last + 1 - x.current
           /\ Done(x, n) \/ x.current + n <= x.last
<1>1. x.current \in Nat /\ x.last \in Nat
  BY DEF Block
<1>2. n <= x.last + 1 - x.current
  BY <1>1 DEF SizeOf
<1>3. CASE n = x.last + 1 - x.current
  BY <1>2, <1>3 DEF Done, SizeOf
<1>4. CASE n # x.last + 1 - x.current
  BY <1>1, <1>2, <1>4
<1> QED BY <1>2, <1>3, <1>4

LEMMA RangeIsNat == ASSUME NEW a \in Nat, NEW b \in Int PROVE a .. b \subseteq Nat
OBVIOUS

\* One write of send_buffer.
LEMMA WriteStep ==
    ASSUME BufferInv, NEW n \in 1 .. MaxLen, WriteBlock(n)
    PROVE  BufferInv'
<1> USE LimitsAssumption
<1> DEFINE c == blocks[1].current  e == blocks[1].last  k == Len(blocks)
           rest == Written(blocks[1], n)
<1>1. /\ blocks \in Seq(Block) /\ blocks # <<>> /\ wire \in Seq(Nat)
      /\ given \in Nat /\ remain_size \in Int /\ lost \subseteq Nat
      /\ blanked \subseteq Nat /\ epollout \in BOOLEAN /\ Len(wire) \in Nat
      /\ n \in Nat /\ phase # "closed" /\ phase' = "writing"
  BY DEF BufferInv, BufferTypeOK, WriteBlock
<1>2. /\ Tail(blocks) \in Seq(Block) /\ Head(blocks) = blocks[1]
      /\ k \in Nat /\ k > 0 /\ Len(Tail(blocks)) = k - 1
      /\ \A i \in 1 .. k - 1 : Tail(blocks)[i] = blocks[i + 1]
      /\ Held(blocks) = c .. e \cup Held(Tail(blocks))
  BY <1>1, TailHeld
<1>3. c \in Nat /\ e \in Nat /\ c <= e /\ blocks[1] \in Block
  BY <1>1, <1>2, BlockParts DEF BufferInv, BufferTypeOK
<1>4. rest \in Block /\ rest.current = c + n /\ rest.last = e
  BY <1>1, <1>3, WrittenIs, Zenon
<1> HIDE DEF rest
<1>5. n <= e + 1 - c /\ (Done(blocks[1], n) \/ c + n <= e)
  <2>1. n \in 1 .. SizeOf(blocks[1])
    BY <1>2 DEF WriteBlock
  <2> QED BY <1>1, <1>3, <2>1, DoneIs, Zenon
<1>6. wire' = wire \o Run(c, n) /\ remain_size' = remain_size - n
  BY <1>2 DEF WriteBlock
<1>7. wire' \in Seq(Nat) /\ Len(wire') = Len(wire) + n /\ Bytes(wire') = Bytes(wire) \cup c .. c + n - 1
  <2> HIDE DEF c
  <2>1. wire \o Run(c, n) \in Seq(Nat) /\ Len(wire \o Run(c, n)) = Len(wire) + n
    BY <1>1, <1>3, RunFacts, Zenon
  <2>2. Bytes(wire \o Run(c, n)) = Bytes(wire) \cup c .. c + n - 1
    BY <1>1, <1>3, RunBytes, Zenon
  <2>3. wire' = wire \o Run(c, n)
    BY <1>6
  <2> QED BY <2>1, <2>2, <2>3, Zenon
<1>8. /\ \A i, j \in 1 .. Len(wire') : i < j => wire'[i] < wire'[j]
      /\ \A i \in 1 .. Len(wire') : wire'[i] < c + n
  <2>1. /\ \A i, j \in 1 .. Len(wire) : i < j => wire[i] < wire[j]
        /\ \A i \in 1 .. Len(wire) : wire[i] < c
    BY <1>1, <1>2 DEF BufferInv, InOrder
  <2>2. LET r == wire \o Run(c, n) IN
        /\ \A i, j \in 1 .. Len(r) : i < j => r[i] < r[j]
        /\ \A i \in 1 .. Len(r) : r[i] < c + n
    <3> HIDE DEF c
    <3> QED BY <1>1, <1>3, <2>1, RunInOrder, Zenon
  <2> QED BY <1>6, <2>2, Zenon
<1>9. \A i \in 1 .. Len(wire') : wire'[i] \in Nat
  BY <1>7
<1>10. blanked' \subseteq Nat
  <2>1. blanked' = blanked \cup {b \in c .. c + n - 1 : b > blocks[1].zero}
    BY <1>2 DEF WriteBlock
  <2>2. c .. c + n - 1 \subseteq Nat
    BY <1>1, <1>3, RangeIsNat
  <2>3. blanked \subseteq Nat
    BY <1>1
  <2> HIDE DEF c
  <2> QED BY <2>1, <2>2, <2>3, Zenon
<1>11. RemainCounts'
  <2>1. remain_size = given - Len(wire)
    BY <1>1 DEF BufferInv, RemainCounts
  <2>2. given' = given
    BY DEF WriteBlock
  <2>3. remain_size - n = given - (Len(wire) + n)
    BY <1>1, <2>1
  <2>4. remain_size' = given' - Len(wire')
    BY <1>6, <1>7, <2>2, <2>3, Zenon
  <2> QED BY <2>4 DEF RemainCounts
<1>12. ClosedIsEmpty'
  BY <1>1 DEF ClosedIsEmpty
<1>13. /\ Sent = Bytes(wire) /\ Sent' = Bytes(wire) \cup c .. c + n - 1
       /\ Buffered = c .. e \cup Held(Tail(blocks))
  BY <1>2, <1>7, SentIs DEF Sent, Bytes
<1>14. Sent \cup Buffered \cup lost = 1 .. given /\ lost \cap (Sent \cup Buffered) = {}
  BY <1>1 DEF BufferInv, Accounted
<1>15. \A i, j \in 1 .. k : i < j => blocks[i].last < blocks[j].current
  BY DEF BufferInv, InOrder
<1>16. /\ \A j \in 1 .. k : blocks[j].last <= given /\ blocks[j].current <= blocks[j].last
       /\ \A j \in 1 .. k : blocks[j].current \in Nat /\ blocks[j].last \in Nat
  BY <1>1, <1>2, BlockParts DEF BufferInv, InOrder, BufferTypeOK
<1>17. given' = given /\ epollout' = epollout
  BY DEF WriteBlock
<1>18. CASE Done(blocks[1], n)
  <2>1. blocks' = Tail(blocks) /\ lost' = lost \cup c + n .. e
    BY <1>2, <1>4, <1>18 DEF WriteBlock, rest
  <2>2. Len(blocks') = k - 1 /\ \A i \in 1 .. k - 1 : blocks'[i] = blocks[i + 1]
    BY <1>2, <2>1
  <2>3. \A i \in 1 .. k - 1 : i + 1 \in 1 .. k
    BY <1>2
  <2>4. BufferTypeOK'
    <3>1. \A i \in 1 .. k - 1 : blocks'[i].current <= blocks'[i].last
      BY <1>16, <2>2, <2>3
    <3>2. lost' \subseteq Nat
      <4>1. c + n .. e \subseteq Nat
        BY <1>1, <1>3, RangeIsNat
      <4>2. lost \subseteq Nat
        BY <1>1
      <4> QED BY <2>1, <4>1, <4>2, Zenon
    <3>3. blocks' \in Seq(Block)
      BY <1>2, <2>1
    <3> QED BY <1>1, <1>6, <1>7, <1>10, <1>17, <2>2, <3>1, <3>2, <3>3 DEF BufferTypeOK
  <2>5. InOrder'
    <3>1. ASSUME NEW i \in 1 .. Len(wire'), NEW j \in 1 .. k - 1
          PROVE  wire'[i] < blocks'[j].current
      <4>1. 1 \in 1 .. k /\ j + 1 \in 1 .. k /\ 1 < j + 1
        BY <1>2
      <4>2. e < blocks[j + 1].current
        BY <1>15, <4>1
      <4>3. wire'[i] < c + n /\ c + n <= e + 1
        BY <1>1, <1>3, <1>5, <1>8
      <4>4. blocks'[j].current = blocks[j + 1].current
        BY <2>2
      <4>5. blocks[j + 1].current \in Nat /\ wire'[i] \in Nat
        BY <1>9, <1>16, <4>1
      <4> HIDE DEF c, e
      <4> QED BY <1>1, <1>3, <4>2, <4>3, <4>4, <4>5
    <3>2. ASSUME NEW i \in 1 .. k - 1, NEW j \in 1 .. k - 1, i < j
          PROVE  blocks'[i].last < blocks'[j].current
      <4>1. i + 1 < j + 1
        BY <1>2, <3>2
      <4> QED BY <1>15, <2>2, <2>3, <4>1
    <3>3. \A j \in 1 .. k - 1 : blocks'[j].last <= given
      BY <1>16, <2>2, <2>3
    <3> QED BY <1>8, <1>17, <2>2, <3>1, <3>2, <3>3 DEF InOrder
  <2>6. Accounted'
    <3>1. Buffered' = Held(Tail(blocks))
      BY <2>1 DEF Buffered, Held
    <3>2. \A b \in Held(Tail(blocks)) : b \in Nat /\ b > e
      <4>1. ASSUME NEW b \in Held(Tail(blocks)) PROVE b \in Nat /\ b > e
        <5>1. PICK j \in 1 .. k - 1 : b \in blocks[j + 1].current .. blocks[j + 1].last
          BY <1>2 DEF Held
        <5>2. 1 \in 1 .. k /\ j + 1 \in 1 .. k /\ 1 < j + 1
          BY <1>2
        <5>3. e < blocks[j + 1].current
          BY <1>15, <5>2
        <5> QED BY <1>3, <1>16, <5>1, <5>2, <5>3
      <4> QED BY <4>1
    <3>3. \A b \in Bytes(wire) : b \in Nat /\ b < c
      <4>1. \A i \in 1 .. Len(wire) : wire[i] \in Nat /\ wire[i] < c
        BY <1>1, <1>2 DEF BufferInv, InOrder
      <4> QED BY <4>1 DEF Bytes
    <3>4. Sent' \cup Buffered' \cup lost' = 1 .. given
      BY <1>1, <1>3, <1>5, <1>13, <1>14, <2>1, <3>1
    <3>5. lost' \cap (Sent' \cup Buffered') = {}
      BY <1>1, <1>3, <1>5, <1>13, <1>14, <2>1, <3>1, <3>2, <3>3
    <3> QED BY <1>17, <3>4, <3>5 DEF Accounted
  <2> QED BY <1>11, <1>12, <2>4, <2>5, <2>6 DEF BufferInv
<1>19. CASE ~Done(blocks[1], n)
  <2>1. blocks' = [blocks EXCEPT ![1] = rest] /\ lost' = lost
    BY <1>2, <1>4, <1>19 DEF WriteBlock, rest
  <2>2. /\ blocks' \in Seq(Block) /\ Len(blocks') = k /\ blocks'[1] = rest
        /\ \A i \in 2 .. k : blocks'[i] = blocks[i]
        /\ Held(blocks') = rest.current .. rest.last \cup Held(Tail(blocks))
    <3>1. LET r == [blocks EXCEPT ![1] = rest] IN
            /\ r \in Seq(Block) /\ Len(r) = Len(blocks) /\ r[1] = rest
            /\ \A i \in 2 .. Len(blocks) : r[i] = blocks[i]
            /\ Held(r) = rest.current .. rest.last \cup Held(Tail(blocks))
      BY <1>1, <1>4, HeadReplaced, Zenon
    <3> QED BY <2>1, <3>1, Zenon
  <2>3. c + n <= e /\ \A j \in 1 .. k : j = 1 \/ j \in 2 .. k
    BY <1>2, <1>5, <1>19
  <2>4. \A j \in 1 .. k : /\ blocks[j].current <= blocks'[j].current
                          /\ blocks'[j].current <= blocks'[j].last
                          /\ blocks'[j].last = blocks[j].last
                          /\ blocks'[j].current \in Nat
    <3>1. ASSUME NEW j \in 1 .. k
          PROVE  /\ blocks[j].current <= blocks'[j].current
                 /\ blocks'[j].current <= blocks'[j].last
                 /\ blocks'[j].last = blocks[j].last
                 /\ blocks'[j].current \in Nat
      <4>1. CASE j = 1
        <5>1. blocks'[j].current = c + n /\ blocks'[j].last = e
          BY <1>4, <2>2, <4>1
        <5>2. blocks[j].current = c /\ blocks[j].last = e
          BY <4>1
        <5> HIDE DEF c, e
        <5> QED BY <1>1, <1>3, <2>3, <5>1, <5>2
      <4>2. CASE j \in 2 .. k
        <5>1. blocks'[j] = blocks[j]
          BY <2>2, <4>2
        <5>2. blocks[j].current \in Nat /\ blocks[j].current <= blocks[j].last
          BY <1>16
        <5> QED BY <5>1, <5>2
      <4> QED BY <2>3, <4>1, <4>2
    <3> QED BY <3>1
  <2>5. BufferTypeOK'
    BY <1>1, <1>6, <1>7, <1>10, <1>17, <2>1, <2>2, <2>4 DEF BufferTypeOK
  <2>6. InOrder'
    <3>1. ASSUME NEW i \in 1 .. Len(wire'), NEW j \in 1 .. k
          PROVE  wire'[i] < blocks'[j].current
      <4>1. CASE j = 1
        <5>1. blocks'[j].current = c + n
          BY <4>1, <1>4, <2>2
        <5>2. wire'[i] < c + n
          BY <1>8
        <5> QED BY <5>1, <5>2
      <4>2. CASE j \in 2 .. k
        <5>1. 1 \in 1 .. k /\ 1 < j /\ j \in 1 .. k
          BY <4>2, <1>2
        <5>2. e < blocks[j].current
          BY <1>15, <5>1
        <5>3. wire'[i] < c + n
          BY <1>8
        <5>4. wire'[i] \in Nat /\ blocks[j].current \in Nat
          BY <1>9, <1>16, <5>1
        <5>5. blocks'[j].current = blocks[j].current
          BY <2>2, <4>2
        <5> HIDE DEF c, e
        <5> QED BY <5>2, <5>3, <5>4, <5>5, <1>1, <1>3, <2>3
      <4> QED BY <4>1, <4>2, <2>3
    <3>2. \A i, j \in 1 .. k : i < j => blocks'[i].last < blocks'[j].current
      BY <1>15, <1>16, <2>4
    <3>3. \A j \in 1 .. k : blocks'[j].last <= given
      BY <1>16, <2>4
    <3> QED BY <1>8, <1>17, <2>2, <3>1, <3>2, <3>3 DEF InOrder
  <2>7. Accounted'
    <3>1. Buffered' = c + n .. e \cup Held(Tail(blocks))
      BY <1>4, <2>2 DEF Buffered, Held
    <3>2. Sent' \cup Buffered' = Sent \cup Buffered
      BY <1>1, <1>3, <1>13, <2>3, <3>1
    <3> QED BY <1>14, <1>17, <2>1, <3>2 DEF Accounted
  <2> QED BY <1>11, <1>12, <2>5, <2>6, <2>7 DEF BufferInv
<1> QED BY <1>18, <1>19

\* The other steps leave the bytes alone, or drop them all and are closed.
LEMMA OtherSteps ==
    ASSUME BufferInv, Writable \/ BufferFull \/ BufferSent \/ UNCHANGED bufferVars
    PROVE  BufferInv'
<1>1. UNCHANGED <<blocks, remain_size, given, wire, blanked, lost>>
  BY DEF Writable, BufferFull, BufferSent, bufferVars, history
<1>2. phase # "closed" \/ phase' = phase
  BY DEF Writable, BufferFull, BufferSent, bufferVars
<1>3. BufferTypeOK'
  BY <1>1 DEF BufferInv, BufferTypeOK, Writable, BufferFull, BufferSent, bufferVars
<1>4. phase' = "closed" => phase = "closed"
  BY DEF Writable, BufferFull, BufferSent, bufferVars
<1>5. InOrder' /\ Accounted' /\ RemainCounts' /\ ClosedIsEmpty'
  BY <1>1, <1>2, <1>4
     DEF BufferInv, InOrder, Accounted, RemainCounts, ClosedIsEmpty, Sent, Buffered
<1> QED BY <1>3, <1>5 DEF BufferInv

LEMMA CloseStep ==
    ASSUME BufferInv, Close
    PROVE  BufferInv'
<1>1. /\ blocks' = <<>> /\ remain_size' = 0 /\ epollout' = FALSE /\ phase' = "closed"
      /\ UNCHANGED <<given, wire, blanked, lost>>
  BY DEF Close, history
<1>2. Len(blocks') = 0 /\ blocks' \in Seq(Block)
  BY <1>1
<1>3. epollout' \in BOOLEAN
  BY <1>1
<1>4. BufferTypeOK'
  BY <1>1, <1>2, <1>3 DEF BufferInv, BufferTypeOK
<1>5. InOrder'
  BY <1>1, <1>2 DEF BufferInv, InOrder
<1>6. Accounted' /\ RemainCounts' /\ ClosedIsEmpty'
  BY <1>1 DEF Accounted, RemainCounts, ClosedIsEmpty
<1> QED BY <1>4, <1>5, <1>6 DEF BufferInv

LEMMA BufferInvStep == BufferInv /\ [BufferNext]_bufferVars => BufferInv'
<1> SUFFICES ASSUME BufferInv, [BufferNext]_bufferVars PROVE BufferInv'
  OBVIOUS
<1>1. CASE SendData
  BY <1>1, DirectStep, BehindStep DEF SendData
<1>2. CASE SendBuffer
  BY <1>2, WriteStep, OtherSteps DEF SendBuffer
<1>3. CASE Writable \/ UNCHANGED bufferVars
  BY <1>3, OtherSteps
<1>4. CASE Close
  BY <1>4, CloseStep
<1> QED BY <1>1, <1>2, <1>3, <1>4 DEF BufferNext

-----------------------------------------------------------------------------
LEMMA BufferInvariant == BufferSpec => []BufferInv
BY BufferInvInit, BufferInvStep, PTL DEF BufferSpec

\* The bytes leave in the order they were given, none twice, whatever the
\* kernel takes of each write.
THEOREM BytesInOrder == BufferSpec => []InOrder
<1>1. BufferInv => InOrder
  BY DEF BufferInv
<1> QED BY <1>1, BufferInvariant, PTL

\* Every byte has left, waits, or was freed with a half-written block.
THEOREM BytesAccounted == BufferSpec => []Accounted
<1>1. BufferInv => Accounted
  BY DEF BufferInv
<1> QED BY <1>1, BufferInvariant, PTL

\* remain_size counts the bytes the kernel has not taken.
THEOREM RemainCorrect == BufferSpec => []RemainCounts
<1>1. BufferInv => RemainCounts
  BY DEF BufferInv
<1> QED BY <1>1, BufferInvariant, PTL
=============================================================================
