----------------------------- MODULE LockQueue -----------------------------
(***************************************************************************)
(* One queue between two services (lock_queue.c, spin_lock.h): a singly    *)
(* linked list with a pointer at each end, shared by the threads that push *)
(* to it and the thread that pops from it.  Every access to the list is a  *)
(* step of its own, so the lock is all that keeps them apart.  A node is   *)
(* memory: a consumer frees what it popped, and malloc hands it out again. *)
(***************************************************************************)
EXTENDS Integers, Sequences

CONSTANTS Producers, Consumers, Nodes, NULL, Waiting

ASSUME ThreadsAssumption ==
  /\ Producers \cap Consumers = {}
  /\ NULL \notin Producers \cup Consumers
ASSUME NodesAssumption == NULL \notin Nodes /\ Waiting \notin Nodes \cup {NULL}

Threads == Producers \cup Consumers

VARIABLES
  head, tail,        \* queue.head, queue.tail
  lock,              \* queue.lock: the thread that holds the mutex
  next,              \* node.next of every node
  allocated,         \* the nodes between their malloc and their free
  pc, qnode,         \* where each thread is, and the node it has in hand
  contents           \* history: the nodes pushed and not yet popped, in order

list == <<head, tail, next>>
vars == <<head, tail, lock, next, allocated, pc, qnode, contents>>

Goto(t, label) == pc' = [pc EXCEPT ![t] = label]

(* message_que_creat leaves the queue as malloc returns it: fresh memory,  *)
(* which is zero, so both pointers are NULL and the mutex is free.         *)
Init ==
  /\ head = NULL /\ tail = NULL /\ lock = NULL
  /\ next = [n \in Nodes |-> NULL]
  /\ allocated = {}
  /\ pc = [t \in Threads |-> "idle"]
  /\ qnode = [t \in Threads |-> NULL]
  /\ contents = <<>>

-----------------------------------------------------------------------------
(* The lock.                                                               *)

PushLabels == {"idle", "lock", "head", "tail", "link", "unlock"}
PopLabels == {"idle", "lock", "test", "take", "unlock", "done"}
Inside == {"head", "tail", "link", "test", "take", "unlock"}

Lock(t) ==
  /\ pc[t] = "lock"
  /\ lock = NULL
  /\ lock' = t
  /\ Goto(t, IF t \in Producers THEN "head" ELSE "test")
  /\ UNCHANGED <<list, allocated, qnode, contents>>

Unlock(t) ==
  /\ pc[t] = "unlock"
  /\ lock' = NULL
  /\ Goto(t, IF t \in Producers THEN "idle" ELSE "done")
  /\ qnode' = IF t \in Producers THEN [qnode EXCEPT ![t] = NULL] ELSE qnode
  /\ UNCHANGED <<list, allocated, contents>>

-----------------------------------------------------------------------------
(* queue_push, by a thread that has just made the node.                    *)

QnodeCreate(t, n) ==
  /\ pc[t] = "idle"
  /\ n \notin allocated
  /\ allocated' = allocated \cup {n}
  /\ qnode' = [qnode EXCEPT ![t] = n]
  /\ next' = [next EXCEPT ![n] = NULL]
  /\ Goto(t, "lock")
  /\ UNCHANGED <<head, tail, lock, contents>>

\* A slip: a new node becomes the head of a list that has one.
PushHead_Slip(t) ==
  /\ pc[t] = "head"
  /\ head' = qnode[t]
  /\ Goto(t, "tail")
  /\ UNCHANGED <<tail, lock, next, allocated, qnode, contents>>

PushHead(t) ==
  /\ pc[t] = "head"
  /\ head' = IF head = NULL THEN qnode[t] ELSE head
  /\ Goto(t, "tail")
  /\ UNCHANGED <<tail, lock, next, allocated, qnode, contents>>

\* The list has no last node: the new one is the whole of it.
PushFirst(t) ==
  /\ pc[t] = "tail"
  /\ tail = NULL
  /\ tail' = qnode[t]
  /\ contents' = Append(contents, qnode[t])
  /\ Goto(t, "unlock")
  /\ UNCHANGED <<head, lock, next, allocated, qnode>>

PushBehind(t) ==
  /\ pc[t] = "tail"
  /\ tail # NULL
  /\ next' = [next EXCEPT ![tail] = qnode[t]]
  /\ contents' = Append(contents, qnode[t])
  /\ Goto(t, "link")
  /\ UNCHANGED <<head, tail, lock, allocated, qnode>>

PushTail(t) ==
  /\ pc[t] = "link"
  /\ tail' = qnode[t]
  /\ Goto(t, "unlock")
  /\ UNCHANGED <<head, lock, next, allocated, qnode, contents>>

-----------------------------------------------------------------------------
(* queue_pop, and the free of the node when its message is disposed of.    *)

PopCall(t) ==
  /\ pc[t] = "idle"
  /\ Goto(t, "lock")
  /\ UNCHANGED <<list, lock, allocated, qnode, contents>>

PopNothing(t) ==
  /\ pc[t] = "test"
  /\ head = NULL
  /\ Goto(t, "unlock")
  /\ UNCHANGED <<list, lock, allocated, qnode, contents>>

PopTail(t) ==
  /\ pc[t] = "test"
  /\ head # NULL
  /\ tail' = IF head = tail THEN NULL ELSE tail
  /\ Goto(t, "take")
  /\ UNCHANGED <<head, lock, next, allocated, qnode, contents>>

\* A slip: the node at the other end is returned.
PopHead_Slip(t) ==
  /\ pc[t] = "take"
  /\ qnode' = [qnode EXCEPT ![t] = tail]
  /\ head' = next[head]
  /\ contents' = Tail(contents)
  /\ Goto(t, "unlock")
  /\ UNCHANGED <<tail, lock, next, allocated>>

PopHead(t) ==
  /\ pc[t] = "take"
  /\ qnode' = [qnode EXCEPT ![t] = head]
  /\ head' = next[head]
  /\ contents' = Tail(contents)
  /\ Goto(t, "unlock")
  /\ UNCHANGED <<tail, lock, next, allocated>>

Dispose(t) ==
  /\ pc[t] = "done"
  /\ allocated' = allocated \ {qnode[t]}
  /\ qnode' = [qnode EXCEPT ![t] = NULL]
  /\ Goto(t, "idle")
  /\ UNCHANGED <<list, lock, contents>>

-----------------------------------------------------------------------------
PushStep(t) ==
  \/ \E n \in Nodes : QnodeCreate(t, n)
  \/ PushHead(t) \/ PushFirst(t) \/ PushBehind(t) \/ PushTail(t)

PopStep(t) ==
  PopCall(t) \/ PopNothing(t) \/ PopTail(t) \/ PopHead(t) \/ Dispose(t)

Next ==
  \/ \E t \in Threads : Lock(t) \/ Unlock(t)
  \/ \E t \in Producers : PushStep(t)
  \/ \E t \in Consumers : PopStep(t)

Spec == Init /\ [][Next]_vars

-----------------------------------------------------------------------------
(* Properties.                                                             *)

TypeOK ==
  /\ head \in Nodes \cup {NULL}
  /\ tail \in Nodes \cup {NULL}
  /\ lock \in Threads \cup {NULL}
  /\ next \in [Nodes -> Nodes \cup {NULL}]
  /\ allocated \subseteq Nodes
  /\ pc \in [Threads -> PushLabels \cup PopLabels]
  /\ \A p \in Producers : pc[p] \in PushLabels
  /\ \A c \in Consumers : pc[c] \in PopLabels
  /\ qnode \in [Threads -> Nodes \cup {NULL}]
  /\ contents \in Seq(Nodes)

First == contents[1]
Last == contents[Len(contents)]
Empty == contents = <<>>
Linked == {contents[i] : i \in 1 .. Len(contents)}

(***************************************************************************)
(* Between two operations the pointers are exactly the queue: head starts  *)
(* the chain of next pointers over the queued nodes, tail is its last node *)
(* and the chain ends there, also after a node went through free and       *)
(* malloc (lock_queue.c:68-80, 97-105, qnode_create 53).                   *)
(***************************************************************************)
ListShape ==
  lock = NULL =>
    /\ head = IF Empty THEN NULL ELSE First
    /\ tail = IF Empty THEN NULL ELSE Last
    /\ \A i \in 1 .. Len(contents) - 1 : next[contents[i]] = contents[i + 1]
    /\ ~Empty => next[Last] = NULL

(***************************************************************************)
(* No pointer of the list is to memory somebody freed or holds: a queued   *)
(* node is allocated, queued once, and in no popping thread's hand, so the *)
(* free after the message is disposed of never hits the list.              *)
(***************************************************************************)
NodeHasOnePlace ==
  /\ Linked \subseteq allocated
  /\ \A i, j \in 1 .. Len(contents) : contents[i] = contents[j] => i = j
  /\ \A t \in Consumers : qnode[t] # NULL => qnode[t] \in allocated \ Linked
  /\ \A t, u \in Threads : t # u /\ qnode[t] # NULL => qnode[t] # qnode[u]

(***************************************************************************)
(* The pointers, the lock and the reuse of nodes together are a first-in   *)
(* first-out queue: what a pop returns is what was pushed first, once.     *)
(***************************************************************************)
Answer(c) == IF pc[c] \in {"lock", "test", "take"} THEN Waiting ELSE qnode[c]

Abstract == INSTANCE Fifo WITH ret <- [c \in Consumers |-> Answer(c)]

ImplementsFifo == Abstract!Spec
=============================================================================
