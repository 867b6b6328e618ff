-------------------------------- MODULE Fifo --------------------------------
(* What the queues between the services promise to the threads that share  *)
(* them: a node pushed once is popped once, by one caller, in the order of *)
(* the pushes, and a pop answers NULL only when nothing is queued.         *)
EXTENDS Sequences

CONSTANTS Consumers, Nodes, NULL,
          Waiting                 \* a caller of queue_pop has no answer yet

VARIABLES contents, ret

vars == <<contents, ret>>

Queued == {contents[i] : i \in DOMAIN contents}

Init ==
  /\ contents = <<>>
  /\ ret = [c \in Consumers |-> NULL]

Push(n) ==
  /\ n \notin Queued
  /\ contents' = Append(contents, n)
  /\ UNCHANGED ret

Call(c) ==
  /\ ret[c] # Waiting
  /\ ret' = [ret EXCEPT ![c] = Waiting]
  /\ UNCHANGED contents

PopNode(c) ==
  /\ ret[c] = Waiting
  /\ contents # <<>>
  /\ ret' = [ret EXCEPT ![c] = Head(contents)]
  /\ contents' = Tail(contents)

PopEmpty(c) ==
  /\ ret[c] = Waiting
  /\ contents = <<>>
  /\ ret' = [ret EXCEPT ![c] = NULL]
  /\ UNCHANGED contents

\* A caller is done with its answer.
Drop(c) ==
  /\ ret[c] # Waiting
  /\ ret' = [ret EXCEPT ![c] = NULL]
  /\ UNCHANGED contents

Next ==
  \/ \E n \in Nodes : Push(n)
  \/ \E c \in Consumers : Call(c) \/ PopNode(c) \/ PopEmpty(c) \/ Drop(c)

Spec == Init /\ [][Next]_vars
=============================================================================
