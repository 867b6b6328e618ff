SPECIFICATION Spec
CONSTANTS
  Producers = {p1, p2}
  Consumers = {c1}
  Nodes = {n1, n2, n3, n4}
  NULL = NULL
  Waiting = Waiting
INVARIANTS
  NodeHasOnePlace
PROPERTIES
  ImplementsFifo
