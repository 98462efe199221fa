\* Two workers return slots while the server thread takes them.
SPECIFICATION StackFairSpec
CONSTANTS
  Capacity = 4
  Pushers = {w1, w2}
  Poppers = {acceptor}
INVARIANTS StackConsistent Conservation
PROPERTIES ImplementsFreeList Progress
