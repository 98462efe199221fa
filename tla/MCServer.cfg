\* Every command line of two options, slots on both sides of the page and word size.
SPECIFICATION FairSpec
CONSTANTS
  IntWidth = 32
  AddrSize = 3
  CommandLines <- TwoOptions
  PageSize = 2
  NodeSize = 3
  SizeRange = 32
  Hints = {0, 1, 2, 3, 8, 15}
  MaxConns = 3
  MaxFds = 3
  AcceptMayFail = TRUE
  ListenerMayFail = TRUE
INVARIANTS Consistent SlotsFit MemoryOutlivesThreads
PROPERTY Responds
CHECK_DEADLOCK FALSE
