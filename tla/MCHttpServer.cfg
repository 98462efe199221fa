\* Two threads, two connections: one with every kind of request, one ordinary.
SPECIFICATION FairSpec
CONSTANTS
  c1 = c1
  c2 = c2
  Conns = {c1, c2}
  Workloads <- OneOrTwo
  PageLength = 3
  RecvMax = 3
  KeepAliveMax = 2
  SizeWidth = 16
  MaxAddresses = 1
  Threads = {t1, t2}
  MaxFds = 2
  AcceptMayFail = TRUE
INVARIANTS Consistent RepliesMatch RangesHonoured ShutdownDrains
PROPERTY Served
CHECK_DEADLOCK FALSE
