\* Five workers; two threads call run() and stop() in any order, and epoll_wait
\* may fail.  A stopped pool over too many stale bytes is not run again.
SPECIFICATION FairSpec
CONSTANTS
  Workers = {w1, w2, w3, w4, w5}
  Callers = {c1, c2}
  NoCaller = none
  SizeMax = 7
  MaxStale = 2
INVARIANTS Consistent OneBaton
PROPERTIES ImplementsThreadGroup StopReturns
CHECK_DEADLOCK FALSE
