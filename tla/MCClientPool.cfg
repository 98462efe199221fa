\* Two workers, two slots and two descriptor numbers; epoll_ctl may fail and
\* handlers may half-close.
SPECIFICATION FairSpec
CONSTANTS
  Workers = {w1, w2}
  Fds = {f1, f2}
  ClientCap = 2
  MaxSends = 1
  EndlessPeers = FALSE
  AddMayFail = TRUE
  AppMayShutdown = TRUE
INVARIANTS Consistent OneKeeper HandlerOwnsSocket CleanStop
PROPERTIES Attended StopReturns
