\* Every stop should be answered.
SPECIFICATION PanelFairSpec
CONSTANTS
  Threads = {srv, h1}
  NoThread = none
  InitialCounts = {0}
  MaxMessages = 1
  Server = srv
PROPERTY EveryStopReturns
CHECK_DEADLOCK FALSE
