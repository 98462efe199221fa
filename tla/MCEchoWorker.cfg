\* The eight handlers of the control panel start and stop the server, whose
\* counter starts at zero or at what the memory held.  A stop that comes too
\* early joins a thread that never ends: the panel may halt.
SPECIFICATION PanelFairSpec
CONSTANTS
  Threads = {srv, h1, h2, h3, h4, h5, h6, h7, h8}
  NoThread = none
  InitialCounts = {0, 1, 2}
  MaxMessages = 2
  Server = srv
INVARIANTS PanelConsistent MessageHasReader
PROPERTIES ImplementsThreadGroup PanelResponds
CHECK_DEADLOCK FALSE
