\* Two workers talk to the echo over connections that may break at any time.
SPECIFICATION FairSpec
CONSTANTS
  Workers = {w1, w2}
  MsgLen = 3
  SndBuf = 3
  IntLimit = 4
  ConnMayFail = TRUE
  MaxRounds = 2
  NoWorker = none
INVARIANTS Consistent StreamIntact
PROPERTIES Responds ConversationLasts
