SPECIFICATION FairSpec
CONSTANTS
  c1 = c1
  c2 = c2
  c3 = c3
  Conn = {c1, c2}
  NoConn = NoConn
  FDS <- TwoFds
  LISTENFD = 3
  MAX_CLIENTS = 1
  MAX_LISTEN = 3
  MSG_COOLDOWN = 1
  NewNames <- Bob
  GarbageTimes <- LongAgo
  MaxLines = 2
  MaxNow = 1
  Slow = {}
  GarbageFds <- Stack
INVARIANTS Cooldown
PROPERTIES EveryLineRead EveryDepartureNoticed
