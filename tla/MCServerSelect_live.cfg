SPECIFICATION FairSpec
CONSTANTS
  c1 = c1
  c2 = c2
  c3 = c3
  Conn = {c1, c2}
  NoConn = NoConn
  FDS <- TwoFds
  LISTENFD = 3
  MAX_CLIENTS = 2
  MAX_LISTEN = 3
  MSG_COOLDOWN = 1
  NewNames <- NoNames
  GarbageTimes <- AnyTime
  MaxLines = 1
  MaxNow = 0
  Slow = {c1}
PROPERTIES EveryConnectionAnswered EveryLineRead EveryDepartureNoticed
