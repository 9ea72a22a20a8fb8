SPECIFICATION MCSpec
CONSTANTS
  b1 = b1
  b2 = b2
  c1 = c1
  c2 = c2
  None = None
  Buf <- MCBuf
  Slots = 2
  CacheSize = 1
  WaitTicks = 1
  MaxRoutes = 3
  Sockets = 2
  BackLog = 1
  MaxRetrans = 2
  MaxIss = 4
  MaxOut = 2
  MaxIn = 1
  MaxRcv = 3
  NoIss = None
  RxRing = 3
  TxRing = 2
  Sender <- MCSender
  MaxFrames = 3
  MaxLinks = 1
  Nil = Nil
  MaxQueries = 2
  Name <- MCName
  Address <- MCAddress
  NameTimeout = 1
  Resends = 1
  Req = {"r"}
  Echoes = 2
  EchoTimeout = 2
  Width = 4
  MaxPings = 3
  Client <- MCClient
  Xid = {1, 2}
  Ip = {"i"}
  Lease = {8}
  Again = 1
  RxBufLen = 32
  Bias = 16
  Scratch = 6
  Lengths = {6, 9, 12}
  TxSlots = 2
INVARIANTS CheckedIsLive
CHECK_DEADLOCK FALSE
