SPECIFICATION MCSpec
CONSTANTS
  u1 = u1
  UserTask <- Users
  InitTask = InitTask
  KConsoleOut = KConsoleOut
  h1 = h1
  h2 = h2
  Handle <- Handles
  Path <- Paths
  MaxRootRefs = 5
  NoObj = NoObj
  NoByte = NoByte
  STDIO_RING_SIZE = 3
  STDIO_MSG_MAX = 2
  OutBuf = 2
  MaxBytes = 4
  BASECON_KEY_QUEUE_SIZE = 4
  MaxKeys = 7
  NoKey = NoKey
SYMMETRY Symmetry
INVARIANTS TypeOK RefsExact NoDangling AccessWithinObject BytesOnceInOrder KeysSound ScreenSound
CHECK_DEADLOCK FALSE
