SPECIFICATION KeysFairSpec
CONSTANTS
  BASECON_KEY_QUEUE_SIZE = 4
  MaxKeys = 4
  NoKey = NoKey
PROPERTIES
  KeyReachesConsole
CHECK_DEADLOCK FALSE
