CONSTANTS
  MaxChanges = 4
  ExfatName = {"d", "long"}
  NoFile = NoFile
  Handle = {h}
INIT MCInit
NEXT MCNext
INVARIANTS FatConsistent ExfatConsistent
CHECK_DEADLOCK FALSE
