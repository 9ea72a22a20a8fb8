CONSTANTS
  MaxChanges = 4
  ExfatName = {"d", "e"}
  NoFile = NoFile
  Handle = {h}
INIT MCInit
NEXT MCNext
PROPERTY UnlinkLeavesOthers
CHECK_DEADLOCK FALSE
