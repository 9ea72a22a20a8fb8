SPECIFICATION CfsFairSpec
CONSTANTS
  CfsThread = {t1, t2, wb}
  WbThread = wb
  BootThread = InitTask
  IdleThread = Idle
  NoTask = NoTask
  WbHere = TRUE
  Nice0Weight = 2
  Weights = {1, 4}
  VMax = 15
  VBound = 3
  MaxDelta = 1
PROPERTIES
  WritebackRuns
