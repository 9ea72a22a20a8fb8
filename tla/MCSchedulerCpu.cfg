SPECIFICATION MCSpec
CONSTANTS
  idle0 = idle0
  idle1 = idle1
  t1 = t1
  t2 = t2
  wb = wb
  Cpu <- MCCpu
  Bsp = 0
  Thread = {t1, t2}
  InitTask = InitTask
  Idle <- MCIdle
  Starters = {InitTask}
  Sleepers = {t1}
  None = None
  BootCount = 1
  BootLoad = 0
  CfsThread <- MCCfsThread
  WbThread = wb
  BootThread = InitTask
  IdleThread = idle0
  NoTask = None
  WbHere = FALSE
  Nice0Weight = 2
  Weights <- MCWeights
  VMax = 15
  VBound = 3
  MaxDelta = 1
  TickCpu <- MCCpu
  NoCpu = 2
  TickHz = 2
  Sub <- MCSub
  Interval <- MCInterval
  TsrMax = 2
  MaxTicks = 4
  MaxChanges = 2
  SmpCpu <- MCSmpCpu
  BootCpu = 0
INVARIANTS
  CpuFollowsTask
