SPECIFICATION MCSpec
CONSTANTS
  None = None
  NoBuf = NoBuf
  NoData = NoData
  User = {"u1", "u2"}
  Wb = "wb"
  Buf = {1, 2, 3, 4}
  Sectors = 5
  SectorsPerPage = 2
  Data = {0, 1}
  Batch = 1
  Setups <- CacheSetups
  NsRoot = NsRoot
  Volume <- Mountpoint
  DeviceOf <- OnDevice
  FsOf <- Format
  Host = "ex"
  IsoVolume = "iso"
  Inode = {1, 2, 3, 4, 5}
  FdMax = 3
  PathName <- Paths
  MaxMounts = 2
  MaxLeaks = 1
  MaxCommands = 4
INVARIANTS CacheSound TablesSound InodesSound 
PROPERTIES  UnmountLeavesCwd BootFollowsConfig ChangesAreKept
CHECK_DEADLOCK FALSE
