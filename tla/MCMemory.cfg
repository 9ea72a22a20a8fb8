SPECIFICATION MCSpec
CONSTANTS
  NFrames = 10
  BootFrames <- Boot
  NoFrame = NoFrame
  Space = {s1, s2}
  Levels = 2
  Fanout = 3
  Span <- Spans
  Image <- Programs
  MmapStart = 3
  MmapMax = 6
  StackGrow = 8
  StackBase = 8
  StackTop = 9
  KStackPages = 2
  HeapMax = 1
  MaxLen = 2
  Probe <- Named
  Budget = 4
  GrowsBetween = FALSE
  Words = 36
  PageWords = 12
  InitialPages = 1
  MaxPages = 2
  Hdr = 3
  Request = {1, 4}
  TaskWords = 2
  GrowsApart = FALSE
  Nil = Nil
SYMMETRY SpaceSymmetry
INVARIANTS TypeOK UsedExact OneOwner Accounted TreeClosed
           HeapSound
PROPERTIES MmapAllOrNothing
CHECK_DEADLOCK FALSE
