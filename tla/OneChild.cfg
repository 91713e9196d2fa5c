\* One child serves the upload of three chunks through a window of two.
SPECIFICATION FairSpec
CONSTANTS
  d1 = d1 d2 = d2 d3 = d3 d4 = d4
  Child = {k1}
  Main = Main
  QueueCap = 3
  MaxFaults = 1
  Duplicate = TRUE
  Reorder = FALSE
  LocalFile <- File3
  WinSize = 2
  MaxTimeouts = 1
  WordMod = 16
  DiskMayFail = TRUE
  IndexMod = 256
  FreedMayAbort = TRUE
  Timely = FALSE
INVARIANTS
  IInv
  Integrity
  AckedMeansComplete
  SrejCurrent
  SrejNumSet
  OrderInv
  WindowOnDisk
  LatestKept
PROPERTIES
  WindowSlidesForward
  ClientStops
  ChildrenStop
