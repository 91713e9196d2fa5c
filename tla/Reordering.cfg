\* One child, and paths that also deliver out of order.
SPECIFICATION Spec
CONSTANTS
  d1 = d1 d2 = d2 d3 = d3 d4 = d4
  Child = {k1}
  Main = Main
  QueueCap = 2
  MaxFaults = 1
  Duplicate = TRUE
  Reorder = TRUE
  LocalFile <- File3
  WinSize = 2
  MaxTimeouts = 1
  WordMod = 16
  DiskMayFail = FALSE
  IndexMod = 256
  FreedMayAbort = TRUE
  Timely = FALSE
INVARIANTS
  Integrity
  EofOnlyWhenComplete
PROPERTIES
  ImplementsFileCopy
