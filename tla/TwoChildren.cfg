\* A retry of the file name forks a second child on the same file.
SPECIFICATION Spec
CONSTANTS
  d1 = d1 d2 = d2 d3 = d3 d4 = d4
  Child = {k1, k2}
  Main = Main
  QueueCap = 1
  MaxFaults = 1
  Duplicate = TRUE
  Reorder = FALSE
  LocalFile <- File2
  WinSize = 2
  MaxTimeouts = 1
  WordMod = 16
  DiskMayFail = FALSE
  IndexMod = 256
  FreedMayAbort = TRUE
  Timely = FALSE
SYMMETRY ChildSymmetry
INVARIANTS
  NoForeignChunk
