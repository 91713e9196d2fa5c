\* A file of one chunk, a window of two, no fault and timely answers.
SPECIFICATION Spec
CONSTANTS
  d1 = d1 d2 = d2 d3 = d3 d4 = d4
  Child = {k1}
  Main = Main
  QueueCap = 3
  MaxFaults = 0
  Duplicate = FALSE
  Reorder = FALSE
  LocalFile <- File1
  WinSize = 2
  MaxTimeouts = 1
  WordMod = 16
  DiskMayFail = FALSE
  IndexMod = 256
  FreedMayAbort = FALSE
  Timely = TRUE
INVARIANTS
  EndsOnTimeoutOrAck
