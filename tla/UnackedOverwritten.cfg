\* A duplicated RR makes send_data overwrite an unacknowledged packet of the window.
SPECIFICATION Spec
CONSTANTS
  d1 = d1 d2 = d2 d3 = d3 d4 = d4
  Child = {k1}
  Main = Main
  QueueCap = 3
  MaxFaults = 1
  Duplicate = TRUE
  Reorder = FALSE
  LocalFile <- File4
  WinSize = 2
  MaxTimeouts = 1
  WordMod = 16
  DiskMayFail = FALSE
  IndexMod = 256
  FreedMayAbort = FALSE
  Timely = FALSE
INVARIANTS
  LowestResendable
