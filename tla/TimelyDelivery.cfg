\* Answers arrive before a select times out and at most two packets of a window of three are lost or garbled.
SPECIFICATION FairSpec
CONSTANTS
  d1 = d1 d2 = d2 d3 = d3 d4 = d4
  Child = {k1, k2, k3}
  Main = Main
  QueueCap = 3
  MaxFaults = 2
  Duplicate = FALSE
  Reorder = FALSE
  LocalFile <- File4
  WinSize = 3
  MaxTimeouts = 2
  WordMod = 16
  DiskMayFail = FALSE
  IndexMod = 256
  FreedMayAbort = FALSE
  Timely = TRUE
INVARIANTS
  CleanPathOneChild
  CleanServed
  CleanPathSucceeds
  CleanTransfer
  CleanPathResendable
PROPERTIES
  Delivered
