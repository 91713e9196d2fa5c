\* Several clients at the main port, up to three uploads at a time, in a process table with three entries.
SPECIFICATION FairSpec
CONSTANTS
  s1 = s1 s2 = s2 s3 = s3
  Slot = {s1, s2, s3}
  MaxAlive = 3
  MaxPackets = 6
CHECK_DEADLOCK FALSE
INVARIANTS
  MainInv
  ExitsOnlyWhenFull
PROPERTIES
  EndedIsReaped
