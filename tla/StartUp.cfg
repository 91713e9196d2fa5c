\* Command lines around every limit that is checked, and every setting of the port.
SPECIFICATION Spec
CONSTANTS
  RcopyArgs <- Rcopies
  ServerArgs <- Servers
  EnvPorts <- Ports
  Unset = Unset Empty = Empty Kernel = Kernel Junk = Junk
  UintMod = 1048576
  MaxSlots = 1000
CHECK_DEADLOCK FALSE
INVARIANTS
  StartUpInv
  AcceptedFits
  WholeChunk
  SamePort
