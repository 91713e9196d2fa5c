\* Packets of 8 to 10 bytes through in_cksum at its full width, one after another in the same buffer and sent again from it, with any one byte flipped.
SPECIFICATION Spec
CONSTANTS
  MaxLen = 10
  Message <- Messages
  Before <- Buffers
  MaxSends = 3
CHECK_DEADLOCK FALSE
INVARIANTS
  PathInv
  DamageDetected
  IntactAccepted
PROPERTIES
  ImplementsDatagram
