\* CPE464_OVERRIDE_ERR_FLIP with a list of datagrams.
SPECIFICATION Spec
CONSTANTS
  p1 = p1 p2 = p2
  Process = {p1, p2}
  Unset = Unset Junk = Junk
  EnvRates <- Rates
  EnvDrops <- Lists
  EnvFlips <- Lists
  error_rate = 2
  Scale = 3
  LongMod = 16
  MaxMsgs = 3
CHECK_DEADLOCK FALSE
INVARIANTS
  FlipListFlips
