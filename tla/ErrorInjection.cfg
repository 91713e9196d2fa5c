\* Every setting of the three variables, two children of one server, three datagrams each and all random draws.
SPECIFICATION Spec
CONSTANTS
  p1 = p1 p2 = p2
  Process = {p1, p2}
  Unset = Unset Junk = Junk
  EnvRates <- Rates
  EnvDrops <- Lists
  EnvFlips <- Lists
  error_rate = 2
  Scale = 3
  LongMod = 16
  MaxMsgs = 3
CHECK_DEADLOCK FALSE
INVARIANTS
  InjectInv
  DropListDecides
  FirstSpared
  EnvironmentWins
  SameErrors
  SentIsCounted
