SPECIFICATION FairSpec
CONSTANTS
  Servers = {1}
  Timeout = 4
  Period = 1
  Delay = 1
  MaxAge = 6
  MaxFaults = 1
  Users = {u1, u2}
  UpdateTimeout = 2
  Wheel = 2
  Sorted <- ByNumber
INVARIANTS
  AliveAreListed
  DeadAreForgotten
PROPERTIES
  ComesBack
  GetReturns
