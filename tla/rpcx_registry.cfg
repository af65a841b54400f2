SPECIFICATION FairSpec
CONSTANTS
  Servers = {1}
  Clients = {c}
  Nil = Nil
  Timeout = 2
  Period = 2
  MaxAge = 4
  MaxFaults = 1
  Sorted <- ByNumber
INVARIANTS
  RegisteredIsListed
  DeregisteredIsGone
  NoStaleAddress
  PanicsAfterBeat
PROPERTIES
  CallsReturn
