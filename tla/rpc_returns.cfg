SPECIFICATION TimeoutSpec
CONSTANTS
  Calls = {c1, c2}
  NoCall = NoCall
  MaxSeq = 2
  Kinds = {"good", "noMethod", "unencodable"}
  Outcomes = {"ok", "unencodable"}
  HandleTimeout = TRUE
  Options = {"good"}
  Env = {"close", "cut"}
PROPERTIES
  OnTimeReturns
  ServerDrains
CHECK_DEADLOCK FALSE
