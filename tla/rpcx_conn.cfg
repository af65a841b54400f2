SPECIFICATION RpcxFairSpec
CONSTANTS
  Calls = {c1, c2}
  NoCall = NoCall
  MaxSeq = 2
  Kinds = {"good", "noMethod", "unencodable"}
  Outcomes = {"ok", "err", "unencodable"}
  HandleTimeout = FALSE
  Options = {}
  Env = {"close", "cut"}
INVARIANTS
  BodyMatchesHeader
PROPERTIES
  LateReturnsAfterClose
  ServerEnds
CHECK_DEADLOCK FALSE
