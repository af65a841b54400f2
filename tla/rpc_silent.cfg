SPECIFICATION Spec
CONSTANTS
  Calls = {c1, c2}
  NoCall = NoCall
  MaxSeq = 2
  Kinds = {"good"}
  Outcomes = {"ok", "err"}
  HandleTimeout = FALSE
  Options = {"good"}
  Env = {}
INVARIANTS
  NilMeansReply
CHECK_DEADLOCK FALSE
