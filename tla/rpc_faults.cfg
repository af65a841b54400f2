SPECIFICATION Spec
CONSTANTS
  Calls = {c1, c2}
  NoCall = NoCall
  MaxSeq = 2
  Kinds = {"good", "noMethod", "badArgs", "unencodable"}
  Outcomes = {"ok", "err", "unencodable"}
  HandleTimeout = TRUE
  Options = {"good", "badMagic"}
  Env = {"cancel", "close", "cut", "eager"}
SYMMETRY CallSymmetry
INVARIANTS
  NoForeignReply
  BodyMatchesHeader
  AtMostOnce
CHECK_DEADLOCK FALSE
