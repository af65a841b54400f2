SPECIFICATION Spec
CONSTANTS
  Calls = {c1, c2}
  NoCall = NoCall
  MaxSeq = 2
  Kinds = {"good", "unencodable"}
  Outcomes = {"ok", "err"}
  HandleTimeout = FALSE
  Options = {"good"}
  Env = {"cancel", "close", "overlap"}
SYMMETRY CallSymmetry
INVARIANTS
  IInv
  NoOrphanedCall
  DoneHasRoom
  SilentOnlyAfterBreak
PROPERTIES
  KeepsPromise
CHECK_DEADLOCK FALSE
