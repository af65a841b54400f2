SPECIFICATION Spec
CONSTANTS
  Calls = {c1, c2}
  NoCall = NoCall
  MaxSeq = 2
  Kinds = {"good", "noMethod"}
  Outcomes = {"ok"}
  HandleTimeout = FALSE
  Options = {"good"}
  Env = {"overlap"}
INVARIANTS
  OwnArguments
CHECK_DEADLOCK FALSE
