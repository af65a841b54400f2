SPECIFICATION FairSpec
CONSTANTS
  Callers = {u1}
  Broadcasters = {u2}
  Addrs <- TwoAddrs
  Listed <- TwoLists
  Calls <- TheirCalls
  Conns <- TwoConns
  NoConn = NoConn
  NoTask = NoTask
INVARIANTS
  NoLeakedConn
  Verdict
PROPERTIES
  UsersReturn
  ReplyIsStable
CHECK_DEADLOCK FALSE
