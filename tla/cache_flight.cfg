SPECIFICATION FairSpec
CONSTANTS
  Nodes = {n1, n2}
  Keys = {k1, k2}
  Users = {u1, u2}
  Orphans = {o1}
  n1 = n1
  n2 = n2
  k1 = k1
  k2 = k2
  Replicas = 2
  NoPeer = NoPeer
  Rings <- SomeRings
  Wire <- SameOnWire
  Outcomes = {"ok", "err", "panic"}
  RemoteFails = TRUE
  Evicts = TRUE
  NoG = NoG
  NoData = NoData
  Err = Err
INVARIANTS
  OneFlightPerKey
  WaitersHaveALeader
  RightValue
  SingleHop
  SamePeersAgree
PROPERTIES
  EveryGetReturns
CHECK_DEADLOCK FALSE
