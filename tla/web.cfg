SPECIFICATION Spec
CONSTANTS
  Pieces = {"a", "b"}
  Param = ":p"
  RoutePaths <- SomePaths
  MaxGroups = 3
  MaxUses = 3
  MaxRoutes = 1
  MaxNexts = 2
INVARIANTS
  OnceInOrder
  Guarded
  RecoveryHolds
CHECK_DEADLOCK FALSE
