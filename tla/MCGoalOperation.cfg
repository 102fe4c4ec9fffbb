SPECIFICATION Spec
CONSTANTS
  g1 = g1
  g2 = g2
  t1 = t1
  t2 = t2
  Nobody = Nobody
  Goals <- TwoGoals
  Starters <- TwoStarters
  MaxTurns = 2
  MaxEvents = 4

INVARIANTS
  TypeOK
  OneStarter
  RouteFollowsOperation
  OneLogicalTurn
  TurnNotSwallowed
  CancelStops
  ConsumerNotStranded
SYMMETRY AnyCaller
CHECK_DEADLOCK FALSE
