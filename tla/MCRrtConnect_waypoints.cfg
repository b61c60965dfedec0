SPECIFICATION Spec
CONSTANTS
  Cfg <- GridCfg
  Dist <- GridDist
  Steer <- GridSteer
  Steps <- GridSteps
  Start <- s
  Bounds <- GridBounds
  GoalLists <- GridGoals
  BatchSize = 1
  MaxIterations = 2
INVARIANTS PathCollisionFree
CHECK_DEADLOCK FALSE
