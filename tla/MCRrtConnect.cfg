SPECIFICATION Spec
CONSTANTS
  Cfg <- GridCfg
  Dist <- GridDist
  Steer <- GridSteer
  Steps <- GridSteps
  Start <- s
  Bounds <- GridBounds
  GoalLists <- GridGoals
  BatchSize = 2
  MaxIterations = 3
INVARIANTS TypeOK ParentsPrecedeChildren CollidingNodesAreLeaves PathSound FailureJustified
PROPERTIES ImplementsContract
CHECK_DEADLOCK FALSE
