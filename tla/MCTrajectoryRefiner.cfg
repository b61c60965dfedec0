SPECIFICATION Spec
CONSTANTS
  Cfg <- Lattice
  Start <- s
  Targets <- GoalLists
  Seeds <- SeedPaths
  Waypoints = 4
  MaxIterations = 2
  MaxAttempts = 2
  Postures <- LatticePostures
  Zero <- ZeroPosture
  Err <- LatticeErr
  Inf = 9
  MaxRestarts = 1
  MaxIters = 3
  StallIters = 2
  Limits <- AxisLimits
  JointBounds <- Tighter
  Moves <- SmallMoves
  Obstacles <- Environments
  Resolution = 1
  MaxSweep = 0
  Levers <- UnitLevers
INVARIANTS BestEffort KeptSeedSurvives
PROPERTY ImplementsContract
