SPECIFICATION Spec
CONSTANTS
  Cfg <- GridCfg
  Dist <- GridDist
  Samples <- GridSamples
  KNeighbors = 1
  Radius = 6
  MayCollide <- GridMayCollide
  MayBlock <- GridMayBlock
  Start <- s
  GoalLists <- GridGoals
  Smooth = TRUE
INVARIANTS ComponentsRight CostsExact ShortestFound SearchComplete DiagnosisRight
PROPERTIES ImplementsContract
CHECK_DEADLOCK FALSE
