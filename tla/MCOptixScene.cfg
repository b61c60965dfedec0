SPECIFICATION Spec
CONSTANTS
  Links <- LinkNames
  Geoms <- RayCounts
  Objects <- Environment
  Configs <- MCConfigs
  Worlds <- MCWorlds
  Acms <- MCAcms
  Batches <- MCBatches
  MaxThreads = 4
  Cull = TRUE
  MaxQueries = 2
CHECK_DEADLOCK FALSE
INVARIANTS TypeOK AnswersRight LaunchesReadOwnPoses
PROPERTY QueriesEnd
