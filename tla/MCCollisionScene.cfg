\* Serial callers, mesh links only, no padding on the boolean path.
CONSTANTS
  hand = hand  arm = arm  box = box  shelf = shelf
  away = away  near = near  across = across  around = around  q = q  r = r
  Threads = {t1, t2}
  Serial = TRUE
  Links <- MCLinks
  MeshLinks <- MCLinks
  Ids = {box, shelf}
  Places = {away, near, across, around}
  Configs <- MCConfigs
  Gap <- MCGap
  Inside <- MCInside
  SelfGap <- MCSelfGap
  Options <- MCOptions
  Acms <- MCAcms
  Environments <- MCEnvironments
  MaxHandles = 2
SPECIFICATION Spec
INVARIANTS AnswersCurrent ContainmentCurrent SnapshotCurrent
SYMMETRY ThreadSymmetry
