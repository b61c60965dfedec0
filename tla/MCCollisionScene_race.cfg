\* Two threads query one scene at once.
CONSTANTS
  hand = hand  arm = arm  box = box  shelf = shelf
  away = away  near = near  across = across  around = around  q = q  r = r
  Threads = {t1, t2}
  Serial = FALSE
  Links <- MCLinks
  MeshLinks <- MCLinks
  Ids = {box, shelf}
  Places = {away, near, across, around}
  Configs <- MCConfigs
  Gap <- MCGap
  Inside <- MCInside
  SelfGap <- MCSelfGap
  Options <- OnlyBoolean
  Acms <- NoAcm
  Environments <- MCEnvironments
  MaxHandles = 1
SPECIFICATION Spec
INVARIANT AnswersCurrent
