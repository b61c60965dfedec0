SPECIFICATION Spec
CONSTANTS
  Scenes <- MCScenes
  MaxVoxels = 1000
INVARIANTS SeedsExact WithinTolerance SignsRight
