\* Two UI callbacks at a time beside background jobs.  Nobody has to click, so a session may rest.
CONSTANTS
  Callers = {c1, c2}
  Workers = {1, 2}
  Ids = {box}
  Poses = {left, right}
  Gone = Gone
  None = None
  Starts = {home, ready}
  Home = home
  MaxCalls = 3
SPECIFICATION Spec
INVARIANTS  RecordsHonest
PROPERTY ButtonsRecover
CHECK_DEADLOCK FALSE
