SPECIFICATION Spec
CONSTANTS
  MaxSize = 6
  BatchSize = 2
  MaxIterations = 3
  HasTimeBudget = TRUE
INVARIANTS SegmentsSound EndpointsKept WorkBounded
PROPERTIES ImplementsContract
CHECK_DEADLOCK FALSE
