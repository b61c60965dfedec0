SPECIFICATION Spec
CONSTANTS
  Inputs <- MCInputs
  Bulges <- MCBulges
  MaxDepth = 5
INVARIANTS SweepBounded CurveSampled StaysOnPolyline
