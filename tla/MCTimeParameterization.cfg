SPECIFICATION Spec
CONSTANTS
  Problems <- MCProblems
  BetaCap = 4
  PassBudgets <- MCPassBudgets
  MaxDenominator = 4
INVARIANTS RowsHold AlwaysSolved JerkCertified Fastest
