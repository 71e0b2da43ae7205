CONSTANTS
  Workers = {w1, w2}
  Budgets = {1, 2, 3}
  MaxEvidence = 2
SPECIFICATION Spec
INVARIANT ExhaustionIsRecorded

