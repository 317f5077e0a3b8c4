SPECIFICATION Spec
CONSTANTS
  L = 3
  D = 3
  Indices <- MCIndices
INVARIANTS ResidualIsLargest BurstsRecovered HonestGraded
