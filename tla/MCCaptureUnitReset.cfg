CONSTANTS
  w1 = w1
  w2 = w2
  p1 = p1
  p2 = p2
  bad = bad
  Workers <- MCWorkers
  Params <- MCParams
  Valid <- MCValid
  Default = p1
  MaxCaptures = 3
SPECIFICATION Spec
INVARIANTS
  DoneMeansSaved
