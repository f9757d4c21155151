SPECIFICATION MCSpec
CONSTANTS
  w1 = w1
  w2 = w2
  k1 = k1
  k2 = k2
  Direct = Direct
  c1 = c1
  c2 = c2
  Callers = {c1}
  Nothing = Nothing
  Waves <- MCWaves
  Chunks <- MCChunks
  Keys <- MCKeys
  AreaSize = 4
  ArgumentSets <- MCMixedSets
  Maps <- MCMaps
INVARIANTS
  AsRegistered
