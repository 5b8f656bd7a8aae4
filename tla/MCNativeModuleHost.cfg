\* Two persistent wrappers and the one-shot host, sharing files.
CONSTANTS
  w1 = w1
  w2 = w2
  hosted = hosted
  plain = plain
  missing = missing
  broken = broken
  clinging = clinging
  picky = picky
  Wrappers = {w1, w2}
  OneShot = oneShot
  Owners = {owner}
  Files = {hosted, plain, missing, broken, clinging, picky}
  Module <- MCModule
  None = none
  MaxRuns = 2
  MaxCalls = 1
SPECIFICATION Spec
SYMMETRY Interchangeable
INVARIANTS TypeOK HandleBalance BoundOnlyDuringItsRun CallsReachTheRunner ResultProvenance
