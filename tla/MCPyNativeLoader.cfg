SPECIFICATION Spec
CONSTANTS
  Loaders = {l1, l2}
  Files <- MCFiles
  Module <- MCModule
  None = None
  MaxThunks = 3
  MaxRuns = 1
SYMMETRY LoaderSymmetry
INVARIANTS BoundThunkIsHeld
PROPERTIES AnsweredByTheRunner NeverAnsweredByOlder
