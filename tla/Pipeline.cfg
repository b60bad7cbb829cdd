SPECIFICATION Spec
CHECK_DEADLOCK FALSE
SYMMETRY Symmetry
CONSTANTS
  Film = {f1, f2, f3, f4}
  Catalog <- MCCatalog
  MinCandidates = 2
  Limit = 3
  ShortlistSize = 3
  MaxRunners = 2
  Attempts = 2
  None = None
INVARIANTS
  TypeOK
  RecordedConstraintsHold
  RelaxedOnlyWhenScarce
  BestAreShortlisted
  EachStoredOnce
  DetailIsComplete
