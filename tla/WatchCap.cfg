SPECIFICATION Spec
CONSTANTS
  Film = {f1, f2}
  Date = {1}
  Cap = 1
  NoRow = NoRow
INVARIANTS
  TypeOK
  ActiveIsListed
  ReuploadIsHarmless
PROPERTIES
  ListsOnlyActive
  CapHolds
