SPECIFICATION Spec
CONSTANTS
  Film = {f1, f2}
  Request = {r1, r2}
  Entry = {e1, e2}
  Row = {w1, w2, w3}
  Cap = 1
  None = None
SYMMETRY Symmetry
PROPERTIES
  DeletesOnlyDrafts
