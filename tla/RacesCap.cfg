SPECIFICATION Spec
CONSTANTS
  Film = {f1, f2, f3}
  Request = {r1, r2}
  Entry = {e1}
  Row = {w1}
  Cap = 1
  None = None
SYMMETRY Symmetry
INVARIANT OvershootBounded
