SPECIFICATION Spec
CHECK_DEADLOCK FALSE
SYMMETRY Symmetry
CONSTANTS
  Film = {f1, f2}
  Request = {r1, r2}
  Session = {s1, s2, s3}
  Answer = {a1, a2}
  None = None
INVARIANTS
  CountsRight
  NeverOvercounts
PROPERTIES
  RefusedOnlyWhenDisturbed
