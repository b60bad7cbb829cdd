SPECIFICATION Spec
CONSTANTS
  x = x
  y = y
  u = u
  v = v
  w = w
  None = None
  Unknown = Unknown
  Missing = Missing
  Address = {u, v}
  MaxFilms = 1
  Weight <- MCWeight
  Comparisons <- MCComparisons
  Matchings <- MCMatchings
  Readings <- MCReadings
  Title = {x, y}
  Rating = {6, 8}
  Day = {1, 2}
  DefaultDay = 0
  Invalid = Invalid
  Word = {w}
  Empty = Empty
  NoPreference = NoPreference
  Omitted = Omitted
  Mergings <- MCMergings
  Sharings <- MCSharings
INVARIANTS
  CloserScoresHigher
  FreshFilmsLead
  DoubtIsAsked
  FirstRowsKept
  EachWatchIsPlanned
  ProfileIsOwn
CHECK_DEADLOCK FALSE
