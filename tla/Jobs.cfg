SPECIFICATION Spec
CONSTANTS
  Film = {f1, f2}
  Job = {j1, j2}
  Task = {t1, t2}
  Thread = {h1}
  Match = {m1}
  Finds <- FindsAny
  Review = {v1}
  Requests = {"accept", "reject", "rematch", "add", "feed", "poll", "crash"}
  None = None
SYMMETRY Symmetry
INVARIANTS
  TypeOK
  ReadyHasVector
  ReviewIsPending
  TotalIsFilms
  
PROPERTIES
  ImplementsImportJobs
CHECK_DEADLOCK FALSE
