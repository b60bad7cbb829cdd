SPECIFICATION FairSpec
CONSTANTS
  Film = {f1, f2}
  Job = {j1, j2}
  Task = {t1, t2}
  Thread = {h1}
  Match = {m1, m2}
  Finds <- FindsOwn
  Review = {v1}
  Requests = {"reject", "poll"}
  None = None
PROPERTIES
  Settles
  JobsComplete
CHECK_DEADLOCK FALSE
