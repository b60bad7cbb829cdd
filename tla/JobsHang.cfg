SPECIFICATION FairSpec
CONSTANTS
  Film = {f1}
  Job = {j1}
  Task = {t1}
  Thread = {h1}
  Match = {m1}
  Finds <- FindsAny
  Review = {v1}
  Requests = {"feed", "poll"}
  None = None
PROPERTIES
  Settles
CHECK_DEADLOCK FALSE
