----------------------------- MODULE ImportJobs -----------------------------
(***************************************************************************)
(* What an import promises, whatever does the work.  It takes new films    *)
(* and failed ones, and they are its own until a later import takes them.  *)
(* Each film gets out of the queue in its own time, in any order and more  *)
(* than once.  A job is complete once and for all, and is declared so only *)
(* if every film that was its own was through: then and there, or when     *)
(* somebody last looked, who may also give up before saying so.            *)
(* Enrichment implements this module.                                      *)
(***************************************************************************)
CONSTANTS Film, Job, None

VARIABLES
  stage,  \* how far a film has come
  batch,  \* the job a film belongs to
  done    \* what is said of a job

promised == <<stage, batch, done>>

Init ==
  /\ stage = [f \in Film |-> "absent"]
  /\ batch = [f \in Film |-> None]
  /\ done = [j \in Job |-> "none"]

Done == {"none", "running", "found", "complete"}

\* the films of a job are through
Through(j) == \A f \in Film : batch'[f] = j => stage'[f] \in {"ready", "failed"}

\* a job goes on as it is, or its films are seen to be through
Rightly(j) ==
  \/ done'[j] = done[j]
  \/ /\ done[j] = "running"
     /\ done'[j] \in {"found", "complete"}
     /\ Through(j)
  \/ /\ done[j] = "found"
     /\ done'[j] \in {"running", "complete"}

\* a new job takes films, which may be the last another job waited for
Import(j, films) ==
  /\ done[j] = "none"
  /\ \A f \in films : stage[f] \in {"absent", "failed"}
  /\ stage' = [f \in Film |-> IF f \in films THEN "queued" ELSE stage[f]]
  /\ batch' = [f \in Film |-> IF f \in films THEN j ELSE batch[f]]
  /\ done' \in [Job -> Done]
  /\ done'[j] = "running"
  /\ \A i \in Job \ {j} : Rightly(i)

\* A new film is queued first, and only one that is queued is found to need
\* a review.  No film vanishes.
Moves(from, to) ==
  /\ to \in {"queued", "review_required", "ready", "failed"}
  /\ from = "absent" => to = "queued"
  /\ to = "review_required" => from = "queued"

Advance ==
  /\ \/ stage' = stage
     \/ \E f \in Film : /\ Moves(stage[f], stage'[f])
                        /\ stage' = [stage EXCEPT ![f] = stage'[f]]
  /\ batch' = batch
  /\ done' \in [Job -> Done]
  /\ \A j \in Job : Rightly(j)

Next == Advance \/ \E j \in Job, films \in SUBSET Film : Import(j, films)

Spec == Init /\ [][Next]_promised
=============================================================================
