----------------------------- MODULE Enrichment -----------------------------
(***************************************************************************)
(* Import jobs and the enrichment of films.  One event loop runs every     *)
(* coroutine: the import workers, the pipelines that follow an accepted    *)
(* review, a rematch or a manual add, and the requests themselves.  A      *)
(* coroutine gives way only where it awaits a provider; its database calls *)
(* block the thread.  A transaction left open across an await keeps the    *)
(* rows it wrote locked, so a coroutine that writes one of them blocks the *)
(* loop on a lock whose holder needs the loop to go on: everything hangs   *)
(* until the process is restarted, and a restart resumes nothing.          *)
(*                                                                         *)
(* Between two awaits a coroutine runs alone: that is one action here.     *)
(* A film's commit and the update of the job's counters that follows it    *)
(* without an await are one action.  Polls of a job and rejections of a    *)
(* review run in threads beside the loop, and commit while a coroutine     *)
(* waits or another thread is half done: each of their reads and commits   *)
(* is an action.  What they commit while a coroutine runs, it might as     *)
(* well have met before or after: it counts films, and a row that fails    *)
(* its CHECK meanwhile is rolled back.                                     *)
(***************************************************************************)
EXTENDS Integers, FiniteSets

CONSTANTS
  Film,
  Job,
  Task,       \* coroutines that may be under way at the same time
  Thread,     \* requests that may be under way in worker threads
  Match,      \* TMDB films a film may be matched to
  Finds,      \* those that the search for a film brings
  Review,     \* metadata_match_reviews rows of a film
  Requests,   \* what happens besides imports
  None

ASSUME FilmAssumption == IsFiniteSet(Film)
ASSUME NoneAssumption == None \notin Film \cup Job \cup Match \cup Review \cup Nat
ASSUME FindsAssumption == Finds \in [Film -> SUBSET Match]
ASSUME RequestsAssumption ==
  Requests \subseteq {"accept", "reject", "rematch", "add", "feed", "poll", "crash"}

VARIABLES
  film,     \* the committed rows of each film
  job,      \* import_jobs
  task,     \* the coroutines
  thread,   \* the requests in worker threads
  hung      \* the loop waits for a lock that a coroutine holds

vars == <<film, job, task, thread, hung>>

Status == {"absent", "pending", "review_required", "enriching", "ready", "failed"}

\* meta: the match its metadata row was written from; vector: the match its
\* embedding was computed from
FilmRows ==
  [status: Status, job: Job \cup {None}, meta: Match \cup {None},
   vector: Match \cup {None},
   reviews: [Review -> {"none", "pending", "accepted", "rejected"}]]

\* the row of a job that is yet to come has the status "none"
JobRow ==
  [status: {"none", "running", "complete"}, total: Nat, processed: Nat]

\* todo: a worker's films still to come; fresh: the film row is written and
\* not committed; source: the match the pipeline works from; review: the one
\* to be accepted, or the one a worker has written and not committed
Coroutine ==
  [kind: {"none", "worker", "accept", "rematch", "add", "pipeline"},
   at: {"idle", "between", "asking", "matching", "queued", "describing",
        "embedding"},
   film: Film \cup {None}, job: Job \cup {None}, todo: SUBSET Film,
   fresh: BOOLEAN, source: Match \cup {None}, review: Review \cup {None}]

\* A rejection has checked a review or committed its end; then, as a poll
\* from the start, it has read the row of a job and counted the job's films.
\* processed: what it has read, then what it has to write, if that differs;
\* completes: the job was running, then it is done
WorkerThread ==
  [at: {"idle", "checked", "rejected", "read", "counted"},
   film: Film \cup {None}, review: Review \cup {None}, job: Job \cup {None},
   total: Nat, processed: Nat \cup {None}, completes: BOOLEAN]

TypeOK ==
  /\ film \in [Film -> FilmRows]
  /\ job \in [Job -> JobRow]
  /\ task \in [Task -> Coroutine]
  /\ thread \in [Thread -> WorkerThread]
  /\ hung \in BOOLEAN

Idle ==
  [kind |-> "none", at |-> "idle", film |-> None, job |-> None, todo |-> {},
   fresh |-> FALSE, source |-> None, review |-> None]

Unused ==
  [at |-> "idle", film |-> None, review |-> None, job |-> None,
   total |-> 0, processed |-> 0, completes |-> FALSE]

Init ==
  /\ film = [f \in Film |->
       [status |-> "absent", job |-> None, meta |-> None, vector |-> None,
        reviews |-> [r \in Review |-> "none"]]]
  /\ job = [j \in Job |-> [status |-> "none", total |-> 0, processed |-> 0]]
  /\ task = [t \in Task |-> Idle]
  /\ thread = [h \in Thread |-> Unused]
  /\ hung = FALSE

-----------------------------------------------------------------------------
(* Locks and counters.                                                     *)

\* another coroutine has written the film's row and awaits a provider
Locked(t, f) == \E q \in Task \ {t} : task[q].film = f /\ task[q].fresh

\* another coroutine has written the film's semantic profile and awaits its
\* embedding
ProfileLocked(t, f) ==
  \E q \in Task \ {t} : task[q].film = f /\ task[q].at = "embedding"

\* A worker that has matched a film has written the film's metadata: both
\* the match and the one it had stay taken in the unique indexes of
\* film_metadata until its commit, and whoever writes one of them waits.
Held(t, m) ==
  \E q \in Task \ {t} :
    /\ task[q].fresh
    /\ task[q].source # None
    /\ m \in {task[q].source, film[task[q].film].meta}

\* another film has the match: IntegrityError
Taken(t, m) == \E g \in Film \ {task[t].film} : film[g].meta = m

Hang == hung' = TRUE /\ UNCHANGED <<film, job, task, thread>>

FilmsOf(j, films) == {f \in Film : films[f].job = j}

\* count_by_import_job_status: a film waiting for a review is not processed
Processed(j, films) ==
  Cardinality({f \in FilmsOf(j, films) : films[f].status \in {"ready", "failed"}})

\* a job's row with p films processed; mark_complete, if it is done
Counted(row, p, done) ==
  [row EXCEPT !.processed = p, !.status = IF done THEN "complete" ELSE @]

\* sync_import_job_progress, with the films as they are after the step
Synced(j, films) ==
  IF j = None THEN job
  ELSE LET p == Processed(j, films) IN
       [job EXCEPT ![j] = Counted(@, p, @.total > 0 /\ p >= @.total)]

Free(t) == ~hung /\ task[t].at = "idle"
At(t, at) == ~hung /\ task[t].at = at

-----------------------------------------------------------------------------
(* create_import: new films and failed ones go to the new job; the jobs    *)
(* that lose films are counted again.                                      *)

\* mistake: a job that loses films keeps its total
Recounted_KeepsTotal(i, films) ==
  [job[i] EXCEPT !.processed = Processed(i, films)]

\* mistake: the number of processed films is not written back
Recounted_TotalOnly(i, films) ==
  [job[i] EXCEPT !.total = Cardinality(FilmsOf(i, films))]

\* mistake: the total is left out of what is written back
Recounted_NoTotal(i, films) ==
  [status |-> job[i].status, processed |-> Processed(i, films)]

Recounted(i, films) ==
  LET total == Cardinality(FilmsOf(i, films))
      p     == Processed(i, films)
  IN  Counted([job[i] EXCEPT !.total = total], p, p >= total)

Import(t, j) ==
  /\ Free(t)
  /\ job[j].status = "none"
  /\ \E rows \in SUBSET Film \ {{}} :
       LET queued == {f \in rows : film[f].status \in {"absent", "failed"}}
           films  == [f \in Film |->
                        IF f \in queued
                        THEN [film[f] EXCEPT !.status = "pending", !.job = j]
                        ELSE film[f]]
       IN  IF \E f \in queued : Locked(t, f) THEN Hang
           ELSE /\ film' = films
                /\ job' = [i \in Job |->
                     IF i = j
                     THEN [status |-> "running", total |-> Cardinality(queued),
                           processed |-> 0]
                     ELSE IF \E f \in queued : film[f].job = i
                     THEN Recounted(i, films)
                     ELSE job[i]]
                /\ task' = [task EXCEPT ![t] =
                     [Idle EXCEPT !.kind = "worker", !.at = "between",
                                  !.job = j, !.todo = queued]]
                /\ UNCHANGED <<thread, hung>>

(* The worker takes its films one by one; what it takes up it reads again. *)

TakeFilm(t) ==
  /\ At(t, "between")
  /\ \E f \in task[t].todo :
       CASE film[f].status = "pending" /\ Locked(t, f) -> Hang
         [] film[f].status = "pending" /\ ~Locked(t, f) ->
              /\ task' = [task EXCEPT ![t].at = "matching", ![t].film = f,
                                      ![t].fresh = TRUE]
              /\ UNCHANGED <<film, job, thread, hung>>
         [] film[f].status = "enriching" ->
              /\ task' = [task EXCEPT ![t].at = "describing", ![t].film = f,
                                      ![t].source = film[f].meta]
              /\ UNCHANGED <<film, job, thread, hung>>
         [] OTHER ->
              /\ task' = [task EXCEPT ![t].todo = @ \ {f}]
              /\ UNCHANGED <<film, job, thread, hung>>

\* mistake: a job whose worker ends is complete, whatever became of its films
FinishJob_Always(t) ==
  /\ At(t, "between")
  /\ task[t].todo = {}
  /\ job' = [job EXCEPT ![task[t].job].status = "complete"]
  /\ task' = [task EXCEPT ![t] = Idle]
  /\ UNCHANGED <<film, thread, hung>>

\* mistake: the worker ends when one of its films is through
FinishJob_Early(t) ==
  /\ At(t, "between")
  /\ \E f \in FilmsOf(task[t].job, film) : film[f].status # "pending"
  /\ task' = [task EXCEPT ![t] = Idle]
  /\ UNCHANGED <<film, job, thread, hung>>

FinishJob(t) ==
  LET j == task[t].job IN
  /\ At(t, "between")
  /\ task[t].todo = {}
  /\ job' = [job EXCEPT ![j] =
       Counted(@, @.processed, Processed(j, film) >= @.total)]
  /\ task' = [task EXCEPT ![t] = Idle]
  /\ UNCHANGED <<film, thread, hung>>

-----------------------------------------------------------------------------
(* The commit at the end of a film, by a worker or a pipeline.             *)

Ended(t) ==
  IF task[t].kind = "worker"
  THEN [Idle EXCEPT !.kind = "worker", !.at = "between", !.job = task[t].job,
                    !.todo = task[t].todo \ {task[t].film}]
  ELSE Idle

\* the row as the session would commit it: what enrich_film wrote, first
Uncommitted(t) ==
  LET f == task[t].film
      r == task[t].review
      s == IF task[t].fresh THEN [film[f] EXCEPT !.meta = task[t].source]
           ELSE film[f]
  IN  IF r = None THEN s ELSE [s EXCEPT !.reviews[r] = "pending"]

\* a worker counts its own job again, a pipeline the job the film is in
Settle(t, row) ==
  LET f     == task[t].film
      films == [film EXCEPT ![f] = row]
      j     == IF task[t].kind = "worker" THEN task[t].job ELSE film[f].job
  IN  IF Locked(t, f) THEN Hang
      ELSE /\ film' = films
           /\ job' = Synced(j, films)
           /\ task' = [task EXCEPT ![t] = Ended(t)]
           /\ UNCHANGED <<thread, hung>>

\* a row of metadata_match_reviews that is free to stand for a new one
FreeReview(f) ==
  {r \in Review : /\ film[f].reviews[r] # "pending"
                  /\ \A q \in Task : task[q].film = f => task[q].review # r
                  /\ \A h \in Thread : thread[h].film = f => thread[h].review # r}

(* enrich_film, once TMDB has answered: no match or that of another film,  *)
(* an unsure match, a match that is accepted, or accepted and flagged for  *)
(* review.                                                                 *)

\* mistake: an unsure match is sent to review without a review
Matched_NoReview(t) ==
  LET f == task[t].film IN
  /\ At(t, "matching")
  /\ task[t].kind = "worker"
  /\ Settle(t, [film[f] EXCEPT !.status = "review_required"])

Matched(t) ==
  LET f == task[t].film IN
  /\ At(t, "matching")
  /\ task[t].kind = "worker"
  /\ \/ Settle(t, [film[f] EXCEPT !.status = "failed"])
     \/ \E r \in FreeReview(f) :
          Settle(t, [film[f] EXCEPT !.status = "review_required",
                                    !.reviews[r] = "pending"])
     \/ \E m \in Finds[f] : Held(t, m) /\ Hang
     \/ \E m \in Finds[f], r \in FreeReview(f) \cup {None} :
          /\ ~Held(t, m) /\ ~Taken(t, m)
          /\ task' = [task EXCEPT ![t].at = "describing", ![t].source = m,
                                  ![t].review = r]
          /\ UNCHANGED <<film, job, thread, hung>>

(* run_semantic_pipeline: the profile is written when the model answers,   *)
(* the vector when the embedding does, and both are committed at the end.  *)

\* mistake: a pipeline takes the film for ready before its embedding is there
Described_Ready(t) ==
  /\ At(t, "describing")
  /\ Settle(t, [Uncommitted(t) EXCEPT !.status = "ready"])

Described(t) ==
  /\ At(t, "describing")
  /\ \/ Settle(t, [Uncommitted(t) EXCEPT !.status = "failed"])
     \/ /\ ProfileLocked(t, task[t].film)
        /\ Hang
     \/ /\ ~ProfileLocked(t, task[t].film)
        /\ task' = [task EXCEPT ![t].at = "embedding"]
        /\ UNCHANGED <<film, job, thread, hung>>

Embedded(t) ==
  /\ At(t, "embedding")
  /\ \/ Settle(t, [Uncommitted(t) EXCEPT !.status = "failed"])
     \/ Settle(t, [Uncommitted(t) EXCEPT !.status = "ready",
                                         !.vector = task[t].source])

\* run_semantic_pipeline_for_film: nothing to do unless the film is enriching
Begin(t) ==
  LET f == task[t].film IN
  /\ At(t, "queued")
  /\ \/ /\ film[f].status = "enriching"
        /\ task' = [task EXCEPT ![t].at = "describing",
                                ![t].source = film[f].meta]
        /\ UNCHANGED <<film, job, thread, hung>>
     \/ /\ film[f].status # "enriching"
        /\ job' = Synced(film[f].job, film)
        /\ task' = [task EXCEPT ![t] = Idle]
        /\ UNCHANGED <<film, thread, hung>>

-----------------------------------------------------------------------------
(* Requests that ask TMDB and then write what they have decided before.    *)

Asks(t, kind, f, r, fresh) ==
  /\ task' = [task EXCEPT ![t] = [Idle EXCEPT !.kind = kind, !.at = "asking",
                                    !.film = f, !.review = r, !.fresh = fresh]]
  /\ UNCHANGED <<film, job, thread, hung>>

Queued(t) == [Idle EXCEPT !.kind = "pipeline", !.at = "queued",
                          !.film = task[t].film]

\* The metadata is written, then the film's row: a committed answer makes the
\* film enriching and queues its pipeline.
Answer(t, m, row) ==
  LET f     == task[t].film
      films == [film EXCEPT ![f] = row]
  IN  \/ /\ Held(t, m)
         /\ Hang
      \/ /\ ~Held(t, m) /\ ~Taken(t, m)
         /\ IF Locked(t, f) THEN Hang
            ELSE /\ film' = films
                 /\ job' = IF task[t].kind = "rematch"
                           THEN Synced(film[f].job, films) ELSE job
                 /\ task' = [task EXCEPT ![t] = Queued(t)]
                 /\ UNCHANGED <<thread, hung>>

\* TMDB or a unique index refuses: the request is rolled back
Refused(t) ==
  /\ At(t, "asking")
  /\ task' = [task EXCEPT ![t] = Idle]
  /\ UNCHANGED <<film, job, thread, hung>>

StartAccept(t) ==
  /\ "accept" \in Requests
  /\ Free(t)
  /\ \E f \in Film, r \in Review :
       /\ film[f].status = "review_required"
       /\ film[f].reviews[r] = "pending"
       /\ Asks(t, "accept", f, r, FALSE)

FinishAccept(t) ==
  /\ At(t, "asking")
  /\ task[t].kind = "accept"
  /\ \E m \in Finds[task[t].film] :
       Answer(t, m, [film[task[t].film] EXCEPT
                       !.status = "enriching", !.meta = m,
                       !.reviews[task[t].review] = "accepted"])

\* MATCHING is never committed: a film being matched looks pending
StartRematch(t) ==
  /\ "rematch" \in Requests
  /\ Free(t)
  /\ \E f \in Film :
       /\ film[f].status \notin {"absent", "enriching"}
       /\ Asks(t, "rematch", f, None, FALSE)

FinishRematch(t) ==
  LET s == film[task[t].film] IN
  /\ At(t, "asking")
  /\ task[t].kind = "rematch"
  /\ \E m \in Match :
       Answer(t, m, [s EXCEPT
         !.status  = "enriching", !.meta = m,
         !.reviews = [r \in Review |->
                        IF s.reviews[r] = "pending" THEN "accepted"
                        ELSE s.reviews[r]]])

\* The row of a new film, or of one that is restored, is written before TMDB
\* is asked for its keywords; one that is only listed again is not written.
StartAdd(t) ==
  /\ "add" \in Requests
  /\ Free(t)
  /\ \E f \in Film, fresh \in {TRUE, FALSE} :
       /\ film[f].status = "absent" => fresh
       /\ film[f].status = "ready" => ~fresh
       /\ IF fresh /\ Locked(t, f) THEN Hang ELSE Asks(t, "add", f, None, fresh)

FinishAdd(t) ==
  /\ At(t, "asking")
  /\ task[t].kind = "add"
  /\ \E m \in Match :
       Answer(t, m, [film[task[t].film] EXCEPT !.status = "enriching", !.meta = m])

\* The feed, or any other coroutine that writes a film's status: what it
\* writes is not modelled here, only that it waits for the row.
Feed ==
  /\ "feed" \in Requests
  /\ ~hung
  /\ \E t \in Task, f \in Film :
       /\ film[f].status # "absent"
       /\ task[t].film = f
       /\ task[t].fresh
  /\ Hang

\* the process is restarted: what was not committed is gone, and no
\* coroutine is started again
Crash ==
  /\ "crash" \in Requests
  /\ task' = [t \in Task |-> Idle]
  /\ thread' = [h \in Thread |-> Unused]
  /\ hung' = FALSE
  /\ UNCHANGED <<film, job>>

-----------------------------------------------------------------------------
(* Worker threads: the loop only takes the requests in.                    *)

\* a thread with the row of a job
Read(j) ==
  [Unused EXCEPT !.at = "read", !.job = j, !.total = job[j].total,
                 !.processed = job[j].processed,
                 !.completes = job[j].status = "running"]

\* get_job_status, up to its first read
Poll(h, j) ==
  /\ "poll" \in Requests
  /\ ~hung
  /\ thread[h].at = "idle"
  /\ job[j].status # "none"
  /\ thread' = [thread EXCEPT ![h] = Read(j)]
  /\ UNCHANGED <<film, job, task, hung>>

\* reject_review, up to its checks
Reject(h) ==
  /\ "reject" \in Requests
  /\ ~hung
  /\ thread[h].at = "idle"
  /\ \E f \in Film, r \in Review :
       /\ film[f].status = "review_required"
       /\ film[f].reviews[r] = "pending"
       /\ thread' = [thread EXCEPT ![h] =
            [Unused EXCEPT !.at = "checked", !.film = f, !.review = r]]
  /\ UNCHANGED <<film, job, task, hung>>

\* its first commit, whatever became of the film and the review since, as
\* soon as no coroutine holds the film's row
Rejected(h) ==
  LET f == thread[h].film IN
  /\ thread[h].at = "checked"
  /\ ~\E t \in Task : task[t].film = f /\ task[t].fresh
  /\ film' = [film EXCEPT ![f].status = "failed",
                          ![f].reviews[thread[h].review] = "rejected"]
  /\ thread' = [thread EXCEPT ![h] =
       IF film[f].job = None THEN Unused
       ELSE [Unused EXCEPT !.at = "rejected", !.job = film[f].job]]
  /\ UNCHANGED <<job, task, hung>>

\* sync_import_job_progress after it; a job that had films and has none is
\* complete, so from here it does what a poll does
ReadJob(h) ==
  /\ thread[h].at = "rejected"
  /\ thread' = [thread EXCEPT ![h] = Read(thread[h].job)]
  /\ UNCHANGED <<film, job, task, hung>>

\* only what differs from the row that was read will be written
CountFilms(h) ==
  LET p    == Processed(thread[h].job, film)
      same == p = thread[h].processed
      done == thread[h].completes /\ p >= thread[h].total
  IN  /\ thread[h].at = "read"
      /\ thread' = [thread EXCEPT ![h] =
           IF same /\ ~done THEN Unused
           ELSE [@ EXCEPT !.at = "counted", !.completes = done,
                          !.processed = IF same THEN None ELSE p]]
      /\ UNCHANGED <<film, job, task, hung>>

\* the job's row as a thread would commit it
Progressed(h) ==
  [job[thread[h].job] EXCEPT
     !.processed = IF thread[h].processed = None THEN @ ELSE thread[h].processed,
     !.status    = IF thread[h].completes THEN "complete" ELSE @]

\* the CHECK of import_jobs
Allowed(row) == row.processed <= row.total

WriteProgress(h) ==
  LET j == thread[h].job IN
  /\ thread[h].at = "counted"
  /\ job' = IF Allowed(Progressed(h)) THEN [job EXCEPT ![j] = Progressed(h)]
            ELSE job
  /\ thread' = [thread EXCEPT ![h] = Unused]
  /\ UNCHANGED <<film, task, hung>>

-----------------------------------------------------------------------------

\* what a coroutine does once it has started
Step(t) ==
  \/ TakeFilm(t) \/ FinishJob(t) \/ Matched(t) \/ Described(t) \/ Embedded(t)
  \/ Begin(t) \/ Refused(t) \/ FinishAccept(t) \/ FinishRematch(t)
  \/ FinishAdd(t)

\* what a thread does with a request it has taken up
Serve(h) == Rejected(h) \/ ReadJob(h) \/ CountFilms(h) \/ WriteProgress(h)

Next ==
  \/ \E t \in Task :
       \/ Step(t) \/ StartAccept(t) \/ StartRematch(t) \/ StartAdd(t)
       \/ \E j \in Job : Import(t, j)
  \/ \E h \in Thread :
       \/ Serve(h) \/ Reject(h)
       \/ \E j \in Job : Poll(h, j)
  \/ Feed \/ Crash

Spec == Init /\ [][Next]_vars

\* Providers answer or time out, so the loop goes on with one coroutine or
\* another as long as one can go on.  The page of an import polls its job until
\* it is complete, and the pool of threads takes requests in their order.
\* Nothing makes a user answer a review.
Fairness ==
  /\ WF_vars(\E t \in Task : Step(t))
  /\ \A h \in Thread : WF_vars(Serve(h))
  /\ \A j \in Job :
       SF_vars(job[j].status = "running" /\ \E h \in Thread : Poll(h, j))

FairSpec == Spec /\ Fairness

-----------------------------------------------------------------------------

\* A film that can be recommended has an embedding, whatever pipeline made
\* it ready and whatever the others did meanwhile.
ReadyHasVector ==
  \A f \in Film : film[f].status = "ready" =>
    film[f].vector # None /\ film[f].meta # None

\* A film that waits for a metadata review has one that can be answered:
\* rejected, accepted and superseded reviews never leave it without.
ReviewIsPending ==
  \A f \in Film : film[f].status = "review_required" =>
    \E r \in Review : film[f].reviews[r] = "pending"

\* A job's total is the number of films that belong to it, also after a later
\* import took failed films over: otherwise it is never complete.
TotalIsFilms ==
  \A j \in Job : job[j].status # "none" =>
    job[j].total = Cardinality(FilmsOf(j, film))

\* The CHECK of import_jobs refuses nothing that a coroutine writes, also
\* where films leave a job that has counted them; and of what a thread writes
\* only a count from before an import took films of its job.
RefusesOnlyStale ==
  /\ \A j \in Job : Allowed(job[j])
  /\ \A h \in Thread :
       thread[h].at = "counted" /\ ~Allowed(Progressed(h)) =>
         job[thread[h].job].total < thread[h].total

\* some thread has counted the job's films and is about to complete it
Found(j) ==
  /\ job[j].status = "running"
  /\ \E h \in Thread :
       thread[h].job = j /\ thread[h].at = "counted" /\ thread[h].completes

\* Whatever coroutines and threads interleave, hang or die with the process,
\* the films and the jobs behave as ImportJobs promises: no pipeline, import,
\* rejection or poll completes a job whose films were never all through,
\* brings one back to life, or loses a film.
Promised == INSTANCE ImportJobs WITH
  stage <- [f \in Film |->
              IF film[f].status \in {"pending", "enriching"} THEN "queued"
              ELSE film[f].status],
  batch <- [f \in Film |-> film[f].job],
  done  <- [j \in Job |-> IF Found(j) THEN "found" ELSE job[j].status]

ImplementsImportJobs == Promised!Spec

\* A film that is queued or being enriched gets somewhere.
Settles ==
  \A f \in Film :
    film[f].status \in {"pending", "enriching"} ~>
      film[f].status \in {"review_required", "ready", "failed"}

\* An import is shown as complete unless one of its films waits for a review.
JobsComplete ==
  \A j \in Job : job[j].status # "none" ~>
    \/ job[j].status = "complete"
    \/ \E f \in FilmsOf(j, film) : film[f].status = "review_required"
=============================================================================
