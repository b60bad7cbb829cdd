-------------------------- MODULE EnrichmentProofs --------------------------
(***************************************************************************)
(* Enrichment for any films, jobs, coroutines, threads and requests: a     *)
(* ready film has an embedding, a film in metadata review has a pending    *)
(* review, the total of a job is the number of its films, only a stale     *)
(* count meets the CHECK, and a job is completed only when somebody has    *)
(* seen each of its films ready or failed.                                 *)
(***************************************************************************)
EXTENDS Enrichment, FiniteSetTheorems, TLAPS

\* What a committed film row always is.
RowOK(s) ==
  /\ s \in FilmRows
  /\ s.status \in {"enriching", "ready"} => s.meta # None
  /\ s.status = "ready" => s.vector # None
  /\ s.status = "review_required" => \E r \in Review : s.reviews[r] = "pending"

FilmInv == film \in [Film -> FilmRows] /\ \A f \in Film : RowOK(film[f])

\* What a coroutine remembers: the film it works on, for a pipeline a match
\* that is in the film's metadata or about to be, and for a worker its job.
TaskOK(c) ==
  /\ c.at \in {"asking", "matching", "queued", "describing", "embedding"} =>
       c.film \in Film
  /\ c.at \in {"describing", "embedding"} =>
       /\ c.source \in Match
       /\ ~c.fresh => film[c.film].meta # None
  /\ c.at = "matching" => c.fresh
  /\ c.kind = "accept" => c.review \in Review
  /\ c.kind = "worker" \/ c.at = "between" =>
       c.job \in Job /\ job[c.job].status # "none"

TaskInv == task \in [Task -> Coroutine] /\ \A t \in Task : TaskOK(task[t])

\* A film's job is one that has been made; the totals are the numbers of films.
JobInv ==
  /\ job \in [Job -> JobRow]
  /\ \A f \in Film : film[f].job # None => job[film[f].job].status # "none"
  /\ \A j \in Job : job[j].total = Cardinality(FilmsOf(j, film))
  /\ \A j \in Job : Allowed(job[j])

\* What a thread remembers: the review it has checked, or a job that has been
\* made and a total that the job has had, and can only have lost since.
ThreadOK(c) ==
  /\ c.at = "checked" => c.film \in Film /\ c.review \in Review
  /\ c.at \in {"rejected", "read", "counted"} =>
       c.job \in Job /\ job[c.job].status # "none"
  /\ c.at \in {"read", "counted"} => job[c.job].total <= c.total
  /\ c.at = "counted" => c.processed \in {None} \cup 0 .. c.total

ThreadInv ==
  thread \in [Thread -> WorkerThread] /\ \A h \in Thread : ThreadOK(thread[h])

IInv == FilmInv /\ TaskInv /\ JobInv /\ ThreadInv /\ hung \in BOOLEAN

-----------------------------------------------------------------------------
(* Counting.                                                               *)

LEMMA Counts ==
  ASSUME NEW j, NEW films
  PROVE  /\ IsFiniteSet(FilmsOf(j, films))
         /\ Cardinality(FilmsOf(j, films)) \in Nat
         /\ Processed(j, films) \in Nat
  <1>1. /\ FilmsOf(j, films) \subseteq Film
        /\ {f \in FilmsOf(j, films) : films[f].status \in {"ready", "failed"}}
             \subseteq Film
    BY DEF FilmsOf
  <1>2. QED
    BY <1>1, FilmAssumption, FS_Subset, FS_CardinalityType DEF Processed

\* When as many films are processed as the job has, all of them are.
LEMMA AllProcessed ==
  ASSUME NEW j, NEW films,
         Processed(j, films) >= Cardinality(FilmsOf(j, films))
  PROVE  \A f \in FilmsOf(j, films) : films[f].status \in {"ready", "failed"}
  <1> DEFINE S == {f \in FilmsOf(j, films) : films[f].status \in {"ready", "failed"}}
  <1>1. S \subseteq FilmsOf(j, films) /\ IsFiniteSet(FilmsOf(j, films))
    BY Counts
  <1>2. /\ Cardinality(S) <= Cardinality(FilmsOf(j, films))
        /\ Cardinality(S) = Cardinality(FilmsOf(j, films)) => S = FilmsOf(j, films)
    <2> HIDE DEF S
    <2>1. QED
      BY <1>1, FS_Subset
  <1>3. Cardinality(S) \in Nat /\ Cardinality(FilmsOf(j, films)) \in Nat
    BY Counts DEF Processed
  <1>4. S = FilmsOf(j, films)
    BY <1>2, <1>3 DEF Processed
  <1>5. QED
    BY <1>4

LEMMA CountedRow ==
  ASSUME NEW r \in JobRow, NEW p \in Nat, NEW done \in BOOLEAN
  PROVE  /\ Counted(r, p, done) \in JobRow
         /\ Counted(r, p, done).total = r.total
         /\ Counted(r, p, done).processed = p
         /\ Counted(r, p, done).status = IF done THEN "complete" ELSE r.status
BY DEF JobRow, Counted

LEMMA ProcessedAtMost ==
  ASSUME NEW j, NEW films
  PROVE  Processed(j, films) <= Cardinality(FilmsOf(j, films))
  <1> DEFINE S == {f \in FilmsOf(j, films) : films[f].status \in {"ready", "failed"}}
  <1>1. S \subseteq FilmsOf(j, films) /\ IsFiniteSet(FilmsOf(j, films))
    BY Counts
  <1> HIDE DEF S
  <1>2. Cardinality(S) <= Cardinality(FilmsOf(j, films))
    BY <1>1, FS_Subset
  <1>3. QED
    BY <1>2 DEF Processed, S

\* A job without a row has no films.
LEMMA NoneIsEmpty ==
  ASSUME JobInv, NEW j \in Job, job[j].status = "none", NoneAssumption
  PROVE  FilmsOf(j, film) = {} /\ job[j].total = 0
  <1>1. FilmsOf(j, film) = {}
    BY DEF JobInv, FilmsOf, NoneAssumption
  <1>2. QED
    BY <1>1, FS_EmptySet DEF JobInv

-----------------------------------------------------------------------------
(* What every step but an import does.                                     *)

\* Films keep their jobs and never lose their metadata.
FilmStep ==
  /\ FilmInv'
  /\ \A f \in Film : /\ film'[f].job = film[f].job
                     /\ film[f].meta # None => film'[f].meta # None

\* Jobs are counted again: none is made or gets another total, and one that
\* becomes complete has as many processed films as its total, or had when a
\* thread counted them.
JobStep ==
  /\ job' \in [Job -> JobRow]
  /\ \A j \in Job :
       /\ job'[j].status = "none" <=> job[j].status = "none"
       /\ job'[j].total = job[j].total
       /\ \/ job'[j].processed \in {job[j].processed, Processed(j, film')}
          \/ Allowed(job'[j])
       /\ job'[j].status = "complete" =>
            \/ job[j].status = "complete"
            \/ Found(j)
            \/ Processed(j, film') >= job[j].total
       /\ job[j].status = "complete" => job'[j].status = "complete"

Modest == FilmStep /\ JobStep /\ TaskInv' /\ ThreadInv' /\ hung' \in BOOLEAN

\* The films of the job are through after the step.
AllThrough(j) ==
  \A f \in FilmsOf(j, film') : film'[f].status \in {"ready", "failed"}

Completes ==
  \A j \in Job :
    job'[j].status = "complete" =>
      job[j].status = "complete" \/ Found(j) \/ AllThrough(j)

LEMMA ModestKeeps ==
  ASSUME IInv, Modest
  PROVE  IInv' /\ Completes
  <1>1. \A j \in Job : FilmsOf(j, film') = FilmsOf(j, film)
    BY DEF Modest, FilmStep, FilmsOf
  <1>2. \A j \in Job : job'[j].total = Cardinality(FilmsOf(j, film'))
    BY <1>1 DEF Modest, JobStep, IInv, JobInv
  <1>3. ASSUME NEW j \in Job
        PROVE  Allowed(job'[j])
    <2>1. CASE job'[j].processed = job[j].processed
      BY <2>1 DEF Modest, JobStep, IInv, JobInv, Allowed
    <2>2. CASE job'[j].processed = Processed(j, film')
      BY <2>2, <1>2, ProcessedAtMost DEF Allowed
    <2>3. QED
      BY <2>1, <2>2 DEF Modest, JobStep
  <1>4. \A f \in Film : film'[f].job # None => job'[film'[f].job].status # "none"
    <2> SUFFICES ASSUME NEW f \in Film, film'[f].job # None
                 PROVE  job'[film'[f].job].status # "none"
      OBVIOUS
    <2>1. film'[f].job = film[f].job /\ film[f].job \in Job
      BY DEF Modest, FilmStep, IInv, FilmInv, FilmRows
    <2>2. QED
      BY <2>1 DEF Modest, JobStep, IInv, JobInv
  <1>5. JobInv'
    BY <1>2, <1>3, <1>4 DEF Modest, JobStep, JobInv, Allowed
  <1>6. Completes
    <2> SUFFICES ASSUME NEW j \in Job, job[j].status # "complete", ~Found(j),
                        job'[j].status = "complete"
                 PROVE  AllThrough(j)
      BY DEF Completes
    <2>1. Processed(j, film') >= Cardinality(FilmsOf(j, film'))
      BY <1>2 DEF Modest, JobStep
    <2>2. QED
      BY <2>1, AllProcessed DEF AllThrough
  <1>7. QED
    BY <1>5, <1>6 DEF Modest, FilmStep, IInv

-----------------------------------------------------------------------------
(* The parts of a step.                                                    *)

LEMMA SameFilm ==
  ASSUME FilmInv, film' = film
  PROVE  FilmStep
BY DEF FilmInv, FilmStep, RowOK, FilmRows

\* A row that may follow the row of film f.
Follows(row, f) ==
  /\ RowOK(row)
  /\ row.job = film[f].job
  /\ film[f].meta # None => row.meta # None

LEMMA OneFilm ==
  ASSUME FilmInv, NEW f \in Film, NEW row, Follows(row, f),
         film' = [film EXCEPT ![f] = row]
  PROVE  FilmStep
  <1>1. row \in FilmRows
    BY DEF Follows, RowOK
  <1>2. film' \in [Film -> FilmRows]
    BY <1>1 DEF FilmInv
  <1>3. \A g \in Film : film'[g] = IF g = f THEN row ELSE film[g]
    BY DEF FilmInv
  <1>4. \A g \in Film : RowOK(film'[g])
    BY <1>3 DEF FilmInv, Follows
  <1>5. QED
    BY <1>2, <1>3, <1>4 DEF FilmStep, FilmInv, Follows

LEMMA SameJob ==
  ASSUME JobInv, job' = job
  PROVE  JobStep
BY DEF JobInv, JobStep

\* One job is counted again, from the films as they are after the step.
LEMMA OneJob ==
  ASSUME JobInv, NEW j \in Job, NEW p, NEW done \in BOOLEAN,
         p \in {job[j].processed, Processed(j, film')},
         done => /\ Processed(j, film') >= job[j].total
                 /\ job[j].status # "none",
         job' = [job EXCEPT ![j] = Counted(@, p, done)]
  PROVE  JobStep
  <1> DEFINE s == Counted(job[j], p, done)
  <1>1. job[j] \in JobRow /\ p \in Nat
    BY Counts DEF JobInv, JobRow
  <1>2. /\ s \in JobRow
        /\ s.total = job[j].total
        /\ s.processed = p
        /\ s.status = IF done THEN "complete" ELSE job[j].status
    BY <1>1, CountedRow
  <1>3. job' = [job EXCEPT ![j] = s]
    OBVIOUS
  <1> HIDE DEF s
  <1>4. job' \in [Job -> JobRow]
    BY <1>2, <1>3 DEF JobInv
  <1>5. \A i \in Job : job'[i] = IF i = j THEN s ELSE job[i]
    BY <1>3 DEF JobInv
  <1>6. QED
    BY <1>2, <1>4, <1>5 DEF JobStep

LEMMA SyncedJob ==
  ASSUME JobInv, NEW j \in Job \cup {None}, job' = Synced(j, film'),
         NoneAssumption
  PROVE  JobStep
  <1>1. CASE j = None
    BY <1>1, SameJob DEF Synced
  <1>2. CASE j # None
    <2> DEFINE p == Processed(j, film')
               done == job[j].total > 0 /\ p >= job[j].total
    <2>1. j \in Job /\ job' = [job EXCEPT ![j] = Counted(@, p, done)]
      BY <1>2 DEF Synced
    <2>2. done => p >= job[j].total /\ job[j].status # "none"
      BY <2>1, NoneIsEmpty
    <2>3. done \in BOOLEAN
      OBVIOUS
    <2> HIDE DEF done
    <2>4. QED
      BY <2>1, <2>2, <2>3, OneJob
  <1>3. QED
    BY <1>1, <1>2

\* What a coroutine remembers stays right.
LEMMA TasksKeep ==
  ASSUME NEW c \in Coroutine, TaskOK(c), FilmStep, JobStep
  PROVE  TaskOK(c)'
BY DEF TaskOK, Coroutine, FilmStep, JobStep

LEMMA SameTask ==
  ASSUME TaskInv, FilmStep, JobStep, task' = task
  PROVE  TaskInv'
  <1>1. \A t \in Task : task[t] \in Coroutine /\ TaskOK(task[t])
    BY DEF TaskInv
  <1>2. \A t \in Task : TaskOK(task[t])'
    BY <1>1, TasksKeep
  <1>3. QED
    BY <1>2 DEF TaskInv

LEMMA OneTask ==
  ASSUME TaskInv, FilmStep, JobStep, NEW t \in Task, NEW c \in Coroutine,
         TaskOK(c), task' = [task EXCEPT ![t] = c]
  PROVE  TaskInv'
  <1>1. task' \in [Task -> Coroutine]
    BY DEF TaskInv
  <1>2. \A q \in Task : task'[q] \in Coroutine /\ TaskOK(task'[q])
    BY DEF TaskInv, TaskOK
  <1>3. \A q \in Task : TaskOK(task[q])'
    BY <1>2, TasksKeep
  <1>4. QED
    BY <1>1, <1>3 DEF TaskInv

\* What a thread remembers stays right as long as no job is lost or grows.
LEMMA ThreadsKeep ==
  ASSUME NEW c \in WorkerThread, ThreadOK(c),
         job \in [Job -> JobRow], job' \in [Job -> JobRow],
         \A j \in Job : job[j].status # "none" =>
           job'[j].status # "none" /\ job'[j].total <= job[j].total
  PROVE  ThreadOK(c)'
  <1>1. CASE c.at \in {"rejected", "read", "counted"}
    <2>1. /\ c.job \in Job /\ job[c.job].status # "none"
          /\ job'[c.job].status # "none" /\ job'[c.job].total <= job[c.job].total
          /\ job[c.job].total \in Nat /\ job'[c.job].total \in Nat /\ c.total \in Nat
      BY <1>1 DEF ThreadOK, JobRow, WorkerThread
    <2>2. c.at \in {"read", "counted"} => job'[c.job].total <= c.total
      BY <2>1 DEF ThreadOK
    <2>3. QED
      BY <1>1, <2>1, <2>2 DEF ThreadOK
  <1>2. CASE c.at \notin {"rejected", "read", "counted"}
    BY <1>2 DEF ThreadOK
  <1>3. QED
    BY <1>1, <1>2

LEMMA JobsKeep ==
  ASSUME JobInv, JobStep
  PROVE  /\ job \in [Job -> JobRow] /\ job' \in [Job -> JobRow]
         /\ \A j \in Job : job[j].status # "none" =>
              job'[j].status # "none" /\ job'[j].total <= job[j].total
BY DEF JobInv, JobStep, JobRow

LEMMA OneThread ==
  ASSUME JobInv, ThreadInv, JobStep, NEW h \in Thread, NEW c \in WorkerThread,
         ThreadOK(c), thread' = [thread EXCEPT ![h] = c]
  PROVE  ThreadInv'
  <1>1. thread' \in [Thread -> WorkerThread]
    BY DEF ThreadInv
  <1>2. \A g \in Thread : thread'[g] \in WorkerThread /\ ThreadOK(thread'[g])
    BY DEF ThreadInv, ThreadOK
  <1>3. \A g \in Thread : ThreadOK(thread[g])'
    BY <1>2, JobsKeep, ThreadsKeep
  <1>4. QED
    BY <1>1, <1>3 DEF ThreadInv

LEMMA SameThread ==
  ASSUME JobInv, ThreadInv, JobStep, thread' = thread
  PROVE  ThreadInv'
  <1>1. \A h \in Thread : thread[h] \in WorkerThread /\ ThreadOK(thread[h])
    BY DEF ThreadInv
  <1>2. \A h \in Thread : ThreadOK(thread[h])'
    BY <1>1, JobsKeep, ThreadsKeep
  <1>3. QED
    BY <1>2 DEF ThreadInv

-----------------------------------------------------------------------------
(* The steps.                                                              *)

LEMMA HangModest ==
  ASSUME IInv, Hang
  PROVE  Modest
  <1>1. FilmStep /\ JobStep
    BY SameFilm, SameJob DEF Hang, IInv
  <1>2. QED
    BY <1>1, SameTask, SameThread DEF Hang, Modest, IInv

\* A step of one coroutine that writes nothing.
LEMMA TaskModest ==
  ASSUME IInv, NEW t \in Task, NEW c \in Coroutine, TaskOK(c),
         task' = [task EXCEPT ![t] = c],
         UNCHANGED <<film, job, thread, hung>>
  PROVE  Modest
  <1>1. FilmStep /\ JobStep
    BY SameFilm, SameJob DEF IInv
  <1>2. QED
    BY <1>1, OneTask, SameThread DEF Modest, IInv

LEMMA IdleOK == Idle \in Coroutine /\ TaskOK(Idle)
BY DEF Idle, Coroutine, TaskOK

\* What is known of a coroutine that is under way.
LEMMA TaskFacts ==
  ASSUME IInv, NEW t \in Task
  PROVE  /\ task[t] \in Coroutine
         /\ TaskOK(task[t])
         /\ task[t].film \in Film =>
              /\ film[task[t].film] \in FilmRows
              /\ RowOK(film[task[t].film])
              /\ film[task[t].film].job \in Job \cup {None}
BY DEF IInv, TaskInv, FilmInv, FilmRows

LEMMA EndedOK ==
  ASSUME IInv, NEW t \in Task
  PROVE  Ended(t) \in Coroutine /\ TaskOK(Ended(t))
  <1>1. task[t] \in Coroutine /\ TaskOK(task[t])
    BY TaskFacts
  <1>2. CASE task[t].kind = "worker"
    BY <1>1, <1>2 DEF Ended, Idle, Coroutine, TaskOK
  <1>3. CASE task[t].kind # "worker"
    BY <1>3, IdleOK DEF Ended
  <1>4. QED
    BY <1>2, <1>3

LEMMA SettleModest ==
  ASSUME IInv, NEW t \in Task, task[t].film \in Film, NEW row,
         Follows(row, task[t].film), Settle(t, row)
  PROVE  Modest
  <1> DEFINE f == task[t].film
             j == IF task[t].kind = "worker" THEN task[t].job ELSE film[f].job
  <1>1. CASE Locked(t, f)
    BY <1>1, HangModest DEF Settle
  <1>2. CASE ~Locked(t, f)
    <2>1. /\ film' = [film EXCEPT ![f] = row]
          /\ job' = Synced(j, film')
          /\ task' = [task EXCEPT ![t] = Ended(t)]
          /\ UNCHANGED <<thread, hung>>
      BY <1>2 DEF Settle
    <2>2. j \in Job \cup {None}
      BY TaskFacts DEF TaskOK
    <2> HIDE DEF j
    <2>3. FilmStep
      BY <2>1, OneFilm DEF IInv
    <2>4. JobStep
      BY <2>1, <2>2, SyncedJob, NoneAssumption DEF IInv
    <2>5. TaskInv'
      BY <2>1, <2>3, <2>4, EndedOK, OneTask DEF IInv
    <2>6. QED
      BY <2>1, <2>3, <2>4, <2>5, SameThread DEF Modest, IInv
  <1>3. QED
    BY <1>1, <1>2

LEMMA TakeFilmModest ==
  ASSUME IInv, NEW t \in Task, TakeFilm(t)
  PROVE  Modest
  <1>1. PICK f \in task[t].todo :
          CASE film[f].status = "pending" /\ Locked(t, f) -> Hang
            [] film[f].status = "pending" /\ ~Locked(t, f) ->
                 /\ task' = [task EXCEPT ![t].at = "matching", ![t].film = f,
                                         ![t].fresh = TRUE]
                 /\ UNCHANGED <<film, job, thread, hung>>
            [] film[f].status = "enriching" ->
                 /\ task' = [task EXCEPT ![t].at = "describing", ![t].film = f,
                                         ![t].source = film[f].meta]
                 /\ UNCHANGED <<film, job, thread, hung>>
            [] OTHER ->
                 /\ task' = [task EXCEPT ![t].todo = @ \ {f}]
                 /\ UNCHANGED <<film, job, thread, hung>>
    BY DEF TakeFilm
  <1>2. /\ task[t] \in Coroutine /\ TaskOK(task[t]) /\ task[t].at = "between"
        /\ f \in Film /\ film[f] \in FilmRows /\ RowOK(film[f])
    BY TaskFacts DEF TakeFilm, At, Coroutine, IInv, FilmInv
  <1>3. CASE film[f].status = "pending" /\ Locked(t, f)
    BY <1>1, <1>3, HangModest
  <1>4. CASE film[f].status = "pending" /\ ~Locked(t, f)
    <2> DEFINE c == [task[t] EXCEPT !.at = "matching", !.film = f, !.fresh = TRUE]
    <2>1. c \in Coroutine /\ TaskOK(c)
      BY <1>2 DEF Coroutine, TaskOK
    <2>2. /\ task' = [task EXCEPT ![t] = c]
          /\ UNCHANGED <<film, job, thread, hung>>
      BY <1>1, <1>4
    <2> HIDE DEF c
    <2>3. QED
      BY <2>1, <2>2, TaskModest
  <1>5. CASE film[f].status = "enriching"
    <2> DEFINE c == [task[t] EXCEPT !.at = "describing", !.film = f,
                                    !.source = film[f].meta]
    <2>1. c \in Coroutine /\ TaskOK(c)
      BY <1>2, <1>5 DEF Coroutine, TaskOK, RowOK, FilmRows
    <2>2. /\ task' = [task EXCEPT ![t] = c]
          /\ UNCHANGED <<film, job, thread, hung>>
      BY <1>1, <1>5
    <2> HIDE DEF c
    <2>3. QED
      BY <2>1, <2>2, TaskModest
  <1>6. CASE film[f].status \notin {"pending", "enriching"}
    <2> DEFINE c == [task[t] EXCEPT !.todo = @ \ {f}]
    <2>1. c \in Coroutine /\ TaskOK(c)
      BY <1>2 DEF Coroutine, TaskOK
    <2>2. /\ task' = [task EXCEPT ![t] = c]
          /\ UNCHANGED <<film, job, thread, hung>>
      BY <1>1, <1>6
    <2> HIDE DEF c
    <2>3. QED
      BY <2>1, <2>2, TaskModest
  <1>7. QED
    BY <1>3, <1>4, <1>5, <1>6

LEMMA FinishJobModest ==
  ASSUME IInv, NEW t \in Task, FinishJob(t)
  PROVE  Modest
  <1> DEFINE j == task[t].job
             done == Processed(j, film) >= job[j].total
  <1>1. j \in Job /\ job[j].status # "none"
    BY TaskFacts DEF FinishJob, At, TaskOK
  <1>2. /\ job' = [job EXCEPT ![j] = Counted(@, job[j].processed, done)]
        /\ task' = [task EXCEPT ![t] = Idle]
        /\ UNCHANGED <<film, thread, hung>>
    BY DEF FinishJob
  <1>3. done \in BOOLEAN /\ (done => Processed(j, film') >= job[j].total)
    BY <1>2
  <1>4. FilmStep
    BY <1>2, SameFilm DEF IInv
  <1>5. JobStep
    <2> HIDE DEF j, done
    <2>1. QED
      BY <1>1, <1>2, <1>3, OneJob DEF IInv
  <1>6. TaskInv'
    BY <1>2, <1>4, <1>5, IdleOK, OneTask DEF IInv
  <1>7. QED
    BY <1>2, <1>4, <1>5, <1>6, SameThread DEF Modest, IInv

\* A film may always fail, whatever was written of it before.
LEMMA UncommittedOK ==
  ASSUME IInv, NEW t \in Task, task[t].at \in {"describing", "embedding"}
  PROVE  LET u == Uncommitted(t) IN
         /\ task[t].film \in Film
         /\ u \in FilmRows
         /\ u.meta # None
         /\ u.job = film[task[t].film].job
  <1> DEFINE f == task[t].film
             r == task[t].review
             s == IF task[t].fresh THEN [film[f] EXCEPT !.meta = task[t].source]
                  ELSE film[f]
  <1>1. /\ f \in Film /\ film[f] \in FilmRows
        /\ task[t].source \in Match /\ r \in Review \cup {None}
        /\ ~task[t].fresh => film[f].meta # None
    BY TaskFacts DEF TaskOK, Coroutine
  <1>2. s \in FilmRows /\ s.meta # None /\ s.job = film[f].job
    BY <1>1, NoneAssumption DEF FilmRows
  <1> HIDE DEF s
  <1>3. CASE r = None
    BY <1>1, <1>2, <1>3 DEF Uncommitted, s
  <1>4. CASE r # None
    <2>1. Uncommitted(t) = [s EXCEPT !.reviews[r] = "pending"]
      BY <1>4 DEF Uncommitted, s
    <2>2. QED
      BY <1>1, <1>2, <2>1 DEF FilmRows
  <1>5. QED
    BY <1>3, <1>4

LEMMA SettledFailed ==
  ASSUME IInv, NEW t \in Task, task[t].at \in {"describing", "embedding"},
         Settle(t, [Uncommitted(t) EXCEPT !.status = "failed"])
  PROVE  Modest
  <1> DEFINE row == [Uncommitted(t) EXCEPT !.status = "failed"]
  <1>1. task[t].film \in Film /\ Follows(row, task[t].film)
    BY UncommittedOK DEF Follows, RowOK, FilmRows, Status
  <1> HIDE DEF row
  <1>2. Settle(t, row)
    BY DEF row
  <1>3. QED
    BY <1>1, <1>2, SettleModest

LEMMA MatchedModest ==
  ASSUME IInv, NEW t \in Task, Matched(t)
  PROVE  Modest
  <1> DEFINE f == task[t].film
  <1>1. /\ f \in Film /\ film[f] \in FilmRows /\ RowOK(film[f])
        /\ task[t] \in Coroutine /\ TaskOK(task[t]) /\ task[t].at = "matching"
        /\ task[t].kind = "worker"
    BY TaskFacts DEF Matched, At, TaskOK
  <1>2. CASE Settle(t, [film[f] EXCEPT !.status = "failed"])
    <2> DEFINE row == [film[f] EXCEPT !.status = "failed"]
    <2>1. Follows(row, f)
      BY <1>1 DEF Follows, RowOK, FilmRows, Status
    <2> HIDE DEF row
    <2>2. QED
      BY <1>1, <1>2, <2>1, SettleModest DEF row
  <1>3. CASE \E r \in FreeReview(f) :
          Settle(t, [film[f] EXCEPT !.status = "review_required",
                                    !.reviews[r] = "pending"])
    <2>1. PICK r \in Review :
            Settle(t, [film[f] EXCEPT !.status = "review_required",
                                      !.reviews[r] = "pending"])
      BY <1>3 DEF FreeReview
    <2> DEFINE row == [film[f] EXCEPT !.status = "review_required",
                                      !.reviews[r] = "pending"]
    <2>2. Follows(row, f)
      <3>1. /\ row \in FilmRows /\ row.status = "review_required"
            /\ row.job = film[f].job /\ row.meta = film[f].meta
            /\ row.reviews[r] = "pending"
        BY <1>1 DEF FilmRows, Status
      <3> HIDE DEF row
      <3>2. QED
        BY <3>1 DEF Follows, RowOK
    <2>3. Settle(t, row)
      BY <2>1
    <2> HIDE DEF row
    <2>4. QED
      BY <1>1, <2>2, <2>3, SettleModest
  <1>4. CASE \E m \in Finds[f], r \in FreeReview(f) \cup {None} :
          /\ ~Held(t, m) /\ ~Taken(t, m)
          /\ task' = [task EXCEPT ![t].at = "describing", ![t].source = m,
                                  ![t].review = r]
          /\ UNCHANGED <<film, job, thread, hung>>
    <2>1. PICK m \in Match, r \in Review \cup {None} :
          /\ task' = [task EXCEPT ![t].at = "describing", ![t].source = m,
                                  ![t].review = r]
          /\ UNCHANGED <<film, job, thread, hung>>
      BY <1>1, <1>4, FindsAssumption DEF FreeReview
    <2> DEFINE c == [task[t] EXCEPT !.at = "describing", !.source = m,
                                    !.review = r]
    <2>2. c \in Coroutine /\ TaskOK(c)
      BY <1>1 DEF Coroutine, TaskOK
    <2>3. task' = [task EXCEPT ![t] = c]
      BY <2>1
    <2> HIDE DEF c
    <2>4. QED
      BY <2>1, <2>2, <2>3, TaskModest
  <1>5. CASE \E m \in Finds[f] : Held(t, m) /\ Hang
    BY <1>5, HangModest
  <1>6. QED
    BY <1>2, <1>3, <1>4, <1>5 DEF Matched

LEMMA DescribedModest ==
  ASSUME IInv, NEW t \in Task, Described(t)
  PROVE  Modest
  <1>1. task[t].at = "describing" /\ task[t] \in Coroutine /\ TaskOK(task[t])
    BY TaskFacts DEF Described, At
  <1>2. CASE Settle(t, [Uncommitted(t) EXCEPT !.status = "failed"])
    BY <1>1, <1>2, SettledFailed
  <1>3. CASE Hang
    BY <1>3, HangModest
  <1>4. CASE /\ task' = [task EXCEPT ![t].at = "embedding"]
             /\ UNCHANGED <<film, job, thread, hung>>
    <2> DEFINE c == [task[t] EXCEPT !.at = "embedding"]
    <2>1. c \in Coroutine /\ TaskOK(c)
      BY <1>1 DEF Coroutine, TaskOK
    <2>2. task' = [task EXCEPT ![t] = c]
      BY <1>4
    <2> HIDE DEF c
    <2>3. QED
      BY <1>4, <2>1, <2>2, TaskModest
  <1>5. QED
    BY <1>2, <1>3, <1>4 DEF Described

LEMMA EmbeddedModest ==
  ASSUME IInv, NEW t \in Task, Embedded(t)
  PROVE  Modest
  <1>1. task[t].at = "embedding" /\ task[t] \in Coroutine /\ TaskOK(task[t])
    BY TaskFacts DEF Embedded, At
  <1>2. CASE Settle(t, [Uncommitted(t) EXCEPT !.status = "failed"])
    BY <1>1, <1>2, SettledFailed
  <1>3. CASE Settle(t, [Uncommitted(t) EXCEPT !.status = "ready",
                                              !.vector = task[t].source])
    <2> DEFINE row == [Uncommitted(t) EXCEPT !.status = "ready",
                                             !.vector = task[t].source]
    <2>1. task[t].source \in Match /\ task[t].source # None
      BY <1>1, NoneAssumption DEF TaskOK
    <2>2. task[t].film \in Film /\ Follows(row, task[t].film)
      BY <1>1, <2>1, UncommittedOK DEF Follows, RowOK, FilmRows, Status
    <2> HIDE DEF row
    <2>3. QED
      BY <1>3, <2>2, SettleModest DEF row
  <1>4. QED
    BY <1>2, <1>3 DEF Embedded

LEMMA BeginModest ==
  ASSUME IInv, NEW t \in Task, Begin(t)
  PROVE  Modest
  <1> DEFINE f == task[t].film
  <1>1. /\ f \in Film /\ film[f] \in FilmRows /\ RowOK(film[f])
        /\ film[f].job \in Job \cup {None}
        /\ task[t] \in Coroutine /\ TaskOK(task[t]) /\ task[t].at = "queued"
    BY TaskFacts DEF Begin, At, TaskOK
  <1>2. CASE /\ film[f].status = "enriching"
             /\ task' = [task EXCEPT ![t].at = "describing",
                                     ![t].source = film[f].meta]
             /\ UNCHANGED <<film, job, thread, hung>>
    <2> DEFINE c == [task[t] EXCEPT !.at = "describing", !.source = film[f].meta]
    <2>1. c \in Coroutine /\ TaskOK(c)
      BY <1>1, <1>2 DEF Coroutine, TaskOK, RowOK, FilmRows
    <2>2. task' = [task EXCEPT ![t] = c]
      BY <1>2
    <2> HIDE DEF c
    <2>3. QED
      BY <1>2, <2>1, <2>2, TaskModest
  <1>3. CASE /\ job' = Synced(film[f].job, film)
             /\ task' = [task EXCEPT ![t] = Idle]
             /\ UNCHANGED <<film, thread, hung>>
    <2>1. FilmStep
      BY <1>3, SameFilm DEF IInv
    <2>2. job' = Synced(film[f].job, film')
      BY <1>3
    <2>3. JobStep
      BY <1>1, <2>2, SyncedJob, NoneAssumption DEF IInv
    <2>4. TaskInv'
      BY <1>3, <2>1, <2>3, IdleOK, OneTask DEF IInv
    <2>5. QED
      BY <1>3, <2>1, <2>3, <2>4, SameThread DEF Modest, IInv
  <1>4. QED
    BY <1>2, <1>3 DEF Begin

\* The requests.

LEMMA AsksModest ==
  ASSUME IInv, NEW t \in Task, NEW f \in Film, NEW r \in Review \cup {None},
         NEW kind \in {"accept", "rematch", "add"}, kind = "accept" => r # None,
         NEW fresh \in {TRUE, FALSE}, Asks(t, kind, f, r, fresh)
  PROVE  Modest
  <1> DEFINE c == [Idle EXCEPT !.kind = kind, !.at = "asking", !.film = f,
                               !.review = r, !.fresh = fresh]
  <1>1. c \in Coroutine /\ TaskOK(c)
    <2>1. CASE fresh = TRUE
      BY <2>1 DEF Idle, Coroutine, TaskOK
    <2>2. CASE fresh = FALSE
      BY <2>2 DEF Idle, Coroutine, TaskOK
    <2>3. QED
      BY <2>1, <2>2
  <1>2. /\ task' = [task EXCEPT ![t] = c]
        /\ UNCHANGED <<film, job, thread, hung>>
    BY DEF Asks
  <1> HIDE DEF c
  <1>3. QED
    BY <1>1, <1>2, TaskModest

LEMMA AnswerModest ==
  ASSUME IInv, NEW t \in Task, task[t].at = "asking", NEW row,
         NEW m, Follows(row, task[t].film), Answer(t, m, row)
  PROVE  Modest
  <1> DEFINE f == task[t].film
  <1>1. /\ f \in Film /\ film[f] \in FilmRows /\ film[f].job \in Job \cup {None}
    BY TaskFacts DEF TaskOK
  <1>2. CASE Held(t, m) \/ Locked(t, f)
    BY <1>2, HangModest DEF Answer
  <1>3. CASE ~(Held(t, m) \/ Locked(t, f))
    <2>1. /\ film' = [film EXCEPT ![f] = row]
          /\ job' = IF task[t].kind = "rematch"
                    THEN Synced(film[f].job, film') ELSE job
          /\ task' = [task EXCEPT ![t] = Queued(t)]
          /\ UNCHANGED <<thread, hung>>
      BY <1>3 DEF Answer
    <2>2. FilmStep
      BY <1>1, <2>1, OneFilm DEF IInv
    <2>3. JobStep
      BY <1>1, <2>1, SyncedJob, SameJob, NoneAssumption DEF IInv
    <2>4. Queued(t) \in Coroutine /\ TaskOK(Queued(t))
      BY <1>1 DEF Queued, Idle, Coroutine, TaskOK
    <2>5. TaskInv'
      BY <2>1, <2>2, <2>3, <2>4, OneTask DEF IInv
    <2>6. QED
      BY <2>1, <2>2, <2>3, <2>5, SameThread DEF Modest, IInv
  <1>4. QED
    BY <1>2, <1>3

LEMMA AskingModest ==
  ASSUME IInv, NEW t \in Task,
         Refused(t) \/ StartAccept(t) \/ StartRematch(t) \/ StartAdd(t)
  PROVE  Modest
  <1>1. CASE Refused(t)
    BY <1>1, IdleOK, TaskModest DEF Refused
  <1>2. CASE StartAccept(t)
    BY <1>2, AsksModest, NoneAssumption DEF StartAccept
  <1>3. CASE StartRematch(t)
    BY <1>3, AsksModest DEF StartRematch
  <1>4. CASE StartAdd(t)
    BY <1>4, AsksModest, HangModest DEF StartAdd
  <1>5. QED
    BY <1>1, <1>2, <1>3, <1>4

LEMMA AnsweredModest ==
  ASSUME IInv, NEW t \in Task,
         FinishAccept(t) \/ FinishRematch(t) \/ FinishAdd(t)
  PROVE  Modest
  <1> DEFINE f == task[t].film
             s == film[f]
  <1>1. /\ f \in Film /\ s \in FilmRows
        /\ task[t].at = "asking"
        /\ task[t].kind = "accept" => task[t].review \in Review
    BY TaskFacts DEF FinishAccept, FinishRematch, FinishAdd, At, TaskOK
  <1>2. ASSUME NEW row \in FilmRows, row.status = "enriching",
               row.meta # None, row.job = s.job
        PROVE  Follows(row, f)
    BY <1>2 DEF Follows, RowOK
  <1>3. CASE FinishAccept(t)
    <2>1. PICK m \in Match :
            Answer(t, m, [film[f] EXCEPT !.status = "enriching", !.meta = m,
                            !.reviews[task[t].review] = "accepted"])
      BY <1>1, <1>3, FindsAssumption DEF FinishAccept
    <2> DEFINE row == [film[f] EXCEPT !.status = "enriching", !.meta = m,
                                      !.reviews[task[t].review] = "accepted"]
    <2>2. /\ row \in FilmRows /\ row.status = "enriching"
          /\ row.meta # None /\ row.job = s.job
      BY <1>1, <1>3, NoneAssumption DEF FinishAccept, FilmRows, Status
    <2> HIDE DEF row
    <2>3. Follows(row, f)
      BY <1>2, <2>2
    <2>4. QED
      BY <1>1, <2>1, <2>3, AnswerModest DEF row
  <1>4. CASE FinishRematch(t)
    <2>1. PICK m \in Match :
            Answer(t, m, [s EXCEPT
              !.status  = "enriching", !.meta = m,
              !.reviews = [r \in Review |->
                             IF s.reviews[r] = "pending" THEN "accepted"
                             ELSE s.reviews[r]]])
      BY <1>4 DEF FinishRematch
    <2> DEFINE answers == [r \in Review |->
                             IF s.reviews[r] = "pending" THEN "accepted"
                             ELSE s.reviews[r]]
               row == [s EXCEPT !.status = "enriching", !.meta = m,
                                !.reviews = answers]
    <2>2. answers \in [Review -> {"none", "pending", "accepted", "rejected"}]
      BY <1>1 DEF FilmRows
    <2>3. Answer(t, m, row)
      BY <2>1
    <2> HIDE DEF answers
    <2>4. /\ row \in FilmRows /\ row.status = "enriching"
          /\ row.meta # None /\ row.job = s.job
      BY <1>1, <2>2, NoneAssumption DEF FilmRows, Status
    <2> HIDE DEF row
    <2>5. Follows(row, f)
      BY <1>2, <2>4
    <2>6. QED
      BY <1>1, <2>3, <2>5, AnswerModest
  <1>5. CASE FinishAdd(t)
    <2>1. PICK m \in Match :
            Answer(t, m, [film[f] EXCEPT !.status = "enriching", !.meta = m])
      BY <1>5 DEF FinishAdd
    <2> DEFINE row == [film[f] EXCEPT !.status = "enriching", !.meta = m]
    <2>2. /\ row \in FilmRows /\ row.status = "enriching"
          /\ row.meta # None /\ row.job = s.job
      BY <1>1, NoneAssumption DEF FilmRows, Status
    <2> HIDE DEF row
    <2>3. Follows(row, f)
      BY <1>2, <2>2
    <2>4. QED
      BY <1>1, <2>1, <2>3, AnswerModest DEF row
  <1>6. QED
    BY <1>3, <1>4, <1>5

\* The threads.

LEMMA UnusedOK == Unused \in WorkerThread /\ ThreadOK(Unused)
BY DEF Unused, WorkerThread, ThreadOK

\* What is known of a thread that is at work.
LEMMA ThreadFacts ==
  ASSUME IInv, NEW h \in Thread
  PROVE  thread[h] \in WorkerThread /\ ThreadOK(thread[h])
BY DEF IInv, ThreadInv

LEMMA ReadOK ==
  ASSUME IInv, NEW j \in Job, job[j].status # "none"
  PROVE  Read(j) \in WorkerThread /\ ThreadOK(Read(j))
  <1> DEFINE c == Read(j)
  <1>1. /\ job[j].total \in Nat /\ job[j].processed \in Nat
    BY DEF IInv, JobInv, JobRow
  <1>2. ASSUME NEW running \in BOOLEAN, running <=> job[j].status = "running"
        PROVE  c = [Unused EXCEPT !.at = "read", !.job = j,
                      !.total = job[j].total, !.processed = job[j].processed,
                      !.completes = running]
    BY <1>2, Zenon DEF Read
  <1>3. c \in WorkerThread
    BY <1>1, <1>2 DEF Unused, WorkerThread
  <1>4. c.at = "read" /\ c.job = j /\ c.total = job[j].total
    BY DEF Read, Unused
  <1> HIDE DEF c
  <1>5. ThreadOK(c)
    BY <1>1, <1>4 DEF ThreadOK
  <1>6. QED
    BY <1>3, <1>5 DEF c

\* A step of one thread that writes nothing.
LEMMA ThreadModest ==
  ASSUME IInv, NEW h \in Thread, NEW c \in WorkerThread, ThreadOK(c),
         thread' = [thread EXCEPT ![h] = c],
         UNCHANGED <<film, job, task, hung>>
  PROVE  Modest
  <1>1. FilmStep /\ JobStep
    BY SameFilm, SameJob DEF IInv
  <1>2. QED
    BY <1>1, SameTask, OneThread DEF Modest, IInv

LEMMA RequestModest ==
  ASSUME IInv, NEW h \in Thread, Reject(h) \/ \E j \in Job : Poll(h, j)
  PROVE  Modest
  <1>1. CASE Reject(h)
    <2>1. PICK f \in Film, r \in Review :
            thread' = [thread EXCEPT ![h] =
              [Unused EXCEPT !.at = "checked", !.film = f, !.review = r]]
      BY <1>1 DEF Reject
    <2> DEFINE c == [Unused EXCEPT !.at = "checked", !.film = f, !.review = r]
    <2>2. c \in WorkerThread /\ ThreadOK(c)
      BY DEF Unused, WorkerThread, ThreadOK
    <2> HIDE DEF c
    <2>3. QED
      BY <1>1, <2>1, <2>2, ThreadModest DEF Reject, c
  <1>2. CASE \E j \in Job : Poll(h, j)
    BY <1>2, ReadOK, ThreadModest DEF Poll
  <1>3. QED
    BY <1>1, <1>2

LEMMA RejectedModest ==
  ASSUME IInv, NEW h \in Thread, Rejected(h)
  PROVE  Modest
  <1> DEFINE f == thread[h].film
             r == thread[h].review
             row == [film[f] EXCEPT !.status = "failed", !.reviews[r] = "rejected"]
             c == IF film[f].job = None THEN Unused
                  ELSE [Unused EXCEPT !.at = "rejected", !.job = film[f].job]
  <1>1. /\ f \in Film /\ r \in Review
        /\ film[f] \in FilmRows
    BY ThreadFacts DEF Rejected, ThreadOK, IInv, FilmInv
  <1>2. /\ film' = [film EXCEPT ![f] = row]
        /\ thread' = [thread EXCEPT ![h] = c]
        /\ UNCHANGED <<job, task, hung>>
    BY <1>1 DEF Rejected
  <1>3. /\ row \in FilmRows /\ row.status = "failed"
        /\ row.job = film[f].job /\ row.meta = film[f].meta
    BY <1>1 DEF FilmRows, Status
  <1>4. c \in WorkerThread /\ ThreadOK(c)
    <2>1. CASE film[f].job = None
      BY <2>1, UnusedOK
    <2>2. CASE film[f].job # None
      <3>1. film[f].job \in Job /\ job[film[f].job].status # "none"
        BY <1>1, <2>2 DEF FilmRows, IInv, JobInv
      <3>2. QED
        BY <2>2, <3>1 DEF Unused, WorkerThread, ThreadOK
    <2>3. QED
      BY <2>1, <2>2
  <1> HIDE DEF row, c
  <1>5. FilmStep
    <2>1. Follows(row, f)
      BY <1>3 DEF Follows, RowOK
    <2>2. QED
      BY <1>1, <1>2, <2>1, OneFilm DEF IInv
  <1>6. JobStep
    BY <1>2, SameJob DEF IInv
  <1>7. QED
    BY <1>2, <1>4, <1>5, <1>6, SameTask, OneThread DEF Modest, IInv

LEMMA ReadJobModest ==
  ASSUME IInv, NEW h \in Thread, ReadJob(h)
  PROVE  Modest
  <1>1. thread[h].job \in Job /\ job[thread[h].job].status # "none"
    BY ThreadFacts DEF ReadJob, ThreadOK
  <1>2. QED
    BY <1>1, ReadOK, ThreadModest DEF ReadJob

\* A count is at most the total that the thread has read.
LEMMA CountModest ==
  ASSUME IInv, NEW h \in Thread, CountFilms(h)
  PROVE  Modest
  <1> DEFINE j == thread[h].job
             p == Processed(j, film)
             same == p = thread[h].processed
             done == thread[h].completes /\ p >= thread[h].total
             c == [thread[h] EXCEPT !.at = "counted", !.completes = done,
                                    !.processed = IF same THEN None ELSE p]
  <1>1. /\ thread[h] \in WorkerThread /\ thread[h].at = "read"
        /\ j \in Job /\ job[j].status # "none"
        /\ job[j].total <= thread[h].total
    BY ThreadFacts DEF CountFilms, ThreadOK
  <1>2. p \in 0 .. thread[h].total
    <2>1. p \in Nat /\ p <= job[j].total
      BY <1>1, Counts, ProcessedAtMost DEF IInv, JobInv
    <2>2. job[j].total \in Nat /\ thread[h].total \in Nat
      BY <1>1 DEF IInv, JobInv, JobRow, WorkerThread
    <2>3. QED
      BY <1>1, <2>1, <2>2
  <1>3. /\ thread' = [thread EXCEPT ![h] = IF same /\ ~done THEN Unused ELSE c]
        /\ UNCHANGED <<film, job, task, hung>>
    BY <1>1 DEF CountFilms, IInv, ThreadInv
  <1>4. done \in BOOLEAN /\ (IF same THEN None ELSE p) \in {None} \cup 0 .. thread[h].total
    BY <1>1, <1>2 DEF WorkerThread
  <1> DEFINE new == IF same THEN None ELSE p
  <1>5. c = [thread[h] EXCEPT !.at = "counted", !.completes = done,
                              !.processed = new]
    OBVIOUS
  <1>6. new \in Nat \cup {None} /\ thread[h].total \in Nat
    BY <1>1, <1>4 DEF WorkerThread
  <1> HIDE DEF same, done, p, new
  <1>7. /\ c \in WorkerThread
        /\ c.at = "counted" /\ c.job = j /\ c.total = thread[h].total
        /\ c.processed = new
    BY <1>1, <1>4, <1>5, <1>6 DEF WorkerThread
  <1> HIDE DEF c
  <1>8. ThreadOK(c)
    BY <1>1, <1>4, <1>7 DEF ThreadOK, new
  <1>9. QED
    BY <1>3, <1>7, <1>8, UnusedOK, ThreadModest

\* Only a count that the CHECK allows is written; a job that it completes was
\* found to be through.
LEMMA WriteModest ==
  ASSUME IInv, NEW h \in Thread, WriteProgress(h)
  PROVE  Modest
  <1> DEFINE j == thread[h].job
             row == Progressed(h)
  <1>1. /\ thread[h] \in WorkerThread /\ thread[h].at = "counted"
        /\ j \in Job /\ job[j].status # "none" /\ job[j] \in JobRow
    BY ThreadFacts DEF WriteProgress, ThreadOK, IInv, JobInv
  <1>2. /\ row \in JobRow
        /\ row.total = job[j].total
        /\ row.status = IF thread[h].completes THEN "complete" ELSE job[j].status
    BY <1>1 DEF Progressed, JobRow, WorkerThread
  <1>3. /\ job' = IF Allowed(row) THEN [job EXCEPT ![j] = row] ELSE job
        /\ thread' = [thread EXCEPT ![h] = Unused]
        /\ UNCHANGED <<film, task, hung>>
    BY DEF WriteProgress
  <1>4. thread[h].completes => job[j].status = "complete" \/ Found(j)
    BY <1>1 DEF Found, JobRow
  <1> HIDE DEF row
  <1>5. JobStep
    <2>1. CASE Allowed(row)
      <3>1. \A i \in Job : job'[i] = IF i = j THEN row ELSE job[i]
        BY <1>3, <2>1 DEF IInv, JobInv
      <3>2. job' \in [Job -> JobRow]
        BY <1>2, <1>3, <2>1 DEF IInv, JobInv
      <3>3. QED
        BY <1>1, <1>2, <1>4, <2>1, <3>1, <3>2 DEF JobStep
    <2>2. CASE ~Allowed(row)
      BY <1>3, <2>2, SameJob DEF IInv
    <2>3. QED
      BY <2>1, <2>2
  <1>6. FilmStep
    BY <1>3, SameFilm DEF IInv
  <1>7. QED
    BY <1>3, <1>5, <1>6, UnusedOK, SameTask, OneThread DEF Modest, IInv

LEMMA ThreadsModest ==
  ASSUME IInv, NEW h \in Thread,
         Serve(h) \/ Reject(h) \/ \E j \in Job : Poll(h, j)
  PROVE  Modest
BY RequestModest, RejectedModest, ReadJobModest, CountModest, WriteModest DEF Serve

LEMMA CrashModest ==
  ASSUME IInv, Crash
  PROVE  Modest
  <1>1. FilmStep /\ JobStep
    BY SameFilm, SameJob DEF IInv, Crash
  <1>2. TaskInv'
    <2>1. TaskOK(Idle)'
      BY <1>1, IdleOK, TasksKeep
    <2>2. QED
      BY <2>1, IdleOK DEF Crash, TaskInv
  <1>3. ThreadInv'
    <2>1. ThreadOK(Unused)'
      BY <1>1, UnusedOK, JobsKeep, ThreadsKeep DEF IInv
    <2>2. QED
      BY <2>1, UnusedOK DEF Crash, ThreadInv
  <1>4. QED
    BY <1>1, <1>2, <1>3 DEF Crash, Modest

-----------------------------------------------------------------------------
(* An import gives films to a new job, and takes some from others.         *)

LEMMA ImportKeeps ==
  ASSUME IInv, NEW t \in Task, NEW j \in Job, Import(t, j)
  PROVE  IInv' /\ Completes
  <1>1. PICK rows \in SUBSET Film :
          LET queued == {f \in rows : film[f].status \in {"absent", "failed"}}
              films  == [f \in Film |->
                           IF f \in queued
                           THEN [film[f] EXCEPT !.status = "pending", !.job = j]
                           ELSE film[f]]
          IN  IF \E f \in queued : Locked(t, f) THEN Hang
              ELSE /\ film' = films
                   /\ job' = [i \in Job |->
                        IF i = j
                        THEN [status |-> "running", total |-> Cardinality(queued),
                              processed |-> 0]
                        ELSE IF \E f \in queued : film[f].job = i
                        THEN Recounted(i, films)
                        ELSE job[i]]
                   /\ task' = [task EXCEPT ![t] =
                        [Idle EXCEPT !.kind = "worker", !.at = "between",
                                     !.job = j, !.todo = queued]]
                   /\ UNCHANGED <<thread, hung>>
    BY DEF Import
  <1> DEFINE queued == {f \in rows : film[f].status \in {"absent", "failed"}}
             c == [Idle EXCEPT !.kind = "worker", !.at = "between",
                               !.job = j, !.todo = queued]
  <1>2. job[j].status = "none"
    BY DEF Import
  <1>3. CASE \E f \in queued : Locked(t, f)
    BY <1>1, <1>3, HangModest, ModestKeeps
  <1>4. CASE ~\E f \in queued : Locked(t, f)
    <2>1. /\ queued \subseteq Film
          /\ film' = [f \in Film |->
                        IF f \in queued
                        THEN [film[f] EXCEPT !.status = "pending", !.job = j]
                        ELSE film[f]]
          /\ job' = [i \in Job |->
                IF i = j
                THEN [status |-> "running", total |-> Cardinality(queued),
                      processed |-> 0]
                ELSE IF \E f \in queued : film[f].job = i
                THEN Recounted(i, film')
                ELSE job[i]]
          /\ task' = [task EXCEPT ![t] = c]
          /\ UNCHANGED <<thread, hung>>
      BY <1>1, <1>4
    <2>2. c \in Coroutine
      BY <2>1 DEF Coroutine, Idle
    <2>3. c.kind = "worker" /\ c.at = "between" /\ c.job = j
      BY DEF Idle
    <2> HIDE DEF queued, c
    <2>4. FilmInv'
      <3>1. ASSUME NEW f \in Film
            PROVE  RowOK(film'[f])
        <4>1. film[f] \in FilmRows /\ RowOK(film[f])
          BY DEF IInv, FilmInv
        <4>2. CASE f \in queued
          <5>1. film'[f] = [film[f] EXCEPT !.status = "pending", !.job = j]
            BY <2>1, <4>2
          <5>2. film'[f] \in FilmRows /\ film'[f].status = "pending"
            BY <4>1, <5>1 DEF FilmRows, Status
          <5>3. QED
            BY <5>2 DEF RowOK
        <4>3. CASE f \notin queued
          BY <2>1, <4>1, <4>3
        <4>4. QED
          BY <4>2, <4>3
      <3>2. film' \in [Film -> FilmRows]
        BY <2>1, <3>1 DEF RowOK
      <3>3. QED
        BY <3>1, <3>2 DEF FilmInv
    <2>5. \A f \in Film : /\ film'[f].meta = film[f].meta
                          /\ film'[f].job = IF f \in queued THEN j ELSE film[f].job
      BY <2>1 DEF IInv, FilmInv, FilmRows
    <2>6. FilmsOf(j, film') = queued
      <3>1. FilmsOf(j, film) = {}
        BY <1>2, NoneIsEmpty, NoneAssumption DEF IInv
      <3>2. QED
        BY <2>1, <2>5, <3>1 DEF FilmsOf
    <2>7. ASSUME NEW i \in Job
          PROVE  /\ job'[i] \in JobRow
                 /\ job'[i].total = Cardinality(FilmsOf(i, film'))
                 /\ job'[i].processed <= job'[i].total
                 /\ job[i].status # "none" => job'[i].status # "none"
                 /\ i = j => job'[i].status # "none"
                 /\ job'[i].status = "complete" =>
                      job[i].status = "complete"
                      \/ Processed(i, film') >= Cardinality(FilmsOf(i, film'))
      <3>1. CASE i = j
        <4>1. job'[i] = [status |-> "running", total |-> Cardinality(queued),
                         processed |-> 0]
          BY <2>1, <3>1
        <4>2. Cardinality(queued) \in Nat /\ FilmsOf(i, film') = queued
          BY <2>6, <3>1, Counts
        <4>3. QED
          BY <4>1, <4>2 DEF JobRow
      <3>2. CASE i # j /\ \E f \in queued : film[f].job = i
        <4> DEFINE total == Cardinality(FilmsOf(i, film'))
                   p == Processed(i, film')
                   r == [job[i] EXCEPT !.total = total]
                   done == p >= total
        <4>1. job'[i] = Counted(r, p, done)
          BY <2>1, <3>2 DEF Recounted
        <4>2. p \in Nat /\ total \in Nat /\ p <= total
          BY Counts, ProcessedAtMost
        <4>3. r \in JobRow /\ r.total = total /\ r.status = job[i].status
          BY <4>2 DEF IInv, JobInv, JobRow
        <4>4. done \in BOOLEAN /\ (done => p >= total)
          OBVIOUS
        <4>5. job[i].status # "none"
          <5>1. PICK f \in Film : film[f].job = i
            BY <2>1, <3>2
          <5>2. QED
            BY <5>1, NoneAssumption DEF IInv, JobInv
        <4> HIDE DEF r, p, done, total
        <4>6. /\ job'[i] \in JobRow /\ job'[i].total = total
              /\ job'[i].processed = p
              /\ job'[i].status = IF done THEN "complete" ELSE job[i].status
          BY <4>1, <4>2, <4>3, <4>4, CountedRow
        <4>7. QED
          BY <3>2, <4>2, <4>4, <4>5, <4>6 DEF total, p
      <3>3. CASE i # j /\ ~\E f \in queued : film[f].job = i
        <4>1. job'[i] = job[i]
          BY <2>1, <3>3
        <4>2. FilmsOf(i, film') = FilmsOf(i, film)
          BY <2>1, <2>5, <3>3 DEF FilmsOf
        <4>3. QED
          BY <3>3, <4>1, <4>2 DEF IInv, JobInv, Allowed
      <3>4. QED
        BY <3>1, <3>2, <3>3
    <2>8. \A f \in Film : film'[f].job # None => job'[film'[f].job].status # "none"
      <3> SUFFICES ASSUME NEW f \in Film, film'[f].job # None
                   PROVE  job'[film'[f].job].status # "none"
        OBVIOUS
      <3>1. CASE f \in queued
        BY <2>5, <2>7, <3>1
      <3>2. CASE f \notin queued
        <4>1. /\ film'[f].job = film[f].job
              /\ film[f].job \in Job /\ job[film[f].job].status # "none"
          BY <2>5, <3>2 DEF IInv, FilmInv, FilmRows, JobInv
        <4>2. QED
          BY <2>7, <4>1
      <3>3. QED
        BY <3>1, <3>2
    <2>9. JobInv'
      <3>1. job' \in [Job -> JobRow]
        BY <2>1, <2>7
      <3>2. QED
        BY <2>7, <2>8, <3>1 DEF JobInv, Allowed
    <2>10. TaskInv'
      <3>1. task' \in [Task -> Coroutine]
        BY <2>1, <2>2 DEF IInv, TaskInv
      <3>2. ASSUME NEW q \in Task
            PROVE  TaskOK(task[q])'
        <4>1. CASE q = t
          <5>1. task'[q] = c
            BY <2>1, <4>1 DEF IInv, TaskInv
          <5>2. QED
            BY <2>3, <2>7, <5>1 DEF TaskOK
        <4>2. CASE q # t
          <5>1. task'[q] = task[q] /\ task[q] \in Coroutine /\ TaskOK(task[q])
            BY <2>1, <4>2 DEF IInv, TaskInv
          <5>2. QED
            BY <2>5, <2>7, <5>1 DEF TaskOK, Coroutine
        <4>3. QED
          BY <4>1, <4>2
      <3>3. QED
        BY <3>1, <3>2 DEF TaskInv
    <2>11. Completes
      BY <2>7, AllProcessed DEF Completes, AllThrough
    <2>12. ThreadInv'
      <3>1. ASSUME NEW i \in Job, job[i].status # "none"
            PROVE  job'[i].status # "none" /\ job'[i].total <= job[i].total
        <4>1. FilmsOf(i, film') \subseteq FilmsOf(i, film)
          BY <1>2, <2>5, <3>1 DEF FilmsOf
        <4>2. Cardinality(FilmsOf(i, film')) <= Cardinality(FilmsOf(i, film))
          BY <4>1, Counts, FS_Subset
        <4>3. QED
          BY <2>7, <3>1, <4>2 DEF IInv, JobInv
      <3>2. job \in [Job -> JobRow] /\ job' \in [Job -> JobRow]
        BY <2>9 DEF IInv, JobInv
      <3>3. \A h \in Thread : ThreadOK(thread[h])'
        <4>1. \A h \in Thread : thread'[h] \in WorkerThread /\ ThreadOK(thread'[h])
          BY <2>1, ThreadFacts DEF ThreadOK
        <4>2. QED
          BY <3>1, <3>2, <4>1, ThreadsKeep
      <3>4. QED
        BY <2>1, <3>3 DEF IInv, ThreadInv
    <2>13. QED
      BY <2>1, <2>4, <2>9, <2>10, <2>11, <2>12 DEF IInv
  <1>5. QED
    BY <1>3, <1>4

-----------------------------------------------------------------------------
(* The refinement of ImportJobs.  A step changes the stage of one film at  *)
(* most, since a film that a worker is matching stays pending: the others  *)
(* wait for its row.                                                       *)

\* What a coroutine may rely on while it waits: only a manual add works on a
\* film that is not there yet, and a film that is being matched is pending.
KeptBy(c) ==
  /\ \/ c.at \in {"matching", "queued", "describing", "embedding"}
     \/ c.at = "asking" /\ c.kind # "add"
     => film[c.film].status # "absent"
  /\ c.at = "matching" => film[c.film].status = "pending"

\* A thread has only checked a review of a film that is there.
Kept ==
  /\ \A t \in Task : KeptBy(task[t])
  /\ \A h \in Thread :
       thread[h].at = "checked" => film[thread[h].film].status # "absent"

\* The status of a row that may follow one of the status before.
Ensues(before, after) ==
  /\ after \in {"enriching", "review_required", "ready", "failed"}
  /\ before = "absent" => after = "enriching"
  /\ after = "review_required" => before = "pending"

\* Either no row changes or one does, which no other coroutine is matching.
Sparing(t) ==
  \/ film' = film
  \/ \E f \in Film :
       /\ film' = [film EXCEPT ![f] = film'[f]]
       /\ Ensues(film[f].status, film'[f].status)
       /\ \A q \in Task \ {t} : task[q].at = "matching" => task[q].film # f

\* The other coroutines and the threads stay where they are.
Alone(t) == thread' = thread /\ \A q \in Task \ {t} : task'[q] = task[q]

\* A step of the coroutine t, which may rely on what it remembers next.
Orderly(t) == Sparing(t) /\ Alone(t) /\ KeptBy(task[t])'

\* Rows are not lost, so what the others rely on stays.
LEMMA OrderlyKeeps ==
  ASSUME IInv, Kept, NEW t \in Task, Orderly(t)
  PROVE  Kept'
  <1>1. ASSUME NEW f \in Film, film[f].status # "absent"
        PROVE  film'[f].status # "absent"
    BY <1>1 DEF Orderly, Sparing, Ensues, IInv, FilmInv
  <1>2. ASSUME NEW q \in Task, q # t
        PROVE  KeptBy(task[q])'
    <2>1. task'[q] = task[q] /\ task[q] \in Coroutine
          /\ TaskOK(task[q]) /\ KeptBy(task[q])
      BY <1>2, TaskFacts DEF Orderly, Alone, Kept
    <2>2. ASSUME task[q].at = "matching"
          PROVE  film'[task[q].film].status = "pending"
      BY <1>2, <2>1, <2>2 DEF Orderly, Sparing, KeptBy, TaskOK, IInv, FilmInv
    <2>3. QED
      BY <1>1, <2>1, <2>2 DEF KeptBy, TaskOK
  <1>3. ASSUME NEW h \in Thread, thread'[h].at = "checked"
        PROVE  film'[thread'[h].film].status # "absent"
    BY <1>1, <1>3, ThreadFacts DEF Orderly, Alone, Kept, ThreadOK
  <1>4. QED
    BY <1>2, <1>3 DEF Orderly, Kept

\* A row that is free of other coroutines' locks is not being matched by them.
LEMMA FreeIsSpared ==
  ASSUME IInv, NEW t \in Task, NEW f \in Film, ~Locked(t, f)
  PROVE  \A q \in Task \ {t} : task[q].at = "matching" => task[q].film # f
BY TaskFacts DEF Locked, TaskOK

LEMMA HangOrderly ==
  ASSUME IInv, Kept, NEW t \in Task, Hang
  PROVE  Orderly(t)
BY DEF Hang, Orderly, Sparing, Alone, Kept, KeptBy

\* A step that writes nothing.
LEMMA TaskOrderly ==
  ASSUME IInv, NEW t \in Task, NEW c, KeptBy(c),
         task' = [task EXCEPT ![t] = c], UNCHANGED <<film, thread>>
  PROVE  Orderly(t)
BY DEF IInv, TaskInv, Orderly, Sparing, Alone, KeptBy

LEMMA IdleKept == KeptBy(Idle)
BY DEF Idle, KeptBy

LEMMA SettleOrderly ==
  ASSUME IInv, Kept, NEW t \in Task, task[t].film \in Film, NEW row,
         Ensues(film[task[t].film].status, row.status), Settle(t, row)
  PROVE  Orderly(t)
  <1>1. CASE Locked(t, task[t].film)
    BY <1>1, HangOrderly DEF Settle
  <1>2. CASE ~Locked(t, task[t].film)
    <2>1. /\ film' = [film EXCEPT ![task[t].film] = row]
          /\ task' = [task EXCEPT ![t] = Ended(t)]
          /\ thread' = thread
      BY <1>2 DEF Settle
    <2>2. Sparing(t)
      BY <1>2, <2>1, FreeIsSpared DEF Sparing, IInv, FilmInv
    <2>3. KeptBy(task[t])'
      BY <2>1 DEF KeptBy, Ended, Idle, IInv, TaskInv
    <2>4. QED
      BY <2>1, <2>2, <2>3 DEF Orderly, Alone, IInv, TaskInv
  <1>3. QED
    BY <1>1, <1>2

LEMMA AnswerOrderly ==
  ASSUME IInv, Kept, NEW t \in Task, task[t].film \in Film, NEW row,
         NEW m, row.status = "enriching", Answer(t, m, row)
  PROVE  Orderly(t)
  <1>1. CASE Held(t, m) \/ Locked(t, task[t].film)
    BY <1>1, HangOrderly DEF Answer
  <1>2. CASE ~(Held(t, m) \/ Locked(t, task[t].film))
    <2>1. /\ film' = [film EXCEPT ![task[t].film] = row]
          /\ task' = [task EXCEPT ![t] = Queued(t)]
          /\ thread' = thread
      BY <1>2 DEF Answer
    <2>2. Sparing(t)
      BY <1>2, <2>1, FreeIsSpared DEF Sparing, Ensues, IInv, FilmInv
    <2>3. film'[task[t].film].status = "enriching"
      BY <2>1 DEF IInv, FilmInv
    <2>4. KeptBy(task[t])'
      BY <2>1, <2>3 DEF KeptBy, Queued, Idle, IInv, TaskInv
    <2>5. QED
      BY <2>1, <2>2, <2>4 DEF Orderly, Alone, IInv, TaskInv
  <1>3. QED
    BY <1>1, <1>2

LEMMA TakeFilmOrderly ==
  ASSUME IInv, Kept, NEW t \in Task, TakeFilm(t)
  PROVE  Orderly(t)
  <1>1. PICK f \in task[t].todo :
          CASE film[f].status = "pending" /\ Locked(t, f) -> Hang
            [] film[f].status = "pending" /\ ~Locked(t, f) ->
                 /\ task' = [task EXCEPT ![t].at = "matching", ![t].film = f,
                                         ![t].fresh = TRUE]
                 /\ UNCHANGED <<film, job, thread, hung>>
            [] film[f].status = "enriching" ->
                 /\ task' = [task EXCEPT ![t].at = "describing", ![t].film = f,
                                         ![t].source = film[f].meta]
                 /\ UNCHANGED <<film, job, thread, hung>>
            [] OTHER ->
                 /\ task' = [task EXCEPT ![t].todo = @ \ {f}]
                 /\ UNCHANGED <<film, job, thread, hung>>
    BY DEF TakeFilm
  <1>2. task[t] \in Coroutine /\ task[t].at = "between"
    BY TaskFacts DEF TakeFilm, At
  <1>3. CASE film[f].status = "pending" /\ Locked(t, f)
    BY <1>1, <1>3, HangOrderly
  <1>4. CASE film[f].status = "pending" /\ ~Locked(t, f)
    <2> DEFINE c == [task[t] EXCEPT !.at = "matching", !.film = f, !.fresh = TRUE]
    <2>1. KeptBy(c)
      BY <1>2, <1>4 DEF KeptBy, Coroutine
    <2>2. task' = [task EXCEPT ![t] = c] /\ UNCHANGED <<film, thread>>
      BY <1>1, <1>4
    <2> HIDE DEF c
    <2>3. QED
      BY <2>1, <2>2, TaskOrderly
  <1>5. CASE film[f].status = "enriching"
    <2> DEFINE c == [task[t] EXCEPT !.at = "describing", !.film = f,
                                    !.source = film[f].meta]
    <2>1. KeptBy(c)
      BY <1>2, <1>5 DEF KeptBy, Coroutine
    <2>2. task' = [task EXCEPT ![t] = c] /\ UNCHANGED <<film, thread>>
      BY <1>1, <1>5
    <2> HIDE DEF c
    <2>3. QED
      BY <2>1, <2>2, TaskOrderly
  <1>6. CASE film[f].status \notin {"pending", "enriching"}
    <2> DEFINE c == [task[t] EXCEPT !.todo = @ \ {f}]
    <2>1. KeptBy(c)
      BY <1>2 DEF KeptBy, Coroutine
    <2>2. task' = [task EXCEPT ![t] = c] /\ UNCHANGED <<film, thread>>
      BY <1>1, <1>6
    <2> HIDE DEF c
    <2>3. QED
      BY <2>1, <2>2, TaskOrderly
  <1>7. QED
    BY <1>3, <1>4, <1>5, <1>6

\* What a pipeline writes at the end: the film is there, and through.
LEMMA OutcomeOrderly ==
  ASSUME IInv, Kept, NEW t \in Task, task[t].at \in {"describing", "embedding"},
         NEW row, row.status \in {"failed", "ready"},
         Settle(t, row)
  PROVE  Orderly(t)
  <1>1. task[t].film \in Film /\ film[task[t].film].status # "absent"
    BY TaskFacts DEF TaskOK, Kept, KeptBy
  <1>2. Ensues(film[task[t].film].status, row.status)
    BY <1>1 DEF Ensues
  <1>3. QED
    BY <1>1, <1>2, SettleOrderly

LEMMA MatchedOrderly ==
  ASSUME IInv, Kept, NEW t \in Task, Matched(t)
  PROVE  Orderly(t)
  <1> DEFINE f == task[t].film
  <1>1. /\ f \in Film /\ film[f] \in FilmRows /\ film[f].status = "pending"
        /\ task[t] \in Coroutine /\ task[t].kind = "worker"
    BY TaskFacts DEF Matched, At, TaskOK, Kept, KeptBy
  <1>2. CASE Settle(t, [film[f] EXCEPT !.status = "failed"])
    <2> DEFINE row == [film[f] EXCEPT !.status = "failed"]
    <2>1. Ensues(film[f].status, row.status)
      BY <1>1 DEF Ensues, FilmRows
    <2> HIDE DEF row
    <2>2. QED
      BY <1>1, <1>2, <2>1, SettleOrderly DEF row
  <1>3. CASE \E r \in FreeReview(f) :
          Settle(t, [film[f] EXCEPT !.status = "review_required",
                                    !.reviews[r] = "pending"])
    <2>1. PICK r : Settle(t, [film[f] EXCEPT !.status = "review_required",
                                             !.reviews[r] = "pending"])
      BY <1>3
    <2> DEFINE row == [film[f] EXCEPT !.status = "review_required",
                                      !.reviews[r] = "pending"]
    <2>2. Ensues(film[f].status, row.status)
      BY <1>1 DEF Ensues, FilmRows
    <2> HIDE DEF row
    <2>3. QED
      BY <1>1, <2>1, <2>2, SettleOrderly DEF row
  <1>4. CASE \E m \in Finds[f], r \in FreeReview(f) \cup {None} :
          /\ ~Held(t, m) /\ ~Taken(t, m)
          /\ task' = [task EXCEPT ![t].at = "describing", ![t].source = m,
                                  ![t].review = r]
          /\ UNCHANGED <<film, job, thread, hung>>
    <2>1. PICK m, r :
            /\ task' = [task EXCEPT ![t].at = "describing", ![t].source = m,
                                    ![t].review = r]
            /\ UNCHANGED <<film, job, thread, hung>>
      BY <1>4
    <2> DEFINE c == [task[t] EXCEPT !.at = "describing", !.source = m,
                                    !.review = r]
    <2>2. KeptBy(c)
      BY <1>1 DEF KeptBy, Coroutine
    <2>3. task' = [task EXCEPT ![t] = c] /\ UNCHANGED <<film, thread>>
      BY <2>1
    <2> HIDE DEF c
    <2>4. QED
      BY <2>2, <2>3, TaskOrderly
  <1>5. CASE \E m \in Finds[f] : Held(t, m) /\ Hang
    BY <1>5, HangOrderly
  <1>6. QED
    BY <1>2, <1>3, <1>4, <1>5 DEF Matched

LEMMA PipelineOrderly ==
  ASSUME IInv, Kept, NEW t \in Task, Described(t) \/ Embedded(t) \/ Begin(t)
  PROVE  Orderly(t)
  <1>1. /\ task[t] \in Coroutine /\ KeptBy(task[t])
        /\ task[t].at \in {"describing", "embedding", "queued"}
        /\ film[task[t].film].status # "absent"
    BY TaskFacts DEF Described, Embedded, Begin, At, Kept, KeptBy
  <1>2. ASSUME task[t].at # "queued", NEW row,
               row.status \in {"failed", "ready"}, Settle(t, row)
        PROVE  Orderly(t)
    BY <1>1, <1>2, OutcomeOrderly
  <1>3. ASSUME NEW c, KeptBy(c), task' = [task EXCEPT ![t] = c],
               UNCHANGED <<film, thread>>
        PROVE  Orderly(t)
    BY <1>3, TaskOrderly
  <1>4. CASE Described(t)
    <2> DEFINE row == [Uncommitted(t) EXCEPT !.status = "failed"]
               c == [task[t] EXCEPT !.at = "embedding"]
    <2>1. KeptBy(c)
      BY <1>1 DEF KeptBy, Coroutine
    <2>2. row.status = "failed" /\ task[t].at = "describing"
      BY <1>4, UncommittedOK DEF Described, At, FilmRows
    <2>3. \/ Settle(t, row)
          \/ Hang
          \/ task' = [task EXCEPT ![t] = c] /\ UNCHANGED <<film, thread>>
      BY <1>4 DEF Described
    <2> HIDE DEF row, c
    <2>4. QED
      BY <1>2, <1>3, <2>1, <2>2, <2>3, HangOrderly
  <1>5. CASE Embedded(t)
    <2> DEFINE row == [Uncommitted(t) EXCEPT !.status = "failed"]
               good == [Uncommitted(t) EXCEPT !.status = "ready",
                                              !.vector = task[t].source]
    <2>1. /\ row.status = "failed" /\ good.status = "ready"
          /\ task[t].at = "embedding"
      BY <1>5, UncommittedOK DEF Embedded, At, FilmRows
    <2>2. Settle(t, row) \/ Settle(t, good)
      BY <1>5 DEF Embedded
    <2> HIDE DEF row, good
    <2>3. QED
      BY <1>2, <2>1, <2>2
  <1>6. CASE Begin(t)
    <2>1. KeptBy([task[t] EXCEPT !.at = "describing",
                                 !.source = film[task[t].film].meta])
      BY <1>1 DEF KeptBy, Coroutine
    <2>2. QED
      BY <1>3, <1>6, <2>1, IdleKept DEF Begin
  <1>7. QED
    BY <1>4, <1>5, <1>6

LEMMA AskingOrderly ==
  ASSUME IInv, Kept, NEW t \in Task,
         \/ Refused(t) \/ FinishJob(t)
         \/ StartAccept(t) \/ StartRematch(t) \/ StartAdd(t)
  PROVE  Orderly(t)
  <1>1. CASE Refused(t) \/ FinishJob(t)
    BY <1>1, IdleKept, TaskOrderly DEF Refused, FinishJob
  <1>2. ASSUME NEW kind, NEW f, NEW r, NEW fresh, Asks(t, kind, f, r, fresh),
               kind = "add" \/ film[f].status # "absent"
        PROVE  Orderly(t)
    <2> DEFINE c == [Idle EXCEPT !.kind = kind, !.at = "asking", !.film = f,
                                 !.review = r, !.fresh = fresh]
    <2>1. KeptBy(c)
      BY <1>2 DEF KeptBy, Idle
    <2>2. task' = [task EXCEPT ![t] = c] /\ UNCHANGED <<film, thread>>
      BY <1>2 DEF Asks
    <2> HIDE DEF c
    <2>3. QED
      BY <2>1, <2>2, TaskOrderly
  <1>3. CASE StartAccept(t)
    BY <1>2, <1>3 DEF StartAccept
  <1>4. CASE StartRematch(t)
    BY <1>2, <1>4 DEF StartRematch
  <1>5. CASE StartAdd(t)
    BY <1>2, <1>5, HangOrderly DEF StartAdd
  <1>6. QED
    BY <1>1, <1>3, <1>4, <1>5

LEMMA AnsweredOrderly ==
  ASSUME IInv, Kept, NEW t \in Task,
         FinishAccept(t) \/ FinishRematch(t) \/ FinishAdd(t)
  PROVE  Orderly(t)
  <1> DEFINE f == task[t].film
  <1>1. f \in Film /\ film[f] \in FilmRows
    BY TaskFacts DEF FinishAccept, FinishRematch, FinishAdd, At, TaskOK
  <1>2. ASSUME NEW row, NEW m, row.status = "enriching", Answer(t, m, row)
        PROVE  Orderly(t)
    BY <1>1, <1>2, AnswerOrderly
  <1>3. CASE FinishAccept(t)
    <2>1. PICK m : Answer(t, m, [film[f] EXCEPT
                     !.status = "enriching", !.meta = m,
                     !.reviews[task[t].review] = "accepted"])
      BY <1>3 DEF FinishAccept
    <2>2. [film[f] EXCEPT !.status = "enriching", !.meta = m,
             !.reviews[task[t].review] = "accepted"].status = "enriching"
      BY <1>1 DEF FilmRows
    <2>3. QED
      BY <1>2, <2>1, <2>2
  <1>4. CASE FinishRematch(t)
    <2> DEFINE answers == [r \in Review |->
                             IF film[f].reviews[r] = "pending" THEN "accepted"
                             ELSE film[f].reviews[r]]
    <2>1. PICK m : Answer(t, m, [film[f] EXCEPT
                     !.status = "enriching", !.meta = m, !.reviews = answers])
      BY <1>4 DEF FinishRematch
    <2>2. [film[f] EXCEPT !.status = "enriching", !.meta = m,
             !.reviews = answers].status = "enriching"
      BY <1>1 DEF FilmRows
    <2> HIDE DEF answers
    <2>3. QED
      BY <1>2, <2>1, <2>2
  <1>5. CASE FinishAdd(t)
    <2>1. PICK m : Answer(t, m, [film[f] EXCEPT !.status = "enriching",
                                               !.meta = m])
      BY <1>5 DEF FinishAdd
    <2>2. [film[f] EXCEPT !.status = "enriching", !.meta = m].status = "enriching"
      BY <1>1 DEF FilmRows
    <2>3. QED
      BY <1>2, <2>1, <2>2
  <1>6. QED
    BY <1>3, <1>4, <1>5

\* No row changes, or one does.
OneMoves ==
  \/ film' = film
  \/ \E f \in Film : /\ film' = [film EXCEPT ![f] = film'[f]]
                     /\ Ensues(film[f].status, film'[f].status)

\* The threads, the feed and a restart keep it; a review is rejected only
\* while no coroutine is matching its film.
LEMMA RejectedKeeps ==
  ASSUME IInv, Kept, NEW h \in Thread, Rejected(h)
  PROVE  Kept' /\ OneMoves
  <1> DEFINE f == thread[h].film
             c == IF film[f].job = None THEN Unused
                  ELSE [Unused EXCEPT !.at = "rejected", !.job = film[f].job]
  <1>1. /\ f \in Film /\ film[f] \in FilmRows /\ film[f].status # "absent"
    BY ThreadFacts DEF Rejected, ThreadOK, Kept, IInv, FilmInv
  <1>2. /\ film' = [film EXCEPT ![f].status = "failed",
                               ![f].reviews[thread[h].review] = "rejected"]
        /\ thread' = [thread EXCEPT ![h] = c]
        /\ task' = task
        /\ ~\E t \in Task : task[t].film = f /\ task[t].fresh
    BY DEF Rejected
  <1>3. /\ film'[f].status = "failed"
        /\ \A g \in Film \ {f} : film'[g] = film[g]
        /\ film' = [film EXCEPT ![f] = film'[f]]
    BY <1>1, <1>2 DEF IInv, FilmInv, FilmRows
  <1>4. c.at # "checked"
    BY DEF Unused
  <1> HIDE DEF c
  <1>5. ASSUME NEW g \in Film, film[g].status # "absent"
        PROVE  film'[g].status # "absent"
    BY <1>3, <1>5
  <1>6. ASSUME NEW q \in Task
        PROVE  KeptBy(task[q])'
    <2>1. /\ task[q] \in Coroutine /\ TaskOK(task[q]) /\ KeptBy(task[q])
          /\ task'[q] = task[q]
      BY <1>2, TaskFacts DEF Kept
    <2>2. ASSUME task[q].at = "matching"
          PROVE  film'[task[q].film].status = "pending"
      BY <1>2, <1>3, <2>1, <2>2 DEF TaskOK, KeptBy
    <2>3. QED
      BY <1>5, <2>1, <2>2 DEF KeptBy, TaskOK
  <1>7. ASSUME NEW g \in Thread, thread'[g].at = "checked"
        PROVE  film'[thread'[g].film].status # "absent"
    <2>1. thread'[g] = IF g = h THEN c ELSE thread[g]
      BY <1>2 DEF IInv, ThreadInv
    <2>2. thread'[g] = thread[g]
      BY <1>4, <1>7, <2>1
    <2>3. QED
      BY <1>5, <1>7, <2>2, ThreadFacts DEF Kept, ThreadOK
  <1>8. OneMoves
    BY <1>1, <1>3 DEF OneMoves, Ensues
  <1>9. QED
    BY <1>6, <1>7, <1>8 DEF Kept

LEMMA OthersKeep ==
  ASSUME IInv, Kept,
         \/ Feed \/ Crash
         \/ \E h \in Thread :
              Serve(h) \/ Reject(h) \/ \E j \in Job : Poll(h, j)
  PROVE  Kept' /\ OneMoves
  <1>1. ASSUME film' = film, task' = task,
               \A h \in Thread : thread'[h].at = "checked" =>
                 \/ thread'[h] = thread[h]
                 \/ film[thread'[h].film].status # "absent"
        PROVE  Kept' /\ OneMoves
    BY <1>1 DEF Kept, KeptBy, OneMoves
  <1>2. ASSUME NEW h \in Thread, NEW c,
               thread' = [thread EXCEPT ![h] = c],
               c.at = "checked" => film[c.film].status # "absent",
               film' = film, task' = task
        PROVE  Kept' /\ OneMoves
    BY <1>1, <1>2 DEF IInv, ThreadInv
  <1>3. ASSUME NEW h \in Thread, Reject(h)
        PROVE  Kept' /\ OneMoves
    <2>1. PICK f \in Film, r \in Review :
            /\ film[f].status = "review_required"
            /\ thread' = [thread EXCEPT ![h] =
                 [Unused EXCEPT !.at = "checked", !.film = f, !.review = r]]
      BY <1>3 DEF Reject
    <2>2. [Unused EXCEPT !.at = "checked", !.film = f, !.review = r].film = f
      BY DEF Unused
    <2>3. film' = film /\ task' = task
      BY <1>3 DEF Reject
    <2>4. QED
      BY <1>2, <2>1, <2>2, <2>3
  <1>4. \A j \in Job : Read(j).at = "read"
    BY DEF Read, Unused
  <1>5. ASSUME NEW h \in Thread, NEW j \in Job, Poll(h, j)
        PROVE  Kept' /\ OneMoves
    BY <1>2, <1>4, <1>5 DEF Poll
  <1>6. ASSUME NEW h \in Thread, ReadJob(h)
        PROVE  Kept' /\ OneMoves
    BY <1>2, <1>4, <1>6, ThreadFacts DEF ReadJob, ThreadOK
  <1>7. ASSUME NEW h \in Thread, CountFilms(h)
        PROVE  Kept' /\ OneMoves
    <2>1. film' = film /\ task' = task
      BY <1>7 DEF CountFilms
    <2>2. \A g \in Thread : thread'[g].at = "checked" => thread'[g] = thread[g]
      BY <1>7 DEF CountFilms, Unused, IInv, ThreadInv, WorkerThread
    <2>3. QED
      BY <1>1, <2>1, <2>2
  <1>8. ASSUME NEW h \in Thread, WriteProgress(h)
        PROVE  Kept' /\ OneMoves
    <2>1. Unused.at = "idle"
      BY DEF Unused
    <2>2. QED
      BY <1>2, <1>8, <2>1 DEF WriteProgress
  <1>9. CASE Feed
    BY <1>1, <1>9 DEF Feed, Hang
  <1>10. CASE Crash
    <2>1. /\ film' = film /\ \A q \in Task : task'[q] = Idle
          /\ \A h \in Thread : thread'[h].at = "idle"
      BY <1>10 DEF Crash, Unused
    <2>2. QED
      BY <2>1, IdleKept DEF Kept, KeptBy, OneMoves
  <1>11. QED
    BY <1>3, <1>5, <1>6, <1>7, <1>8, <1>9, <1>10, RejectedKeeps DEF Serve

\* A job is only found to be done when its films are through.
Finding == \A j \in Job : Found(j)' => Found(j) \/ AllThrough(j)

LEMMA NothingFound ==
  ASSUME IInv, JobStep,
         \A h \in Thread : thread'[h].at = "counted" => thread'[h] = thread[h]
  PROVE  Finding
  <1> SUFFICES ASSUME NEW j \in Job, Found(j)'
               PROVE  Found(j)
    BY DEF Finding
  <1>1. PICK h \in Thread :
          thread'[h].job = j /\ thread'[h].at = "counted" /\ thread'[h].completes
    BY DEF Found
  <1>2. job[j].status = "running"
    <2>1. job'[j].status = "running" /\ job[j] \in JobRow
      BY DEF Found, IInv, JobInv
    <2>2. QED
      BY <2>1 DEF JobStep, JobRow
  <1>3. QED
    BY <1>1, <1>2 DEF Found

LEMMA OthersFind ==
  ASSUME IInv, Modest,
         \/ Feed \/ Crash
         \/ \E h \in Thread :
              Serve(h) \/ Reject(h) \/ \E j \in Job : Poll(h, j)
  PROVE  Finding
  <1>1. CASE \A h \in Thread : thread'[h].at = "counted" => thread'[h] = thread[h]
    BY <1>1, NothingFound DEF Modest
  <1>2. ASSUME NEW h \in Thread, NEW c, thread' = [thread EXCEPT ![h] = c],
               c.at # "counted"
        PROVE  Finding
    BY <1>1, <1>2 DEF IInv, ThreadInv
  <1>3. \A j \in Job : Read(j).at = "read"
    BY DEF Read, Unused
  <1>4. Unused.at = "idle"
    BY DEF Unused
  <1>5. ASSUME NEW h \in Thread, NEW j \in Job, Poll(h, j)
        PROVE  Finding
    BY <1>2, <1>3, <1>5 DEF Poll
  <1>6. ASSUME NEW h \in Thread, ReadJob(h)
        PROVE  Finding
    BY <1>2, <1>3, <1>6, ThreadFacts DEF ReadJob, ThreadOK
  <1>7. ASSUME NEW h \in Thread, Reject(h)
        PROVE  Finding
    <2>1. PICK f \in Film, r \in Review :
            thread' = [thread EXCEPT ![h] =
              [Unused EXCEPT !.at = "checked", !.film = f, !.review = r]]
      BY <1>7 DEF Reject
    <2>2. [Unused EXCEPT !.at = "checked", !.film = f, !.review = r].at = "checked"
      BY DEF Unused
    <2>3. QED
      BY <1>2, <2>1, <2>2
  <1>8. ASSUME NEW h \in Thread, Rejected(h)
        PROVE  Finding
    <2> DEFINE f == thread[h].film
               c == IF film[f].job = None THEN Unused
                    ELSE [Unused EXCEPT !.at = "rejected", !.job = film[f].job]
    <2>1. thread' = [thread EXCEPT ![h] = c]
      BY <1>8 DEF Rejected
    <2>2. c.at # "counted"
      BY DEF Unused
    <2> HIDE DEF c
    <2>3. QED
      BY <1>2, <2>1, <2>2
  <1>9. ASSUME NEW h \in Thread, WriteProgress(h)
        PROVE  Finding
    BY <1>2, <1>4, <1>9 DEF WriteProgress
  <1>10. CASE Feed
    BY <1>1, <1>10 DEF Feed, Hang
  <1>11. CASE Crash
    BY <1>1, <1>4, <1>11 DEF Crash
  <1>12. ASSUME NEW h \in Thread, CountFilms(h)
         PROVE  Finding
    <2> SUFFICES ASSUME NEW j \in Job, Found(j)', ~Found(j)
                 PROVE  AllThrough(j)
      BY DEF Finding
    <2>1. PICK g \in Thread :
            thread'[g].job = j /\ thread'[g].at = "counted" /\ thread'[g].completes
      BY DEF Found
    <2>2. job[j].status = "running" /\ film' = film
      BY <1>12 DEF CountFilms, Found
    <2>3. thread'[g] # thread[g]
      BY <2>1, <2>2 DEF Found
    <2>4. g = h
      BY <1>12, <2>3 DEF CountFilms, IInv, ThreadInv
    <2>5. /\ thread[h].job = j
          /\ Processed(j, film) >= thread[h].total
          /\ job[j].total <= thread[h].total
      <3>1. thread[h] \in WorkerThread /\ ThreadOK(thread[h]) /\ thread[h].at = "read"
        BY <1>12, ThreadFacts DEF CountFilms
      <3> DEFINE p == Processed(thread[h].job, film)
                 same == p = thread[h].processed
                 done == thread[h].completes /\ p >= thread[h].total
                 c == [thread[h] EXCEPT !.at = "counted", !.completes = done,
                                        !.processed = IF same THEN None ELSE p]
      <3>2. thread'[h] = IF same /\ ~done THEN Unused ELSE c
        BY <1>12 DEF CountFilms, IInv, ThreadInv
      <3>3. Unused.at = "idle" /\ c.job = thread[h].job /\ c.completes = done
        BY <3>1, <1>4 DEF WorkerThread
      <3> HIDE DEF c, done
      <3>4. done /\ thread[h].job = j
        BY <2>1, <2>4, <3>2, <3>3
      <3>5. QED
        BY <3>1, <3>4 DEF done, ThreadOK
    <2>6. Processed(j, film) >= Cardinality(FilmsOf(j, film))
      <3>1. /\ job[j].total = Cardinality(FilmsOf(j, film)) /\ job[j].total \in Nat
            /\ thread[h].total \in Nat /\ Processed(j, film) \in Nat
        BY Counts, ThreadFacts DEF IInv, JobInv, JobRow, WorkerThread
      <3>2. QED
        BY <2>5, <3>1
    <2>7. QED
      BY <2>2, <2>6, AllProcessed DEF AllThrough
  <1>13. QED
    BY <1>5, <1>6, <1>7, <1>8, <1>9, <1>10, <1>11, <1>12 DEF Serve

\* What is said of a job.
Said(j) == IF Found(j) THEN "found" ELSE job[j].status

LEMMA SaidRightly ==
  ASSUME IInv, Modest, Finding, NEW j \in Job
  PROVE  /\ Said(j)' \in {"none", "running", "found", "complete"}
         /\ \/ Said(j)' = Said(j)
            \/ /\ Said(j) = "running" /\ Said(j)' \in {"found", "complete"}
               /\ AllThrough(j)
            \/ Said(j) = "found" /\ Said(j)' \in {"running", "complete"}
  <1>1. /\ job[j].status \in {"none", "running", "complete"}
        /\ job'[j].status \in {"none", "running", "complete"}
        /\ job'[j].status = "none" <=> job[j].status = "none"
        /\ job[j].status = "complete" => job'[j].status = "complete"
    BY DEF Modest, JobStep, IInv, JobInv, JobRow
  <1>2. /\ Found(j) => job[j].status = "running"
        /\ Found(j)' => job'[j].status = "running"
    BY DEF Found
  <1>3. Completes
    BY ModestKeeps
  <1>4. Found(j)' => Found(j) \/ AllThrough(j)
    BY DEF Finding
  <1>5. job'[j].status = "complete" =>
          job[j].status = "complete" \/ Found(j) \/ AllThrough(j)
    BY <1>3 DEF Completes
  <1>6. Said(j)' = IF Found(j)' THEN "found" ELSE job'[j].status
    BY DEF Said
  <1>7. CASE Found(j)
    BY <1>1, <1>2, <1>6, <1>7 DEF Said
  <1>8. CASE ~Found(j) /\ Found(j)'
    BY <1>1, <1>2, <1>4, <1>6, <1>8 DEF Said
  <1>9. CASE ~Found(j) /\ ~Found(j)'
    BY <1>1, <1>5, <1>6, <1>9 DEF Said
  <1>10. QED
    BY <1>7, <1>8, <1>9

\* Jobs that are counted again, and rows of which one moves, are an Advance.
LEMMA ModestAdvances ==
  ASSUME IInv, Modest, OneMoves, Finding
  PROVE  Promised!Advance
  <1> DEFINE stage == [f \in Film |->
                 IF film[f].status \in {"pending", "enriching"} THEN "queued"
                 ELSE film[f].status]
             batch == [f \in Film |-> film[f].job]
             done  == [j \in Job |-> IF Found(j) THEN "found" ELSE job[j].status]
  <1>1. \/ stage' = stage
        \/ \E f \in Film : /\ Promised!Moves(stage[f], stage'[f])
                           /\ stage' = [stage EXCEPT ![f] = stage'[f]]
    <2>1. CASE film' = film
      BY <2>1
    <2>2. ASSUME NEW f \in Film,
                 film' = [film EXCEPT ![f] = film'[f]],
                 Ensues(film[f].status, film'[f].status)
          PROVE  /\ Promised!Moves(stage[f], stage'[f])
                 /\ stage' = [stage EXCEPT ![f] = stage'[f]]
      <3>1. \A g \in Film \ {f} : film'[g] = film[g]
        BY <2>2 DEF IInv, FilmInv
      <3>2. \A g \in Film \ {f} : stage'[g] = stage[g]
        BY <3>1
      <3>3. Promised!Moves(stage[f], stage'[f])
        BY <2>2 DEF Ensues, Promised!Moves
      <3>4. QED
        BY <3>2, <3>3
    <2>3. QED
      BY <2>1, <2>2 DEF OneMoves
  <1>2. batch' = batch
    BY DEF Modest, FilmStep
  <1>3. ASSUME NEW j \in Job
        PROVE  done[j] = Said(j) /\ done'[j] = Said(j)'
    BY DEF Said
  <1>4. ASSUME NEW j \in Job
        PROVE  AllThrough(j) => Promised!Through(j)
    BY DEF AllThrough, FilmsOf, Promised!Through
  <1>5. done' \in [Job -> Promised!Done]
    BY <1>3, SaidRightly DEF Promised!Done
  <1>6. ASSUME NEW j \in Job
        PROVE  Promised!Rightly(j)
    <2> HIDE DEF done
    <2>1. \/ done'[j] = done[j]
          \/ /\ done[j] = "running" /\ done'[j] \in {"found", "complete"}
             /\ Promised!Through(j)
          \/ done[j] = "found" /\ done'[j] \in {"running", "complete"}
      BY <1>3, <1>4, SaidRightly
    <2>2. QED
      BY <2>1 DEF done, Promised!Rightly
  <1>7. QED
    BY <1>1, <1>2, <1>5, <1>6 DEF Promised!Advance

\* What an import does to the films and the other jobs is an Import.
LEMMA ImportImports ==
  ASSUME IInv, Kept, NEW t \in Task, NEW j \in Job, Import(t, j)
  PROVE  /\ Kept'
         /\ \/ Hang
            \/ \E films \in SUBSET Film : Promised!Import(j, films)
  <1>1. PICK rows \in SUBSET Film :
          LET queued == {f \in rows : film[f].status \in {"absent", "failed"}}
              films  == [f \in Film |->
                           IF f \in queued
                           THEN [film[f] EXCEPT !.status = "pending", !.job = j]
                           ELSE film[f]]
          IN  IF \E f \in queued : Locked(t, f) THEN Hang
              ELSE /\ film' = films
                   /\ job' = [i \in Job |->
                        IF i = j
                        THEN [status |-> "running", total |-> Cardinality(queued),
                              processed |-> 0]
                        ELSE IF \E f \in queued : film[f].job = i
                        THEN Recounted(i, films)
                        ELSE job[i]]
                   /\ task' = [task EXCEPT ![t] =
                        [Idle EXCEPT !.kind = "worker", !.at = "between",
                                     !.job = j, !.todo = queued]]
                   /\ UNCHANGED <<thread, hung>>
    BY DEF Import
  <1> DEFINE queued == {f \in rows : film[f].status \in {"absent", "failed"}}
             c == [Idle EXCEPT !.kind = "worker", !.at = "between",
                               !.job = j, !.todo = queued]
  <1>2. CASE \E f \in queued : Locked(t, f)
    BY <1>1, <1>2, HangOrderly, OrderlyKeeps
  <1>3. CASE ~\E f \in queued : Locked(t, f)
    <2>1. /\ queued \subseteq Film
          /\ \A f \in queued : film[f].status \in {"absent", "failed"}
          /\ film' = [f \in Film |->
                        IF f \in queued
                        THEN [film[f] EXCEPT !.status = "pending", !.job = j]
                        ELSE film[f]]
          /\ job' = [i \in Job |->
                IF i = j
                THEN [status |-> "running", total |-> Cardinality(queued),
                      processed |-> 0]
                ELSE IF \E f \in queued : film[f].job = i
                THEN Recounted(i, film')
                ELSE job[i]]
          /\ task' = [task EXCEPT ![t] = c]
          /\ thread' = thread
      BY <1>1, <1>3
    <2>2. c.at = "between"
      BY DEF Idle
    <2> HIDE DEF queued, c
    <2>3. \A f \in Film :
            /\ film'[f].status = IF f \in queued THEN "pending" ELSE film[f].status
            /\ film'[f].job = IF f \in queued THEN j ELSE film[f].job
      BY <2>1 DEF IInv, FilmInv, FilmRows
    <2>4. Kept'
      <3>1. ASSUME NEW q \in Task
            PROVE  KeptBy(task[q])'
        <4>1. CASE q = t
          BY <2>1, <2>2, <4>1 DEF KeptBy, IInv, TaskInv
        <4>2. CASE q # t
          <5>1. /\ task'[q] = task[q] /\ task[q] \in Coroutine
                /\ TaskOK(task[q]) /\ KeptBy(task[q])
            BY <2>1, <4>2, TaskFacts DEF Kept, IInv, TaskInv
          <5>2. ASSUME NEW g \in Film
                PROVE  /\ film[g].status # "absent" => film'[g].status # "absent"
                       /\ film[g].status = "pending" => film'[g].status = "pending"
            BY <2>3
          <5>3. QED
            BY <5>1, <5>2 DEF KeptBy, TaskOK
        <4>3. QED
          BY <4>1, <4>2
      <3>2. ASSUME NEW h \in Thread, thread'[h].at = "checked"
            PROVE  film'[thread'[h].film].status # "absent"
        <4> DEFINE g == thread[h].film
        <4>1. thread'[h] = thread[h]
          BY <2>1
        <4>2. g \in Film /\ film[g].status # "absent"
          BY <3>2, <4>1, ThreadFacts DEF Kept, ThreadOK
        <4> HIDE DEF g
        <4>3. film'[g].status # "absent"
          BY <2>3, <4>2
        <4>4. QED
          BY <4>1, <4>3 DEF g
      <3>3. QED
        BY <3>1, <3>2 DEF Kept
    <2>5. ASSUME NEW films \in SUBSET Film, films = queued
          PROVE  Promised!Import(j, films)
      <3> DEFINE stage == [f \in Film |->
                     IF film[f].status \in {"pending", "enriching"} THEN "queued"
                     ELSE film[f].status]
                 batch == [f \in Film |-> film[f].job]
                 done  == [i \in Job |-> IF Found(i) THEN "found"
                                         ELSE job[i].status]
      <3>1. job[j].status = "none" /\ \A f \in queued : stage[f] \in {"absent", "failed"}
        BY <2>1 DEF Import
      <3>2. stage' = [f \in Film |-> IF f \in queued THEN "queued" ELSE stage[f]]
        BY <2>3
      <3>3. batch' = [f \in Film |-> IF f \in queued THEN j ELSE batch[f]]
        BY <2>3
      <3>4. IInv' /\ Completes
        BY ImportKeeps
      <3>5. \A i \in Job : job'[i] \in JobRow /\ job[i] \in JobRow
        BY <3>4 DEF IInv, JobInv
      <3>6. /\ job'[j].status = "running" /\ ~Found(j) /\ ~Found(j)'
        <4>1. \A h \in Thread : thread[h].at = "counted" => thread[h].job # j
          BY <3>1, ThreadFacts DEF ThreadOK
        <4>2. QED
          BY <2>1, <4>1 DEF Found
      <3>7. ASSUME NEW i \in Job \ {j}
            PROVE  /\ Said(i)' \in {"none", "running", "found", "complete"}
                   /\ \/ Said(i)' = Said(i)
                      \/ /\ Said(i) = "running" /\ Said(i)' = "complete"
                         /\ AllThrough(i)
                      \/ Said(i) = "found" /\ Said(i)' = "complete"
        <4>1. \/ job'[i].status = job[i].status
              \/ job[i].status # "none" /\ job'[i].status = "complete"
          <5>1. CASE \E f \in queued : film[f].job = i
            <6>1. job[i].status # "none"
              BY <2>1, <5>1, NoneAssumption DEF IInv, JobInv
            <6>2. job'[i] = Recounted(i, film')
              BY <2>1, <5>1
            <6>3. Recounted(i, film').status \in {job[i].status, "complete"}
              BY <3>5 DEF Recounted, Counted, JobRow
            <6>4. QED
              BY <6>1, <6>2, <6>3
          <5>2. CASE ~\E f \in queued : film[f].job = i
            BY <2>1, <5>2
          <5>3. QED
            BY <5>1, <5>2
        <4>2. Found(i)' <=> job'[i].status = "running" /\ \E h \in Thread :
                thread[h].job = i /\ thread[h].at = "counted" /\ thread[h].completes
          BY <2>1 DEF Found
        <4>3. Found(i) <=> job[i].status = "running" /\ \E h \in Thread :
                thread[h].job = i /\ thread[h].at = "counted" /\ thread[h].completes
          BY DEF Found
        <4>4. job'[i].status = "complete" =>
                job[i].status = "complete" \/ Found(i) \/ AllThrough(i)
          BY <3>4 DEF Completes
        <4>5. /\ job[i].status \in {"none", "running", "complete"}
              /\ job'[i].status \in {"none", "running", "complete"}
          BY <3>5 DEF JobRow
        <4>6. Said(i)' = IF Found(i)' THEN "found" ELSE job'[i].status
          BY DEF Said
        <4>7. QED
          BY <4>1, <4>2, <4>3, <4>4, <4>5, <4>6 DEF Said
      <3>8. \A i \in Job : done[i] = Said(i) /\ done'[i] = Said(i)'
        BY DEF Said
      <3>9. done[j] = "none" /\ done'[j] = "running"
        BY <3>1, <3>6
      <3>10. ASSUME NEW i \in Job
             PROVE  AllThrough(i) => Promised!Through(i)
        BY DEF AllThrough, FilmsOf, Promised!Through
      <3>11. done' \in [Job -> Promised!Done]
        <4>1. \A i \in Job : done'[i] \in {"none", "running", "found", "complete"}
          BY <3>7, <3>8, <3>9
        <4>2. QED
          BY <4>1 DEF Promised!Done
      <3>12. ASSUME NEW i \in Job \ {j}
             PROVE  Promised!Rightly(i)
        <4> HIDE DEF done
        <4>1. \/ done'[i] = done[i]
              \/ /\ done[i] = "running" /\ done'[i] \in {"found", "complete"}
                 /\ Promised!Through(i)
              \/ done[i] = "found" /\ done'[i] \in {"running", "complete"}
          BY <3>7, <3>8, <3>10
        <4>2. QED
          BY <4>1 DEF done, Promised!Rightly
      <3>13. QED
        BY <2>5, <3>1, <3>2, <3>3, <3>9, <3>11, <3>12 DEF Promised!Import
    <2>6. PICK films \in SUBSET Film : films = queued
      BY <2>1
    <2>7. QED
      BY <2>4, <2>5, <2>6
  <1>4. QED
    BY <1>2, <1>3

-----------------------------------------------------------------------------

\* The initial state: no film, no job, nothing under way.
LEMMA InitInv == Init => IInv
  <1> SUFFICES ASSUME Init
               PROVE  IInv
    OBVIOUS
  <1>1. FilmInv
    BY DEF Init, FilmInv, RowOK, FilmRows, Status
  <1>2. TaskInv
    <2>1. \A t \in Task : task[t] = Idle
      BY DEF Init
    <2>2. task \in [Task -> Coroutine]
      BY IdleOK DEF Init
    <2>3. QED
      BY <2>1, <2>2, IdleOK DEF TaskInv
  <1>3. JobInv
    <2>1. \A f \in Film : film[f].job = None
      BY DEF Init
    <2>2. \A j \in Job : job[j] = [status |-> "none", total |-> 0, processed |-> 0]
      BY DEF Init
    <2>3. \A j \in Job : FilmsOf(j, film) = {}
      BY <2>1, NoneAssumption DEF FilmsOf
    <2>4. job \in [Job -> JobRow]
      BY DEF Init, JobRow
    <2>5. \A j \in Job : job[j].total = Cardinality(FilmsOf(j, film))
      <3>1. Cardinality({}) = 0
        BY FS_EmptySet
      <3>2. QED
        BY <2>2, <2>3, <3>1
    <2>6. \A j \in Job : Allowed(job[j])
      BY <2>2 DEF Allowed
    <2>7. QED
      BY <2>1, <2>4, <2>5, <2>6 DEF JobInv
  <1>4. ThreadInv
    <2>1. \A h \in Thread : thread[h] = Unused
      BY DEF Init
    <2>2. thread \in [Thread -> WorkerThread]
      BY UnusedOK DEF Init
    <2>3. QED
      BY <2>1, <2>2, UnusedOK DEF ThreadInv
  <1>5. hung \in BOOLEAN
    BY DEF Init
  <1>6. QED
    BY <1>1, <1>2, <1>3, <1>4, <1>5 DEF IInv

\* Every step keeps the invariant, and completes only jobs that are done.
LEMMA StepKeeps ==
  ASSUME IInv, [Next]_vars
  PROVE  IInv' /\ Completes
  <1>1. CASE UNCHANGED vars
    <2>1. Modest
      BY <1>1, SameFilm, SameJob, SameTask, SameThread DEF vars, IInv, Modest
    <2>2. QED
      BY <2>1, ModestKeeps
  <1>2. ASSUME NEW t \in Task, Step(t)
        PROVE  Modest
    BY <1>2, TakeFilmModest, FinishJobModest, MatchedModest, DescribedModest,
       EmbeddedModest, BeginModest, AskingModest, AnsweredModest DEF Step
  <1>3. ASSUME NEW t \in Task, StartAccept(t) \/ StartRematch(t) \/ StartAdd(t)
        PROVE  Modest
    BY <1>3, AskingModest
  <1>4. ASSUME NEW h \in Thread,
               Serve(h) \/ Reject(h) \/ \E j \in Job : Poll(h, j)
        PROVE  Modest
    BY <1>4, ThreadsModest
  <1>5. CASE Feed \/ Crash
    BY <1>5, HangModest, CrashModest, ModestKeeps DEF Feed
  <1>6. QED
    BY <1>1, <1>2, <1>3, <1>4, <1>5, ImportKeeps, ModestKeeps DEF Next

\* In every reachable state of any number of coroutines the rows are coherent:
\* the strengthening the theorems below follow from.
THEOREM InvariantHolds == Spec => []IInv
  <1>1. Init => IInv
    BY InitInv
  <1>2. IInv /\ [Next]_vars => IInv'
    BY StepKeeps
  <1>3. QED
    BY <1>1, <1>2, PTL DEF Spec

\* The rows, the counters and what the coroutines and the threads remember keep
\* their types.
THEOREM TypeCorrect == Spec => []TypeOK
  <1>1. IInv => TypeOK
    BY DEF IInv, TypeOK, FilmInv, JobInv, TaskInv, ThreadInv
  <1>2. QED
    BY <1>1, InvariantHolds, PTL

\* Whatever coroutines interleave, a ready film has metadata and an embedding.
THEOREM ReadyKeepsVector == Spec => []ReadyHasVector
  <1>1. IInv => ReadyHasVector
    BY DEF IInv, FilmInv, RowOK, ReadyHasVector
  <1>2. QED
    BY <1>1, InvariantHolds, PTL

\* A film in metadata review has a review that can be answered.
THEOREM ReviewStaysPending == Spec => []ReviewIsPending
  <1>1. IInv => ReviewIsPending
    BY DEF IInv, FilmInv, RowOK, ReviewIsPending
  <1>2. QED
    BY <1>1, InvariantHolds, PTL

\* A job's total is the number of its films, for every finite set of films.
THEOREM TotalIsRight == Spec => []TotalIsFilms
  <1>1. IInv => TotalIsFilms
    BY DEF IInv, JobInv, TotalIsFilms
  <1>2. QED
    BY <1>1, InvariantHolds, PTL

\* The CHECK on import_jobs refuses no coroutine, and a thread only a count
\* from before an import took films of the job.
THEOREM OnlyStaleIsRefused == Spec => []RefusesOnlyStale
  <1>1. ASSUME IInv, NEW h \in Thread, thread[h].at = "counted",
               ~Allowed(Progressed(h))
        PROVE  job[thread[h].job].total < thread[h].total
    <2> DEFINE row == job[thread[h].job]
    <2>1. /\ thread[h] \in WorkerThread
          /\ thread[h].job \in Job
          /\ thread[h].processed \in {None} \cup 0 .. thread[h].total
      BY <1>1, ThreadFacts DEF ThreadOK
    <2>2. row \in JobRow /\ Allowed(row)
      BY <1>1, <2>1 DEF IInv, JobInv
    <2>3. /\ Progressed(h).total = row.total
          /\ Progressed(h).processed =
               IF thread[h].processed = None THEN row.processed
               ELSE thread[h].processed
      BY <2>2 DEF Progressed, JobRow
    <2> HIDE DEF row
    <2>4. thread[h].processed \in Nat /\ row.total < thread[h].processed
      BY <1>1, <2>1, <2>2, <2>3 DEF Allowed, JobRow
    <2>5. QED
      BY <2>1, <2>2, <2>4, NoneAssumption DEF row, JobRow, WorkerThread
  <1>2. IInv => RefusesOnlyStale
    BY <1>1 DEF IInv, JobInv, RefusesOnlyStale
  <1>3. QED
    BY <1>2, InvariantHolds, PTL

\* What the refinement needs besides: nobody matches a film that is not there
\* or no longer pending.
LEMMA StepImplements ==
  ASSUME IInv, Kept, [Next]_vars
  PROVE  Kept' /\ [Promised!Next]_(Promised!promised)
  <1>1. CASE UNCHANGED vars
    BY <1>1 DEF vars, Kept, KeptBy, Found, Promised!promised
  <1>2. ASSUME NEW t \in Task,
               Step(t) \/ StartAccept(t) \/ StartRematch(t) \/ StartAdd(t)
        PROVE  Modest /\ Orderly(t)
    <2>1. CASE Step(t)
      BY <2>1, TakeFilmModest, FinishJobModest, MatchedModest, DescribedModest,
         EmbeddedModest, BeginModest, AskingModest, AnsweredModest,
         TakeFilmOrderly, MatchedOrderly, PipelineOrderly, AskingOrderly,
         AnsweredOrderly DEF Step
    <2>2. CASE StartAccept(t) \/ StartRematch(t) \/ StartAdd(t)
      BY <2>2, AskingModest, AskingOrderly
    <2>3. QED
      BY <1>2, <2>1, <2>2
  <1>3. ASSUME NEW t \in Task, Modest, Orderly(t)
        PROVE  Kept' /\ Promised!Advance
    <2>1. OneMoves
      BY <1>3 DEF Orderly, Sparing, OneMoves
    <2>2. Finding
      BY <1>3, NothingFound DEF Orderly, Alone, Modest
    <2>3. QED
      BY <1>3, <2>1, <2>2, OrderlyKeeps, ModestAdvances
  <1>4. CASE \/ Feed \/ Crash
             \/ \E h \in Thread :
                  Serve(h) \/ Reject(h) \/ \E j \in Job : Poll(h, j)
    <2>1. Modest
      BY <1>4, ThreadsModest, HangModest, CrashModest DEF Feed
    <2>2. QED
      BY <1>4, <2>1, OthersKeep, OthersFind, ModestAdvances DEF Promised!Next
  <1>5. ASSUME NEW t \in Task, NEW j \in Job, Import(t, j)
        PROVE  Kept' /\ [Promised!Next]_(Promised!promised)
    <2>1. CASE Hang
      BY <1>5, <2>1, HangModest, HangOrderly, <1>3 DEF Promised!Next
    <2>2. CASE \E films \in SUBSET Film : Promised!Import(j, films)
      BY <1>5, <2>2, ImportImports DEF Promised!Next
    <2>3. QED
      BY <1>5, <2>1, <2>2, ImportImports
  <1>6. QED
    BY <1>1, <1>2, <1>3, <1>4, <1>5 DEF Next, Promised!Next

\* Enrichment implements ImportJobs, for any films, jobs, coroutines, reviews
\* and requests: whatever interleaves, hangs or dies, films are taken, move
\* and are counted as an import promises.
THEOREM ImplementsJobs == Spec => ImplementsImportJobs
  <1>1. Init => Kept
    BY DEF Init, Kept, KeptBy, Idle, Unused
  <1>2. Init => Promised!Init
    BY DEF Init, Found, Promised!Init
  <1>3. IInv /\ Kept /\ [Next]_vars => Kept' /\ [Promised!Next]_(Promised!promised)
    BY StepImplements
  <1>4. QED
    BY <1>1, <1>2, <1>3, InvariantHolds, PTL
       DEF Spec, ImplementsImportJobs, Promised!Spec
=============================================================================
