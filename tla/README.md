# Verification of Cuebox

Cuebox keeps a Letterboxd watchlist, enriches its films with metadata, a semantic profile and an embedding, and recommends one of them. This directory holds TLA+ models of the API's state-changing core, the TLC configurations that check them on small instances, and TLAPS proofs for every size.

Paths below are relative to the repository; `services/`, `repositories/`, `routers/` stand under `api/app/`.

## 1. The system

**How it runs.** One FastAPI process with a synchronous SQLAlchemy session on PostgreSQL (READ COMMITTED, no `SELECT ... FOR UPDATE`, `autoflush=False`). `async def` endpoints, background tasks and the scheduled feed poll run on *one* event loop and make *blocking* database calls there. `def` endpoints (status changes, watch reviews, rejection of a metadata review, job status, deletion of a session) run in a thread pool. Updates name a row by primary key; they do not look at what has changed since the row was read.

| Component | State it keeps | Operations | Talks to | Hard behaviour | What makes it correct |
|---|---|---|---|---|---|
| Watch lifecycle (`film_status_service`, `watch_review_service`, watch and watchlist repositories) | `films.status`, `watchlist_entries`, `film_watches` (one pending row, completed rows) | start, complete, cancel, edit a review; archive; restore | every import and the feed write the same rows | long legal sequences; concurrent requests; the cap of 500 | a review has a draft, a watched film a diary, the diary is never lost, the list is the films that wait |
| Letterboxd synchronisation (`import_service`, `sync_service`, `watched_import_service`, parsers, `scheduler`) | the rows above, `rss_events`, `sync_config`, `import_jobs` | upload a watchlist, CSV sync, upload a watched export, poll the diary feed | watch lifecycle, enrichment | repeated files and events, partial failure, events about films that are not known | what was imported before is not undone or offered again |
| Manual adds and metadata reviews (`watchlist_add_service`, `metadata_service`) | films, `metadata_match_reviews`, `film_metadata` | add, resolve an address, accept, reject, rematch | TMDB, OMDb, Letterboxd; starts pipelines | rows written or judged before an await and used after it | a film waiting for a review has one to answer |
| Enrichment and import jobs (`import_service.run_import_enrichment`, `enrichment_pipeline`, `semantic_service`, `embedding_service`) | `films.enrichment_status`, profiles, embeddings, job counters | worker per job, pipeline per accepted review, rematch or add; job status | language model and embedding provider | coroutines interleave, hold row locks across awaits, die with the process | only films with a vector are ready; jobs complete, and none whose films were never all through; films settle |
| Recommendation (`recommendation_service`, `scoring_service`, `diversity_service`, `ranking_service`, profiles, exposure) | sessions, candidates, results, `recommendation_exposure`, profile cache | recommend, read, delete a session | language model | counters read before an await and written after it; deletion | exposure counts are the sessions that exist |
| Provider clients (`providers/`, `http_retry`, `letterboxd_resolver`) | none | requests with retries | the network | unbounded `Retry-After` | at most three attempts |
| Read endpoints and presenters | none | queries | | | they change nothing |
| Files and matches (`csv_parser`, `watched_csv_parser`, `confidence`) | none | read exported files, merge the three of a watched export, choose among TMDB's answers | import, enrichment | rows that repeat or are malformed, joins by name and year, thresholds | a file is taken whole or refused; no wrong film without a question |
| Web frontend (`frontend/`) | page state | ceremony, toasts, import polling | API | timers, late answers | polling ends when the job does |
| Operations scripts | files | backup, deployment | `pg_dump`, `docker` | | |

The hazards of this code, each at its line, are in `PROJECT.json` under `hazards`, with the properties that would catch them, or the reason there is none.

## 2. Modules

| Module | What it is |
|---|---|
| `WatchDiary` | Abstract: the stages of a film and the days it was watched; what may follow what. |
| `WatchLifecycle` | Every operation that moves a film, imports, feed and adds included; one request is one transaction that runs alone. Implements `WatchDiary`. |
| `RssFeed` | The poll of the diary feed entry by entry, with its ledger, failures and restarts, over the life of the films. Extends `WatchLifecycle` and implements it. |
| `WatchRaces` | The watch endpoints and the feed as they run: a request reads, others commit, it writes. |
| `ImportJobs` | Abstract: how films leave the queue of the import they belong to, and when an import may be called complete. |
| `Enrichment` | Import jobs, workers, pipelines and metadata reviews on one event loop with blocking row locks. Implements `ImportJobs`. |
| `Recommendations` | Sessions, exposure counters and the profile cache under concurrent recommendations and deletions. |
| `Pipeline` | One recommendation: filter, relaxation, retrieval, shortlist, the language model's answer, the stored session and its reading. |
| `Scoring`, `Confidence`, `Exports`, `Profiles` | Algorithms without state, as operators. |
| `Algorithms` | Runs those operators on inputs and says what their results are for. |
| `MC...` | TLC instances, inputs and symmetry. |
| `...Proofs` | Theorems and proofs. |
| `Recursions` | Lemmas: induction over naturals, loops as recursive functions, sequences without repetition. |

### WatchLifecycle

`film[f]` is a record of the rows the database holds about a film: `status`, `entry` (whether a watchlist entry was never there, is active, or was deactivated), `pending` (the draft with its source, day and the further days an export staged), `diary` (days of completed watches), `uri` (a real address or a placeholder) and what the watch side reads of `enrichment_status`. The operators `EnsureActiveEntry`, `DeactivateEntry`, `CreatePending`, `DeletePending`, `MarkStatus` are the repository functions; the actions are the endpoints and handlers, complete with the cap, the early returns and the database's unique indexes (one pending row per film, one completed row per film and day). `RssPoll`, `ImportCsv`, `SyncCsv` and `ImportWatched` apply a set of events, rows or plans in one transaction.

Left out: scores, notes and URI strings, on which no operation here branches; titles (matching an event or a row to a film is a choice of film). `RssPoll` applies at most one event to a film; `RssFeed` shows that this is enough for a poll that meets several.

### RssFeed

Entries are numbered in the order the user logs them at Letterboxd; the feed shows the last `Window` of them. An entry links to a film, has a day, none, or one that cannot be read, and a readable time or none. A poll goes through the phases of `poll_rss`: it starts (only with a configured account, never two at a time), awaits Letterboxd, and meets the entries newest first. An entry in the `ledger` (`rss_sync_events`) is skipped; another is recorded and applied to `poll.work`, the uncommitted rows of the films. An entry with an unreadable day about a film it concerns raises and rolls the poll back; `Restart` forgets it. `CommitPoll` makes rows, ledger and status visible at once.

The ledger holds stamped entries only: an entry without a readable time gets the time of the poll as part of its fingerprint, so that no earlier row matches it (`rss_parser.py:208`). `linked` says which films are stored under the address the feed uses; others are found by title while they are listed. `seen` is a history variable.

Between polls, and while one awaits Letterboxd, every operation of `WatchLifecycle` may happen. Worker threads that write *during* the application of events are the subject of `WatchRaces`.

### WatchRaces

`req[r]` is what a request of one worker thread or of the event loop has read. `Look` loads the film and judges its status; `ReadEntry`/`ReadDraft` load the row the writes rest on; `Count` deletes the draft, whose row is locked from then on, and counts the watchlist; the `Commit…` actions write the remaining rows by primary key, without looking again, as the code does; `Fail` is a refused or rolled-back request. One feed poll runs at a time (`max_instances=1`). What is read after the film's row was updated is read under that row's lock and belongs to the commit. Imports and adds do not take part.

### Enrichment

`film[f]` holds the committed rows: enrichment status, job, the match its metadata was written from, the match its vector was computed from, its review rows. `task[t]` is a coroutine: a worker with the films it has still to take, an accept, rematch or add that awaits TMDB, or a pipeline. What lies between two awaits is one action. `fresh` says that the coroutine has written the film's row and not committed, so it is locked while the coroutine awaits (`Locked`); so are its profile (`ProfileLocked`) and, in the unique indexes of `film_metadata`, the TMDB film that a worker has matched and the one it replaces (`Held`). A coroutine that writes what another holds sets `hung`: its blocking call stops the loop, so nothing more happens on the loop before a restart (`Crash`). A match that another film has *committed* is refused (`Taken`): the worker's film fails, a request is rolled back. `Finds` are the TMDB films that the search for a film may bring; a rematch or an add may name any. `MATCHING` is never seen by others, since no path commits it. `Import` stands for the watchlist upload, whose retry moves failed films to the new job and recounts the old one; the CSV sync and the watched export queue only new films, which is a case of it. `Synced` is `sync_import_job_progress`.

`thread[h]` is a request in a worker thread, which does not have the loop's protection: a poll reads the job's row (`Poll`), counts the films (`CountFilms`) and writes what it has counted (`WriteProgress`), and a rejection checks review and film (`Reject`), commits their ends (`Rejected`), and goes on as a poll does (`ReadJob`). Coroutines and other threads commit between any two of these. Only what differs from the row as read is written, and the table's CHECK (`Allowed`) refuses more films processed than the total.

`ImportJobs` is what is left when coroutines, locks, reviews and counters are forgotten: a film is absent, queued, in metadata review, ready or failed; it belongs to a job or none; a job is running or complete. Under the mapping `Promised`, pending and enriching films are queued. It promises that a film is never lost, that only a queued film is sent to review, that an import takes only new and failed films, and that a job becomes complete once and for all, and only if all films that were its own were ready or failed: at that moment, or when somebody last looked. The second is the state `found`: under the mapping, a running job is found when some thread has counted all its films as processed and has not written it yet (`Found`). The promise is no stronger because the code's is not: between count and write a film of the job may be queued again.

Simplifications: the commit of a film and the counters written right after it without an await are one action of a coroutine, and each transaction of a thread makes its writes in one; the failure summary is left out, as are provider errors beyond "refused" and "failed"; `Feed` stands for any other writer of a film's status and only shows whether it would wait.

### Recommendations

`session[s]` is a session with its candidates and winner, `exposure[f]` the film's row in `recommendation_exposure` or none, `profile` the answers whose profile is committed. A recommendation is `AskKnown` (the profile is cached) or `AskNew` followed by `Embedded`, once the embedding is awaited; both read the exposure of the films to be ranked and go on to await the language model; `Ranked` writes session and counters in one commit. `Incremented` computes a counter as SQLAlchemy does: from the row in the session's identity map when it was read before the await, from the database when it was not there then; and only changed columns are written. A deletion runs in a thread: `Load`, `ReadRows`, `Delete`. The table's CHECK, an UPDATE of a row that is gone (`StaleDataError`) and the unique hash of a profile are modelled by what they refuse. `EmbeddedBlocks` is the INSERT that waits, in a blocking call on the event loop, for the other transaction: `hung`.

`disturbed` is a history variable: the films a request wrote while another had read them or was about to.

### Pipeline

The catalogue says of each film what the filter and the retrieval look at. `Prepare` runs stages 1 to 5, which have no await: `Pool` applies the hard constraints and relaxes them in the code's order; `Retrievals` are the films with a vector, or the first of the pool when none has one (the search is taken as exact; the HNSW index of `0001_initial_schema.py:176` may pass over films and bring fewer); the order of the scores and the width of the band are any; `Shortlist` promotes one film of the band. `Retry` and `RankingFails` are the provider; `Rank` parses any answer of the language model (too few runners-up, repeated ones, strangers, the winner among them), merges it with the shortlist and stores it; `Read` returns the runners-up from a JSONB object.

### Algorithms

`Scoring` computes fits and exposure signals as integers in thousandths; rounding to four digits falls away because only comparisons are claimed. `Confidence` is the weighted score of a candidate, its action, and the choice of a candidate among those TMDB answered for (the CSV names no director, so the director part is either absent or zero). `Exports` reads watchlist rows and merges the three files of a watched export. `Profiles` canonicalises answers and compares their hashes. `Algorithms` chooses an input, runs one of them in a step, and states its properties of input and output.

## 3. What the runs show

| Run | Instance | Checks | Result |
|---|---|---|---|
| `feed` | 1 film, 2 days, 3 entries (the first malformed, the last without a time), window 2 | `ReviewHasDraft`, `WatchedHasDiary`, `KeepsPromise` (refines `WatchDiary`), `ImplementsLifecycle` (refines `WatchLifecycle`), `OncePerEntry`, `DraftFollowsFeed`, `AllOrNothing`, `EntryIsRecorded` under `FairFeedSpec` | hold |
| `watch_cap` | 2 films, 1 day, cap 1 | `TypeOK`, `ActiveIsListed`, `ReuploadIsHarmless`, `ListsOnlyActive`, `CapHolds` | hold |
| `races` | 2 films, 2 requests, cap 1 | `ReviewHasDraft`, `WatchedHasDiary` | hold |
| `races_cap` | 3 films, 2 requests, cap 1, one row of each kind | `OvershootBounded` | holds, and two films are listed at once |
| `races_diary` | as `races` | `DeletesOnlyDrafts` | **violated**: a cancellation deletes the watch that was just completed |
| `jobs` | 2 films that match 1 TMDB film, 2 jobs, 2 coroutines, 1 thread, 1 review, all requests | `TypeOK`, `ReadyHasVector`, `ReviewIsPending`, `TotalIsFilms`, `RefusesOnlyStale`, `ImplementsImportJobs` (refines `ImportJobs`) | hold |
| `jobs_live` | the same with a TMDB film for each; imports, rejections and polls | `Settles`, `JobsComplete` under `FairSpec` | hold |
| `jobs_hang` | 1 film, 1 worker, the feed | `Settles` under `FairSpec` | **violated**: the poll waits for the worker's row and stops the loop the worker needs |
| `recommend` | 2 films, 2 requests, 3 sessions, 2 sets of answers | `CountsRight`, `NeverOvercounts`, `RefusedOnlyWhenDisturbed` | hold |
| `recommend_counts` | as `recommend` | `DeletedIsForgotten` | **violated**: two deletions at once lose a decrement |
| `pipeline` | every library of 4 films of five kinds, `MIN_CANDIDATES` 2, limit and shortlist 3, 2 runners-up, 2 attempts | `TypeOK`, `RecordedConstraintsHold`, `RelaxedOnlyWhenScarce`, `BestAreShortlisted`, `EachStoredOnce`, `DetailIsComplete` | hold |
| `algorithms` | some 310 000 inputs at the borders of what the computations tell apart | `CloserScoresHigher`, `FreshFilmsLead`, `DoubtIsAsked`, `FirstRowsKept`, `EachWatchIsPlanned`, `ProfileIsOwn` | hold |

Every property of a passing run has a mutant in `PROJECT.json`: a plausible mistake in a mapped definition that makes TLC find the property violated.

**Bounds.** Films act on each other only through the cap, the shared poll or import, the counters of a job and the candidates of a session, which two films exercise from both sides. In `feed` two days tell apart a day the diary has from a new one, and a draft's day from an entry's; three entries and a window of two let one entry leave the feed unseen and two be met by one poll. The malformed entry is the first: it makes polls fail until it has left, and the other two are then committed by one poll, both of which may change the film. That a poll meets entries of *several* films is beyond what TLC finishes and is covered by the proof of `ImplementsLifecycle` alone, which is for any number of films. `watch_cap` has one day because its properties are about entries and the cap; that an export can be uploaded twice is proved for any days. Two requests, or two coroutines, give every pair of handlers in every order; two requests may list one film more than the cap admits, so `races_cap` has a third film that could break the bound. Two jobs are needed for a retry to move a film; one thread is enough to be overtaken by the loop, and any number are in the theorems. In `jobs` both films match one TMDB film, so that workers meet in the unique index, wait, or are refused; in `jobs_live` each search finds a film of its own, since two imports that wait for each other hang (section 5). One review is enough for a film to be reviewed again, as the row of an answered review may stand for a later one; any number is in the theorems. Three sessions allow two deletions at once, or a deletion during a recommendation, with a session that stays. Four films with a shortlist of three leave one out, and with two runners-up one more on the shortlist unnamed; a library may fall below, meet or exceed the minimum with each constraint. The scores of `algorithms` stand at the eras' borders, at 7, 14 and 30 days, at the caps of penalties, at the similarities around both thresholds. No definition is replaced in a configuration, and nothing in the models is counted without a bound given by the constants.

**Deadlock.** The `jobs*` configurations do not check for it: with all jobs made and no request left the system rests, and after a hang it stands still, which `jobs_hang` is about. Nor do `recommend*`, where the sessions of the bound are used up, `pipeline`, where a recommendation is refused or fails, and `algorithms`, where a computation ends. The others check it.

**Fairness.** `FairSpec` of `Enrichment` says that the loop goes on with one coroutine or another as long as one can go on: every await is a provider call that answers, fails or times out, or a sleep. Work that has begun ends (a worker has finitely many films), so this is enough for each. It also says that a thread that has taken up a request goes on with it, and that a running job is polled: the import page asks every few seconds until the job is complete. The last is strong fairness, since the thread may be busy with other requests in between; the pool takes requests in their order. `FeedFairness` says that the scheduler starts polls (every fifteen minutes), that Letterboxd answers again and again, and that a poll which has its answer, and runs from there without an await, is not struck by a restart for ever at the same entry or before its commit; the last three are strong, since a failed fetch or a restart takes the step's chance away each time. Nothing says that a user answers a review, sends a request, logs a film or restarts the process.

## 4. What is proved

For all values of the constants, from the assumptions the modules name (finite sets of films, requests and sessions; `None`, `NoRow` and marks outside the sets they mark; natural bounds and weights; at most four runners-up, the number at which both the adapter of the language model, `openai.py:144`, and the read of a session, `recommendation_service.py:217`, cut the list; integer days; catalogues, candidates, questionnaires and the rows of files of the stated shape, in files of any length).

* **`WatchLifecycleProofs`.** The inductive invariant says of each film alone that its rows are *coherent*: typed, in review exactly with a draft, listed when active with a real address, with a diary when watched, and without one when it has no row. The invariants are not inductive one by one: each way out of review relies on the draft, each rated import on the diary, each listing on the status. Theorems: `TypeCorrect`, `ReviewAlwaysHasDraft`, `ActiveAlwaysListed`, `WatchedAlwaysHasDiary`, `OnlyActiveAreListed`, `DiaryIsKept`, `ReuploadChangesNothing`, the refinement `ImplementsWatchDiary`, and `CapIsKept`: a restore, a cancellation or a CSV sync never takes the list beyond the cap, and of the other operations only an import, an add or its resolution can, by counting active entries in finite sets.
* **`RssFeedProofs`.** The invariant `FeedInv` adds to coherence that the stamped entries of the last committed feed are in the ledger, that what a poll has met, still has to meet or found recorded is all it was shown, and that each film in `poll.work` is as it was or as one event of a met entry leaves it (`EventsCollapse`: of two events about a film only the second shows). Theorems: the refinement `ImplementsWatchLifecycle`, through which the theorems of `WatchLifecycle` hold of the feed (`FeedReviewHasDraft`, `FeedKeepsDiary`, `FeedKeepsPromise`), `AppliedOnce` and `PollIsAllOrNothing`. For `DraftIsOfTheFeed` a second invariant, `DraftInv`, follows the poll through the feed: entries are met newest first, so those still to come are older than all that were met, and the draft in `poll.work` shows the day of the entry met last, or of the first for a film the others no longer find.
* **`WatchRacesProofs`.** The invariant adds what each request remembers (`Remembers`), so that a commit on stale reads is still understood, and a counting argument: each request that has counted with room left and will list a film holds a *promise*, and active entries plus promises never exceed the cap by more than the requests but one (`RoomInv`). Theorems: `TypeCorrect`, `ReviewKeepsDraft`, `WatchedKeepsDiary`, `OvershootIsBounded`.
* **`EnrichmentProofs`.** The invariant says of each committed film row that its status is backed (`RowOK`: metadata while enriching, a vector when ready, a pending review in review), of each coroutine that it works from a match that is in the film's metadata or about to be (`TaskOK`), of the jobs that totals are cardinalities (`JobInv`), and of each thread that the total it has read is one the job had and may only have lost since, and what it has counted is at most that (`ThreadInv`). Every step but an import is shown to be *modest*: films keep their jobs and never lose metadata, no total changes, and a job that becomes complete has as many processed films as its total, or was found to by a thread. `ModestKeeps` draws the conclusions once; `ImportKeeps` treats the step that moves films, after which no other job has more. Theorems: `TypeCorrect`, `ReadyKeepsVector`, `ReviewStaysPending`, `TotalIsRight`, `OnlyStaleIsRefused`. The refinement `ImplementsJobs` needs two things more. `Kept`: no pipeline and no rejection works on a film that is not there, and a film a worker is matching stays pending, because everyone else who would write it waits for its row; so each step changes the row of one film at most (`Sparing`), in a way `ImportJobs` allows, and an import changes those it takes. `Finding`: a thread that finds as many films processed as the total it has read has found all of them, since the total is at most that and is the number of the films.
* **`RecommendationsProofs`.** Counters are first typed as naturals only; `BoundInv` bounds them, and whatever a request has read of them, by the sessions there ever were, which gives the type. `FreshInv` says that what a request has read of an undisturbed film still holds; with it a write keeps `CountsRight`, by the sizes of the sets of sessions before and after. Theorems: `ExposureCountsSessions`, `ExposureNeverOvercounts`, `RefusalsNeedDisturbance`.
* **`PipelineProofs`.** The invariant follows the films through the stages: the pool satisfies the constraints as recorded, the order is without repetition and from the pool, the shortlist is the order with one film of the band promoted. Theorems: `PipelineTypes`, `ConstraintsAreRecorded`, `RelaxationNeedsScarcity`, `ShortlistIsTheBest`. `AnswerIsComplete` takes any answer of the language model through the loop that collects the runners-up: after each turn they are distinct, from the shortlist and not the winner, and what is missing at the end is filled from the rest of the shortlist. From it follow `ShortlistIsStored` and `DetailNamesTheRunners`.
* **`AlgorithmsProofs`.** Scores: `NewFilmsLead` (the freshness of a film never recommended outweighs what any stored row leaves, for any weights); `CloserFilmsLead` (each fit grows when a film comes nearer, over the borders of eras too, and so does their weighted sum); `ScoresAreBounded`. Matches: `MatchesAreSupported` (the arithmetic of the thresholds; that there is a best candidate is shown by induction) and `ConfidenceIsBounded`. Files, whose rows are read one after the other: for `FilesAreReadOnce` and `WatchesArePlanned` the state of the reader after `i` rows is stated as a function of the first `i` rows (which addresses it has, the last rating of each title, the days of each title in order, whether a row was refused) and shown to hold from row to row. Profiles: `ProfilesStandForAnswers` (lists that are counted alike ask for the same).
* **`Recursions`.** The library's induction takes a predicate, which the installed provers cannot instantiate; here the predicate is a set of numbers, and the induction (`NatByInduction`, `StepByStep`) follows from the least element that `WellFoundedInduction` gives. A recursive function of a model is a `CHOOSE` of a function that satisfies its equation; `RunExists` shows that there is one, so the equation holds of it. This is how the loops of `Exports` and `Pipeline` are unfolded.

Every safety property the runs check is stated by a theorem. That a poll or a request hangs the loop is in the models as a step and no property is made of it but `Settles`. Only model-checked: the liveness properties (`Settles`, `JobsComplete`, `EntryIsRecorded`), which rest on fairness and are out of the prover's reach, and the refutations.

## 5. Where the code and its documents differ

With a run that shows it:

1. **A cancellation can delete a completed watch** (`film_watch_repository.py:101`), against `documents/api-contracts.md:435`: `races_diary`.
2. **The event loop can lock itself out** (`metadata_service.py:51`): a row lock is held across an await while another coroutine of the same loop makes a blocking write of that row; against `documents/PRD.md:770`: `jobs_hang`.
3. **Exposure remembers deleted sessions** (`recommendation_exposure_repository.py:64`), against `documents/api-contracts.md:1375`: `recommend_counts`.

Met while modelling, without a run:

4. A watched export drafts a day the diary already has (`watched_import_service.py:185`), against `documents/api-contracts.md:985`; the draft cannot be saved as offered.
5. A watched film is listed again by a retry of its enrichment or a late address (`import_service.py:94`, `metadata_service.py:313`), against `GLOSSARY.md:8`. `ListsOnlyActive` names these as the only ways.
6. A restart strands queued films until another import (`import_service.py:195`, whose comment speaks of recovery).
7. A winner the language model names wrongly is replaced by the first of the shortlist, which may be the promoted film; `documents/how-cuebox-works.md:343` says the highest-scored.
8. The order of the runners-up is lost when a session is read, since they are the keys of a JSONB object.
9. No film whose director TMDB knows is accepted without the flag: a CSV names no director, so its score stays below .95 (`confidence.py:69`), and when the CSV has no year either it always goes to review; against `documents/Architecture.md:709`. `DoubtIsAsked` states this.
10. When TMDB's requests for the best candidate fail, the next best is accepted in its place (`metadata_service.py:76`).
11. Two watched films of one name and year share each other's diary days (`watched_csv_parser.py`).
12. A poll or a rejection that has counted all films of a job marks it complete also when a film of it was queued again meanwhile, by a rematch or by accepting a review (`import_service.py:137-160`). A count from before an import took films of the job may exceed the lowered total: the CHECK of `models.py:60` refuses it and the poll answers 500. `RefusesOnlyStale` says that this is the only way.
13. Two overlapping imports whose films match one TMDB film stop the event loop: the second waits, in a blocking INSERT, for the unique index on `film_metadata.tmdb_id` (`models.py:187`, `metadata_service.py:434`), which the first holds while it awaits a provider. So do two recommendations with the same new answers (`recommendation_profile_service.py:70`), and two pipelines of one film on its profile. When the first has committed, the second film fails as a duplicate.
14. `_apply_watchlist_add`, `_apply_watchlist_remove`, `diff_watchlist_events` and `parse_watchlist_feed` are not reached: the poll reads the diary feed only.

## 6. Plan

Done, in this order: `WatchLifecycle` with `WatchDiary`; `WatchRaces`; `Enrichment` with `ImportJobs`; `RssFeed`; `Recommendations`; `Pipeline`; the algorithms. What would come next:

1. Imports and adds among the requests of `WatchRaces`, and the partial failure of a watched export (an integrity error caught without a savepoint).
2. `Recommendations` composed with `Pipeline`: the candidates of a session as the pipeline chooses them.
3. The frontend's import polling, composed with `Enrichment`.

## 7. Not modelled

* Read endpoints and presenters: queries, which change nothing.
* Prompts, vectors and the texts of a profile's narrative: opaque data, of which the models know only whether they exist and from what they were made.
* The search for a Letterboxd address (`letterboxd_resolver`, slug probes) beyond "found or not"; XML and CSV syntax; the titles' similarity, which is an input of `Confidence`.
* Time: a provider that asks for a long wait (`http_retry.py:46`) is one that answers late.
* The web frontend, the database migrations, and the backup and deployment scripts.
