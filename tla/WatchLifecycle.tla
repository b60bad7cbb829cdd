--------------------------- MODULE WatchLifecycle ---------------------------
(***************************************************************************)
(* The life of a film in Cuebox: on the watchlist, waiting for a watch     *)
(* review, watched, archived.  Every endpoint, CSV import and RSS event    *)
(* that moves a film is one action: here each request is one transaction   *)
(* that runs alone (module WatchRaces lets requests interleave).           *)
(*                                                                         *)
(* A film is a record of the rows the database holds about it:             *)
(*   status      films.status, "absent" when there is no row yet           *)
(*   entry       watchlist_entries: "never" no row, "active" an active     *)
(*               row, "removed" only deactivated rows                      *)
(*   pending     the film_watches row with is_pending, or NoRow            *)
(*   diary       the dates of the completed film_watches rows              *)
(*   uri         "temp" while the Letterboxd address is a placeholder      *)
(*   enrichment  what the watch side reads of enrichment_status: "failed", *)
(*               "uri_review" (a placeholder waiting for its address) or   *)
(*               "other"                                                   *)
(* Scores and notes are left out: no operation branches on them here.      *)
(***************************************************************************)
EXTENDS Integers, FiniteSets

CONSTANTS
  Film,   \* film rows, those not yet created included
  Date,   \* calendar days that are not in the future
  Cap,    \* MAX_ACTIVE_WATCHLIST, and MAX_FILMS of a CSV file (both 500)
  NoRow   \* the absence of a pending film_watches row

ASSUME DateAssumption == Date \subseteq Int
ASSUME FilmAssumption == IsFiniteSet(Film)
ASSUME CapAssumption  == Cap \in Nat

VARIABLE film

Status   == {"absent", "active", "pending_watch_review", "watched", "archived"}
Source   == {"manual", "rss", "letterboxd_import"}
WatchRow == [source: Source, at: Date, staged: SUBSET Date]

ASSUME NoRowAssumption == NoRow \notin WatchRow

FilmState ==
  [status: Status, entry: {"never", "active", "removed"},
   pending: WatchRow \cup {NoRow}, diary: SUBSET Date,
   uri: {"real", "temp"}, enrichment: {"failed", "uri_review", "other"}]

TypeOK == film \in [Film -> FilmState]

Absent ==
  [status |-> "absent", entry |-> "never", pending |-> NoRow, diary |-> {},
   uri |-> "real", enrichment |-> "other"]

Init == film = [f \in Film |-> Absent]

Known(f) == film[f].status # "absent"

\* watchlist_repository.count_active
CountActive == Cardinality({f \in Film : film[f].entry = "active"})

-----------------------------------------------------------------------------
(* The repositories' row operations, as functions of the film's rows.      *)

DeactivateEntry(s) ==
  [s EXCEPT !.entry = IF s.entry = "active" THEN "removed" ELSE s.entry]

EnsureActiveEntry(s) == [s EXCEPT !.entry = "active"]

\* mistake: the draft is written without its staged days
CreatePending_Unstaged(s, source, at, staged) ==
  [s EXCEPT !.pending = [source |-> source, at |-> at]]

CreatePending(s, source, at, staged) ==
  [s EXCEPT !.pending = [source |-> source, at |-> at, staged |-> staged]]

DeletePending(s) == [s EXCEPT !.pending = NoRow]

MarkStatus(s, status) == [s EXCEPT !.status = status]

\* mistake: a draft keeps its day, and the days of the export are staged
UpsertPending_Appends(s, source, at, staged) ==
  IF s.pending = NoRow
  THEN CreatePending(s, source, at, staged)
  ELSE [s EXCEPT !.pending =
          [s.pending EXCEPT !.staged = s.pending.staged \cup {at} \cup staged]]

\* get_pending_for_film, then create or update_pending_prefill; a source is
\* never rewritten, and staged dates only when the caller passes some
UpsertPending(s, source, at, staged) ==
  IF s.pending = NoRow
  THEN CreatePending(s, source, at, staged)
  ELSE [s EXCEPT !.pending = [s.pending EXCEPT !.at = at, !.staged = staged]]

-----------------------------------------------------------------------------
(* What each operation makes of one film.                                  *)

BegunReview(s, today) ==
  LET t == MarkStatus(DeactivateEntry(s), "pending_watch_review")
  IN  IF t.pending = NoRow THEN CreatePending(t, "manual", today, {}) ELSE t

\* mistake: a film leaves its review and the draft stays
Restored_KeepsDraft(s) == EnsureActiveEntry(MarkStatus(s, "active"))

\* mistake: a film put back on the watchlist starts a new diary
Restored_ForgetsDiary(s) ==
  [EnsureActiveEntry(MarkStatus(DeletePending(s), "active")) EXCEPT !.diary = {}]

\* mistake: the status is restored and the watchlist entry is not
Restored_Unlisted(s) == MarkStatus(DeletePending(s), "active")

\* restore_active, with the pending row gone when the film was in review
Restored(s) ==
  EnsureActiveEntry(MarkStatus(
    IF s.status = "pending_watch_review" THEN DeletePending(s) ELSE s, "active"))

Completed(s, at) ==
  [MarkStatus(DeletePending(s), "watched") EXCEPT
     !.diary = s.diary \cup {at} \cup s.pending.staged]

\* a review that came from the watched export, of a film that was never listed
OnlyImported(s) ==
  /\ s.pending # NoRow
  /\ s.pending.source = "letterboxd_import"
  /\ s.entry = "never"

\* one watched event of the diary feed
WatchedByRss(s, at) ==
  LET t == DeactivateEntry(s)
  IN  IF s.status = "pending_watch_review" /\ s.pending # NoRow
      THEN [t EXCEPT !.pending = [s.pending EXCEPT !.at = at]]
      ELSE CreatePending(MarkStatus(t, "pending_watch_review"), "rss", at, {})

\* A FilmImportPlan: the merged export gives every event of a film the same
\* rating, so its events are all completed or all waiting for a review; the
\* diary may name the earliest day twice, and then that day is staged as well.
Plan ==
  {p \in [rated: BOOLEAN, days: SUBSET Date, first: Date, twice: BOOLEAN] :
     p.first \in p.days /\ \A d \in p.days : p.first <= d}

StagedDays(p) == IF p.twice THEN p.days ELSE p.days \ {p.first}

Created(s) ==
  IF s.status = "absent" THEN MarkStatus(Absent, "active") ELSE s

\* mistake: an export without a rating marks the film watched all the same,
\* and only rated events are written
ImportedWatched_Unrated(s0, p) ==
  [MarkStatus(DeletePending(DeactivateEntry(s0)), "watched") EXCEPT
     !.diary = IF p.rated THEN s0.diary \cup p.days ELSE s0.diary]

ImportedWatched(s0, p) ==
  LET s == Created(s0)
      t == IF s.status = "active" THEN DeactivateEntry(s) ELSE s
  IN  IF s.status = "watched"
      THEN [s EXCEPT !.diary = s.diary \cup p.days]
      ELSE IF ~p.rated
      THEN UpsertPending(MarkStatus(t, "pending_watch_review"),
                         "letterboxd_import", p.first, StagedDays(p))
      ELSE [MarkStatus(IF s.status = "pending_watch_review"
                       THEN DeletePending(t) ELSE t, "watched") EXCEPT
              !.diary = s.diary \cup p.days]

\* a row of a watchlist CSV: new films are listed, failed ones retried
ImportedRow(s) ==
  IF s.status = "absent"
  THEN EnsureActiveEntry(MarkStatus(Absent, "active"))
  ELSE IF s.enrichment = "failed" /\ s.uri = "real"
  THEN EnsureActiveEntry([s EXCEPT !.enrichment = "other"])
  ELSE s

AddedManually(s) ==
  IF s.status = "absent"
  THEN EnsureActiveEntry(MarkStatus(Absent, "active"))
  ELSE [Restored(s) EXCEPT !.enrichment = "other"]

-----------------------------------------------------------------------------
(* Manual status changes: FilmStatusService.transition, every pair of      *)
(* statuses it allows; any other request ends in a conflict.               *)

StartReview(f) ==
  /\ film[f].status = "active"
  /\ \E today \in Date : film' = [film EXCEPT ![f] = BegunReview(@, today)]

Archive(f) ==
  /\ film[f].status = "active"
  /\ film' = [film EXCEPT ![f] = MarkStatus(DeactivateEntry(@), "archived")]

\* mistake: the status endpoint forgets the cap
Restore_Uncapped(f) ==
  /\ film[f].status \in {"pending_watch_review", "watched", "archived"}
  /\ film' = [film EXCEPT ![f] = Restored(@)]

Restore(f) ==
  /\ film[f].status \in {"pending_watch_review", "watched", "archived"}
  /\ CountActive < Cap
  /\ film' = [film EXCEPT ![f] = Restored(@)]

(* Watch reviews: WatchReviewService.                                      *)

\* uq_film_watches_film_watched_at_completed refuses a day already in the
\* diary when the pending row is finalized: the request fails as a whole
CompleteReview(f) ==
  /\ film[f].status = "pending_watch_review"
  /\ film[f].pending # NoRow
  /\ \E at \in Date \ film[f].diary :
       film' = [film EXCEPT ![f] = Completed(@, at)]

CancelReview(f) ==
  /\ film[f].status = "pending_watch_review"
  /\ \/ /\ OnlyImported(film[f])
        /\ film' = [film EXCEPT ![f] = MarkStatus(DeletePending(@), "archived")]
     \/ /\ ~OnlyImported(film[f])
        /\ CountActive < Cap
        /\ film' = [film EXCEPT ![f] = Restored(@)]

\* edit_watch: of the score alone, or of the day, unless another watch has it
EditWatch(f) ==
  \E old \in film[f].diary, new \in Date :
    /\ new \notin film[f].diary \ {old}
    /\ film' = [film EXCEPT ![f].diary = (@ \ {old}) \cup {new}]

(* Synchronisation with Letterboxd.                                        *)

\* mistake: the feed sends watched films back to review
RssPoll_Rewatch ==
  \E f \in Film, at \in Date :
    /\ Known(f)
    /\ film' = [film EXCEPT ![f] = WatchedByRss(@, at)]

\* find_for_rss_watched: by the address, or by the title of a listed film;
\* _apply_watched leaves a watched film alone
InFeed(f) ==
  /\ Known(f)
  /\ film[f].uri = "real" \/ film[f].entry = "active"
  /\ film[f].status # "watched"

\* poll_rss, for a poll that meets at most one new event of each film
RssPoll ==
  \E S \in SUBSET {f \in Film : InFeed(f)} :
    /\ S # {}
    /\ \E at \in [S -> Date] :
         film' = [f \in Film |->
                    IF f \in S THEN WatchedByRss(film[f], at[f]) ELSE film[f]]

ImportWatched ==
  \E S \in SUBSET Film :
    /\ S # {}
    /\ \E plan \in [S -> Plan] :
         film' = [f \in Film |->
                    IF f \in S THEN ImportedWatched(film[f], plan[f])
                    ELSE film[f]]

\* create_import: only the length of the file is limited
ImportCsv ==
  \E rows \in SUBSET Film :
    /\ rows # {}
    /\ Cardinality(rows) <= Cap
    /\ film' = [f \in Film |-> IF f \in rows THEN ImportedRow(film[f])
                               ELSE film[f]]

\* mistake: a film of the file that exists is put on the watchlist again
SyncCsv_Relists ==
  \E f \in Film :
    /\ CountActive < Cap
    /\ film' = [film EXCEPT ![f] =
                  EnsureActiveEntry(IF Known(f) THEN @ ELSE ImportedRow(@))]

\* sync_csv: rows of films that exist are left alone whatever their status
SyncCsv ==
  \E rows \in SUBSET {f \in Film : ~Known(f)} :
    /\ rows # {}
    /\ CountActive + Cardinality(rows) <= Cap
    /\ film' = [f \in Film |-> IF f \in rows THEN ImportedRow(film[f])
                               ELSE film[f]]

(* Manual adds: WatchlistAddService, exempt from the cap.                  *)

AddFilm(f) ==
  /\ film[f].uri = "real"
  /\ ~(film[f].status = "active" /\ film[f].entry = "active")
  /\ film' = [film EXCEPT ![f] = AddedManually(@)]

AddUnresolved(f) ==
  /\ ~Known(f)
  /\ film' = [film EXCEPT ![f] = [Absent EXCEPT !.status = "active",
                                    !.uri = "temp", !.enrichment = "uri_review"]]

\* resolve_letterboxd_review looks at the review, not at the film's status
ResolveUri(f) ==
  /\ film[f].enrichment = "uri_review"
  /\ film' = [film EXCEPT ![f] =
                EnsureActiveEntry([@ EXCEPT !.uri = "real",
                                            !.enrichment = "other"])]

(* Enrichment seen from here: a pipeline or a rejected review fails a      *)
(* film, a rematch or an accepted review takes it up again.                *)

EnrichmentFails(f) ==
  /\ Known(f)
  /\ film[f].enrichment # "failed"
  /\ film' = [film EXCEPT ![f].enrichment = "failed"]

Rematch(f) ==
  /\ Known(f)
  /\ film[f].enrichment # "other"
  /\ film' = [film EXCEPT ![f].enrichment = "other"]

Next ==
  \/ \E f \in Film :
       \/ StartReview(f) \/ Archive(f) \/ Restore(f)
       \/ CompleteReview(f) \/ CancelReview(f) \/ EditWatch(f)
       \/ AddFilm(f) \/ AddUnresolved(f) \/ ResolveUri(f)
       \/ EnrichmentFails(f) \/ Rematch(f)
  \/ RssPoll \/ ImportWatched \/ ImportCsv \/ SyncCsv

Spec == Init /\ [][Next]_film

-----------------------------------------------------------------------------
(* What a film's rows always say about each other.                         *)

\* A film is in watch review exactly when it has a draft watch row: no
\* request, import or feed event leaves a review without its draft, or a
\* draft that complete_review and cancel_review can no longer reach.
ReviewHasDraft ==
  \A f \in Film :
    film[f].status = "pending_watch_review" <=> film[f].pending # NoRow

\* An active film is on the watchlist, unless it is a placeholder that still
\* waits for its Letterboxd address: otherwise it would be recommended
\* (list_recommendation_candidates reads the status) and not listed
\* (the Watchlist view reads the entries).
ActiveIsListed ==
  \A f \in Film :
    film[f].status = "active" /\ film[f].uri = "real" =>
      film[f].entry = "active"

\* A watched film has a diary entry: whatever path marked it watched, and
\* whatever was edited since, one completed watch row is left to show.
WatchedHasDiary ==
  \A f \in Film : film[f].status = "watched" => film[f].diary # {}

\* Only the retry of a failed film by a watchlist import and the late
\* resolution of a placeholder's address put a film that is reviewed,
\* watched or archived on the watchlist: everything else lists active films.
ListsOnlyActive ==
  [][\A f \in Film :
       /\ film[f].entry # "active"
       /\ film'[f].entry = "active"
       /\ film'[f].status # "active"
       => film[f].enrichment \in {"failed", "uri_review"}]_film

\* Restoring a film, cancelling its review and the CSV sync are refused where
\* they would take the watchlist beyond the cap, whatever film they concern
\* and even where an import or an add could do the same: only those, and the
\* resolution of an add, ever add to a watchlist that is then too long.
CapHolds ==
  [][CountActive' > Cap /\ CountActive' > CountActive =>
       /\ ~SyncCsv
       /\ \A f \in Film : ~Restore(f) /\ ~CancelReview(f)
       /\ \/ \E f \in Film : AddFilm(f) \/ ResolveUri(f)
          \/ ImportCsv]_film

\* The diary is a record: no step but the edit of a watch removes a day from
\* it, whatever happens to the film's status.
DiaryOnlyGrows ==
  [][\A f \in Film : \/ film[f].diary \subseteq film'[f].diary
                     \/ EditWatch(f)]_film

\* Uploading the same watched export once more changes nothing, whatever became
\* of the film before: no day is written or drafted twice, and a review that
\* the export began is not begun again.
ReuploadIsHarmless ==
  \A f \in Film : \A p \in Plan :
    LET once == ImportedWatched(film[f], p)
    IN  ImportedWatched(once, p) = once

Promise == INSTANCE WatchDiary WITH
  stage <- [f \in Film |-> film[f].status],
  diary <- [f \in Film |-> film[f].diary]

\* Every step of a film's life is one the diary's promise allows: a watched
\* film stays watched or goes back to the watchlist, a film that becomes
\* watched has a day to show, and only an edit takes a day away.
KeepsPromise == Promise!Spec
=============================================================================
