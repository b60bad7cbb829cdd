----------------------------- MODULE WatchRaces -----------------------------
(***************************************************************************)
(* The watch endpoints as they really run: several requests at once, each  *)
(* a database transaction at READ COMMITTED without row locks on what it   *)
(* reads.  WatchLifecycle lets each request run alone; here a request      *)
(*   Look    loads the film row and judges its status,                     *)
(*   Read    loads the entry or the draft its writes rest on,              *)
(*   Count   deletes the draft it loaded and counts the watchlist,         *)
(*   Commit  writes the rest and commits, or is refused by the database.   *)
(* Other requests commit in between.  Writes are updates by primary key:   *)
(* they do not see that the row has changed since it was read.  A draft    *)
(* deleted and not yet committed is locked: who would write it waits.      *)
(* What a handler reads after it has updated the film row is read under    *)
(* that row's lock, so it belongs to Commit.                               *)
(*                                                                         *)
(* Requests are the status endpoint, completing and cancelling a review,   *)
(* and the poll of the diary feed, of which one runs at a time.            *)
(***************************************************************************)
EXTENDS Integers, FiniteSets

CONSTANTS
  Film,
  Request,   \* what may run at the same time: worker threads and the event loop
  Entry,     \* primary keys of one film's watchlist_entries rows
  Row,       \* primary keys of one film's film_watches rows
  Cap,       \* MAX_ACTIVE_WATCHLIST
  None       \* no row

ASSUME FilmAssumption    == IsFiniteSet(Film)
ASSUME RequestAssumption == IsFiniteSet(Request) /\ Request # {}
ASSUME CapAssumption     == Cap \in Nat
ASSUME NoneAssumption    == None \notin Row \cup Entry \cup Film

VARIABLES
  film,   \* the committed rows of each film
  req     \* what each request has read and not yet written

vars == <<film, req>>

Status == {"active", "pending_watch_review", "watched", "archived"}
Op     == {"review", "archive", "restore", "complete", "cancel", "feed"}

\* entry: the active watchlist entry; ever: there is an entry, active or not;
\* draft: the pending watch row; imported: it came from the watched export;
\* done: the completed watch rows.
FilmRows ==
  [status: Status, entry: Entry \cup {None}, ever: BOOLEAN,
   draft: Row \cup {None}, imported: BOOLEAN, done: SUBSET Row]

\* status, entry, row, imported: what the request found; to: the status it
\* will write
Call ==
  [op: Op \cup {"none"}, at: {"idle", "looked", "read", "counted"}, film: Film \cup {None},
   status: Status, entry: Entry \cup {None}, row: Row \cup {None},
   imported: BOOLEAN, to: Status]

TypeOK == film \in [Film -> FilmRows] /\ req \in [Request -> Call]

Idle ==
  [op |-> "none", at |-> "idle", film |-> None, status |-> "active",
   entry |-> None, row |-> None, imported |-> FALSE, to |-> "active"]

-----------------------------------------------------------------------------
(* Where the films start: listed, archived, or waiting for the review of a *)
(* watched export that never listed them.                                  *)

Unlisted ==
  [status |-> "archived", entry |-> None, ever |-> TRUE,
   draft |-> None, imported |-> FALSE, done |-> {}]

Start ==
  {Unlisted}
    \cup {[Unlisted EXCEPT !.status = "active", !.entry = e] : e \in Entry}
    \cup {[Unlisted EXCEPT !.status = "pending_watch_review", !.ever = FALSE,
                           !.draft = w, !.imported = TRUE] : w \in Row}

CountActive == Cardinality({f \in Film : film[f].entry # None})

Init ==
  /\ film \in [Film -> Start]
  /\ CountActive <= Cap
  /\ req = [r \in Request |-> Idle]

-----------------------------------------------------------------------------
(* Rows under new primary keys: keys nobody holds.                         *)

NewRow(f) ==
  {w \in Row : /\ w # film[f].draft
               /\ w \notin film[f].done
               /\ \A r \in Request : req[r].film = f => req[r].row # w}

NewEntry(f) ==
  {e \in Entry : \A r \in Request : req[r].film = f => req[r].entry # e}

NoDraft(s) == [s EXCEPT !.draft = None, !.imported = FALSE]

\* DELETE by primary key, whatever has become of the row
WithoutRow(s, w) ==
  IF s.draft = w THEN NoDraft(s) ELSE [s EXCEPT !.done = s.done \ {w}]

\* UPDATE ... SET is_pending = false by primary key
WithDone(s, w) ==
  [(IF s.draft = w THEN NoDraft(s) ELSE s) EXCEPT !.done = @ \cup {w}]

WithDraft(s, w) == [s EXCEPT !.draft = w, !.imported = FALSE]

\* UPDATE ... SET active = false by primary key
WithoutEntry(s, e) ==
  [s EXCEPT !.entry = IF s.entry = e THEN None ELSE s.entry]

\* ensure_active_entry
WithEntry(s, e) ==
  [s EXCEPT !.entry = IF s.entry = None THEN e ELSE s.entry, !.ever = TRUE]

-----------------------------------------------------------------------------
(* The first read: which requests a film's status admits.                  *)

Admits(op, status) ==
  \/ op \in {"review", "archive"} /\ status = "active"
  \/ op = "restore"               /\ status # "active"
  \/ op \in {"complete", "cancel"} /\ status = "pending_watch_review"
  \/ op = "feed"                  /\ status # "watched"

Look(r) ==
  \E op \in Op, f \in Film :
    /\ req[r].at = "idle"
    /\ Admits(op, film[f].status)
    /\ op = "feed" => \A q \in Request : req[q].op # "feed"
    /\ req' = [req EXCEPT ![r] = [Idle EXCEPT !.op = op, !.at = "looked",
                                    !.film = f, !.status = film[f].status]]
    /\ UNCHANGED film

(* The second read, and the refusals that rest on it.                      *)

\* mistake: the key of the entry is kept where the draft's belongs
ReadEntry_Mixed(r) ==
  /\ req[r].at = "looked"
  /\ req[r].op \in {"review", "archive", "feed"}
  /\ req' = [req EXCEPT ![r].at = "read", ![r].row = film[req[r].film].entry]
  /\ UNCHANGED film

\* get_active_by_film_id, and for the feed the draft of a film in review
ReadEntry(r) ==
  LET f == req[r].film IN
  /\ req[r].at = "looked"
  /\ req[r].op \in {"review", "archive", "feed"}
  /\ req' = [req EXCEPT
       ![r].at    = "read",
       ![r].entry = film[f].entry,
       ![r].row   = IF req[r].op = "feed"
                       /\ req[r].status = "pending_watch_review"
                    THEN film[f].draft ELSE None]
  /\ UNCHANGED film

\* get_pending_for_film: complete_review is refused without a draft, the
\* others go on; restoring a film looks for one only if it is in review
ReadDraft(r) ==
  LET w == IF req[r].status = "pending_watch_review"
           THEN film[req[r].film].draft ELSE None
  IN
  /\ req[r].at = "looked"
  /\ req[r].op \in {"complete", "restore", "cancel"}
  /\ req[r].op = "complete" => w # None
  /\ req' = [req EXCEPT
       ![r].at       = "read",
       ![r].row      = w,
       ![r].imported = w # None /\ film[req[r].film].imported]
  /\ UNCHANGED film

\* the row is deleted by a request that has not committed
Locked(f, w) ==
  \E q \in Request :
    /\ req[q].at = "counted"
    /\ req[q].film = f
    /\ req[q].row = w
    /\ w # None

\* mistake: the count is not looked at
Count_Unchecked(r) ==
  /\ req[r].at = "read"
  /\ req[r].op \in {"restore", "cancel"}
  /\ ~Locked(req[r].film, req[r].row)
  /\ req' = [req EXCEPT ![r].at = "counted", ![r].to = "active"]
  /\ UNCHANGED film

\* The draft is deleted and the watchlist counted.  A cancelled import whose
\* film was never listed is archived instead: no count stands in its way.
Count(r) ==
  LET f      == req[r].film
      shelve == req[r].op = "cancel" /\ req[r].imported /\ ~film[f].ever
  IN
  /\ req[r].at = "read"
  /\ req[r].op \in {"restore", "cancel"}
  /\ ~Locked(f, req[r].row)
  /\ ~shelve => CountActive < Cap
  /\ req' = [req EXCEPT ![r].at = "counted",
                         ![r].to = IF shelve THEN "archived" ELSE "active"]
  /\ UNCHANGED film

(* The writes.                                                             *)

Done(r) == req' = [req EXCEPT ![r] = Idle]

Ready(r, at, ops) == req[r].at = at /\ req[r].op \in ops /\ Done(r)

\* mistake: no draft for a film that was watched before
CommitReview_NoDraft(r) ==
  LET f == req[r].film
      s == [WithoutEntry(film[f], req[r].entry) EXCEPT
              !.status = "pending_watch_review"]
  IN
  /\ Ready(r, "read", {"review"})
  /\ \/ /\ s.draft # None \/ s.done # {}
        /\ film' = [film EXCEPT ![f] = s]
     \/ \E w \in NewRow(f) :
          /\ s.draft = None
          /\ film' = [film EXCEPT ![f] = WithDraft(s, w)]

CommitReview(r) ==
  LET f == req[r].film
      s == [WithoutEntry(film[f], req[r].entry) EXCEPT
              !.status = "pending_watch_review"]
  IN
  /\ Ready(r, "read", {"review"})
  /\ \/ /\ s.draft # None
        /\ film' = [film EXCEPT ![f] = s]
     \/ \E w \in NewRow(f) :
          /\ s.draft = None
          /\ film' = [film EXCEPT ![f] = WithDraft(s, w)]

CommitArchive(r) ==
  /\ Ready(r, "read", {"archive"})
  /\ film' = [film EXCEPT ![req[r].film] =
                [WithoutEntry(@, req[r].entry) EXCEPT !.status = "archived"]]

\* mistake: a draft that is gone when it is updated goes unnoticed
CommitComplete_Unnoticed(r) ==
  LET f == req[r].film
      w == req[r].row
  IN
  /\ Ready(r, "read", {"complete"})
  /\ film' = [film EXCEPT ![f] =
                [(IF @.draft = w THEN WithDone(@, w) ELSE @)
                   EXCEPT !.status = "watched"]]

\* finalize_pending updates the row it read by primary key; when the row is
\* gone the update matches nothing and SQLAlchemy fails the request
CommitComplete(r) ==
  LET f == req[r].film
      w == req[r].row
  IN
  /\ Ready(r, "read", {"complete"})
  /\ w \in {film[f].draft} \cup film[f].done
  /\ ~Locked(f, w)
  /\ film' = [film EXCEPT ![f] =
                [WithDone(@, w) EXCEPT !.status = "watched"]]

\* the end of Restore and of cancel_review
CommitLeave(r) ==
  LET f == req[r].film
      s == [WithoutRow(film[f], req[r].row) EXCEPT !.status = req[r].to]
  IN
  /\ Ready(r, "counted", {"restore", "cancel"})
  /\ \/ /\ req[r].to = "archived"
        /\ film' = [film EXCEPT ![f] = s]
     \/ \E e \in NewEntry(f) :
          /\ req[r].to = "active"
          /\ film' = [film EXCEPT ![f] = WithEntry(s, e)]

\* _apply_watched: a film it found in review keeps its status, a draft it
\* found moves its day (the day is not modelled), otherwise it drafts one,
\* which uq_film_watches_one_pending_per_film refuses when there is one
CommitFeed(r) ==
  LET f == req[r].film
      s == WithoutEntry(film[f], req[r].entry)
  IN
  /\ Ready(r, "read", {"feed"})
  /\ \/ /\ req[r].row # None
        /\ film' = [film EXCEPT ![f] = s]
     \/ \E w \in NewRow(f) :
          /\ req[r].row = None
          /\ film[f].draft = None
          /\ film' = [film EXCEPT ![f] =
               [WithDraft(s, w) EXCEPT
                  !.status = IF req[r].status = "pending_watch_review"
                             THEN @ ELSE "pending_watch_review"]]

\* A request is refused or fails, and is rolled back: no draft, no room, a
\* constraint, a row that is gone, a deadlock that the database breaks.
Fail(r) ==
  /\ req[r].at # "idle"
  /\ Done(r)
  /\ UNCHANGED film

Next ==
  \E r \in Request :
    \/ Look(r) \/ ReadEntry(r) \/ ReadDraft(r) \/ Count(r)
    \/ CommitReview(r) \/ CommitArchive(r) \/ CommitComplete(r)
    \/ CommitLeave(r) \/ CommitFeed(r) \/ Fail(r)

Spec == Init /\ [][Next]_vars

-----------------------------------------------------------------------------
(* What interleaving cannot break.                                         *)

\* However requests interleave, a film in review has a draft: the review can
\* always be completed or cancelled.  (The converse is lost: an archive that
\* saw the film active overwrites a review begun since and leaves its draft.)
ReviewHasDraft ==
  \A f \in Film :
    film[f].status = "pending_watch_review" => film[f].draft # None

\* However requests interleave, a watched film has a completed watch: a
\* request that deletes the row another one has just completed also takes
\* the film out of "watched".
WatchedHasDiary ==
  \A f \in Film : film[f].status = "watched" => film[f].done # {}

\* Requests that counted before the others committed can pass the cap, but
\* only by one film for each further request that runs at the same time.
OvershootBounded == CountActive <= Cap + Cardinality(Request) - 1

-----------------------------------------------------------------------------
(* What it does break.                                                     *)

\* Cancelling a review "deletes the pending watch record": it never deletes
\* a completed one.  It does when the review is completed after the draft
\* was read and before it is deleted.
DeletesOnlyDrafts ==
  [][\A f \in Film : film[f].done \subseteq film'[f].done]_vars
=============================================================================
