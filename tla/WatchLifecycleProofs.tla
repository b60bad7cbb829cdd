------------------------ MODULE WatchLifecycleProofs ------------------------
(***************************************************************************)
(* Proofs about WatchLifecycle for any films, any days, any cap.           *)
(*                                                                         *)
(* The inductive invariant says that every film is Coherent: its rows have *)
(* their types and agree with each other.  Every operation on one film     *)
(* takes a coherent film to a coherent film by a permitted step            *)
(* (lemmas named after the operations); every action applies one of them   *)
(* to some films and leaves the others alone (NextSteps); all the          *)
(* properties follow from that.                                            *)
(***************************************************************************)
EXTENDS WatchLifecycle, FiniteSetTheorems, TLAPS

\* The films whose rows agree: the invariants of WatchLifecycle film by
\* film, and that a film without a row has no diary.
Coherent ==
  {s \in FilmState :
     /\ s.status = "pending_watch_review" <=> s.pending # NoRow
     /\ s.status = "active" /\ s.uri = "real" => s.entry = "active"
     /\ s.status = "watched" => s.diary # {}
     /\ s.status = "absent" => s.diary = {}}

IInv == film \in [Film -> Coherent]

\* What a step other than the edit of a watch may make of one film.
Permitted(s, t) ==
  /\ t \in Coherent
  /\ Promise!MayMove(s.status, t.status)
  /\ s.diary \subseteq t.diary
  /\ t.diary # s.diary => t.status = "watched"
  /\ s.entry # "active" /\ t.entry = "active" /\ t.status # "active"
       => s.enrichment \in {"failed", "uri_review"}

-----------------------------------------------------------------------------
(* The operations on one film.                                             *)

\* A film that an operation leaves alone has made a permitted step.
LEMMA StayPermitted ==
  ASSUME NEW s \in Coherent
  PROVE  Permitted(s, s)
BY DEF Permitted, Coherent, Promise!MayMove, Promise!Stage, FilmState, Status

\* A draft is never the absence of one.
LEMMA DraftIsARow ==
  ASSUME NEW source \in Source, NEW at \in Date, NEW staged \in SUBSET Date
  PROVE  LET row == [source |-> source, at |-> at, staged |-> staged]
         IN  row \in WatchRow /\ row # NoRow
BY NoRowAssumption DEF WatchRow

\* Starting a review drafts one.
LEMMA BegunReviewOK ==
  ASSUME NEW s \in Coherent, s.status = "active", NEW today \in Date
  PROVE  Permitted(s, BegunReview(s, today))
<1> DEFINE row == [source |-> "manual", at |-> today, staged |-> {}]
           t   == BegunReview(s, today)
<1>1. row \in WatchRow /\ row # NoRow
  BY NoRowAssumption DEF WatchRow, Source
<1>2. s \in FilmState /\ s.pending = NoRow
  BY DEF Coherent
<1>3. t = [[[s EXCEPT !.entry = IF s.entry = "active" THEN "removed" ELSE s.entry]
              EXCEPT !.status = "pending_watch_review"] EXCEPT !.pending = row]
  BY <1>2 DEF BegunReview, MarkStatus, DeactivateEntry, CreatePending, FilmState
<1> HIDE DEF row
<1>4. /\ t \in FilmState
      /\ t.status = "pending_watch_review" /\ t.pending = row
      /\ t.diary = s.diary /\ t.entry # "active"
  BY <1>1, <1>2, <1>3 DEF FilmState, Status
<1> HIDE DEF t
<1>5. t \in Coherent
  BY <1>1, <1>4 DEF Coherent
<1> QED
  BY <1>4, <1>5 DEF t, Permitted, Promise!MayMove, Promise!Stage

\* Restoring lists the film, drops a draft and keeps the diary.
LEMMA RestoredOK ==
  ASSUME NEW s \in Coherent
  PROVE  Permitted(s, Restored(s))
BY NoRowAssumption
   DEF Permitted, Coherent, FilmState, Status, Restored,
       MarkStatus, EnsureActiveEntry, DeletePending,
       Promise!MayMove, Promise!Stage

\* Completing a review turns the draft into diary days.
LEMMA CompletedOK ==
  ASSUME NEW s \in Coherent, s.status = "pending_watch_review",
         NEW at \in Date
  PROVE  Permitted(s, Completed(s, at))
<1>1. s \in FilmState /\ s.pending \in WatchRow
  BY DEF Coherent, FilmState
<1>2. s.pending.staged \in SUBSET Date
  BY <1>1 DEF WatchRow
<1> QED
  BY <1>1, <1>2
     DEF Permitted, Coherent, FilmState, Status, Completed,
         MarkStatus, DeletePending, Promise!MayMove, Promise!Stage

\* Cancelling a review of a film that was never listed archives it.
LEMMA ArchivedOK ==
  ASSUME NEW s \in Coherent, s.status = "pending_watch_review"
  PROVE  Permitted(s, MarkStatus(DeletePending(s), "archived"))
BY NoRowAssumption
   DEF Permitted, Coherent, FilmState, Status, MarkStatus, DeletePending,
       Promise!MayMove, Promise!Stage

\* Archiving takes the film off the watchlist.
LEMMA ArchivedActiveOK ==
  ASSUME NEW s \in Coherent, s.status = "active"
  PROVE  Permitted(s, MarkStatus(DeactivateEntry(s), "archived"))
BY DEF Permitted, Coherent, FilmState, Status, MarkStatus, DeactivateEntry,
       Promise!MayMove, Promise!Stage

\* A watched event drafts a review, or moves the day of the one there is.
LEMMA WatchedByRssOK ==
  ASSUME NEW s \in Coherent, s.status \notin {"absent", "watched"},
         NEW at \in Date
  PROVE  Permitted(s, WatchedByRss(s, at))
<1> DEFINE row == [source |-> "rss", at |-> at, staged |-> {}]
           e   == IF s.entry = "active" THEN "removed" ELSE s.entry
<1>1. s \in FilmState
  BY DEF Coherent
<1>2. e \in {"removed", "never"}
  BY <1>1 DEF FilmState
<1>3. DeactivateEntry(s) = [s EXCEPT !.entry = e]
  BY DEF DeactivateEntry
<1> HIDE DEF e
<1>4. CASE s.status = "pending_watch_review" /\ s.pending # NoRow
  <2>1. s.pending \in WatchRow
    BY <1>1, <1>4 DEF FilmState
  <2>2. [s.pending EXCEPT !.at = at] \in WatchRow \ {NoRow}
    BY <2>1, NoRowAssumption DEF WatchRow
  <2> QED
    BY <1>1, <1>2, <1>3, <1>4, <2>2
       DEF WatchedByRss, Permitted, Coherent, FilmState,
           Promise!MayMove, Promise!Stage
<1>5. CASE ~(s.status = "pending_watch_review" /\ s.pending # NoRow)
  <2>1. row \in WatchRow /\ row # NoRow
    BY DraftIsARow DEF Source
  <2>2. WatchedByRss(s, at) =
          [s EXCEPT !.entry = e, !.status = "pending_watch_review",
                    !.pending = row]
    BY <1>1, <1>3, <1>5 DEF WatchedByRss, MarkStatus, CreatePending, FilmState
  <2> HIDE DEF row
  <2> QED
    BY <1>1, <1>2, <2>1, <2>2
       DEF Permitted, Coherent, FilmState, Status,
           Promise!MayMove, Promise!Stage
<1> QED
  BY <1>4, <1>5

\* A film without rows is coherent.
LEMMA AbsentOK ==
  Absent \in Coherent
BY NoRowAssumption DEF Absent, Coherent, FilmState, Status

\* A merged export plan has days, and stages some of them.
LEMMA PlanDays ==
  ASSUME NEW p \in Plan
  PROVE  /\ p.days \in SUBSET Date /\ p.days # {}
         /\ p.first \in Date /\ StagedDays(p) \in SUBSET Date
BY DEF Plan, StagedDays

\* A row of the watched export, merged, for a film known or not.
LEMMA ImportedWatchedOK ==
  ASSUME NEW s0 \in Coherent, NEW p \in Plan
  PROVE  Permitted(s0, ImportedWatched(s0, p))
<1> DEFINE s == Created(s0)
           t == IF s.status = "active" THEN DeactivateEntry(s) ELSE s
           u == ImportedWatched(s0, p)
           Same(x) == /\ x.entry = t.entry /\ x.uri = t.uri
                      /\ x.enrichment = t.enrichment
<1>1. /\ s \in FilmState /\ s.status # "absent" /\ s.diary = s0.diary
      /\ s.status = "pending_watch_review" <=> s.pending # NoRow
      /\ s0.status # "absent" => s = s0
      /\ s0.status = "absent" => s.status = "active" /\ s.entry = "never"
  BY AbsentOK DEF Created, MarkStatus, Absent, Coherent, FilmState, Status
<1>2. /\ t \in FilmState /\ t.status = s.status /\ t.diary = s.diary
      /\ t.pending = s.pending /\ (t.entry = s.entry \/ t.entry = "removed")
      /\ s.status # "active" => t = s
  BY <1>1 DEF DeactivateEntry, FilmState
<1>3. p.days \in SUBSET Date /\ p.days # {} /\ p.first \in Date
      /\ StagedDays(p) \in SUBSET Date
  BY PlanDays
<1>4. CASE s.status = "watched"
  <2>1. u = [s EXCEPT !.diary = s.diary \cup p.days]
    BY <1>4 DEF ImportedWatched
  <2> HIDE DEF s, u
  <2>2. u \in Coherent
    BY <1>1, <1>3, <1>4, <2>1 DEF Coherent, FilmState
  <2> QED
    BY <1>1, <1>4, <2>1, <2>2
       DEF u, Permitted, FilmState, Promise!MayMove, Promise!Stage
<1>5. CASE s.status # "watched" /\ p.rated
  <2>1. /\ u \in FilmState /\ u.status = "watched" /\ u.entry = t.entry
        /\ u.diary = s.diary \cup p.days
        /\ u.pending = IF s.status = "pending_watch_review" THEN NoRow
                       ELSE s.pending
    BY <1>1, <1>2, <1>3, <1>5
       DEF ImportedWatched, MarkStatus, DeletePending, FilmState, Status
  <2> HIDE DEF s, t, u
  <2>2. u \in Coherent
    BY <1>1, <1>3, <2>1 DEF Coherent
  <2> QED
    BY <1>1, <1>2, <1>5, <2>1, <2>2
       DEF u, Permitted, Coherent, FilmState, Status,
           Promise!MayMove, Promise!Stage
<1>6. CASE s.status # "watched" /\ ~p.rated
  <2> DEFINE v == MarkStatus(t, "pending_watch_review")
  <2>1. /\ v \in FilmState /\ v.status = "pending_watch_review"
        /\ v.pending = s.pending /\ v.diary = s.diary /\ v.entry = t.entry
    BY <1>2 DEF MarkStatus, FilmState, Status
  <2>2. u = UpsertPending(v, "letterboxd_import", p.first, StagedDays(p))
    BY <1>6 DEF ImportedWatched
  <2> HIDE DEF s, t, u, v
  <2>3. /\ u \in FilmState /\ u.status = "pending_watch_review"
        /\ u.pending # NoRow /\ u.diary = s.diary /\ u.entry = t.entry
    <3>1. CASE v.pending = NoRow
      <4> DEFINE row == [source |-> "letterboxd_import", at |-> p.first,
                         staged |-> StagedDays(p)]
      <4>1. row \in WatchRow /\ row # NoRow
        BY <1>3, DraftIsARow DEF Source
      <4>2. u = [v EXCEPT !.pending = row]
        BY <2>2, <3>1 DEF UpsertPending, CreatePending
      <4> HIDE DEF row
      <4> QED
        BY <2>1, <4>1, <4>2 DEF FilmState
    <3>2. CASE v.pending # NoRow
      <4> DEFINE row == [v.pending EXCEPT !.at = p.first,
                                          !.staged = StagedDays(p)]
      <4>1. v.pending \in WatchRow
        BY <2>1, <3>2 DEF FilmState
      <4>2. row \in WatchRow /\ row # NoRow
        BY <1>3, <4>1, NoRowAssumption DEF WatchRow
      <4>3. u = [v EXCEPT !.pending = row]
        BY <2>2, <3>2 DEF UpsertPending
      <4> HIDE DEF row
      <4> QED
        BY <2>1, <4>2, <4>3 DEF FilmState
    <3> QED
      BY <3>1, <3>2
  <2>4. u \in Coherent
    BY <2>3 DEF Coherent
  <2> QED
    BY <1>1, <1>2, <1>6, <2>3, <2>4
       DEF u, Permitted, Coherent, FilmState, Status,
           Promise!MayMove, Promise!Stage
<1> QED
  BY <1>4, <1>5, <1>6

\* A row of a watchlist CSV.
LEMMA ImportedRowOK ==
  ASSUME NEW s \in Coherent
  PROVE  Permitted(s, ImportedRow(s))
<1>1. CASE s.status = "absent"
  BY <1>1, AbsentOK
     DEF Permitted, ImportedRow, Absent, MarkStatus, EnsureActiveEntry,
         Coherent, FilmState, Status, Promise!MayMove, Promise!Stage
<1>2. CASE s.status # "absent"
  BY <1>2, StayPermitted
     DEF Permitted, ImportedRow, EnsureActiveEntry,
         Coherent, FilmState, Promise!MayMove
<1> QED
  BY <1>1, <1>2

\* A manual add of a film known or not.
LEMMA AddedManuallyOK ==
  ASSUME NEW s \in Coherent
  PROVE  Permitted(s, AddedManually(s))
<1>1. CASE s.status = "absent"
  BY <1>1, AbsentOK
     DEF Permitted, AddedManually, Absent, MarkStatus, EnsureActiveEntry,
         Coherent, FilmState, Status, Promise!MayMove, Promise!Stage
<1>2. CASE s.status # "absent"
  BY <1>2, RestoredOK
     DEF Permitted, AddedManually, Coherent, FilmState
<1> QED
  BY <1>1, <1>2

\* A manual add whose Letterboxd address is not known yet.
LEMMA StubOK ==
  ASSUME NEW s \in Coherent, s.status = "absent"
  PROVE  Permitted(s, [Absent EXCEPT !.status = "active", !.uri = "temp",
                                     !.enrichment = "uri_review"])
BY AbsentOK
   DEF Permitted, Absent, Coherent, FilmState, Status,
       Promise!MayMove, Promise!Stage

\* The address arrives.
LEMMA ResolvedOK ==
  ASSUME NEW s \in Coherent, s.enrichment = "uri_review"
  PROVE  Permitted(s, EnsureActiveEntry([s EXCEPT !.uri = "real",
                                                  !.enrichment = "other"]))
BY DEF Permitted, EnsureActiveEntry, Coherent, FilmState, Promise!MayMove

\* Enrichment writes its own column and nothing else.
LEMMA EnrichmentOK ==
  ASSUME NEW s \in Coherent, NEW e \in {"failed", "other"}
  PROVE  Permitted(s, [s EXCEPT !.enrichment = e])
BY DEF Permitted, Coherent, FilmState, Promise!MayMove

\* The edit of a watch exchanges one day for another.
LEMMA EditedOK ==
  ASSUME NEW s \in Coherent, NEW old \in s.diary, NEW new \in Date
  PROVE  /\ [s EXCEPT !.diary = (@ \ {old}) \cup {new}] \in Coherent
         /\ s.diary # {} /\ s.status # "absent"
BY DEF Coherent, FilmState

-----------------------------------------------------------------------------
(* The actions.                                                            *)

\* Every film starts without rows.
LEMMA InitOK ==
  Init => IInv
BY AbsentOK DEF Init, IInv

\* A step that changes one film, by a permitted step.
LEMMA OneFilm ==
  ASSUME IInv, NEW f \in Film, NEW t, Permitted(film[f], t),
         film' = [film EXCEPT ![f] = t]
  PROVE  IInv' /\ \A g \in Film : Permitted(film[g], film'[g])
BY StayPermitted DEF IInv, Permitted

\* A step that changes some films, each by a permitted step.
LEMMA SomeFilms ==
  ASSUME IInv, NEW S \in SUBSET Film, NEW t,
         \A f \in S : Permitted(film[f], t[f]),
         film' = [f \in Film |-> IF f \in S THEN t[f] ELSE film[f]]
  PROVE  IInv' /\ \A g \in Film : Permitted(film[g], film'[g])
BY StayPermitted DEF IInv, Permitted

\* A step of the system keeps every film coherent; each film makes a
\* permitted step, or one film's watch is edited.
LEMMA NextSteps ==
  ASSUME IInv, Next
  PROVE  /\ IInv'
         /\ \/ \A g \in Film : Permitted(film[g], film'[g])
            \/ \E f \in Film : EditWatch(f)
<1> USE DEF IInv
<1>1. ASSUME NEW f \in Film, StartReview(f)
      PROVE  IInv' /\ \A g \in Film : Permitted(film[g], film'[g])
  <2>1. PICK today \in Date :
               film' = [film EXCEPT ![f] = BegunReview(film[f], today)]
    BY <1>1 DEF StartReview
  <2> QED
    BY <1>1, <2>1, BegunReviewOK, OneFilm DEF StartReview
<1>2. ASSUME NEW f \in Film, Archive(f)
      PROVE  IInv' /\ \A g \in Film : Permitted(film[g], film'[g])
  BY <1>2, ArchivedActiveOK, OneFilm DEF Archive
<1>3. ASSUME NEW f \in Film, Restore(f)
      PROVE  IInv' /\ \A g \in Film : Permitted(film[g], film'[g])
  BY <1>3, RestoredOK, OneFilm DEF Restore
<1>4. ASSUME NEW f \in Film, CompleteReview(f)
      PROVE  IInv' /\ \A g \in Film : Permitted(film[g], film'[g])
  <2>1. PICK at \in Date \ film[f].diary :
               film' = [film EXCEPT ![f] = Completed(film[f], at)]
    BY <1>4 DEF CompleteReview
  <2> QED
    BY <1>4, <2>1, CompletedOK, OneFilm DEF CompleteReview
<1>5. ASSUME NEW f \in Film, CancelReview(f)
      PROVE  IInv' /\ \A g \in Film : Permitted(film[g], film'[g])
  BY <1>5, ArchivedOK, RestoredOK, OneFilm DEF CancelReview
<1>6. ASSUME NEW f \in Film, EditWatch(f)
      PROVE  IInv'
  <2>1. PICK old \in film[f].diary, new \in Date :
               /\ new \notin film[f].diary \ {old}
               /\ film' = [film EXCEPT ![f] =
                            [film[f] EXCEPT !.diary = (@ \ {old}) \cup {new}]]
    BY <1>6 DEF EditWatch
  <2> QED
    BY <2>1, EditedOK
<1>7. ASSUME NEW f \in Film, AddFilm(f)
      PROVE  IInv' /\ \A g \in Film : Permitted(film[g], film'[g])
  BY <1>7, AddedManuallyOK, OneFilm DEF AddFilm
<1>8. ASSUME NEW f \in Film, AddUnresolved(f)
      PROVE  IInv' /\ \A g \in Film : Permitted(film[g], film'[g])
  BY <1>8, StubOK, OneFilm DEF AddUnresolved, Known
<1>9. ASSUME NEW f \in Film, ResolveUri(f)
      PROVE  IInv' /\ \A g \in Film : Permitted(film[g], film'[g])
  BY <1>9, ResolvedOK, OneFilm DEF ResolveUri
<1>10. ASSUME NEW f \in Film, EnrichmentFails(f)
       PROVE  IInv' /\ \A g \in Film : Permitted(film[g], film'[g])
  <2>1. film' = [film EXCEPT ![f] = [film[f] EXCEPT !.enrichment = "failed"]]
    BY <1>10 DEF EnrichmentFails
  <2> QED
    BY <2>1, EnrichmentOK, OneFilm
<1>11. ASSUME NEW f \in Film, Rematch(f)
       PROVE  IInv' /\ \A g \in Film : Permitted(film[g], film'[g])
  <2>1. film' = [film EXCEPT ![f] = [film[f] EXCEPT !.enrichment = "other"]]
    BY <1>11 DEF Rematch
  <2> QED
    BY <2>1, EnrichmentOK, OneFilm
<1>12. ASSUME RssPoll
       PROVE  IInv' /\ \A g \in Film : Permitted(film[g], film'[g])
  <2>1. PICK S \in SUBSET {f \in Film : InFeed(f)} :
          \E at \in [S -> Date] :
            film' = [f \in Film |->
                       IF f \in S THEN WatchedByRss(film[f], at[f]) ELSE film[f]]
    BY <1>12 DEF RssPoll
  <2>2. PICK at \in [S -> Date] :
          film' = [f \in Film |->
                     IF f \in S THEN WatchedByRss(film[f], at[f]) ELSE film[f]]
    BY <2>1
  <2> DEFINE t == [f \in S |-> WatchedByRss(film[f], at[f])]
  <2>3. \A f \in S : Permitted(film[f], t[f])
    BY WatchedByRssOK DEF InFeed, Known
  <2>4. film' = [f \in Film |-> IF f \in S THEN t[f] ELSE film[f]]
    BY <2>2
  <2> HIDE DEF t
  <2> QED
    BY <2>3, <2>4, SomeFilms
<1>13. ASSUME ImportWatched
       PROVE  IInv' /\ \A g \in Film : Permitted(film[g], film'[g])
  <2>1. PICK S \in SUBSET Film : \E plan \in [S -> Plan] :
          film' = [f \in Film |->
                     IF f \in S THEN ImportedWatched(film[f], plan[f])
                     ELSE film[f]]
    BY <1>13 DEF ImportWatched
  <2>2. PICK plan \in [S -> Plan] :
          film' = [f \in Film |->
                     IF f \in S THEN ImportedWatched(film[f], plan[f])
                     ELSE film[f]]
    BY <2>1
  <2> DEFINE t == [f \in S |-> ImportedWatched(film[f], plan[f])]
  <2>3. \A f \in S : Permitted(film[f], t[f])
    BY ImportedWatchedOK
  <2>4. film' = [f \in Film |-> IF f \in S THEN t[f] ELSE film[f]]
    BY <2>2
  <2> HIDE DEF t
  <2> QED
    BY <2>3, <2>4, SomeFilms
<1>14. ASSUME NEW rows \in SUBSET Film,
              film' = [f \in Film |-> IF f \in rows THEN ImportedRow(film[f])
                                      ELSE film[f]]
       PROVE  IInv' /\ \A g \in Film : Permitted(film[g], film'[g])
  <2> DEFINE t == [f \in rows |-> ImportedRow(film[f])]
  <2>1. \A f \in rows : Permitted(film[f], t[f])
    BY ImportedRowOK
  <2>2. film' = [f \in Film |-> IF f \in rows THEN t[f] ELSE film[f]]
    BY <1>14
  <2> HIDE DEF t
  <2> QED
    BY <2>1, <2>2, SomeFilms
<1>15. CASE ImportCsv
  BY <1>14, <1>15 DEF ImportCsv
<1>16. CASE SyncCsv
  BY <1>14, <1>16 DEF SyncCsv
<1> HIDE DEF IInv
<1> QED
  BY <1>1, <1>2, <1>3, <1>4, <1>5, <1>6, <1>7, <1>8, <1>9, <1>10, <1>11,
     <1>12, <1>13, <1>15, <1>16 DEF Next

-----------------------------------------------------------------------------
(* The theorems.                                                           *)

\* A step that changes nothing.
LEMMA StutterSteps ==
  ASSUME IInv, UNCHANGED film
  PROVE  IInv' /\ \A g \in Film : Permitted(film[g], film'[g])
BY StayPermitted DEF IInv

\* In every reachable state every film is coherent.
THEOREM InvariantHolds == Spec => []IInv
<1>1. IInv /\ [Next]_film => IInv'
  BY NextSteps, StutterSteps
<1> QED
  BY InitOK, <1>1, PTL DEF Spec

\* The rows of every film have the types the tables give them.
THEOREM TypeCorrect == Spec => []TypeOK
<1>1. IInv => TypeOK
  BY DEF IInv, TypeOK, Coherent
<1> QED
  BY InvariantHolds, <1>1, PTL

\* A film is in review exactly when there is a draft of the review.
THEOREM ReviewAlwaysHasDraft == Spec => []ReviewHasDraft
<1>1. IInv => ReviewHasDraft
  BY DEF IInv, ReviewHasDraft, Coherent
<1> QED
  BY InvariantHolds, <1>1, PTL

\* An active film with a Letterboxd address is on the watchlist.
THEOREM ActiveAlwaysListed == Spec => []ActiveIsListed
<1>1. IInv => ActiveIsListed
  BY DEF IInv, ActiveIsListed, Coherent
<1> QED
  BY InvariantHolds, <1>1, PTL

\* A watched film has a day in its diary.
THEOREM WatchedAlwaysHasDiary == Spec => []WatchedHasDiary
<1>1. IInv => WatchedHasDiary
  BY DEF IInv, WatchedHasDiary, Coherent
<1> QED
  BY InvariantHolds, <1>1, PTL

\* Importing one plan twice: the second time a drafted film keeps its draft and
\* a watched one gets days it has.
LEMMA ImportedTwice ==
  ASSUME NEW s0 \in Coherent, NEW p \in Plan
  PROVE  ImportedWatched(ImportedWatched(s0, p), p) = ImportedWatched(s0, p)
<1> DEFINE s    == Created(s0)
           once == ImportedWatched(s0, p)
           row  == [source |-> "letterboxd_import", at |-> p.first,
                    staged |-> StagedDays(p)]
<1>1. /\ s \in FilmState /\ s.status \in Status \ {"absent"}
      /\ s.status = "pending_watch_review" => s.pending \in WatchRow
  BY NoRowAssumption
     DEF Created, Absent, MarkStatus, Coherent, FilmState, Status
<1>2. p.days \subseteq Date /\ p.first \in Date /\ StagedDays(p) \subseteq Date
  BY DEF Plan, StagedDays
<1>3. CASE s.status = "watched"
  BY <1>1, <1>3 DEF ImportedWatched, Created, FilmState
<1>4. CASE s.status # "watched" /\ p.rated
  <2>1. /\ once.status = "watched" /\ once.diary = s.diary \cup p.days
        /\ once \in FilmState
    BY <1>1, <1>2, <1>4
       DEF ImportedWatched, MarkStatus, DeletePending, DeactivateEntry, FilmState, Status
  <2> HIDE DEF once
  <2>2. Created(once) = once
    BY <2>1 DEF Created
  <2>3. [once EXCEPT !.diary = once.diary \cup p.days] = once
    <3>1. once.diary \cup p.days = once.diary
      BY <2>1
    <3> QED
      BY <2>1, <3>1 DEF FilmState
  <2>4. ImportedWatched(once, p) = once
    BY <2>1, <2>2, <2>3 DEF ImportedWatched
  <2> QED
    BY <2>4 DEF once
<1>5. CASE s.status # "watched" /\ ~p.rated
  <2>1. row \in WatchRow /\ row # NoRow
    BY <1>2, NoRowAssumption DEF WatchRow, Source
  <2>2. /\ once.status = "pending_watch_review" /\ once \in FilmState
        /\ once.pending \in WatchRow
        /\ once.pending.at = p.first /\ once.pending.staged = StagedDays(p)
    <3>1. CASE s.pending = NoRow
      BY <1>1, <1>5, <2>1, <3>1
         DEF ImportedWatched, MarkStatus, UpsertPending, CreatePending,
             DeactivateEntry, FilmState, Status, WatchRow
    <3>2. CASE s.pending \in WatchRow
      BY <1>1, <1>2, <1>5, <3>2, NoRowAssumption
         DEF ImportedWatched, MarkStatus, UpsertPending, DeactivateEntry,
             FilmState, Status, WatchRow
    <3> QED
      BY <1>1, <3>1, <3>2 DEF FilmState
  <2> HIDE DEF once
  <2>3. [once.pending EXCEPT !.at = p.first, !.staged = StagedDays(p)] = once.pending
    BY <2>2 DEF WatchRow
  <2>4. [once EXCEPT !.pending = once.pending] = once
    BY <2>2 DEF FilmState
  <2>5. Created(once) = once
    BY <2>2 DEF Created
  <2>6. MarkStatus(once, "pending_watch_review") = once
    BY <2>2 DEF MarkStatus, FilmState
  <2>7. UpsertPending(once, "letterboxd_import", p.first, StagedDays(p)) = once
    BY <2>2, <2>3, <2>4, NoRowAssumption DEF UpsertPending
  <2>8. ImportedWatched(once, p) = once
    BY <1>5, <2>2, <2>5, <2>6, <2>7 DEF ImportedWatched
  <2> QED
    BY <2>8 DEF once
<1> QED
  BY <1>3, <1>4, <1>5

\* A watched export that is uploaded again changes no film.
THEOREM ReuploadChangesNothing == Spec => []ReuploadIsHarmless
<1>1. IInv => ReuploadIsHarmless
  BY ImportedTwice DEF IInv, ReuploadIsHarmless
<1> QED
  BY InvariantHolds, <1>1, PTL

\* Only a retry or a late address puts a film that is not active on the
\* watchlist.
THEOREM OnlyActiveAreListed == Spec => ListsOnlyActive
<1> DEFINE Step == \A f \in Film :
             /\ film[f].entry # "active"
             /\ film'[f].entry = "active"
             /\ film'[f].status # "active"
             => film[f].enrichment \in {"failed", "uri_review"}
<1>1. ASSUME NEW f \in Film, IInv, EditWatch(f)
      PROVE  Step
  BY <1>1 DEF EditWatch, IInv, Coherent, FilmState
<1>2. IInv /\ [Next]_film => [Step]_film
  BY NextSteps, <1>1 DEF Permitted
<1> QED
  BY InvariantHolds, <1>2, PTL DEF Spec, ListsOnlyActive

\* No step but the edit of a watch takes a day from the diary.
THEOREM DiaryIsKept == Spec => DiaryOnlyGrows
<1> DEFINE Step == \A f \in Film : \/ film[f].diary \subseteq film'[f].diary
                                   \/ EditWatch(f)
<1>1. ASSUME NEW f \in Film, IInv, EditWatch(f)
      PROVE  Step
  BY <1>1 DEF EditWatch, IInv
<1>2. IInv /\ [Next]_film => [Step]_film
  BY NextSteps, <1>1 DEF Permitted
<1> QED
  BY InvariantHolds, <1>2, PTL DEF Spec, DiaryOnlyGrows

\* The life of the films is one that WatchDiary promises.
THEOREM ImplementsWatchDiary == Spec => KeepsPromise
<1> DEFINE stage  == [f \in Film |-> film[f].status]
           diary  == [f \in Film |-> film[f].diary]
<1>1. Init => Promise!Init
  BY DEF Init, Promise!Init, Absent
<1>2. ASSUME IInv, IInv', \A g \in Film : Permitted(film[g], film'[g])
      PROVE  Promise!Move
  <2>1. \A f \in Film : film[f] \in Coherent /\ film'[f] \in Coherent
    BY <1>2 DEF IInv
  <2> QED
    BY <1>2, <2>1
       DEF Promise!Move, Permitted, Coherent, FilmState, Status, Promise!Stage
<1>3. ASSUME IInv, NEW f \in Film, EditWatch(f)
      PROVE  Promise!Correct(f)
  <2>1. PICK old \in film[f].diary, new \in Date :
               /\ new \notin film[f].diary \ {old}
               /\ film' = [film EXCEPT ![f] =
                            [film[f] EXCEPT !.diary = (@ \ {old}) \cup {new}]]
    BY <1>3 DEF EditWatch
  <2>2. stage' = stage
    BY <2>1, <1>3 DEF IInv, Coherent, FilmState
  <2>3. diary' = [diary EXCEPT ![f] = (@ \ {old}) \cup {new}]
    BY <2>1, <1>3 DEF IInv, Coherent, FilmState
  <2> QED
    BY <2>1, <2>2, <2>3 DEF Promise!Correct
<1>4. IInv /\ [Next]_film => [Promise!Next]_<<stage, diary>>
  BY NextSteps, <1>2, <1>3 DEF Promise!Next
<1> QED
  BY InvariantHolds, <1>1, <1>4, PTL DEF Spec, KeepsPromise, Promise!Spec

-----------------------------------------------------------------------------
(* The cap of the watchlist.                                               *)

\* The films the watchlist shows.
Listed == {f \in Film : film[f].entry = "active"}

\* A change that does not put the film on the watchlist.
Unlisted(s, t) == t.entry = "active" => s.entry = "active"

\* The operations that never list a film.
LEMMA UnlistedOperations ==
  ASSUME NEW s \in Coherent
  PROVE  /\ \A today \in Date : Unlisted(s, BegunReview(s, today))
         /\ Unlisted(s, MarkStatus(DeactivateEntry(s), "archived"))
         /\ Unlisted(s, MarkStatus(DeletePending(s), "archived"))
         /\ \A at \in Date : Unlisted(s, Completed(s, at))
         /\ \A at \in Date : Unlisted(s, WatchedByRss(s, at))
         /\ \A p \in Plan : Unlisted(s, ImportedWatched(s, p))
<1>1. s \in FilmState /\ Absent \in FilmState
  BY AbsentOK DEF Coherent
<1>2. ASSUME NEW today \in Date
      PROVE  Unlisted(s, BegunReview(s, today))
  <2> DEFINE t == MarkStatus(DeactivateEntry(s), "pending_watch_review")
  <2>1. t \in FilmState /\ t.entry # "active"
    BY <1>1 DEF MarkStatus, DeactivateEntry, FilmState, Status
  <2>2. BegunReview(s, today) =
          IF t.pending = NoRow THEN CreatePending(t, "manual", today, {}) ELSE t
    BY DEF BegunReview
  <2> HIDE DEF t
  <2> QED
    BY <2>1, <2>2 DEF Unlisted, CreatePending, FilmState
<1>3. ASSUME NEW at \in Date
      PROVE  Unlisted(s, WatchedByRss(s, at))
  <2> DEFINE t == DeactivateEntry(s)
  <2>1. t \in FilmState /\ t.entry # "active"
    BY <1>1 DEF DeactivateEntry, FilmState
  <2>2. WatchedByRss(s, at) =
          IF s.status = "pending_watch_review" /\ s.pending # NoRow
          THEN [t EXCEPT !.pending = [s.pending EXCEPT !.at = at]]
          ELSE CreatePending(MarkStatus(t, "pending_watch_review"), "rss", at, {})
    BY DEF WatchedByRss
  <2> HIDE DEF t
  <2> QED
    BY <2>1, <2>2 DEF Unlisted, CreatePending, MarkStatus, FilmState
<1>4. ASSUME NEW p \in Plan
      PROVE  Unlisted(s, ImportedWatched(s, p))
  <2> DEFINE c == Created(s)
             t == IF c.status = "active" THEN DeactivateEntry(c) ELSE c
             v == MarkStatus(t, "pending_watch_review")
  <2>1. c \in FilmState /\ Unlisted(s, c)
    BY <1>1 DEF Created, MarkStatus, Absent, FilmState, Status, Unlisted
  <2>2. t \in FilmState /\ Unlisted(s, t)
    BY <2>1 DEF DeactivateEntry, FilmState, Unlisted
  <2>3. v \in FilmState /\ v.entry = t.entry
    BY <2>2 DEF MarkStatus, FilmState, Status
  <2>4. ImportedWatched(s, p) =
          IF c.status = "watched" THEN [c EXCEPT !.diary = c.diary \cup p.days]
          ELSE IF ~p.rated
          THEN UpsertPending(v, "letterboxd_import", p.first, StagedDays(p))
          ELSE [MarkStatus(IF c.status = "pending_watch_review"
                           THEN DeletePending(t) ELSE t, "watched") EXCEPT
                  !.diary = c.diary \cup p.days]
    BY DEF ImportedWatched
  <2> HIDE DEF c, t, v
  <2>5. UpsertPending(v, "letterboxd_import", p.first, StagedDays(p)).entry
          = t.entry
    BY <2>3 DEF UpsertPending, CreatePending, FilmState
  <2> QED
    BY <2>1, <2>2, <2>4, <2>5
       DEF Unlisted, MarkStatus, DeletePending, FilmState
<1> QED
  BY <1>1, <1>2, <1>3, <1>4
     DEF Unlisted, MarkStatus, DeactivateEntry, DeletePending, Completed,
         FilmState

\* When every listed film was listed before or is one of some films, the
\* watchlist has grown by at most their number.
LEMMA ListedGrowth ==
  ASSUME NEW S \in SUBSET Film,
         \A f \in Film \ S : Unlisted(film[f], film'[f])
  PROVE  /\ CountActive \in Nat /\ CountActive' \in Nat /\ Cardinality(S) \in Nat
         /\ CountActive' <= CountActive + Cardinality(S)
<1>1. IsFiniteSet(Listed) /\ IsFiniteSet(Listed') /\ IsFiniteSet(S)
  BY FilmAssumption, FS_Subset DEF Listed
<1>2. Listed' \subseteq Listed \cup S
  BY DEF Listed, Unlisted
<1>3. IsFiniteSet(Listed \cup S) /\ IsFiniteSet(Listed \cap S)
  BY <1>1, FS_Union, FS_Subset
<1>4. /\ Cardinality(Listed) \in Nat /\ Cardinality(Listed') \in Nat
      /\ Cardinality(S) \in Nat /\ Cardinality(Listed \cup S) \in Nat
      /\ Cardinality(Listed \cap S) \in Nat
  BY <1>1, <1>3, FS_CardinalityType
<1>5. Cardinality(Listed') <= Cardinality(Listed \cup S)
  BY <1>2, <1>3, FS_Subset
<1>6. Cardinality(Listed \cup S) =
        Cardinality(Listed) + Cardinality(S) - Cardinality(Listed \cap S)
  BY <1>1, FS_Union
<1> QED
  BY <1>4, <1>5, <1>6 DEF CountActive, Listed

\* The same for steps that list no film, and for steps that list one.
LEMMA ListedNone ==
  ASSUME \A f \in Film : Unlisted(film[f], film'[f])
  PROVE  CountActive' <= CountActive /\ CountActive \in Nat /\ CountActive' \in Nat
<1>1. Cardinality({}) = 0
  BY FS_EmptySet
<1> QED
  BY <1>1, ListedGrowth

LEMMA ListedOne ==
  ASSUME NEW f \in Film, \A g \in Film \ {f} : film'[g] = film[g]
  PROVE  /\ CountActive' <= CountActive + 1
         /\ CountActive \in Nat /\ CountActive' \in Nat
<1>1. Cardinality({f}) = 1
  BY FS_Singleton
<1> QED
  BY <1>1, ListedGrowth DEF Unlisted

\* No restore, no cancelled review and no CSV sync adds films to a watchlist
\* beyond the cap, and nothing does but a watchlist import, a manual add and
\* the resolution of a manual add.
THEOREM CapIsKept == Spec => CapHolds
<1> DEFINE Passes == CountActive' > Cap /\ CountActive' > CountActive
           Exempt == /\ ~SyncCsv
                     /\ \A f \in Film : ~Restore(f) /\ ~CancelReview(f)
                     /\ \/ \E f \in Film : AddFilm(f) \/ ResolveUri(f)
                        \/ ImportCsv
<1>1. ASSUME IInv, NEW f \in Film,
             \/ StartReview(f) \/ Archive(f) \/ CompleteReview(f)
             \/ EditWatch(f) \/ AddUnresolved(f)
             \/ EnrichmentFails(f) \/ Rematch(f)
      PROVE  ~Passes
  <2>1. film[f] \in Coherent /\ film[f] \in FilmState
    BY <1>1 DEF IInv, Coherent
  <2>2. \A g \in Film \ {f} : film'[g] = film[g]
    BY <1>1 DEF IInv, StartReview, Archive, CompleteReview, EditWatch,
                AddUnresolved, EnrichmentFails, Rematch
  <2>3. Unlisted(film[f], film'[f])
    <3>1. CASE StartReview(f)
      BY <1>1, <2>1, <3>1, UnlistedOperations DEF StartReview, IInv
    <3>2. CASE Archive(f)
      BY <1>1, <2>1, <3>2, UnlistedOperations DEF Archive, IInv
    <3>3. CASE CompleteReview(f)
      BY <1>1, <2>1, <3>3, UnlistedOperations DEF CompleteReview, IInv
    <3>4. CASE EditWatch(f)
      BY <1>1, <2>1, <3>4 DEF EditWatch, IInv, Unlisted, FilmState
    <3>5. CASE AddUnresolved(f)
      BY <1>1, <2>1, <3>5 DEF AddUnresolved, Absent, IInv, Unlisted
    <3>6. CASE EnrichmentFails(f) \/ Rematch(f)
      BY <1>1, <2>1, <3>6
         DEF EnrichmentFails, Rematch, IInv, Unlisted, FilmState
    <3> QED
      BY <1>1, <3>1, <3>2, <3>3, <3>4, <3>5, <3>6
  <2>4. \A g \in Film : Unlisted(film[g], film'[g])
    BY <2>2, <2>3 DEF Unlisted
  <2> QED
    BY <2>4, ListedNone
<1>2. ASSUME IInv, NEW f \in Film, Restore(f) \/ CancelReview(f)
      PROVE  ~Passes
  <2>1. film[f] \in Coherent
    BY <1>2 DEF IInv
  <2>2. \A g \in Film \ {f} : film'[g] = film[g]
    BY <1>2 DEF IInv, Restore, CancelReview
  <2>3. CASE CountActive < Cap
    BY <2>2, <2>3, ListedOne, CapAssumption
  <2>4. CASE ~(CountActive < Cap)
    <3>1. film' = [film EXCEPT ![f] =
                     MarkStatus(DeletePending(film[f]), "archived")]
      BY <1>2, <2>4 DEF Restore, CancelReview
    <3>2. \A g \in Film : Unlisted(film[g], film'[g])
      BY <1>2, <2>1, <2>2, <3>1, UnlistedOperations DEF IInv, Unlisted
    <3> QED
      BY <3>2, ListedNone
  <2> QED
    BY <2>3, <2>4
<1>3. ASSUME IInv, RssPoll \/ ImportWatched
      PROVE  ~Passes
  <2>1. \A g \in Film : Unlisted(film[g], film'[g])
    BY <1>3, UnlistedOperations DEF RssPoll, ImportWatched, IInv, Unlisted
  <2> QED
    BY <2>1, ListedNone
<1>4. ASSUME IInv, SyncCsv
      PROVE  ~Passes
  <2>1. PICK rows \in SUBSET Film :
          /\ CountActive + Cardinality(rows) <= Cap
          /\ film' = [f \in Film |-> IF f \in rows THEN ImportedRow(film[f])
                                     ELSE film[f]]
    BY <1>4 DEF SyncCsv
  <2>2. \A g \in Film \ rows : Unlisted(film[g], film'[g])
    BY <2>1 DEF Unlisted
  <2>3. /\ CountActive \in Nat /\ CountActive' \in Nat
        /\ Cardinality(rows) \in Nat
        /\ CountActive' <= CountActive + Cardinality(rows)
    BY <2>2, ListedGrowth
  <2> QED
    BY <2>1, <2>3, CapAssumption
<1>5. IInv /\ [Next]_film => [Passes => Exempt]_film
  BY <1>1, <1>2, <1>3, <1>4, Zenon DEF Next
<1> QED
  BY InvariantHolds, <1>5, PTL DEF Spec, CapHolds
=============================================================================
