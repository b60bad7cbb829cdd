-------------------------- MODULE WatchRacesProofs --------------------------
(***************************************************************************)
(* What concurrent requests cannot break, for any films, requests and cap. *)
(* The bound on the overshoot rests on a count of promises: a request that *)
(* has counted the watchlist and will list a film holds one, and the films *)
(* listed and the promises together never exceed Cap + |Request| - 1.      *)
(***************************************************************************)
EXTENDS WatchRaces, FiniteSetTheorems, TLAPS

Listed   == {f \in Film : film[f].entry # None}
Promised == {r \in Request : req[r].at = "counted" /\ req[r].to = "active"}

RoomInv ==
  Cardinality(Listed) + Cardinality(Promised) <= Cap + Cardinality(Request) - 1

\* A request that is not idle works on a film, and one that completes a
\* review has found the draft.
Remembers ==
  \A r \in Request :
    /\ req[r].at # "idle" => req[r].film \in Film
    /\ req[r].op = "complete" /\ req[r].at = "read" => req[r].row \in Row

IInv == TypeOK /\ Remembers /\ ReviewHasDraft /\ WatchedHasDiary /\ RoomInv

-----------------------------------------------------------------------------
(* Row operations.                                                         *)

\* The row operations stay inside FilmRows, and each touches what it says.
LEMMA RowOperations ==
  ASSUME NEW s \in FilmRows, NEW w \in Row, NEW e \in Entry,
         NEW v \in Row \cup {None}, NEW x \in Entry \cup {None}
  PROVE  /\ NoDraft(s) \in FilmRows
         /\ WithoutRow(s, v) \in FilmRows
         /\ WithDone(s, w) \in FilmRows
         /\ WithDraft(s, w) \in FilmRows
         /\ WithoutEntry(s, x) \in FilmRows
         /\ WithEntry(s, e) \in FilmRows
  BY DEF FilmRows, NoDraft, WithoutRow, WithDone, WithDraft, WithoutEntry,
         WithEntry, Status

\* What a request may make of the film it works on.
CommitOf(s, t) ==
  /\ t \in FilmRows
  /\ t.status = "pending_watch_review" =>
       \/ t.draft # None
       \/ s.status = "pending_watch_review" /\ t.draft = s.draft
  /\ t.status = "watched" =>
       t.done # {} \/ (s.status = "watched" /\ t.done = s.done)

\* Every committed write is of that kind, and only CommitLeave lists a film.
LEMMA Commits ==
  ASSUME TypeOK, Remembers, NEW r \in Request, NEW g \in Film,
         \/ CommitReview(r) \/ CommitArchive(r) \/ CommitComplete(r)
         \/ CommitLeave(r) \/ CommitFeed(r)
  PROVE  /\ film' = [film EXCEPT ![req[r].film] = film'[req[r].film]]
         /\ film'[g] = film[g] \/ CommitOf(film[g], film'[g])
         /\ film'[g].entry # None =>
              \/ film[g].entry # None
              \/ CommitLeave(r) /\ g = req[r].film /\ r \in Promised
  <1> DEFINE f == req[r].film
             s == WithoutEntry(film[g], req[r].entry)
  <1>t. /\ film \in [Film -> FilmRows]
        /\ req[r] \in Call
        /\ film[g] \in FilmRows
    BY DEF TypeOK
  <1>n. None \notin Row /\ None \notin Entry
    BY NoneAssumption
  <1>e. /\ req[r].entry \in Entry \cup {None}
        /\ req[r].row \in Row \cup {None}
        /\ s \in FilmRows
        /\ s.draft = film[g].draft
        /\ s.done = film[g].done
        /\ s.status = film[g].status
        /\ s.entry # None => film[g].entry # None
    <2>1. req[r].entry \in Entry \cup {None} /\ req[r].row \in Row \cup {None}
      BY <1>t DEF Call
    <2>2. QED
      BY <2>1, <1>t DEF WithoutEntry, FilmRows
  <1>0. film' = [film EXCEPT ![f] = film'[f]]
    BY <1>t DEF CommitReview, CommitArchive, CommitComplete, CommitLeave,
                CommitFeed
  <1>1. CASE g # f
    <2>1. film'[g] = film[g]
      BY <1>1, <1>0, <1>t
    <2>2. QED
      BY <2>1, <1>0
  <1>2. CASE g = f /\ CommitReview(r)
    <2> DEFINE t == [s EXCEPT !.status = "pending_watch_review"]
    <2>1. \/ s.draft # None /\ film'[g] = t
          \/ \E w \in Row : film'[g] = WithDraft(t, w)
      BY <1>2, <1>t, <1>e DEF CommitReview, NewRow, FilmRows
    <2>2. /\ t \in FilmRows
          /\ t.status = "pending_watch_review"
          /\ t.draft = s.draft
          /\ t.entry = s.entry
      BY <1>e DEF FilmRows, Status
    <2> HIDE DEF s, t
    <2>3. CASE s.draft # None /\ film'[g] = t
      BY <2>2, <2>3, <1>0, <1>e DEF CommitOf
    <2>4. CASE \E w \in Row : film'[g] = WithDraft(t, w)
      <3>1. PICK w \in Row : film'[g] = WithDraft(t, w)
        BY <2>4
      <3>2. /\ film'[g] \in FilmRows
            /\ film'[g].status = "pending_watch_review"
            /\ film'[g].draft = w
            /\ film'[g].entry = t.entry
        BY <2>2, <3>1 DEF WithDraft, FilmRows
      <3>3. QED
        BY <2>2, <3>2, <1>0, <1>n, <1>e DEF CommitOf
    <2>5. QED
      BY <2>1, <2>3, <2>4
  <1>3. CASE g = f /\ CommitArchive(r)
    <2>1. film'[g] = [s EXCEPT !.status = "archived"]
      BY <1>3, <1>t DEF CommitArchive
    <2>2. QED
      BY <2>1, <1>0, <1>e DEF CommitOf, FilmRows, Status
  <1>4. CASE g = f /\ CommitComplete(r)
    <2>1. film'[g] = [WithDone(film[g], req[r].row) EXCEPT !.status = "watched"]
      BY <1>4, <1>t DEF CommitComplete
    <2>2. req[r].row \in Row
      BY <1>4 DEF CommitComplete, Ready, Remembers
    <2> DEFINE u == IF film[g].draft = req[r].row THEN NoDraft(film[g]) ELSE film[g]
    <2>3. u \in FilmRows /\ u.entry = film[g].entry
      BY <1>t DEF NoDraft, FilmRows
    <2>4. film'[g] = [[u EXCEPT !.done = @ \cup {req[r].row}] EXCEPT
                        !.status = "watched"]
      BY <2>1 DEF WithDone
    <2> HIDE DEF u
    <2>5. /\ film'[g].status = "watched"
          /\ film'[g].entry = film[g].entry
          /\ film'[g].done = u.done \cup {req[r].row}
          /\ film'[g] \in FilmRows
      <3> DEFINE done == u.done \cup {req[r].row}
      <3>1. done \in SUBSET Row
        BY <2>2, <2>3 DEF FilmRows
      <3>2. film'[g] = [[u EXCEPT !.done = done] EXCEPT !.status = "watched"]
        BY <2>4
      <3> HIDE DEF done
      <3>3. /\ film'[g].status = "watched"
            /\ film'[g].entry = film[g].entry
            /\ film'[g].done = done
            /\ film'[g] \in FilmRows
        BY <3>1, <3>2, <2>3 DEF FilmRows, Status
      <3>4. QED
        BY <3>3 DEF done
    <2>6. QED
      BY <2>5, <1>0 DEF CommitOf
  <1>5. CASE g = f /\ CommitLeave(r)
    <2> DEFINE t == [WithoutRow(film[g], req[r].row) EXCEPT !.status = req[r].to]
    <2>1. t \in FilmRows /\ t.entry = film[g].entry /\ t.status = req[r].to
      BY <1>t, <1>e DEF WithoutRow, NoDraft, FilmRows, Call
    <2>2. \/ req[r].to = "archived" /\ film'[g] = t
          \/ req[r].to = "active" /\ \E e \in Entry : film'[g] = WithEntry(t, e)
      BY <1>5, <1>t DEF CommitLeave, NewEntry
    <2>3. CommitOf(film[g], film'[g])
      BY <2>1, <2>2 DEF WithEntry, CommitOf, FilmRows
    <2>4. film'[g].entry # None => film[g].entry # None \/ r \in Promised
      BY <2>1, <2>2, <1>5 DEF CommitLeave, Ready, Promised
    <2>5. QED
      BY <2>3, <2>4, <1>5, <1>0
  <1>6. CASE g = f /\ CommitFeed(r)
    <2> DEFINE to == IF req[r].status = "pending_watch_review"
                     THEN s.status ELSE "pending_watch_review"
    <2>1. CASE film'[g] = s
      BY <2>1, <1>0, <1>e DEF CommitOf
    <2>2. CASE \E w \in Row : film'[g] = [WithDraft(s, w) EXCEPT !.status = to]
      <3>1. PICK w \in Row : film'[g] = [WithDraft(s, w) EXCEPT !.status = to]
        BY <2>2
      <3>2. to \in Status
        BY <1>e DEF FilmRows, Status
      <3> HIDE DEF s, to
      <3>3. /\ film'[g] \in FilmRows
            /\ film'[g].status = to
            /\ film'[g].draft = w
            /\ film'[g].done = s.done
            /\ film'[g].entry = s.entry
        BY <3>1, <3>2, <1>e DEF WithDraft, FilmRows
      <3>4. to = "watched" => film[g].status = "watched"
        BY <1>e DEF to
      <3>5. QED
        BY <3>3, <3>4, <1>0, <1>n, <1>e DEF CommitOf
    <2>3. film'[g] = s \/ \E w \in Row : film'[g] = [WithDraft(s, w) EXCEPT !.status = to]
      <3>1. \/ film'[g] = s
            \/ \E w \in Row :
                 film'[g] = [WithDraft(s, w) EXCEPT
                               !.status = IF req[r].status = "pending_watch_review"
                                          THEN @ ELSE "pending_watch_review"]
        BY <1>6, <1>t DEF CommitFeed, NewRow
      <3>2. \A w \in Row : WithDraft(s, w).status = s.status
        BY <1>e DEF WithDraft, FilmRows
      <3>3. QED
        BY <3>1, <3>2
    <2>4. QED
      BY <2>1, <2>2, <2>3
  <1>7. QED
    BY <1>1, <1>2, <1>3, <1>4, <1>5, <1>6
-----------------------------------------------------------------------------
(* Steps.                                                                  *)

Reads(r)   == Look(r) \/ ReadEntry(r) \/ ReadDraft(r) \/ Count(r) \/ Fail(r)
Commit(r)  == \/ CommitReview(r) \/ CommitArchive(r) \/ CommitComplete(r)
              \/ CommitLeave(r) \/ CommitFeed(r)

LEMMA NextSplits == Next <=> \E r \in Request : Reads(r) \/ Commit(r)
  BY DEF Next, Reads, Commit

LEMMA CommitEnds ==
  ASSUME NEW r \in Request, Commit(r)
  PROVE  Done(r)
  BY DEF Commit, CommitReview, CommitArchive, CommitComplete, CommitLeave,
         CommitFeed, Ready

LEMMA ReadsKeepFilms ==
  ASSUME NEW r \in Request, Reads(r)
  PROVE  film' = film
  BY DEF Reads, Look, ReadEntry, ReadDraft, Count, Fail

\* What the second read and the count may set.
LEMMA CallUpdates ==
  ASSUME NEW c \in Call, NEW at \in {"read", "counted"},
         NEW e \in Entry \cup {None}, NEW w \in Row \cup {None},
         NEW i \in BOOLEAN, NEW to \in Status
  PROVE  /\ [c EXCEPT !.at = at, !.entry = e, !.row = w] \in Call
         /\ [c EXCEPT !.at = at, !.row = w, !.imported = i] \in Call
         /\ [c EXCEPT !.at = at, !.to = to] \in Call
  BY DEF Call

\* One request moves at a time, and what it remembers is what it may remember.
LEMMA CallsTyped ==
  ASSUME TypeOK, Remembers, NEW r \in Request, Reads(r) \/ Commit(r)
  PROVE  /\ req' = [req EXCEPT ![r] = req'[r]]
         /\ req'[r] \in Call
  <1>t. /\ req \in [Request -> Call]
        /\ film \in [Film -> FilmRows]
        /\ req[r] \in Call
    BY DEF TypeOK
  <1>0. Idle \in Call
    BY DEF Idle, Call, Status
  <1>1. CASE Done(r)
    BY <1>1, <1>0, <1>t DEF Done
  <1>2. CASE Look(r)
    <2>1. PICK op \in Op, f \in Film :
            req' = [req EXCEPT ![r] = [Idle EXCEPT !.op = op, !.at = "looked",
                                         !.film = f, !.status = film[f].status]]
      BY <1>2 DEF Look
    <2>2. film[f].status \in Status
      BY <1>t DEF FilmRows
    <2> DEFINE st == film[f].status
    <2> HIDE DEF st
    <2>3. req'[r] = [Idle EXCEPT !.op = op, !.at = "looked",
                                 !.film = f, !.status = st]
      BY <2>1, <1>t DEF st
    <2>4. st \in Status
      BY <2>2 DEF st
    <2>5. req'[r] \in Call
      BY <2>3, <2>4, <1>0 DEF Call
    <2>6. QED
      BY <2>1, <2>5, <1>t
  <1>3. CASE ReadEntry(r)
    <2> DEFINE f == req[r].film
               e == film[f].entry
               w == IF req[r].op = "feed" /\ req[r].status = "pending_watch_review"
                    THEN film[f].draft ELSE None
    <2>1. f \in Film
      BY <1>3 DEF ReadEntry, Remembers
    <2>2. e \in Entry \cup {None} /\ w \in Row \cup {None}
      BY <2>1, <1>t DEF FilmRows
    <2>3. req' = [req EXCEPT ![r] = [req[r] EXCEPT !.at = "read", !.entry = e,
                                                   !.row = w]]
      BY <1>3, <1>t DEF ReadEntry
    <2> HIDE DEF e, w
    <2>4. [req[r] EXCEPT !.at = "read", !.entry = e, !.row = w] \in Call
      BY <2>2, <1>t, CallUpdates DEF Status
    <2>5. QED
      BY <2>3, <2>4, <1>t
  <1>4. CASE ReadDraft(r)
    <2> DEFINE f == req[r].film
               w == IF req[r].status = "pending_watch_review"
                    THEN film[f].draft ELSE None
    <2>1. f \in Film
      BY <1>4 DEF ReadDraft, Remembers
    <2>2. w \in Row \cup {None} /\ film[f].imported \in BOOLEAN
      BY <2>1, <1>t DEF FilmRows
    <2>3. \E i \in BOOLEAN :
            req' = [req EXCEPT ![r] = [req[r] EXCEPT !.at = "read", !.row = w,
                                                     !.imported = i]]
      <3>1. CASE w # None /\ film[f].imported = TRUE
        BY <3>1, <1>4, <1>t DEF ReadDraft
      <3>2. CASE ~(w # None /\ film[f].imported = TRUE)
        BY <3>2, <2>2, <1>4, <1>t DEF ReadDraft
      <3>3. QED
        BY <3>1, <3>2
    <2> HIDE DEF w
    <2>4. \A i \in BOOLEAN :
            [req[r] EXCEPT !.at = "read", !.row = w, !.imported = i] \in Call
      BY <2>2, <1>t, CallUpdates DEF Status
    <2>5. QED
      BY <2>3, <2>4, <1>t
  <1>5. CASE Count(r)
    <2>1. \E to \in {"archived", "active"} :
            req' = [req EXCEPT ![r] = [req[r] EXCEPT !.at = "counted", !.to = to]]
      BY <1>5, <1>t DEF Count
    <2>2. \A to \in {"archived", "active"} :
            [req[r] EXCEPT !.at = "counted", !.to = to] \in Call
      BY <1>t, CallUpdates DEF Status
    <2>3. QED
      BY <2>1, <2>2, <1>t
  <1>6. QED
    BY <1>1, <1>2, <1>3, <1>4, <1>5, CommitEnds DEF Reads, Fail

LEMMA TypeStep == TypeOK /\ Remembers /\ [Next]_vars => TypeOK'
  <1> SUFFICES ASSUME TypeOK, Remembers, [Next]_vars PROVE TypeOK'
    OBVIOUS
  <1>1. CASE UNCHANGED vars
    BY <1>1 DEF vars, TypeOK
  <1>2. CASE Next
    <2>1. PICK r \in Request : Reads(r) \/ Commit(r)
      BY <1>2, NextSplits
    <2>2. req' \in [Request -> Call]
      BY <2>1, CallsTyped DEF TypeOK
    <2>3. CASE Reads(r)
      BY <2>2, <2>3, ReadsKeepFilms DEF TypeOK
    <2>4. CASE Commit(r)
      <3>1. \A g \in Film : film'[g] \in FilmRows
        BY <2>4, Commits DEF Commit, TypeOK, CommitOf
      <3>2. PICK f : film' = [film EXCEPT ![f] = film'[f]]
        <4>1. CASE Film = {}
          BY <4>1, <2>4 DEF Commit, TypeOK, CommitReview, CommitArchive,
             CommitComplete, CommitLeave, CommitFeed
        <4>2. CASE Film # {}
          BY <4>2, <2>4, Commits DEF Commit
        <4>3. QED
          BY <4>1, <4>2
      <3>3. film' \in [Film -> FilmRows]
        BY <3>1, <3>2 DEF TypeOK
      <3>4. QED
        BY <3>3, <2>2 DEF TypeOK
    <2>5. QED
      BY <2>1, <2>3, <2>4
  <1>3. QED
    BY <1>1, <1>2

LEMMA RemembersStep == TypeOK /\ Remembers /\ [Next]_vars => Remembers'
  <1> SUFFICES ASSUME TypeOK, Remembers, [Next]_vars PROVE Remembers'
    OBVIOUS
  <1>1. CASE UNCHANGED vars
    BY <1>1 DEF vars, Remembers
  <1>2. CASE Next
    <2>1. PICK r \in Request : Reads(r) \/ Commit(r)
      BY <1>2, NextSplits
    <2>2. req' = [req EXCEPT ![r] = req'[r]] /\ req \in [Request -> Call]
      BY <2>1, CallsTyped DEF TypeOK
    <2>3. /\ req'[r].at # "idle" => req'[r].film \in Film
          /\ req'[r].op = "complete" /\ req'[r].at = "read" =>
               req'[r].row \in Row
      <3>t. film \in [Film -> FilmRows] /\ req[r] \in Call
        BY DEF TypeOK
      <3>1. CASE Done(r)
        BY <3>1, <2>2 DEF Done, Idle
      <3>2. CASE Look(r)
        BY <3>2, <2>2 DEF Look, Idle
      <3>3. CASE ReadEntry(r)
        BY <3>3, <2>2, <3>t DEF ReadEntry, Remembers, Call
      <3>4. CASE ReadDraft(r)
        BY <3>4, <2>2, <3>t DEF ReadDraft, Remembers, Call, FilmRows
      <3>5. CASE Count(r)
        BY <3>5, <2>2, <3>t DEF Count, Remembers, Call
      <3>6. QED
        BY <2>1, <3>1, <3>2, <3>3, <3>4, <3>5, CommitEnds DEF Reads, Fail
    <2>4. QED
      BY <2>2, <2>3 DEF Remembers
  <1>3. QED
    BY <1>1, <1>2

LEMMA ReviewStep ==
  TypeOK /\ Remembers /\ ReviewHasDraft /\ [Next]_vars => ReviewHasDraft'
  <1> SUFFICES ASSUME TypeOK, Remembers, ReviewHasDraft, [Next]_vars,
                      NEW g \in Film,
                      film'[g].status = "pending_watch_review"
               PROVE  film'[g].draft # None
    BY DEF ReviewHasDraft
  <1>1. CASE film' = film
    BY <1>1 DEF ReviewHasDraft
  <1>2. ASSUME NEW r \in Request, Commit(r)
        PROVE  film'[g].draft # None
    <2>1. film'[g] = film[g] \/ CommitOf(film[g], film'[g])
      BY <1>2, Commits DEF Commit
    <2>2. QED
      BY <2>1 DEF CommitOf, ReviewHasDraft
  <1>3. QED
    BY <1>1, <1>2, NextSplits, ReadsKeepFilms DEF vars

LEMMA DiaryStep ==
  TypeOK /\ Remembers /\ WatchedHasDiary /\ [Next]_vars => WatchedHasDiary'
  <1> SUFFICES ASSUME TypeOK, Remembers, WatchedHasDiary, [Next]_vars,
                      NEW g \in Film, film'[g].status = "watched"
               PROVE  film'[g].done # {}
    BY DEF WatchedHasDiary
  <1>1. CASE film' = film
    BY <1>1 DEF WatchedHasDiary
  <1>2. ASSUME NEW r \in Request, Commit(r)
        PROVE  film'[g].done # {}
    <2>1. film'[g] = film[g] \/ CommitOf(film[g], film'[g])
      BY <1>2, Commits DEF Commit
    <2>2. QED
      BY <2>1 DEF CommitOf, WatchedHasDiary
  <1>3. QED
    BY <1>1, <1>2, NextSplits, ReadsKeepFilms DEF vars

-----------------------------------------------------------------------------
(* The room on the watchlist.                                              *)

LEMMA FiniteParts ==
  /\ IsFiniteSet(Listed) /\ Cardinality(Listed) \in Nat
  /\ IsFiniteSet(Listed') /\ Cardinality(Listed') \in Nat
  /\ IsFiniteSet(Promised) /\ Cardinality(Promised) \in Nat
  /\ IsFiniteSet(Promised') /\ Cardinality(Promised') \in Nat
  /\ Cardinality(Request) \in Nat
  <1>1. /\ Listed \subseteq Film /\ Listed' \subseteq Film
        /\ Promised \subseteq Request /\ Promised' \subseteq Request
    BY DEF Listed, Promised
  <1>2. QED
    BY <1>1, FilmAssumption, RequestAssumption, FS_Subset, FS_CardinalityType

\* A step that lists no film and makes no promise.
LEMMA RoomKept ==
  ASSUME RoomInv, Listed' \subseteq Listed, Promised' \subseteq Promised
  PROVE  RoomInv'
  <1>1. /\ Cardinality(Listed') <= Cardinality(Listed)
        /\ Cardinality(Promised') <= Cardinality(Promised)
    BY FiniteParts, FS_Subset
  <1>2. QED
    BY <1>1, FiniteParts, CapAssumption DEF RoomInv

\* A step that keeps a promise: one film more, one promise less.
LEMMA PromiseKept ==
  ASSUME RoomInv, NEW f, NEW r \in Promised,
         Listed' \subseteq Listed \cup {f}, Promised' \subseteq Promised \ {r}
  PROVE  RoomInv'
  <1>1. /\ IsFiniteSet(Listed \cup {f})
        /\ Cardinality(Listed \cup {f}) <= Cardinality(Listed) + 1
    <2>1. /\ IsFiniteSet(Listed)
          /\ Cardinality(Listed) \in Nat
      BY FiniteParts
    <2>2. Cardinality(Listed \cup {f}) = Cardinality(Listed) + 1
            \/ Cardinality(Listed \cup {f}) = Cardinality(Listed)
      BY <2>1, FS_AddElement, Zenon
    <2>3. IsFiniteSet(Listed \cup {f})
      BY <2>1, FS_AddElement
    <2>4. QED
      BY <2>1, <2>2, <2>3
  <1>2. Cardinality(Listed') <= Cardinality(Listed) + 1
    BY <1>1, FiniteParts, FS_Subset, FS_CardinalityType
  <1>3. /\ IsFiniteSet(Promised \ {r})
        /\ Cardinality(Promised \ {r}) = Cardinality(Promised) - 1
    BY FiniteParts, FS_RemoveElement
  <1>4. Cardinality(Promised') <= Cardinality(Promised) - 1
    BY <1>3, FiniteParts, FS_Subset
  <1>5. QED
    BY <1>2, <1>4, FiniteParts, CapAssumption DEF RoomInv

\* A step that makes a promise has counted fewer films than the cap, and at
\* most the other requests hold promises.
LEMMA PromiseMade ==
  ASSUME CountActive < Cap, NEW r \in Request,
         Listed' = Listed
  PROVE  RoomInv'
  <1>1. Cardinality(Listed') < Cap
    BY DEF CountActive, Listed
  <1>2. Cardinality(Promised') <= Cardinality(Request)
    <2>1. Promised' \subseteq Request
      BY DEF Promised
    <2>2. QED
      BY <2>1, RequestAssumption, FS_Subset
  <1>3. QED
    BY <1>1, <1>2, FiniteParts, CapAssumption DEF RoomInv

LEMMA RoomStep == TypeOK /\ Remembers /\ RoomInv /\ [Next]_vars => RoomInv'
  <1> SUFFICES ASSUME TypeOK, Remembers, RoomInv, [Next]_vars PROVE RoomInv'
    OBVIOUS
  <1>1. CASE UNCHANGED vars
    <2>1. Listed' = Listed /\ Promised' = Promised
      BY <1>1 DEF vars, Listed, Promised
    <2>2. QED
      BY <2>1, RoomKept
  <1>2. CASE Next
    <2>1. PICK r \in Request : Reads(r) \/ Commit(r)
      BY <1>2, NextSplits
    <2>2. req' = [req EXCEPT ![r] = req'[r]] /\ req \in [Request -> Call]
      BY <2>1, CallsTyped DEF TypeOK
    <2>3. req'[r].at # "counted" => Promised' \subseteq Promised \ {r}
      BY <2>2 DEF Promised
    <2>4. CASE Reads(r)
      <3>1. Listed' = Listed
        BY <2>4, ReadsKeepFilms DEF Listed
      <3>2. CASE req'[r].at # "counted"
        BY <3>1, <3>2, <2>3, RoomKept
      <3>3. CASE req'[r].at = "counted" /\ req'[r].to # "active"
        <4>1. Promised' \subseteq Promised
          BY <3>3, <2>2 DEF Promised
        <4>2. QED
          BY <4>1, <3>1, RoomKept
      <3>4. CASE req'[r].at = "counted" /\ req'[r].to = "active"
        <4>1. ~Look(r)
          BY <3>4, <2>2 DEF Look, Idle
        <4>2. ~ReadEntry(r) /\ ~ReadDraft(r)
          BY <3>4, <2>2 DEF ReadEntry, ReadDraft, Call
        <4>3. ~Fail(r)
          BY <3>4, <2>2 DEF Fail, Done, Idle
        <4>4. Count(r)
          BY <4>1, <4>2, <4>3, <2>4 DEF Reads
        <4>5. CountActive < Cap
          BY <4>4, <3>4, <2>2 DEF Count, Call
        <4>6. QED
          BY <4>5, <3>1, PromiseMade
      <3>5. QED
        BY <3>2, <3>3, <3>4
    <2>5. CASE Commit(r)
      <3>1. Promised' \subseteq Promised \ {r}
        BY <2>5, <2>2, <2>3, CommitEnds DEF Done, Idle
      <3>2. \A g \in Film :
              film'[g].entry # None =>
                \/ film[g].entry # None
                \/ g = req[r].film /\ r \in Promised
        BY <2>5, Commits DEF Commit
      <3>3. CASE r \in Promised
        <4>1. Listed' \subseteq Listed \cup {req[r].film}
          BY <3>2 DEF Listed
        <4>2. QED
          BY <4>1, <3>1, <3>3, PromiseKept
      <3>4. CASE r \notin Promised
        <4>1. Listed' \subseteq Listed
          BY <3>2, <3>4 DEF Listed
        <4>2. QED
          BY <4>1, <3>1, RoomKept
      <3>5. QED
        BY <3>3, <3>4
    <2>6. QED
      BY <2>1, <2>4, <2>5
  <1>3. QED
    BY <1>1, <1>2

-----------------------------------------------------------------------------
(* The theorems.                                                           *)

LEMMA InitHolds == Init => IInv
  <1> SUFFICES ASSUME Init PROVE IInv
    OBVIOUS
  <1>1. \A s \in Start :
          /\ s \in FilmRows
          /\ s.status = "pending_watch_review" => s.draft # None
          /\ s.status # "watched"
    <2>1. Unlisted \in FilmRows
      BY DEF Unlisted, FilmRows, Status
    <2>2. \A e \in Entry :
            [Unlisted EXCEPT !.status = "active", !.entry = e] \in FilmRows
      BY DEF Unlisted, FilmRows, Status
    <2>3. \A w \in Row :
            [Unlisted EXCEPT !.status = "pending_watch_review", !.ever = FALSE,
                             !.draft = w, !.imported = TRUE] \in FilmRows
      BY DEF Unlisted, FilmRows, Status
    <2>4. SUFFICES ASSUME NEW s \in Start
                   PROVE  /\ s \in FilmRows
                          /\ s.status = "pending_watch_review" => s.draft # None
                          /\ s.status # "watched"
      OBVIOUS
    <2>5. CASE s = Unlisted
      BY <2>1, <2>5 DEF Unlisted
    <2>6. ASSUME NEW e \in Entry,
                 s = [Unlisted EXCEPT !.status = "active", !.entry = e]
          PROVE  s \in FilmRows /\ s.status = "active"
      <3>1. s \in FilmRows
        BY <2>2, <2>6
      <3>2. s.status = "active"
        BY <2>6 DEF Unlisted
      <3>3. QED
        BY <3>1, <3>2
    <2>7. ASSUME NEW w \in Row,
                 s = [Unlisted EXCEPT !.status = "pending_watch_review",
                        !.ever = FALSE, !.draft = w, !.imported = TRUE]
          PROVE  s \in FilmRows /\ s.status = "pending_watch_review" /\ s.draft = w
      <3>1. s \in FilmRows
        BY <2>3, <2>7
      <3>2. s.status = "pending_watch_review" /\ s.draft = w
        BY <2>7 DEF Unlisted
      <3>3. QED
        BY <3>1, <3>2
    <2>8. QED
      BY <2>5, <2>6, <2>7, NoneAssumption DEF Start
  <1>2. Idle \in Call
    BY DEF Idle, Call, Status
  <1>3. TypeOK
    BY <1>1, <1>2 DEF Init, TypeOK
  <1>4. Remembers
    BY DEF Init, Remembers, Idle
  <1>5. ReviewHasDraft /\ WatchedHasDiary
    BY <1>1 DEF Init, ReviewHasDraft, WatchedHasDiary
  <1>6. RoomInv
    <2>1. Promised = {}
      BY DEF Init, Promised, Idle
    <2>2. Cardinality(Promised) = 0
      BY <2>1, FS_EmptySet
    <2>3. Cardinality(Request) >= 1
      <3>1. Cardinality(Request) # 0
        BY RequestAssumption, FS_EmptySet
      <3>2. QED
        BY <3>1, FiniteParts
    <2>4. Cardinality(Listed) <= Cap
      BY DEF Init, CountActive, Listed
    <2>5. QED
      BY <2>2, <2>3, <2>4, FiniteParts, CapAssumption DEF RoomInv
  <1>7. QED
    BY <1>3, <1>4, <1>5, <1>6 DEF IInv

\* The inductive invariant: types, what requests remember, drafts, diaries and
\* the room on the watchlist.
THEOREM InvariantHolds == Spec => []IInv
  <1>1. IInv /\ [Next]_vars => IInv'
    BY TypeStep, RemembersStep, ReviewStep, DiaryStep, RoomStep DEF IInv
  <1>2. QED
    BY InitHolds, <1>1, PTL DEF Spec

\* The rows and the requests keep their types.
THEOREM TypeCorrect == Spec => []TypeOK
  <1>1. IInv => TypeOK
    BY DEF IInv
  <1>2. QED
    BY <1>1, InvariantHolds, PTL

\* However many requests interleave, a film in review has a draft.
THEOREM ReviewKeepsDraft == Spec => []ReviewHasDraft
  <1>1. IInv => ReviewHasDraft
    BY DEF IInv
  <1>2. QED
    BY <1>1, InvariantHolds, PTL

\* However many requests interleave, a watched film has a completed watch.
THEOREM WatchedKeepsDiary == Spec => []WatchedHasDiary
  <1>1. IInv => WatchedHasDiary
    BY DEF IInv
  <1>2. QED
    BY <1>1, InvariantHolds, PTL

\* Concurrent requests pass the cap by at most one film for each of them but
\* the first, for any number of films and requests.
THEOREM OvershootIsBounded == Spec => []OvershootBounded
  <1>1. IInv => OvershootBounded
    BY FiniteParts, CapAssumption DEF IInv, RoomInv, OvershootBounded,
       CountActive, Listed
  <1>2. QED
    BY <1>1, InvariantHolds, PTL
=============================================================================
