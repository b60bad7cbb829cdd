--------------------------- MODULE RssFeedProofs ---------------------------
(***************************************************************************)
(* The poll of the diary feed implements WatchLifecycle, applies an entry  *)
(* once and does all or nothing, for any films, days, entries and window.  *)
(***************************************************************************)
EXTENDS RssFeed, WatchLifecycleProofs

\* What the feed showed when the poll was answered.
Shown == {e \in Entry : e <= poll.top /\ e > poll.top - Window}

\* What a poll has made of a film: nothing, or what one event makes of it.
Worked(f) ==
  \/ poll.work[f] = film[f]
  \/ /\ InFeed(f)
     /\ \E at \in Date : poll.work[f] = WatchedByRss(film[f], at)
     /\ \E e \in poll.met : FilmOf[e] = f

\* The stamped entries of the last feed that was committed are in the ledger.
LedgerInv ==
  /\ seen <= logged
  /\ \A e \in Stamped : e <= seen /\ e > seen - Window => e \in ledger

PollInv ==
  poll.at = "applying" =>
    /\ seen <= poll.top
    /\ poll.top <= logged
    /\ poll.todo \subseteq Shown
    /\ \A e \in Stamped \cap Shown : e \in poll.todo \cup poll.met \cup ledger
    /\ \A e \in poll.met : e <= poll.top /\ (e > seen \/ e \notin Stamped)
    /\ \A f \in Film : Worked(f)

FeedInv == IInv /\ FeedTypeOK /\ LedgerInv /\ PollInv

LEMMA EntriesAreNat == Entry \subseteq Nat \ {0}
<1>1. Cardinality(Entry) \in Nat
  BY EntryAssumption, FS_CardinalityType
<1> QED
  BY <1>1, EntryAssumption

\* A film's rows after two events are those after the second alone.
LEMMA EventsCollapse ==
  ASSUME NEW s \in Coherent, s.status \notin {"absent", "watched"},
         NEW a \in Date, NEW b \in Date
  PROVE  WatchedByRss(WatchedByRss(s, a), b) = WatchedByRss(s, b)
<1> DEFINE row == [source |-> "rss", at |-> a, staged |-> {}]
           u   == WatchedByRss(s, a)
<1>1. s \in FilmState
  BY DEF Coherent
<1>2. row \in WatchRow /\ row # NoRow
  BY NoRowAssumption DEF WatchRow, Source
<1>3. CASE s.status = "pending_watch_review" /\ s.pending # NoRow
  <2>1. s.pending \in WatchRow
    BY <1>1, <1>3 DEF FilmState
  <2>2. [s.pending EXCEPT !.at = a] \in WatchRow
    BY <2>1 DEF WatchRow
  <2>3. u.pending = [s.pending EXCEPT !.at = a] /\ u.pending # NoRow
        /\ u.status = "pending_watch_review"
        /\ u = [DeactivateEntry(s) EXCEPT !.pending = [s.pending EXCEPT !.at = a]]
    BY <1>1, <1>3, <2>2, NoRowAssumption
       DEF WatchedByRss, DeactivateEntry, FilmState
  <2>4. [u.pending EXCEPT !.at = b] = [s.pending EXCEPT !.at = b]
    BY <2>1, <2>3 DEF WatchRow
  <2>5. WatchedByRss(u, b)
          = [DeactivateEntry(u) EXCEPT !.pending = [s.pending EXCEPT !.at = b]]
    BY <2>3, <2>4 DEF WatchedByRss
  <2> QED
    BY <1>1, <1>3, <2>3, <2>5
       DEF WatchedByRss, DeactivateEntry, FilmState
<1>4. CASE ~(s.status = "pending_watch_review" /\ s.pending # NoRow)
  <2>1. /\ u.pending = row /\ u.status = "pending_watch_review"
        /\ u = CreatePending(MarkStatus(DeactivateEntry(s), "pending_watch_review"),
                             "rss", a, {})
    BY <1>1, <1>4 DEF WatchedByRss, DeactivateEntry, FilmState, CreatePending,
                      MarkStatus
  <2>2. [row EXCEPT !.at = b] = [source |-> "rss", at |-> b, staged |-> {}]
    OBVIOUS
  <2>3. WatchedByRss(u, b)
          = [DeactivateEntry(u) EXCEPT
               !.pending = [source |-> "rss", at |-> b, staged |-> {}]]
    BY <1>2, <2>1, <2>2 DEF WatchedByRss
  <2>4. DeactivateEntry(u).entry = DeactivateEntry(s).entry
    BY <1>1, <2>1 DEF DeactivateEntry, FilmState, CreatePending, MarkStatus
  <2>5. WatchedByRss(u, b)
          = [[[DeactivateEntry(s) EXCEPT !.status = "pending_watch_review"]
               EXCEPT !.pending = row] EXCEPT
               !.pending = [source |-> "rss", at |-> b, staged |-> {}]]
    BY <1>1, <2>1, <2>3 DEF DeactivateEntry, FilmState, CreatePending, MarkStatus
  <2>6. WatchedByRss(s, b)
          = [[DeactivateEntry(s) EXCEPT !.status = "pending_watch_review"]
               EXCEPT !.pending = [source |-> "rss", at |-> b, staged |-> {}]]
    BY <1>4 DEF WatchedByRss, CreatePending, MarkStatus
  <2> QED
    <3> DEFINE d == [DeactivateEntry(s) EXCEPT !.status = "pending_watch_review"]
               q == [source |-> "rss", at |-> b, staged |-> {}]
    <3>1. DeactivateEntry(s) \in FilmState
      BY <1>1 DEF DeactivateEntry, FilmState
    <3>2. [[d EXCEPT !.pending = row] EXCEPT !.pending = q]
            = [d EXCEPT !.pending = q]
      <4> HIDE DEF row, q
      <4> QED
        BY <3>1 DEF FilmState
    <3> QED
      BY <2>5, <2>6, <3>2
<1> QED
  BY <1>3, <1>4

LEMMA Numbers ==
  ASSUME FeedTypeOK
  PROVE  seen \in Nat /\ logged \in Nat /\ poll.top \in Nat
<1>1. poll.top \in {0} \cup Entry
  BY DEF FeedTypeOK, Poll
<1>2. {0} \cup Entry \subseteq Nat
  BY EntriesAreNat
<1>3. seen \in {0} \cup Entry /\ logged \in {0} \cup Entry
  BY DEF FeedTypeOK
<1> QED
  BY <1>1, <1>2, <1>3

-----------------------------------------------------------------------------

LEMMA FeedInitOK ==
  FeedInit => FeedInv
<1> SUFFICES ASSUME FeedInit PROVE FeedInv
  OBVIOUS
<1>1. IInv /\ TypeOK
  BY InitOK DEF FeedInit, IInv, TypeOK, Coherent
<1>2. Absent \in FilmState
  BY AbsentOK DEF Coherent
<1>3. FeedTypeOK
  BY <1>1, <1>2 DEF FeedInit, FeedTypeOK, NoPoll, Poll, Phase, Config
<1>4. LedgerInv /\ PollInv
  BY EntriesAreNat, EntryAssumption, WindowAssumption
     DEF FeedInit, LedgerInv, PollInv, NoPoll
<1> QED
  BY <1>1, <1>3, <1>4 DEF FeedInv

LEMMA NoPollOK == NoPoll \in Poll /\ NoPoll.at = "idle"
BY AbsentOK DEF NoPoll, Poll, Phase, Coherent

\* Steps that touch neither films nor the ledger and leave no poll applying.
LEMMA QuietStep ==
  ASSUME FeedInv, poll' \in Poll, poll'.at # "applying",
         config' \in Config, UNCHANGED <<film, linked, logged, ledger, seen>>
  PROVE  FeedInv' /\ UNCHANGED film
BY DEF FeedInv, FeedTypeOK, TypeOK, IInv, LedgerInv, PollInv

LEMMA RollBackStep ==
  ASSUME FeedInv, RollBack
  PROVE  FeedInv' /\ UNCHANGED <<film, ledger>>
<1>1. config' \in Config
  BY DEF RollBack, FeedInv, FeedTypeOK, Config
<1> QED
  BY <1>1, NoPollOK, QuietStep DEF RollBack

LEMMA FetchStep ==
  ASSUME FeedInv, FetchAnswers
  PROVE  FeedInv' /\ UNCHANGED film
<1> USE DEF FeedInv
<1>1. film \in [Film -> FilmState]
  BY DEF FeedTypeOK, TypeOK
<1>2. /\ poll' \in Poll
      /\ poll'.at = "applying" /\ poll'.top = logged /\ poll'.todo = OnFeed
      /\ poll'.work = film /\ poll'.met = {}
  BY <1>1 DEF FetchAnswers, FeedTypeOK, Poll, Phase, OnFeed
<1>3. FeedTypeOK' /\ IInv' /\ LedgerInv'
  BY <1>2 DEF FetchAnswers, FeedTypeOK, TypeOK, IInv, LedgerInv
<1>4. OnFeed = Shown'
  BY <1>2 DEF OnFeed, Shown, FetchAnswers
<1>5. PollInv'
  BY <1>2, <1>4, EntriesAreNat DEF PollInv, Worked, LedgerInv, FetchAnswers,
     FeedTypeOK
<1> QED
  BY <1>3, <1>5 DEF FetchAnswers

\* A recorded entry is left out.
LEMMA SkipStep ==
  ASSUME FeedInv, NEW e \in Entry, SkipEntry(e)
  PROVE  FeedInv' /\ UNCHANGED film
<1> USE DEF FeedInv
<1>1. /\ poll' \in Poll
      /\ poll'.at = "applying" /\ poll'.top = poll.top
      /\ poll'.todo = poll.todo \ {e}
      /\ poll'.work = poll.work /\ poll'.met = poll.met
  BY DEF SkipEntry, FeedTypeOK, Poll
<1>2. FeedTypeOK' /\ IInv' /\ LedgerInv'
  BY <1>1 DEF SkipEntry, FeedTypeOK, TypeOK, IInv, LedgerInv
<1>3. Shown' = Shown
  BY <1>1 DEF Shown
<1>4. \A f \in Film : Worked(f)'
  BY <1>1 DEF SkipEntry, PollInv, Worked, InFeed, Known
<1>5. PollInv'
  BY <1>1, <1>3, <1>4 DEF SkipEntry, PollInv, Recorded
<1> QED
  BY <1>2, <1>5 DEF SkipEntry

\* What an event makes of a film some events have met already.
LEMMA AfterOK ==
  ASSUME FeedInv, poll.at = "applying", NEW e \in Entry,
         NEW t \in After(poll.work[FilmOf[e]], e)
  PROVE  /\ t \in FilmState
         /\ \/ t = poll.work[FilmOf[e]]
            \/ /\ InFeed(FilmOf[e])
               /\ \E at \in Date : t = WatchedByRss(film[FilmOf[e]], at)
<1> DEFINE f == FilmOf[e]
           s == poll.work[f]
<1>1. f \in Film /\ DaysOf(e) \subseteq Date
  BY EntryAssumption DEF DaysOf
<1>2. film[f] \in Coherent /\ s \in FilmState /\ Worked(f)
  BY <1>1 DEF FeedInv, IInv, FeedTypeOK, Poll, PollInv
<1>3. CASE ~Concerns(s, f)
  BY <1>2, <1>3 DEF After
<1>4. CASE Concerns(s, f)
  <2>1. PICK d \in Date : t = WatchedByRss(s, d)
    BY <1>1, <1>4 DEF After
  <2>2. InFeed(f) /\ film[f].status \notin {"absent", "watched"}
    <3>1. CASE s = film[f]
      BY <1>4, <3>1 DEF Concerns, Matches, InFeed, Known
    <3> QED
      BY <1>2, <3>1 DEF Worked, InFeed, Known
  <2>3. t = WatchedByRss(film[f], d)
    <3>1. CASE s = film[f]
      BY <2>1, <3>1
    <3>2. CASE \E at \in Date : s = WatchedByRss(film[f], at)
      BY <1>2, <2>1, <2>2, <3>2, EventsCollapse
    <3> QED
      BY <1>2, <3>1, <3>2 DEF Worked
  <2>4. t \in Coherent
    BY <1>2, <2>2, <2>3, WatchedByRssOK DEF Permitted
  <2> QED
    BY <2>2, <2>3, <2>4 DEF Coherent
<1> QED
  BY <1>3, <1>4

LEMMA ApplyStep ==
  ASSUME FeedInv, NEW e \in Entry, ApplyEntry(e)
  PROVE  FeedInv' /\ UNCHANGED film
<1> DEFINE f == FilmOf[e]
<1>0. f \in Film /\ poll.at = "applying" /\ poll.work \in [Film -> FilmState]
  BY EntryAssumption DEF ApplyEntry, FeedInv, FeedTypeOK, Poll
<1>1. PICK t \in After(poll.work[f], e) :
        poll' = [poll EXCEPT !.todo = @ \ {e}, !.met = @ \cup {e},
                             !.work[f] = t]
  BY DEF ApplyEntry
<1>2. /\ t \in FilmState
      /\ \/ t = poll.work[f]
         \/ InFeed(f) /\ \E at \in Date : t = WatchedByRss(film[f], at)
  BY <1>0, AfterOK
<1>3. /\ poll' \in Poll
      /\ poll'.at = "applying" /\ poll'.top = poll.top
      /\ poll'.todo = poll.todo \ {e} /\ poll'.met = poll.met \cup {e}
      /\ poll'.work = [poll.work EXCEPT ![f] = t]
  BY <1>0, <1>1, <1>2 DEF FeedInv, FeedTypeOK, Poll
<1>4. FeedTypeOK' /\ IInv' /\ LedgerInv'
  BY <1>3 DEF ApplyEntry, FeedInv, FeedTypeOK, TypeOK, IInv, LedgerInv
<1>5. Shown' = Shown
  BY <1>3 DEF Shown
<1>6. \A g \in Film : Worked(g)'
  <2> SUFFICES ASSUME NEW g \in Film PROVE Worked(g)'
    OBVIOUS
  <2>1. Worked(g) /\ film' = film
    BY <1>0 DEF FeedInv, PollInv, ApplyEntry
  <2>2. InFeed(g) => InFeed(g)'
    BY <2>1 DEF InFeed, Known
  <2>3. CASE g # f
    BY <1>0, <1>3, <2>1, <2>2, <2>3 DEF Worked
  <2>4. CASE g = f
    BY <1>0, <1>2, <1>3, <2>1, <2>2, <2>4 DEF Worked
  <2> QED
    BY <2>3, <2>4
<1>7. e <= poll.top /\ (e > seen \/ e \notin Stamped)
  <2>1. e \in Shown /\ seen <= poll.top /\ ~Recorded(e)
    BY <1>0 DEF ApplyEntry, IsNext, FeedInv, PollInv
  <2>2. seen \in Nat /\ poll.top \in Nat /\ e \in Nat
    BY EntriesAreNat, Numbers DEF FeedInv
  <2>3. e > poll.top - Window => e > seen - Window
    BY <2>1, <2>2, WindowAssumption
  <2> QED
    BY <2>1, <2>2, <2>3, WindowAssumption
       DEF Shown, Recorded, FeedInv, LedgerInv
<1>8. PollInv'
  BY <1>0, <1>3, <1>5, <1>6, <1>7 DEF ApplyEntry, FeedInv, PollInv
<1> QED
  BY <1>4, <1>8 DEF FeedInv, ApplyEntry

\* What a poll commits is one RssPoll of WatchLifecycle, or nothing.
LEMMA CommitIsRssPoll ==
  ASSUME FeedInv, CommitPoll
  PROVE  RssPoll \/ UNCHANGED film
<1> DEFINE S  == {f \in Film : poll.work[f] # film[f]}
           at == [f \in S |-> CHOOSE d \in Date :
                                poll.work[f] = WatchedByRss(film[f], d)]
<1>1. /\ poll.work \in [Film -> FilmState] /\ film \in [Film -> FilmState]
      /\ film' = poll.work /\ \A f \in Film : Worked(f)
  BY DEF CommitPoll, FeedInv, FeedTypeOK, TypeOK, Poll, PollInv
<1>2. CASE S = {}
  BY <1>1, <1>2
<1>3. CASE S # {}
  <2>1. \A f \in S : /\ InFeed(f) /\ at[f] \in Date
                     /\ poll.work[f] = WatchedByRss(film[f], at[f])
    BY <1>1 DEF Worked
  <2>2. at \in [S -> Date]
    BY <2>1
  <2>3. film' = [f \in Film |-> IF f \in S THEN WatchedByRss(film[f], at[f])
                                ELSE film[f]]
    BY <1>1, <2>1
  <2>4. S \in SUBSET {f \in Film : InFeed(f)}
    BY <2>1
  <2> QED
    BY <1>3, <2>2, <2>3, <2>4 DEF RssPoll
<1> QED
  BY <1>2, <1>3

LEMMA CommitStep ==
  ASSUME FeedInv, CommitPoll
  PROVE  FeedInv'
<1>1. IInv'
  BY CommitIsRssPoll, NextSteps, StutterSteps DEF FeedInv, Next
<1>2. FeedTypeOK'
  <2>1. TypeOK'
    BY <1>1 DEF IInv, TypeOK, Coherent
  <2> QED
    BY <2>1, NoPollOK DEF CommitPoll, FeedInv, FeedTypeOK, Poll, Config
<1>3. LedgerInv'
  BY EntryAssumption DEF CommitPoll, FeedInv, PollInv, LedgerInv, Shown
<1>4. PollInv'
  BY NoPollOK DEF CommitPoll, PollInv
<1> QED
  BY <1>1, <1>2, <1>3, <1>4 DEF FeedInv

\* The user logs another film.
LEMMA LogStep ==
  ASSUME FeedInv, Log
  PROVE  FeedInv' /\ UNCHANGED film
<1> USE DEF FeedInv
<1>1. logged \in Nat /\ seen \in Nat /\ poll.top \in Nat
  BY Numbers
<1>2. FeedTypeOK' /\ IInv' /\ LedgerInv'
  BY <1>1 DEF Log, FeedTypeOK, TypeOK, IInv, LedgerInv
<1>3. (\A f \in Film : Worked(f)) => \A f \in Film : Worked(f)'
  BY DEF Log, Worked, InFeed, Known
<1>4. Shown' = Shown
  BY DEF Log, Shown
<1>5. PollInv'
  BY <1>1, <1>3, <1>4 DEF Log, PollInv
<1> QED
  BY <1>2, <1>5 DEF Log

LEMMA ConfigureStep ==
  ASSUME FeedInv, Configure
  PROVE  FeedInv' /\ UNCHANGED film
<1> USE DEF FeedInv
<1>1. FeedTypeOK' /\ IInv' /\ LedgerInv'
  BY DEF Configure, FeedTypeOK, Config, TypeOK, IInv, LedgerInv
<1>2. (\A f \in Film : Worked(f)) => \A f \in Film : Worked(f)'
  BY DEF Configure, Worked, InFeed, Known
<1>3. Shown' = Shown
  BY DEF Configure, Shown
<1>4. PollInv'
  BY <1>2, <1>3 DEF Configure, PollInv
<1> QED
  BY <1>1, <1>4 DEF Configure

LEMMA ElsewhereStep ==
  ASSUME FeedInv, Elsewhere
  PROVE  FeedInv' /\ Next
<1>1. Next
  BY DEF Elsewhere, Next
<1>2. IInv'
  BY <1>1, NextSteps DEF FeedInv
<1>3. TypeOK'
  BY <1>2 DEF IInv, TypeOK, Coherent
<1> QED
  BY <1>1, <1>2, <1>3
     DEF Elsewhere, feed, FeedInv, FeedTypeOK, LedgerInv, PollInv

\* Every step keeps the invariant and is a step of WatchLifecycle or none.
LEMMA FeedSteps ==
  ASSUME FeedInv, [FeedNext]_vars
  PROVE  FeedInv' /\ [Next]_film
<1>1. CASE StartPoll
  <2>1. poll' \in Poll /\ poll'.at = "fetching"
    BY <1>1, NoPollOK DEF StartPoll, Poll, Phase, NoPoll
  <2> QED
    BY <1>1, <2>1, QuietStep DEF StartPoll, FeedInv, FeedTypeOK
<1>2. CASE FetchFails
  BY <1>2, RollBackStep DEF FetchFails
<1>3. CASE FetchAnswers
  BY <1>3, FetchStep
<1>4. CASE \E e \in Entry : MeetEntry(e)
  BY <1>4, SkipStep, ApplyStep, RollBackStep DEF MeetEntry, EntryRaises
<1>5. CASE CommitPoll
  BY <1>5, CommitStep, CommitIsRssPoll DEF Next
<1>6. CASE Restart
  BY <1>6, NoPollOK, QuietStep DEF Restart, FeedInv, FeedTypeOK
<1>7. CASE Log
  BY <1>7, LogStep
<1>8. CASE Configure
  BY <1>8, ConfigureStep
<1>9. CASE Elsewhere
  BY <1>9, ElsewhereStep
<1>10. CASE UNCHANGED vars
  BY <1>10, StutterSteps
     DEF vars, feed, FeedInv, FeedTypeOK, TypeOK, LedgerInv, PollInv, Shown,
         Worked, InFeed, Known
<1> QED
  BY <1>1, <1>2, <1>3, <1>4, <1>5, <1>6, <1>7, <1>8, <1>9, <1>10
     DEF FeedNext, PollStep

\* The inductive invariant of the feed.
THEOREM FeedInvariantHolds == FeedSpec => []FeedInv
<1> QED
  BY FeedInitOK, FeedSteps, PTL DEF FeedSpec

\* The rows, the ledger and the poll keep their types.
THEOREM FeedTypeCorrect == FeedSpec => []FeedTypeOK
<1>1. FeedInv => FeedTypeOK
  BY DEF FeedInv
<1> QED
  BY FeedInvariantHolds, <1>1, PTL

\* The poll, event by event, implements the one transaction of WatchLifecycle,
\* so all that is proved of WatchLifecycle holds with the feed as it runs.
THEOREM ImplementsWatchLifecycle == FeedSpec => ImplementsLifecycle
<1>1. FeedInit => Init
  BY DEF FeedInit
<1> QED
  BY <1>1, FeedInvariantHolds, FeedSteps, PTL
     DEF FeedSpec, ImplementsLifecycle, Spec

\* A film in review has a draft, with the feed as it runs.
THEOREM FeedReviewHasDraft == FeedSpec => []ReviewHasDraft
<1> QED
  BY ImplementsWatchLifecycle, ReviewAlwaysHasDraft, PTL DEF ImplementsLifecycle

\* No poll takes a day from a diary.
THEOREM FeedKeepsDiary == FeedSpec => DiaryOnlyGrows
<1> QED
  BY ImplementsWatchLifecycle, DiaryIsKept, PTL DEF ImplementsLifecycle

\* The films keep the promise of WatchDiary, with the feed as it runs.
THEOREM FeedKeepsPromise == FeedSpec => KeepsPromise
<1> QED
  BY ImplementsWatchLifecycle, ImplementsWatchDiary, PTL DEF ImplementsLifecycle

\* No poll changes a film for an entry an earlier one was shown.
THEOREM AppliedOnce == FeedSpec => OncePerEntry
<1> DEFINE Step == CommitPoll =>
             \A f \in Film : film'[f] # film[f] =>
               \E e \in Entry : /\ FilmOf[e] = f
                                /\ e <= poll.top
                                /\ e > seen \/ e \notin Stamped
<1>1. FeedInv => Step
  BY DEF FeedInv, FeedTypeOK, Poll, PollInv, Worked, CommitPoll
<1>2. FeedInv /\ [FeedNext]_vars => [Step]_vars
  BY <1>1
<1> QED
  BY <1>2, FeedInvariantHolds, PTL DEF FeedSpec, OncePerEntry

\* A poll records all it was shown, or leaves films and ledger alone.
THEOREM PollIsAllOrNothing == FeedSpec => AllOrNothing
<1> DEFINE Step == poll.at = "applying" /\ poll'.at = "idle" =>
             \/ /\ config'.status = "success"
                /\ \A e \in Stamped :
                     e <= poll.top /\ e > poll.top - Window => e \in ledger'
             \/ UNCHANGED <<film, ledger>>
<1>1. ASSUME FeedInv, CommitPoll PROVE Step
  BY <1>1, EntryAssumption
     DEF FeedInv, FeedTypeOK, Config, PollInv, Shown, CommitPoll
<1>2. ASSUME FeedInv, NEW e \in Entry, MeetEntry(e) PROVE Step
  BY <1>2, RollBackStep
     DEF MeetEntry, EntryRaises, SkipEntry, ApplyEntry, FeedInv, FeedTypeOK, Poll
<1>3. ASSUME FeedNext, ~CommitPoll, ~\E e \in Entry : MeetEntry(e) PROVE Step
  BY <1>3 DEF FeedNext, PollStep, StartPoll, FetchFails, FetchAnswers, Restart,
              Log, Configure, Elsewhere, feed
<1>4. FeedInv /\ [FeedNext]_vars => [Step]_vars
  BY <1>1, <1>2, <1>3
<1> QED
  BY <1>4, FeedInvariantHolds, PTL DEF FeedSpec, AllOrNothing
-----------------------------------------------------------------------------
(* The day of the draft.                                                   *)

\* the entries the poll has met that link to a film
NewsOf(f) == {e \in poll.met : FilmOf[e] = f}

\* d is the one of them whose day is kept: the oldest, but the newest for a
\* film known by its title alone
Decides(d, f) ==
  /\ d \in NewsOf(f)
  /\ \A o \in NewsOf(f) :
       IF film[f].uri = "real" /\ f \in linked THEN d <= o ELSE o <= d

\* the film in the transaction of the poll, once an entry has been met
Drafted(f) ==
  /\ poll.work[f].status = "pending_watch_review"
  /\ poll.work[f].uri = film[f].uri
  /\ poll.work[f].entry # "active"
  /\ \E d \in NewsOf(f) : Decides(d, f) /\ poll.work[f].pending.at \in DaysOf(d)

DraftInv ==
  poll.at = "applying" =>
    /\ \A e \in poll.met : \A o \in poll.todo : o < e
    /\ \A f \in Film :
         Concerns(film[f], f) =>
           IF NewsOf(f) = {} THEN poll.work[f] = film[f] ELSE Drafted(f)

\* What an event leaves of a film it concerns.
LEMMA EventDrafts ==
  ASSUME NEW s \in FilmState, NEW a \in Date
  PROVE  /\ WatchedByRss(s, a).status = "pending_watch_review"
         /\ WatchedByRss(s, a).uri = s.uri
         /\ WatchedByRss(s, a).entry # "active"
         /\ WatchedByRss(s, a).pending.at = a
<1>1. CASE s.status = "pending_watch_review" /\ s.pending # NoRow
  <2>1. s.pending \in WatchRow
    BY <1>1 DEF FilmState
  <2>2. [s.pending EXCEPT !.at = a].at = a
    BY <2>1 DEF WatchRow
  <2> QED
    BY <1>1, <2>2 DEF WatchedByRss, DeactivateEntry, FilmState
<1>2. CASE ~(s.status = "pending_watch_review" /\ s.pending # NoRow)
  BY <1>2 DEF WatchedByRss, DeactivateEntry, CreatePending, MarkStatus, FilmState
<1> QED
  BY <1>1, <1>2

\* Steps between two polls, and steps that leave the poll and the films alone.
LEMMA DraftIdle ==
  ASSUME poll'.at # "applying"
  PROVE  DraftInv'
BY DEF DraftInv

LEMMA DraftKept ==
  ASSUME DraftInv, UNCHANGED <<film, linked, poll>>
  PROVE  DraftInv'
BY DEF DraftInv, Drafted, Decides, NewsOf, Concerns, Matches

LEMMA DraftSkipStep ==
  ASSUME FeedInv, DraftInv, NEW e \in Entry, SkipEntry(e)
  PROVE  DraftInv'
<1>1. /\ poll.at = "applying" /\ poll'.at = "applying"
      /\ poll'.todo = poll.todo \ {e}
      /\ poll'.work = poll.work /\ poll'.met = poll.met
  BY DEF SkipEntry, FeedInv, FeedTypeOK, Poll
<1>2. film' = film /\ linked' = linked
  BY DEF SkipEntry
<1>3. \A f \in Film : /\ NewsOf(f)' = NewsOf(f)
                      /\ Concerns(film[f], f)' <=> Concerns(film[f], f)
  BY <1>1, <1>2 DEF NewsOf, Concerns, Matches
<1>4. \A f \in Film : Drafted(f) => Drafted(f)'
  BY <1>1, <1>2, <1>3 DEF Drafted, Decides
<1> QED
  BY <1>1, <1>2, <1>3, <1>4 DEF DraftInv

\* The next entry is older than all that have been met.
LEMMA DraftApplyStep ==
  ASSUME FeedInv, DraftInv, NEW e \in Entry, ApplyEntry(e)
  PROVE  DraftInv'
<1> DEFINE g == FilmOf[e]
<1>0. /\ g \in Film /\ poll.at = "applying" /\ poll.work \in [Film -> FilmState]
      /\ poll.met \subseteq Entry /\ poll.todo \subseteq Entry
      /\ DaysOf(e) \subseteq Date
  BY EntryAssumption DEF ApplyEntry, FeedInv, FeedTypeOK, Poll, DaysOf
<1>1. PICK t \in After(poll.work[g], e) :
        poll' = [poll EXCEPT !.todo = @ \ {e}, !.met = @ \cup {e}, !.work[g] = t]
  BY DEF ApplyEntry
<1>2. /\ poll'.at = "applying"
      /\ poll'.todo = poll.todo \ {e} /\ poll'.met = poll.met \cup {e}
      /\ poll'.work = [poll.work EXCEPT ![g] = t]
  BY <1>0, <1>1 DEF FeedInv, FeedTypeOK, Poll
<1>3. film' = film /\ linked' = linked
  BY DEF ApplyEntry
<1>4. \A o \in poll.todo : o <= e
  BY DEF ApplyEntry, IsNext
<1>5. e \in poll.todo /\ \A d \in poll.met : e < d
  BY <1>0 DEF ApplyEntry, IsNext, DraftInv
<1>6. \A d \in poll'.met : \A o \in poll'.todo : o < d
  <2>1. \A o \in poll.todo \ {e} : o < e
    <3> SUFFICES ASSUME NEW o \in poll.todo \ {e}
                 PROVE  o < e
      OBVIOUS
    <3>1. o \in Nat /\ e \in Nat /\ o <= e /\ o # e
      BY <1>0, <1>4, EntriesAreNat
    <3> QED
      BY <3>1
  <2> QED
    BY <1>0, <1>2, <2>1 DEF DraftInv
<1>7. ASSUME NEW f \in Film, Concerns(film[f], f)'
      PROVE  IF NewsOf(f)' = {} THEN (poll.work[f] = film[f])' ELSE Drafted(f)'
  <2>1. /\ Concerns(film[f], f)
        /\ IF NewsOf(f) = {} THEN poll.work[f] = film[f] ELSE Drafted(f)
    BY <1>0, <1>3, <1>7 DEF Concerns, Matches, DraftInv
  <2>2. CASE f # g
    <3>1. NewsOf(f)' = NewsOf(f) /\ poll'.work[f] = poll.work[f]
      BY <1>0, <1>2, <2>2 DEF NewsOf
    <3> QED
      BY <1>3, <2>1, <3>1 DEF Drafted, Decides
  <2>3. CASE f = g
    <3> DEFINE s == poll.work[f]
               exact == film[f].uri = "real" /\ f \in linked
    <3>1. /\ poll'.work[f] = t /\ s \in FilmState
          /\ NewsOf(f)' = NewsOf(f) \cup {e}
          /\ NewsOf(f) \subseteq poll.met
      BY <1>0, <1>2, <2>3 DEF NewsOf
    <3>2. s.uri = film[f].uri /\ s.status \notin {"absent", "watched"}
      BY <2>1 DEF Drafted, Concerns, Matches
    <3>3. CASE Concerns(s, f)
      <4>1. PICK a \in DaysOf(e) : t = WatchedByRss(s, a)
        BY <1>1, <2>3, <3>3 DEF After
      <4>2. /\ t.status = "pending_watch_review" /\ t.uri = s.uri
            /\ t.entry # "active" /\ t.pending.at = a
        BY <1>0, <3>1, <4>1, EventDrafts
      <4>3. exact \/ NewsOf(f) = {}
        BY <2>1, <3>2, <3>3 DEF Drafted, Concerns, Matches
      <4>4. \A o \in NewsOf(f) \cup {e} : IF exact THEN e <= o ELSE o <= e
        <5>1. e \in Nat /\ \A o \in NewsOf(f) : e < o /\ o \in Nat
          BY <1>0, <1>5, <3>1, EntriesAreNat
        <5> HIDE DEF exact
        <5> QED
          BY <4>3, <5>1
      <4>5. Decides(e, f)'
        BY <1>3, <3>1, <4>4 DEF Decides
      <4>6. Drafted(f)'
        BY <1>3, <3>1, <3>2, <4>1, <4>2, <4>5 DEF Drafted, DaysOf
      <4> QED
        BY <3>1, <4>6
    <3>4. CASE ~Concerns(s, f)
      <4>1. t = s /\ NewsOf(f) # {} /\ Drafted(f)
        BY <1>1, <2>1, <2>3, <3>4 DEF After
      <4>2. ~exact
        BY <2>1, <3>2, <3>4 DEF Concerns, Matches
      <4>3. PICK d \in NewsOf(f) : Decides(d, f) /\ s.pending.at \in DaysOf(d)
        BY <4>1 DEF Drafted
      <4>4. e <= d
        <5>1. e \in Nat /\ d \in Nat /\ e < d
          BY <1>0, <1>5, <3>1, EntriesAreNat
        <5> QED
          BY <5>1
      <4>5. Decides(d, f)'
        BY <1>3, <3>1, <4>2, <4>3, <4>4 DEF Decides
      <4>6. Drafted(f)'
        BY <1>3, <3>1, <4>1, <4>3, <4>5 DEF Drafted, DaysOf
      <4> QED
        BY <3>1, <4>6
    <3> QED
      BY <3>3, <3>4
  <2> QED
    BY <2>2, <2>3
<1> QED
  BY <1>6, <1>7 DEF DraftInv

LEMMA DraftSteps ==
  ASSUME FeedInv, DraftInv, [FeedNext]_vars
  PROVE  DraftInv'
<1>1. CASE StartPoll \/ FetchFails \/ CommitPoll \/ Restart \/ Elsewhere
  <2>1. poll'.at # "applying"
    BY <1>1, NoPollOK
       DEF StartPoll, FetchFails, RollBack, CommitPoll, Restart, Elsewhere, feed, NoPoll
  <2> QED
    BY <2>1, DraftIdle
<1>2. CASE FetchAnswers
  <2>1. poll'.met = {} /\ poll'.work = film' /\ \A f \in Film : NewsOf(f)' = {}
    BY <1>2 DEF FetchAnswers, NewsOf
  <2> QED
    BY <2>1 DEF DraftInv
<1>3. CASE \E e \in Entry : MeetEntry(e)
  <2>1. ASSUME NEW e \in Entry, EntryRaises(e)
        PROVE  poll'.at # "applying"
    BY <2>1, NoPollOK DEF EntryRaises, RollBack
  <2> QED
    BY <1>3, <2>1, DraftIdle, DraftSkipStep, DraftApplyStep DEF MeetEntry
<1>4. CASE Log \/ Configure \/ UNCHANGED vars
  BY <1>4, DraftKept DEF Log, Configure, vars, feed
<1> QED
  BY <1>1, <1>2, <1>3, <1>4 DEF FeedNext, PollStep

\* A film new entries concern is in review after the poll, with the day of the
\* entry that decides.
THEOREM DraftIsOfTheFeed == FeedSpec => DraftFollowsFeed
<1> DEFINE Step == CommitPoll =>
      \A f \in Film :
        LET new == {e \in poll.met : FilmOf[e] = f}
            decides == IF film[f].uri = "real" /\ f \in linked
                       THEN CHOOSE e \in new : \A o \in new : e <= o
                       ELSE CHOOSE e \in new : \A o \in new : o <= e
        IN  new # {} /\ Concerns(film[f], f) =>
              /\ film'[f].status = "pending_watch_review"
              /\ film'[f].pending.at \in DaysOf(decides)
<1>1. FeedInit => DraftInv
  BY DEF FeedInit, NoPoll, DraftInv
<1>2. FeedInv /\ DraftInv /\ [FeedNext]_vars => DraftInv'
  BY DraftSteps
<1>3. FeedInv /\ DraftInv => Step
  <2> SUFFICES ASSUME FeedInv, DraftInv, CommitPoll, NEW f \in Film,
                      {e \in poll.met : FilmOf[e] = f} # {}, Concerns(film[f], f)
               PROVE  LET new == {e \in poll.met : FilmOf[e] = f}
                          decides == IF film[f].uri = "real" /\ f \in linked
                                     THEN CHOOSE e \in new : \A o \in new : e <= o
                                     ELSE CHOOSE e \in new : \A o \in new : o <= e
                      IN  /\ film'[f].status = "pending_watch_review"
                          /\ film'[f].pending.at \in DaysOf(decides)
    OBVIOUS
  <2> DEFINE new == {e \in poll.met : FilmOf[e] = f}
             exact == film[f].uri = "real" /\ f \in linked
             first == CHOOSE e \in new : \A o \in new : e <= o
             last == CHOOSE e \in new : \A o \in new : o <= e
  <2>1. /\ new = NewsOf(f) /\ new \subseteq Nat
        /\ poll.at = "applying" /\ film' = poll.work
    BY EntriesAreNat DEF NewsOf, CommitPoll, FeedInv, FeedTypeOK, Poll
  <2>2. Drafted(f)
    BY <2>1 DEF DraftInv
  <2>3. PICK d \in new : Decides(d, f) /\ poll.work[f].pending.at \in DaysOf(d)
    BY <2>1, <2>2 DEF Drafted
  <2> HIDE DEF new
  <2>4. ASSUME exact
        PROVE  d = first
    <3>1. \A o \in new : d <= o
      BY <2>1, <2>3, <2>4 DEF Decides
    <3>2. first \in new /\ \A o \in new : first <= o
      BY <3>1
    <3> QED
      BY <2>1, <3>1, <3>2
  <2>5. ASSUME ~exact
        PROVE  d = last
    <3>1. \A o \in new : o <= d
      BY <2>1, <2>3, <2>5 DEF Decides
    <3>2. last \in new /\ \A o \in new : o <= last
      BY <3>1
    <3> QED
      BY <2>1, <3>1, <3>2
  <2>6. d = IF exact THEN first ELSE last
    BY <2>4, <2>5
  <2> QED
    BY <2>1, <2>2, <2>3, <2>6 DEF Drafted, new
<1>4. FeedInv /\ DraftInv /\ [FeedNext]_vars => [Step]_vars
  BY <1>3
<1> QED
  BY <1>1, <1>2, <1>4, FeedInvariantHolds, PTL DEF FeedSpec, DraftFollowsFeed
=============================================================================
