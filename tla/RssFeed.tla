------------------------------ MODULE RssFeed ------------------------------
(***************************************************************************)
(* The poll of the Letterboxd diary feed, event by event, over the life of *)
(* the films.  A poll asks Letterboxd (poll_rss awaits the answer), meets  *)
(* the entries of the feed newest first, records and applies those whose   *)
(* fingerprint is not in rss_sync_events, and commits everything at once   *)
(* or rolls everything back.  WatchLifecycle's RssPoll is what one such    *)
(* transaction does to the films; this module implements it.               *)
(*                                                                         *)
(* Threads that write a film while a poll applies its events are the       *)
(* subject of WatchRaces; here they wait for the poll's commit.            *)
(***************************************************************************)
EXTENDS WatchLifecycle

CONSTANTS
  Entry,     \* diary entries, numbered in the order the user logs them
  FilmOf,    \* the film an entry links to
  DayOf,     \* its watchedDate: a day, Missing or Malformed
  Stamped,   \* entries whose pubDate can be read
  Window,    \* how many entries the feed shows
  Missing,
  Malformed

ASSUME EntryAssumption ==
  /\ Entry = 1..Cardinality(Entry)
  /\ IsFiniteSet(Entry)
  /\ Stamped \subseteq Entry
  /\ FilmOf \in [Entry -> Film]
  /\ DayOf \in [Entry -> Date \cup {Missing, Malformed}]
ASSUME WindowAssumption == Window \in Nat
ASSUME MarkAssumption ==
  Missing \notin Date /\ Malformed \notin Date /\ Missing # Malformed

VARIABLES
  linked,  \* films stored under the address the feed uses; never changes
  logged,  \* entries the user has logged at Letterboxd
  ledger,  \* stamped entries in rss_sync_events
  config,  \* the row of sync_config
  poll,    \* the poll under way
  seen     \* history: the last entry a committed poll was shown

feed == <<linked, logged, ledger, config, poll, seen>>
vars == <<film, feed>>

Config == [configured: BOOLEAN, status: {"none", "success", "error"}]

Phase == {"idle", "fetching", "applying"}
Poll  == [at: Phase, top: {0} \cup Entry, todo: SUBSET Entry,
          met: SUBSET Entry, work: [Film -> FilmState]]

FeedTypeOK ==
  /\ TypeOK
  /\ linked \subseteq Film
  /\ logged \in {0} \cup Entry
  /\ seen \in {0} \cup Entry
  /\ ledger \subseteq Stamped
  /\ config \in Config
  /\ poll \in Poll

NoPoll == [at |-> "idle", top |-> 0, todo |-> {}, met |-> {},
           work |-> [f \in Film |-> Absent]]

FeedInit ==
  /\ Init
  /\ linked \in SUBSET Film
  /\ logged = 0
  /\ ledger = {}
  /\ config = [configured |-> FALSE, status |-> "none"]
  /\ poll = NoPoll
  /\ seen = 0

\* what Letterboxd shows: the latest entries
OnFeed == {e \in Entry : e <= logged /\ e > logged - Window}

-----------------------------------------------------------------------------
(* One event.                                                              *)

\* mistake: a film is found by its title on whatever list it is
Matches_ByTitle(s, f) == s.status # "absent"

\* find_for_rss_watched: by the address, or by the title of a listed film
Matches(s, f) ==
  /\ s.status # "absent"
  /\ s.entry = "active" \/ (s.uri = "real" /\ f \in linked)

\* mistake: a film already watched goes back to review
Concerns_Watched(s, f) == Matches(s, f)

\* the early returns of _apply_watched: no such film, or watched already
Concerns(s, f) == Matches(s, f) /\ s.status # "watched"

\* date.fromisoformat raises, once the film is found to be concerned
Raises(s, e) == Concerns(s, FilmOf[e]) /\ DayOf[e] = Malformed

\* a missing watchedDate is today's
DaysOf(e) == IF DayOf[e] = Missing THEN Date ELSE {DayOf[e]} \cap Date

\* mistake: the ledger is not asked
Recorded_Never(e) == FALSE

\* event_exists: the fingerprint holds the time of the entry, and an entry
\* without one gets the time of the poll, which no row has
Recorded(e) == e \in Stamped /\ e \in ledger

\* mistake: the oldest entry comes first
IsNext_Oldest(e) == e \in poll.todo /\ \A o \in poll.todo : e <= o

\* the feed lists the newest entry first
IsNext(e) == e \in poll.todo /\ \A o \in poll.todo : o <= e

-----------------------------------------------------------------------------
(* The poll.                                                               *)

\* mistake: the scheduler gives up after a poll that raised
StartPoll_Once ==
  /\ poll.at = "idle"
  /\ config.configured
  /\ config.status # "error"
  /\ poll' = [NoPoll EXCEPT !.at = "fetching"]
  /\ UNCHANGED <<film, linked, logged, ledger, config, seen>>

\* poll_rss leaves at once without a username; max_instances keeps it alone
StartPoll ==
  /\ poll.at = "idle"
  /\ config.configured
  /\ poll' = [NoPoll EXCEPT !.at = "fetching"]
  /\ UNCHANGED <<film, linked, logged, ledger, config, seen>>

\* mistake: what was flushed before the failure is committed with the error
RollBack_Half ==
  /\ film' = IF poll.at = "applying" THEN poll.work ELSE film
  /\ config' = [config EXCEPT !.status = "error"]
  /\ poll' = NoPoll
  /\ UNCHANGED <<linked, logged, ledger, seen>>

RollBack ==
  /\ config' = [config EXCEPT !.status = "error"]
  /\ poll' = NoPoll
  /\ UNCHANGED <<film, linked, logged, ledger, seen>>

FetchFails == poll.at = "fetching" /\ RollBack

FetchAnswers ==
  /\ poll.at = "fetching"
  /\ poll' = [at |-> "applying", top |-> logged, todo |-> OnFeed, met |-> {},
              work |-> film]
  /\ UNCHANGED <<film, linked, logged, ledger, config, seen>>

SkipEntry(e) ==
  /\ poll.at = "applying"
  /\ IsNext(e)
  /\ Recorded(e)
  /\ poll' = [poll EXCEPT !.todo = @ \ {e}]
  /\ UNCHANGED <<film, linked, logged, ledger, config, seen>>

\* what an event makes of the film it links to
After(s, e) ==
  IF Concerns(s, FilmOf[e]) THEN {WatchedByRss(s, d) : d \in DaysOf(e)} ELSE {s}

\* create_event, _apply_rss_event and mark_processed
ApplyEntry(e) ==
  /\ poll.at = "applying"
  /\ IsNext(e)
  /\ ~Recorded(e)
  /\ ~Raises(poll.work[FilmOf[e]], e)
  /\ \E t \in After(poll.work[FilmOf[e]], e) :
       poll' = [poll EXCEPT !.todo = @ \ {e},
                            !.met  = @ \cup {e},
                            !.work[FilmOf[e]] = t]
  /\ UNCHANGED <<film, linked, logged, ledger, config, seen>>

EntryRaises(e) ==
  /\ poll.at = "applying"
  /\ IsNext(e)
  /\ ~Recorded(e)
  /\ Raises(poll.work[FilmOf[e]], e)
  /\ RollBack

CommitPoll ==
  /\ poll.at = "applying"
  /\ poll.todo = {}
  /\ film' = poll.work
  /\ ledger' = ledger \cup (poll.met \cap Stamped)
  /\ config' = [config EXCEPT !.status = "success"]
  /\ seen' = poll.top
  /\ poll' = NoPoll
  /\ UNCHANGED <<linked, logged>>

\* the process stops and starts again: the transaction under way is gone
Restart ==
  /\ poll.at # "idle"
  /\ poll' = NoPoll
  /\ UNCHANGED <<film, linked, logged, ledger, config, seen>>

MeetEntry(e) == SkipEntry(e) \/ ApplyEntry(e) \/ EntryRaises(e)

PollStep ==
  \/ StartPoll \/ FetchFails \/ FetchAnswers
  \/ \E e \in Entry : MeetEntry(e)
  \/ CommitPoll \/ Restart

-----------------------------------------------------------------------------
(* Everything else.                                                        *)

\* the user logs a film at Letterboxd
Log ==
  /\ logged + 1 \in Entry
  /\ logged' = logged + 1
  /\ UNCHANGED <<film, linked, ledger, config, poll, seen>>

\* configure_rss
Configure ==
  /\ ~config.configured
  /\ config' = [config EXCEPT !.configured = TRUE]
  /\ UNCHANGED <<film, linked, logged, ledger, poll, seen>>

Elsewhere ==
  /\ poll.at # "applying"
  /\ \/ \E f \in Film :
          \/ StartReview(f) \/ Archive(f) \/ Restore(f)
          \/ CompleteReview(f) \/ CancelReview(f) \/ EditWatch(f)
          \/ AddFilm(f) \/ AddUnresolved(f) \/ ResolveUri(f)
          \/ EnrichmentFails(f) \/ Rematch(f)
     \/ ImportWatched \/ ImportCsv \/ SyncCsv
  /\ UNCHANGED feed

FeedNext == PollStep \/ Log \/ Configure \/ Elsewhere

FeedSpec == FeedInit /\ [][FeedNext]_vars

\* The scheduler starts a poll every fifteen minutes and Letterboxd answers
\* now and then.  A poll that has its answer runs to its end without an await;
\* restarts may strike it, but not for ever at the same entry.
FeedFairness ==
  /\ WF_vars(StartPoll)
  /\ SF_vars(FetchAnswers)
  /\ \A e \in Entry : SF_vars(MeetEntry(e))
  /\ SF_vars(CommitPoll)

FairFeedSpec == FeedSpec /\ FeedFairness

-----------------------------------------------------------------------------
(* What the feed promises.                                                 *)

\* A poll changes a film only for an entry it is shown for the first time, or
\* for one without a time that can be read: a review the user has finished or
\* cancelled is not opened again by the next poll of the same feed.
OncePerEntry ==
  [][CommitPoll =>
       \A f \in Film : film'[f] # film[f] =>
         \E e \in Entry : /\ FilmOf[e] = f
                          /\ e <= poll.top
                          /\ e > seen \/ e \notin Stamped]_vars

\* A film that new entries concern is in review when the poll is committed.
\* Each entry overwrites the day of the draft, and the newest comes first: the
\* draft shows the day of the oldest new entry, but of the newest for a film
\* known by its title alone, which the others no longer find.
DraftFollowsFeed ==
  [][CommitPoll =>
       \A f \in Film :
         LET new == {e \in poll.met : FilmOf[e] = f}
             decides == IF film[f].uri = "real" /\ f \in linked
                        THEN CHOOSE e \in new : \A o \in new : e <= o
                        ELSE CHOOSE e \in new : \A o \in new : o <= e
         IN  new # {} /\ Concerns(film[f], f) =>
               /\ film'[f].status = "pending_watch_review"
               /\ film'[f].pending.at \in DaysOf(decides)]_vars

\* A poll ends in one of two ways: every entry it was shown is in the ledger
\* or has no time and the status is success; or the films and the ledger are
\* as they were and the status, unless the process stopped, is error.
AllOrNothing ==
  [][poll.at = "applying" /\ poll'.at = "idle" =>
       \/ /\ config'.status = "success"
          /\ \A e \in Stamped :
               e <= poll.top /\ e > poll.top - Window => e \in ledger'
       \/ UNCHANGED <<film, ledger>>]_vars

\* some entry on the feed makes every poll fail that meets it
Poisoned ==
  \E e \in OnFeed : ~Recorded(e) /\ Raises(film[FilmOf[e]], e)

\* An entry on the feed of a configured account is recorded in the end, unless
\* it leaves the feed first or there is an entry on the feed that no poll can
\* apply: polls that fail and restarts only delay it.
EntryIsRecorded ==
  \A e \in Stamped :
    config.configured /\ e \in OnFeed
      ~> e \in ledger \/ e \notin OnFeed \/ Poisoned

\* Whatever order a poll meets its entries in, and however often it meets a
\* film, it does to the films what one transaction of WatchLifecycle does with
\* at most one event for each film.
ImplementsLifecycle == Spec
=============================================================================
