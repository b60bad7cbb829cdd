SPECIFICATION FairFeedSpec
CONSTANTS
  Film = {f1}
  Date = {1, 2}
  Cap = 1
  NoRow = NoRow
  Entry <- Entries
  FilmOf <- Films
  DayOf <- Days
  Stamped = {1, 2}
  Window = 2
  Missing = Missing
  Malformed = Malformed
INVARIANTS
  ReviewHasDraft
  WatchedHasDiary
PROPERTIES
  KeepsPromise
  OncePerEntry
  DraftFollowsFeed
  AllOrNothing
  EntryIsRecorded
  ImplementsLifecycle
