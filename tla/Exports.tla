------------------------------ MODULE Exports -------------------------------
(***************************************************************************)
(* What is read from the files Letterboxd exports.  A watchlist: one row   *)
(* for each address, in the order of the file, or nothing at all.  The     *)
(* watched films, their ratings and the diary: a plan for each watched     *)
(* row, with the days and the rating that go by the same name and year.    *)
(***************************************************************************)
EXTENDS Integers, Sequences, FiniteSets, SequencesExt

CONSTANTS
  Address,   \* Letterboxd addresses
  MaxFilms,  \* MAX_FILMS, 500
  Title,     \* names with their years
  Rating,
  Day,
  DefaultDay,  \* DEFAULT_WATCHED_AT, the day of a watch nobody dated
  Missing,
  Invalid    \* a text that is no rating or no date

(* Missing is none of the values a cell may have, nor a message. *)
ASSUME MissingAssumption ==
  Missing \notin Address \cup Title \cup {Invalid}
                \cup {"VALIDATION_ERROR", "INVALID_CSV_FORMAT", "WATCHLIST_SIZE_EXCEEDED"}
ASSUME MaxFilmsAssumption == MaxFilms \in Nat

\* title: there is one; year: none, or a year of four digits in range, or not
Row == [uri: Address \cup {Missing}, title: BOOLEAN, year: {"none", "good", "bad"}]

Blank == [seen |-> {}, rows |-> <<>>, duplicates |-> 0, error |-> Missing]

\* mistake: a row is looked at before it is known to be a duplicate
ReadRow_Checked(read, row) ==
  IF read.error # Missing THEN read
  ELSE IF row.uri = Missing \/ ~row.title \/ row.year = "bad"
  THEN [read EXCEPT !.error = "INVALID_CSV_FORMAT"]
  ELSE IF row.uri \in read.seen THEN [read EXCEPT !.duplicates = @ + 1]
  ELSE [read EXCEPT !.seen = @ \cup {row.uri}, !.rows = Append(@, row)]

\* the loop of parse_watchlist_csv; the first error ends it
ReadRow(read, row) ==
  IF read.error # Missing THEN read
  ELSE IF row.uri = Missing THEN [read EXCEPT !.error = "INVALID_CSV_FORMAT"]
  ELSE IF row.uri \in read.seen THEN [read EXCEPT !.duplicates = @ + 1]
  ELSE IF ~row.title \/ row.year = "bad"
  THEN [read EXCEPT !.error = "INVALID_CSV_FORMAT"]
  ELSE [read EXCEPT !.seen = @ \cup {row.uri}, !.rows = Append(@, row)]

\* file: "empty", "unreadable" (no UTF-8, or columns are missing) or "table"
Parsed(file, rows) ==
  LET after[i \in 0..Len(rows)] ==
        IF i = 0 THEN Blank ELSE ReadRow(after[i - 1], rows[i])
      read == after[Len(rows)]
  IN  CASE file = "empty"      -> [Blank EXCEPT !.error = "VALIDATION_ERROR"]
        [] file = "unreadable" -> [Blank EXCEPT !.error = "INVALID_CSV_FORMAT"]
        [] file = "table" /\ read.error = Missing /\ Len(read.rows) > MaxFilms ->
             [read EXCEPT !.error = "WATCHLIST_SIZE_EXCEEDED"]
        [] OTHER -> read

-----------------------------------------------------------------------------

WatchedRow == [key: Title \cup {Missing}, uri: Address \cup {Missing}, year: {"good", "bad"}]
RatingRow  == [key: Title \cup {Missing}, rating: Rating \cup {Missing, Invalid},
               year: {"good", "bad"}]
DiaryRow   == [key: Title \cup {Missing}, day: Day \cup {Missing, Invalid},
               year: {"good", "bad"}]

Named(row) == row.key # Missing /\ row.year = "good"

Refused(error) == [error |-> error, plans |-> <<>>]

\* mistake: the first rating of a film is kept
ReadRating_First(read, row) ==
  IF read.error # Missing THEN read
  ELSE IF ~Named(row) \/ row.rating = Invalid
  THEN [read EXCEPT !.error = "INVALID_CSV_FORMAT"]
  ELSE IF read.score[row.key] # Missing THEN read
  ELSE [read EXCEPT !.score[row.key] = row.rating]

\* the loop of parse_ratings_csv; a row without a rating is passed over
ReadRating(read, row) ==
  IF read.error # Missing THEN read
  ELSE IF ~Named(row) \/ row.rating = Invalid
  THEN [read EXCEPT !.error = "INVALID_CSV_FORMAT"]
  ELSE IF row.rating = Missing THEN read
  ELSE [read EXCEPT !.score[row.key] = row.rating]

\* parse_ratings_csv
Ratings(rows) ==
  LET after[i \in 0..Len(rows)] ==
        IF i = 0 THEN [score |-> [t \in Title |-> Missing], error |-> Missing]
        ELSE ReadRating(after[i - 1], rows[i])
  IN  after[Len(rows)]

\* the loop of parse_diary_csv
ReadDiary(read, row) ==
  IF read.error # Missing THEN read
  ELSE IF ~Named(row) \/ row.day \in {Missing, Invalid}
  THEN [read EXCEPT !.error = "INVALID_CSV_FORMAT"]
  ELSE [read EXCEPT !.days[row.key] = Append(@, row.day)]

\* parse_diary_csv
Diary(rows) ==
  LET after[i \in 0..Len(rows)] ==
        IF i = 0 THEN [days |-> [t \in Title |-> <<>>], error |-> Missing]
        ELSE ReadDiary(after[i - 1], rows[i])
  IN  after[Len(rows)]

\* A FilmImportPlan: its events, all completed or all waiting for a review.
Planned(row, score, days) ==
  [key |-> row.key, uri |-> row.uri,
   events |-> IF days = <<>>
              THEN <<[day |-> DefaultDay, score |-> score, completed |-> TRUE]>>
              ELSE [i \in DOMAIN days |->
                      [day |-> days[i], score |-> score, completed |-> score # Missing]]]

\* merge_watched_exports; files are "empty", "unreadable" or "table", and read
\* in this order
Merged(files, watched, ratings, diary) ==
  LET rated == Ratings(ratings)
      dated == Diary(diary)
      wrong == {i \in 1..3 :
                  \/ files[i] # "table"
                  \/ i = 1 /\ \/ watched = <<>>
                               \/ \E k \in DOMAIN watched :
                                    ~Named(watched[k]) \/ watched[k].uri = Missing
                  \/ i = 2 /\ rated.error # Missing
                  \/ i = 3 /\ dated.error # Missing}
  IN  IF wrong = {}
      THEN [error |-> Missing,
            plans |-> [i \in DOMAIN watched |->
                         Planned(watched[i], rated.score[watched[i].key],
                                 dated.days[watched[i].key])]]
      ELSE IF files[Min(wrong)] = "empty" THEN Refused("VALIDATION_ERROR")
      ELSE Refused("INVALID_CSV_FORMAT")
=============================================================================
