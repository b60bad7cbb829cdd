----------------------------- MODULE Algorithms -----------------------------
(***************************************************************************)
(* The computations of the program that keep no state: an input is chosen, *)
(* one of them is run on it, and its output is compared with what it is    *)
(* for.  Comparison: the scores of two films of one recommendation.        *)
(* Matching: what is made of TMDB's answers.  Reading: a watchlist file.   *)
(* Merging: the three files of a watched export.  Sharing: the profile of  *)
(* a request, after that of an earlier one.                                *)
(***************************************************************************)
EXTENDS Scoring, Confidence, Exports, Profiles

CONSTANTS
  Comparisons,  \* [asked, films: a pair, rows: their exposure]
  Matchings,    \* [year, found]
  Readings,     \* [file, rows]
  Mergings,     \* [files: for each of the three, watched, ratings, diary]
  Sharings      \* [stored, asked]: questionnaires with notes

\* exposure rows that can be stored: a row is deleted with its last count
StoredRows == [recs: Nat \ {0}, wins: Nat, age: Nat \cup {None}]

ASSUME NoneAssumption == None \notin StoredRows \cup Int
ASSUME UnknownAssumption == Unknown \notin Int
ASSUME ComparisonAssumption ==
  \A c \in Comparisons :
    /\ \A i \in 1..2 :
         /\ c.rows[i] \in StoredRows \cup {None}
         /\ \A n \in {"pacing", "complexity", "year", "obscurity"} :
              c.films[i][n] \in Int \cup {None}
    /\ IsFiniteSet(c.asked.genres) /\ IsFiniteSet(c.asked.emotions)
    /\ c.asked.pacing \in DOMAIN PacingTarget
    /\ c.asked.effort \in DOMAIN ComplexityTarget
    /\ c.asked.obscurity \in DOMAIN ObscurityTarget
    /\ c.asked.era \in {"current", "modern_classics", "vintage", "no_preference"}
ASSUME MatchingAssumption ==
  \A m \in Matchings : m.found \in Seq(Candidate) /\ m.year \in Int \cup {Unknown}
ASSUME ReadingAssumption ==
  \A r \in Readings : r.file \in {"empty", "unreadable", "table"} /\ r.rows \in Seq(Row)
ASSUME MergingAssumption ==
  \A m \in Mergings :
    /\ m.files \in [1..3 -> {"empty", "unreadable", "table"}]
    /\ m.watched \in Seq(WatchedRow)
    /\ m.ratings \in Seq(RatingRow)
    /\ m.diary \in Seq(DiaryRow)
ASSUME SharingAssumption ==
  \A h \in Sharings : h.stored \in Questionnaire /\ h.asked \in Questionnaire
ASSUME WordAssumption == Empty \notin Word \cup {NoPreference, Omitted}

VARIABLES
  task,    \* the computation that is run, "none" afterwards
  input,
  output

algorithmVars == <<task, input, output>>

Init ==
  /\ \/ task = "compare" /\ input \in Comparisons
     \/ task = "match" /\ input \in Matchings
     \/ task = "read" /\ input \in Readings
     \/ task = "merge" /\ input \in Mergings
     \/ task = "share" /\ input \in Sharings
  /\ output = None

Compare ==
  /\ task = "compare"
  /\ output' = [scores |-> [i \in 1..2 |->
                  Final(input.films[i], input.asked, input.rows[i])]]

MatchFilm ==
  /\ task = "match"
  /\ output' = Decision(input.found, input.year)

ReadFile ==
  /\ task = "read"
  /\ output' = Parsed(input.file, input.rows)

MergeFiles ==
  /\ task = "merge"
  /\ output' = Merged(input.files, input.watched, input.ratings, input.diary)

ShareProfile ==
  /\ task = "share"
  /\ output' = Resolved(input.stored, input.asked)

Next ==
  /\ output = None
  /\ Compare \/ MatchFilm \/ ReadFile \/ MergeFiles \/ ShareProfile
  /\ UNCHANGED <<task, input>>

Spec == Init /\ [][Next]_algorithmVars

-----------------------------------------------------------------------------
(* Scores.                                                                 *)

\* b is at least as near as a to a number that is asked for
Nearer(target, a, b) ==
  \/ a = b
  \/ a # None /\ b # None /\ Gap(target, b) <= Gap(target, a)

NearerEra(era, a, b) ==
  \/ a = b
  \/ era = "no_preference"
  \/ /\ a # None /\ b # None
     /\ \/ InEra(era, b)
        \/ ~InEra(era, a)
           /\ Nearer(CASE era = "current" -> 2020
                       [] era = "modern_classics" -> 2005
                       [] era = "vintage" -> 1989, a, b)

\* film b has what film a has of what was asked, and is nowhere further from it
AtLeastAsClose(a, b, asked) ==
  /\ asked.genres \cap a.labels \subseteq b.labels
  /\ a.labels # {} \/ b.labels = {} \/ asked.genres \cap b.labels # {}
  /\ a.emotions = b.emotions
  /\ a.contexts = b.contexts
  /\ Nearer(PacingTarget[asked.pacing], a.pacing, b.pacing)
  /\ Nearer(ComplexityTarget[asked.effort], a.complexity, b.complexity)
  /\ Nearer(ObscurityTarget[asked.obscurity], a.obscurity, b.obscurity)
  /\ NearerEra(asked.era, a.year, b.year)

\* A film that fits at least as well, and was recommended alike, never scores
\* below: not at the borders of an era, nor for a label more.
CloserScoresHigher ==
  task = "compare" /\ output # None =>
    \A i, j \in 1..2 :
      /\ input.rows[i] = input.rows[j]
      /\ AtLeastAsClose(input.films[i], input.films[j], input.asked)
      => output.scores[i] <= output.scores[j]

\* Of two films that fit alike, one that was never recommended is not scored
\* below one that was, however long ago.
FreshFilmsLead ==
  task = "compare" /\ output # None =>
    \A i, j \in 1..2 :
      /\ input.films[i] = input.films[j]
      /\ input.rows[j] = None
      => output.scores[i] <= output.scores[j]

-----------------------------------------------------------------------------
(* Matches.                                                                *)

\* A film is matched without a question only to one of its year or the year
\* next to it, or, when the export names no year, to one without a director,
\* and without the flag only where TMDB names no director.
DoubtIsAsked ==
  task = "match" /\ output # None =>
    LET c == input.found[output.chosen] IN
    /\ output.action \in {"auto_accept", "accept_flag"} =>
         IF input.year = Unknown THEN ~c.director
         ELSE c.year # Unknown /\ YearGap(input.year, c.year) <= 1
    /\ output.action = "auto_accept" => ~c.director /\ c.year = input.year

-----------------------------------------------------------------------------
(* Files.                                                                  *)

Wellformed(row) == row.uri # Missing /\ row.title /\ row.year # "bad"

\* the first row of each address
FirstRows(rows) ==
  {i \in DOMAIN rows : \A j \in 1..(i - 1) : rows[j].uri # rows[i].uri}

\* where row i comes among the rows S
Place(i, S) == Cardinality({j \in S : j <= i})

\* A file is taken with the first row of each address, in its order, or
\* refused because one of these is malformed or because they are too many.
FirstRowsKept ==
  task = "read" /\ output # None =>
    LET rows  == input.rows
        first == FirstRows(rows)
    IN  IF /\ input.file = "table"
           /\ Cardinality(first) <= MaxFilms
           /\ \A i \in first : Wellformed(rows[i])
        THEN /\ output.error = Missing
             /\ Len(output.rows) = Cardinality(first)
             /\ \A i \in first : output.rows[Place(i, first)] = rows[i]
             /\ output.duplicates = Len(rows) - Cardinality(first)
        ELSE output.error # Missing

Wellrated(row) == Named(row) /\ row.rating # Invalid
Welldated(row) == Named(row) /\ row.day \notin {Missing, Invalid}

\* the rows of the diary under a key, and those of the ratings with a rating
DiaryOf(diary, key) == {i \in DOMAIN diary : diary[i].key = key}
RatedAt(ratings, key) ==
  {i \in DOMAIN ratings : ratings[i].key = key /\ ratings[i].rating # Missing}

LastRating(ratings, key) ==
  IF RatedAt(ratings, key) = {} THEN Missing ELSE ratings[Max(RatedAt(ratings, key))].rating

\* A watched export is taken as a whole or refused.  Each watched film gets, in
\* the order of the diary, every day the diary has under its name and year, or
\* else the default day, and on each the last rating it was given; only days
\* of the diary without a rating wait for a review.
EachWatchIsPlanned ==
  task = "merge" /\ output # None =>
    LET good == /\ \A i \in 1..3 : input.files[i] = "table"
                /\ input.watched # <<>>
                /\ \A i \in DOMAIN input.watched :
                     Named(input.watched[i]) /\ input.watched[i].uri # Missing
                /\ \A i \in DOMAIN input.ratings : Wellrated(input.ratings[i])
                /\ \A i \in DOMAIN input.diary : Welldated(input.diary[i])
    IN  IF ~good THEN output.error # Missing /\ output.plans = <<>>
        ELSE /\ Len(output.plans) = Len(input.watched)
             /\ \A i \in DOMAIN input.watched :
                  LET entries == DiaryOf(input.diary, input.watched[i].key)
                      score   == LastRating(input.ratings, input.watched[i].key)
                      events  == output.plans[i].events
                  IN  /\ IF entries = {}
                         THEN Len(events) = 1 /\ events[1].day = DefaultDay
                         ELSE /\ Len(events) = Cardinality(entries)
                              /\ \A k \in entries :
                                   events[Place(k, entries)].day = input.diary[k].day
                      /\ \A k \in DOMAIN events :
                           /\ events[k].score = score
                           /\ ~events[k].completed <=> entries # {} /\ score = Missing

-----------------------------------------------------------------------------
(* Profiles.                                                               *)

\* the same texts but for capitals, blanks and their order
Respelled(texts1, texts2) ==
  \E place \in Bijection(DOMAIN texts1, DOMAIN texts2) :
    \A i \in DOMAIN texts1 : texts2[place[i]].word = texts1[i].word

\* A stored profile is taken for a request only when it asks of every film what
\* the request asks, and it is taken whenever the request differs from the one
\* that stored it only in spelling and order.
ProfileIsOwn ==
  task = "share" /\ output # None =>
    LET stored == input.stored
        asked  == input.asked
    IN  /\ Asked(output.structured) = Asked(Structured(asked))
        /\ Noted(output.notes) = Noted(asked.notes)
        /\ /\ \A a \in Lists : Respelled(stored[a], asked[a])
           /\ \A a \in DOMAIN asked \ (Lists \cup {"notes"}) : stored[a] = asked[a]
           /\ Noted(stored.notes) = Noted(asked.notes)
           => output.hit
=============================================================================
