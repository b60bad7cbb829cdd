---------------------------- MODULE MCAlgorithms ----------------------------
(* Inputs for TLC, at the borders of what the computations tell apart.      *)
EXTENDS Algorithms, TLC

CONSTANTS x, y, u, v, w

\* config.example.yaml
MCWeight ==
  [theme |-> 25, emotional |-> 20, pacing |-> 15, complexity |-> 10, era |-> 10,
   obscurity |-> 5, viewing_context |-> 5, diversity |-> 10]

Wishes ==
  [genres: SUBSET {x, y}, emotions: {{}}, pacing: {"slow_burn", "fast_paced"},
   effort: {"decent_plot"}, era: {"current", "modern_classics", "vintage"},
   obscurity: {"mainstream"}, context: {"solo"}]

Films ==
  [labels: SUBSET {x, y}, emotions: {{}}, pacing: {None, 20, 60},
   complexity: {55}, year: {None, 1960, 1989, 1990, 2019, 2020}, obscurity: {None},
   contexts: {{"solo"}}]

Film == CHOOSE f \in Films : TRUE

Rows ==
  {r \in [recs: 1..7, wins: 0..7, age: {None, 0, 6, 7, 13, 14, 29, 30}] :
     r.wins <= r.recs}

MCComparisons ==
  [asked: Wishes, films: Films \X Films, rows: {<<None, None>>}]
    \cup [asked: {CHOOSE a \in Wishes : TRUE}, films: {<<Film, Film>>},
          rows: Rows \X {None}]

Candidates ==
  [title: {0, 77, 78, 86, 92, 93, 100}, year: {Unknown, 1999, 2000, 2001, 2002},
   director: BOOLEAN, answers: BOOLEAN]

MCMatchings ==
  [year: {Unknown, 2000}, found: {<<>>} \cup {<<c>> : c \in Candidates}
                                   \cup (Candidates \X Candidates)]

FileRows == [uri: {u, v, Missing}, title: BOOLEAN, year: {"none", "good", "bad"}]

MCReadings ==
  [file: {"table"}, rows: SeqOf(FileRows, 3)]
    \cup [file: {"empty", "unreadable"}, rows: {<<>>}]

\* well-formed files, and each way one of them can be wrong
MCMergings ==
  LET watched == [key: Title, uri: {u}, year: {"good"}]
      ratings == [key: Title, rating: Rating \cup {Missing}, year: {"good"}]
      diary   == [key: Title, day: Day, year: {"good"}]
      tables  == <<"table", "table", "table">>
      files   == {"empty", "unreadable", "table"}
  IN  [files: {tables}, watched: BoundedSeq(watched, 2),
       ratings: BoundedSeq(ratings, 3), diary: BoundedSeq(diary, 2)]
        \cup [files: {tables}, watched: {<<r>> : r \in WatchedRow},
              ratings: {<<r>> : r \in RatingRow}, diary: {<<r>> : r \in DiaryRow}]
        \cup [files: files \X files \X files, watched: {<<r>> : r \in watched},
              ratings: {<<>>}, diary: {<<>>}]

\* "No Preference" as the page writes it stands alone
Texts == [word: Word \cup {Empty, NoPreference}, plain: BOOLEAN]
Chosen ==
  {texts \in BoundedSeq(Texts, 2) :
     /\ texts # <<>>
     /\ Len(texts) > 1 => \A i \in DOMAIN texts :
                             texts[i] # [word |-> NoPreference, plain |-> TRUE]}
Plainly == <<[word |-> w, plain |-> TRUE]>>

Asks ==
  [genres: Chosen, emotional_outcomes: {Plainly}, visual_tonal_vibes: {Plainly},
   runtime: {"any"}, viewing_context: {"solo"}, thinking_effort: {"decent_plot"},
   pacing: {"balanced"}, era: {"current", "vintage"}, subtitle_preference: {"yes"},
   obscurity_preference: {"obscure"}, notes: Texts \cup {Omitted}]

MCSharings == [stored: Asks, asked: {q \in Asks : q.era = "current"}]
=============================================================================
