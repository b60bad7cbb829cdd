----------------------------- MODULE Confidence -----------------------------
(***************************************************************************)
(* Which of TMDB's answers a film of an import is matched to, and whether  *)
(* the user is asked.  Similarities and scores of the parts are in         *)
(* hundredths, the confidence in ten-thousandths.                          *)
(***************************************************************************)
EXTENDS Integers, Sequences

CONSTANT Unknown

\* A candidate: how alike the titles are, TMDB's year and whether TMDB names
\* a director; answers: its three requests were answered.
Candidate ==
  [title: 0..100, year: Int \cup {Unknown}, director: BOOLEAN, answers: BOOLEAN]

YearGap(m, n) == IF m < n THEN n - m ELSE m - n

\* mistake: two years apart will do
YearScore_Wide(year, tmdbYear) ==
  IF year = Unknown THEN 50
  ELSE IF tmdbYear = Unknown THEN 0
  ELSE IF year = tmdbYear THEN 100
  ELSE IF YearGap(year, tmdbYear) <= 2 THEN 90
  ELSE 0

YearScore(year, tmdbYear) ==
  IF year = Unknown THEN 50
  ELSE IF tmdbYear = Unknown THEN 0
  ELSE IF year = tmdbYear THEN 100
  ELSE IF YearGap(year, tmdbYear) = 1 THEN 70
  ELSE 0

\* compute_confidence.  enrich_film passes no director of its own, so a
\* director TMDB names scores 0.5; without one the other weights are scaled up
\* and the quotient is rounded.
Score(c, year) ==
  LET known == 55 * c.title + 30 * YearScore(year, c.year)
  IN  IF c.director THEN known + 15 * 50 ELSE (200 * known + 85) \div 170

\* confidence_action
Action(score) ==
  IF score >= 9500 THEN "auto_accept"
  ELSE IF score >= 8000 THEN "accept_flag"
  ELSE "manual_review"

\* the first five results whose requests were answered
Answered(found) ==
  {i \in DOMAIN found : i <= 5 /\ found[i].answers}

\* the first of the best
Best(found, year) ==
  CHOOSE i \in Answered(found) : \A j \in Answered(found) :
    /\ Score(found[j], year) <= Score(found[i], year)
    /\ j < i => Score(found[j], year) < Score(found[i], year)

\* enrich_film: 0 and "failed" when there is nothing to decide on
Decision(found, year) ==
  IF Answered(found) = {} THEN [chosen |-> 0, action |-> "failed"]
  ELSE LET i == Best(found, year)
       IN  [chosen |-> i, action |-> Action(Score(found[i], year))]
=============================================================================
