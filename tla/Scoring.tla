------------------------------ MODULE Scoring -------------------------------
(***************************************************************************)
(* The score of a film in a recommendation: how well its stored profile    *)
(* fits the answers (stage 3), and what was recommended before (stage 4).  *)
(* Fits and signals are in thousandths, pacing, complexity and obscurity   *)
(* in tenths, weights in hundredths, ages in days.                         *)
(***************************************************************************)
EXTENDS Integers, FiniteSets

CONSTANTS
  Weight,  \* the scoring section of the configuration
  None

ASSUME WeightAssumption ==
  Weight \in [theme: Nat, emotional: Nat, pacing: Nat, complexity: Nat, era: Nat,
             obscurity: Nat, viewing_context: Nat, diversity: Nat]

Gap(m, n) == IF m < n THEN n - m ELSE m - n

AtLeast(low, n) == IF n < low THEN low ELSE n

AtMost(high, n) == IF n > high THEN high ELSE n

\* _overlap_score; "no preference" is no label
Overlap(wanted, labels) ==
  LET common == wanted \cap labels IN
  CASE wanted = {}                                      -> 750
    [] wanted # {} /\ labels = {}                       -> 350
    [] wanted # {} /\ labels # {} /\ common = {}        -> 250
    [] common # {} -> 500 + (500 * Cardinality(common)) \div Cardinality(wanted)

\* _numeric_fit
NumericFit(target, actual) ==
  IF actual = None THEN 500 ELSE AtLeast(0, 1000 - 10 * Gap(target, actual))

PacingTarget ==
  [slow_burn |-> 30, balanced |-> 55, fast_paced |-> 80, no_preference |-> 50]
ComplexityTarget == [brain_off |-> 30, decent_plot |-> 55, complex_puzzle |-> 80]
ObscurityTarget ==
  [mainstream |-> 25, hidden_gems |-> 55, obscure |-> 80, no_preference |-> 50]

InEra(era, year) ==
  \/ era = "current" /\ year >= 2020
  \/ era = "modern_classics" /\ year \in 1990..2019
  \/ era = "vintage" /\ year < 1990

\* mistake: a film within the era is scored like the others
EraFit_NoPlateau(era, year) ==
  IF era = "no_preference" \/ year = None THEN 750
  ELSE AtLeast(200, CASE era = "current"         -> 1000 - (1000 * Gap(2020, year)) \div 30
                      [] era = "modern_classics" -> 1000 - 40 * Gap(year, 2005)
                      [] era = "vintage"         -> 1000 - 25 * Gap(year, 1989))

\* _era_fit
EraFit(era, year) ==
  IF era = "no_preference" \/ year = None THEN 750
  ELSE IF InEra(era, year) THEN 1000
  ELSE AtLeast(200, CASE era = "current"         -> 1000 - (1000 * (2020 - year)) \div 30
                      [] era = "modern_classics" -> 1000 - 40 * Gap(year, 2005)
                      [] era = "vintage"         -> 1000 - 25 * (year - 1989))

\* score_candidates, _compute_breakdown
Raw(film, asked) ==
    Weight.theme      * Overlap(asked.genres, film.labels)
  + Weight.emotional  * Overlap(asked.emotions, film.emotions)
  + Weight.pacing     * NumericFit(PacingTarget[asked.pacing], film.pacing)
  + Weight.complexity * NumericFit(ComplexityTarget[asked.effort], film.complexity)
  + Weight.era        * EraFit(asked.era, film.year)
  + Weight.obscurity  * NumericFit(ObscurityTarget[asked.obscurity], film.obscurity)
  + Weight.viewing_context * Overlap({asked.context}, film.contexts)

-----------------------------------------------------------------------------

\* _exposure_penalty; None stands for a film without a row
Penalty(row) ==
  IF row = None THEN 0 ELSE AtMost(500, 50 * row.recs + 100 * row.wins)

\* mistake: a long absence is worth more than a first recommendation
Freshness_Longing(row) ==
  CASE row = None \/ row.age = None -> 300
    [] row.age >= 30                -> 400
    [] OTHER                        -> 0

\* _freshness_bonus; a row keeps no date when the session that set it is gone
Freshness(row) ==
  IF row = None THEN 300
  ELSE IF row.age = None THEN 300
  ELSE CASE row.age >= 30          -> 350
         [] row.age \in 14..29     -> 200
         [] row.age \in 7..13      -> 100
         [] row.age < 7            -> 0

Signal(row) == Freshness(row) - Penalty(row)

\* apply_diversity
Final(film, asked, row) == Raw(film, asked) + Weight.diversity * Signal(row)
=============================================================================
