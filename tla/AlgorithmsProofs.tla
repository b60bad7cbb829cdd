-------------------------- MODULE AlgorithmsProofs --------------------------
(***************************************************************************)
(* What the computations give for every input of the right shape: how      *)
(* scores compare and how large they get, when a match is accepted, what   *)
(* files of any length are read as, and whose profile a request uses.      *)
(* Files are read row by row: the proofs follow the rows with the          *)
(* induction of module Recursions.                                         *)
(***************************************************************************)
EXTENDS Algorithms, Recursions

-----------------------------------------------------------------------------
(* Scores.                                                                 *)

LEMMA OverlapIsInt ==
  ASSUME NEW wanted, NEW labels, IsFiniteSet(wanted)
  PROVE  Overlap(wanted, labels) \in Int
<1>1. IsFiniteSet(wanted \cap labels)
  BY FS_Subset
<1>2. Cardinality(wanted) \in Nat /\ Cardinality(wanted \cap labels) \in Nat
  BY <1>1, FS_CardinalityType
<1>3. wanted # {} => Cardinality(wanted) > 0
  BY <1>2, FS_EmptySet
<1>4. wanted # {} =>
        (500 * Cardinality(wanted \cap labels)) \div Cardinality(wanted) \in Int
  BY <1>2, <1>3
<1>5. wanted \cap labels # {} => wanted # {}
  OBVIOUS
<1> QED
  BY <1>4, <1>5 DEF Overlap

LEMMA NumericFitIsInt ==
  ASSUME NEW target \in Int, NEW actual \in Int \cup {None}
  PROVE  NumericFit(target, actual) \in Int
BY NoneAssumption DEF NumericFit, AtLeast, Gap

LEMMA EraFitIsInt ==
  ASSUME NEW year \in Int \cup {None},
         NEW era \in {"current", "modern_classics", "vintage", "no_preference"}
  PROVE  EraFit(era, year) \in Int
<1>1. CASE era = "no_preference" \/ year = None
  BY <1>1 DEF EraFit
<1>2. CASE era # "no_preference" /\ year \in Int
  <2>1. (1000 * (2020 - year)) \div 30 \in Int
    BY <1>2
  <2> QED
    BY <1>2, <2>1, NoneAssumption DEF EraFit, AtLeast, Gap
<1> QED
  BY <1>1, <1>2

LEMMA RawIsInt ==
  ASSUME NEW c \in Comparisons, NEW i \in 1..2
  PROVE  Raw(c.films[i], c.asked) \in Int
<1> DEFINE film == c.films[i]
           asked == c.asked
<1>1. /\ Overlap(asked.genres, film.labels) \in Int
      /\ Overlap(asked.emotions, film.emotions) \in Int
  BY OverlapIsInt, ComparisonAssumption
<1>2. Overlap({asked.context}, film.contexts) \in Int
  BY OverlapIsInt, FS_Singleton
<1>3. /\ film.pacing \in Int \cup {None} /\ film.complexity \in Int \cup {None}
      /\ film.year \in Int \cup {None} /\ film.obscurity \in Int \cup {None}
  BY ComparisonAssumption
<1>4. /\ PacingTarget[asked.pacing] \in Int
      /\ ComplexityTarget[asked.effort] \in Int
      /\ ObscurityTarget[asked.obscurity] \in Int
  BY ComparisonAssumption DEF PacingTarget, ComplexityTarget, ObscurityTarget
<1>5. /\ NumericFit(PacingTarget[asked.pacing], film.pacing) \in Int
      /\ NumericFit(ComplexityTarget[asked.effort], film.complexity) \in Int
      /\ NumericFit(ObscurityTarget[asked.obscurity], film.obscurity) \in Int
  BY <1>3, <1>4, NumericFitIsInt
<1>6. EraFit(asked.era, film.year) \in Int
  BY <1>3, EraFitIsInt, ComparisonAssumption
<1>7. /\ Weight.theme \in Int /\ Weight.emotional \in Int /\ Weight.pacing \in Int
      /\ Weight.complexity \in Int /\ Weight.era \in Int /\ Weight.obscurity \in Int
      /\ Weight.viewing_context \in Int
  BY WeightAssumption
<1>8. \A m, n \in Int : m * n \in Int /\ m + n \in Int
  OBVIOUS
<1> QED
  BY <1>1, <1>2, <1>5, <1>6, <1>7, <1>8 DEF Raw

\* The freshness of a first recommendation is no less than what any row leaves.
LEMMA NewSignalIsHighest ==
  ASSUME NEW row \in StoredRows \cup {None}
  PROVE  Signal(row) \in Int /\ Signal(row) <= Signal(None)
<1>1. Signal(None) = 300
  BY DEF Signal, Freshness, Penalty
<1>2. CASE row \in StoredRows
  <2>1. /\ row # None
        /\ row.recs \in Nat \ {0} /\ row.wins \in Nat
        /\ row.age \in Nat \cup {None}
    BY <1>2, NoneAssumption DEF StoredRows
  <2>2. Freshness(row) \in {0, 100, 200, 300, 350}
    BY <2>1, NoneAssumption DEF Freshness
  <2>3. Penalty(row) \in Int /\ Penalty(row) >= 50
    BY <2>1 DEF Penalty, AtMost
  <2> QED
    BY <1>1, <2>2, <2>3 DEF Signal
<1> QED
  BY <1>1, <1>2

\* Of two films that fit alike, the one never recommended does not score below.
THEOREM NewFilmsLead == Spec => []FreshFilmsLead
<1> DEFINE Scored ==
      /\ task = "compare" => input \in Comparisons
      /\ task = "compare" /\ output # None =>
           output = [scores |-> [i \in 1..2 |->
                       Final(input.films[i], input.asked, input.rows[i])]]
<1>1. Init => Scored
  BY DEF Init
<1>2. Scored /\ [Next]_algorithmVars => Scored'
  BY DEF Next, Compare, MatchFilm, ReadFile, MergeFiles, ShareProfile, algorithmVars
<1>3. Scored => FreshFilmsLead
  <2> SUFFICES ASSUME Scored, task = "compare", output # None,
                      NEW i \in 1..2, NEW j \in 1..2,
                      input.films[i] = input.films[j], input.rows[j] = None
               PROVE  output.scores[i] <= output.scores[j]
    BY DEF FreshFilmsLead
  <2> DEFINE raw == Raw(input.films[i], input.asked)
             signal == Signal(input.rows[i])
             new == Signal(None)
             weight == Weight.diversity
  <2>1. raw \in Int
    BY RawIsInt
  <2>2. input.rows[i] \in StoredRows \cup {None}
    BY ComparisonAssumption
  <2>3. signal \in Int /\ new \in Int /\ signal <= new
    BY <2>2, NewSignalIsHighest
  <2>4. weight \in Nat
    BY WeightAssumption
  <2>5. /\ output.scores[i] = raw + weight * signal
        /\ output.scores[j] = raw + weight * new
    BY DEF Final
  <2>6. \A w \in Nat : \A s, t \in Int : s <= t => w * s <= w * t
    OBVIOUS
  <2>7. weight * signal <= weight * new
    <3> HIDE DEF signal, new, weight
    <3> QED
      BY <2>3, <2>4, <2>6
  <2>8. weight * signal \in Int /\ weight * new \in Int
    <3> HIDE DEF signal, new, weight
    <3> QED
      BY <2>3, <2>4
  <2> QED
    <3> HIDE DEF raw, signal, new, weight
    <3> QED
      BY <2>1, <2>5, <2>7, <2>8
<1> QED
  BY <1>1, <1>2, <1>3, PTL DEF Spec

\* Division and multiplication keep the order of numbers.
LEMMA QuotientsAreOrdered ==
  ASSUME NEW c \in Nat \ {0}, NEW m \in Nat, NEW n \in Nat, m <= n
  PROVE  m \div c \in Nat /\ m \div c <= n \div c
<1> DEFINE p == m \div c
           q == n \div c
<1>1. p \in Nat /\ q \in Nat
  OBVIOUS
<1>2. c * p <= m /\ n < c * (q + 1)
  OBVIOUS
<1> HIDE DEF p, q
<1>3. ASSUME p > q
      PROVE  FALSE
  <2>1. c * (q + 1) <= c * p
    <3>1. \A a, b \in Nat : a <= b => c * a <= c * b
      OBVIOUS
    <3> QED
      BY <1>1, <1>3, <3>1
  <2> DEFINE low == c * p
             high == c * (q + 1)
  <2>2. low \in Nat /\ high \in Nat
    BY <1>1
  <2> HIDE DEF low, high
  <2>3. high <= low /\ low <= m /\ n < high
    BY <1>2, <2>1 DEF low, high
  <2> QED
    BY <2>2, <2>3
<1> QED
  BY <1>1, <1>3 DEF p, q

LEMMA ProductsAreOrdered ==
  ASSUME NEW w \in Nat, NEW m \in Int, NEW n \in Int, m <= n
  PROVE  w * m \in Int /\ w * n \in Int /\ w * m <= w * n
OBVIOUS

\* A label more of what is wanted is no loss.
LEMMA OverlapIsMonotone ==
  ASSUME NEW wanted, NEW a, NEW b, IsFiniteSet(wanted),
         wanted \cap a \subseteq b,
         a # {} \/ b = {} \/ wanted \cap b # {}
  PROVE  Overlap(wanted, a) <= Overlap(wanted, b)
<1> DEFINE all == Cardinality(wanted)
           here == Cardinality(wanted \cap a)
           there == Cardinality(wanted \cap b)
<1>1. IsFiniteSet(wanted \cap b) /\ wanted \cap a \subseteq wanted \cap b
  BY FS_Subset
<1>2. /\ all \in Nat /\ here \in Nat /\ there \in Nat /\ here <= there
      /\ wanted # {} => all # 0
  <2>1. IsFiniteSet(wanted \cap a) /\ here <= there
    BY <1>1, FS_Subset
  <2> QED
    BY <1>1, <2>1, FS_CardinalityType, FS_EmptySet
<1>3. wanted # {} =>
        /\ (500 * here) \div all \in Nat /\ (500 * there) \div all \in Nat
        /\ (500 * here) \div all <= (500 * there) \div all
  <2> HIDE DEF all, here, there
  <2>1. 500 * here \in Nat /\ 500 * there \in Nat /\ 500 * here <= 500 * there
    BY <1>2
  <2> QED
    BY <1>2, <2>1, QuotientsAreOrdered
<1> DEFINE less == (500 * here) \div all
           more == (500 * there) \div all
<1>4. /\ Overlap(wanted, a) = IF wanted = {} THEN 750 ELSE IF a = {} THEN 350
                              ELSE IF wanted \cap a = {} THEN 250 ELSE 500 + less
      /\ Overlap(wanted, b) = IF wanted = {} THEN 750 ELSE IF b = {} THEN 350
                              ELSE IF wanted \cap b = {} THEN 250 ELSE 500 + more
  BY DEF Overlap
<1> HIDE DEF less, more, all, here, there
<1>5. wanted # {} => less \in Nat /\ more \in Nat /\ less <= more
  BY <1>3 DEF less, more
<1>6. wanted \cap a # {} => b # {} /\ wanted \cap b # {}
  BY <1>1
<1> QED
  BY <1>4, <1>5, <1>6

\* Nor is being nearer to the number that is asked for,
LEMMA NearerFitsBetter ==
  ASSUME NEW target \in Int, NEW a \in Int \cup {None}, NEW b \in Int \cup {None},
         Nearer(target, a, b)
  PROVE  NumericFit(target, a) <= NumericFit(target, b)
<1>1. CASE a = b
  BY <1>1, NumericFitIsInt
<1>2. CASE a # b
  <2>1. a \in Int /\ b \in Int /\ Gap(target, b) <= Gap(target, a)
    BY <1>2 DEF Nearer
  <2> QED
    BY <2>1, NoneAssumption DEF NumericFit, AtLeast, Gap
<1> QED
  BY <1>1, <1>2

\* or to the years of the era, across its borders too.
LEMMA NearerEraFitsBetter ==
  ASSUME NEW era \in {"current", "modern_classics", "vintage", "no_preference"},
         NEW a \in Int \cup {None}, NEW b \in Int \cup {None},
         NearerEra(era, a, b)
  PROVE  EraFit(era, a) <= EraFit(era, b)
<1>1. CASE a = b \/ era = "no_preference"
  <2>1. EraFit(era, a) = EraFit(era, b) /\ EraFit(era, a) \in Int
    BY <1>1, EraFitIsInt DEF EraFit
  <2> QED
    BY <2>1
<1>2. CASE a # b /\ era # "no_preference"
  <2>1. a \in Int /\ b \in Int /\ a # None /\ b # None
    BY <1>2 DEF NearerEra
  <2> DEFINE Lost(y) == (1000 * (2020 - y)) \div 30
  <2>2. \A y \in Int : y < 2020 => Lost(y) \in Nat
    <3> SUFFICES ASSUME NEW y \in Int, y < 2020
                 PROVE  Lost(y) \in Nat
      OBVIOUS
    <3>1. 1000 * (2020 - y) \in Nat /\ 30 \in Nat \ {0}
      OBVIOUS
    <3> QED
      BY <3>1, QuotientsAreOrdered
  <2>3. \A y, z \in Int : y < 2020 /\ z <= y => Lost(y) <= Lost(z)
    <3> SUFFICES ASSUME NEW y \in Int, NEW z \in Int, y < 2020, z <= y
                 PROVE  Lost(y) <= Lost(z)
      OBVIOUS
    <3>1. /\ 1000 * (2020 - y) \in Nat /\ 1000 * (2020 - z) \in Nat /\ 30 \in Nat \ {0}
          /\ 1000 * (2020 - y) <= 1000 * (2020 - z)
      OBVIOUS
    <3> QED
      BY <3>1, QuotientsAreOrdered
  <2>4. \A y \in Int : y # None =>
          EraFit(era, y) =
            IF InEra(era, y) THEN 1000
            ELSE AtLeast(200, CASE era = "current"         -> 1000 - Lost(y)
                                [] era = "modern_classics" -> 1000 - 40 * Gap(y, 2005)
                                [] era = "vintage"         -> 1000 - 25 * (y - 1989))
    BY <1>2 DEF EraFit
  <2> HIDE DEF Lost
  <2>5. CASE InEra(era, b)
    <3>1. EraFit(era, b) = 1000
      BY <2>1, <2>4, <2>5
    <3>2. EraFit(era, a) <= 1000
      <4>1. CASE era = "current"
        BY <2>1, <2>2, <2>4, <4>1 DEF AtLeast, InEra
      <4>2. CASE era = "modern_classics"
        BY <2>1, <2>4, <4>2 DEF AtLeast, Gap
      <4>3. CASE era = "vintage"
        BY <2>1, <2>4, <4>3 DEF AtLeast, InEra
      <4> QED
        BY <1>2, <4>1, <4>2, <4>3
    <3> QED
      BY <3>1, <3>2
  <2>6. CASE ~InEra(era, b)
    <3>1. ~InEra(era, a)
      BY <1>2, <2>6 DEF NearerEra
    <3>2. CASE era = "current"
      <4>1. Gap(2020, b) <= Gap(2020, a) /\ a < 2020 /\ b < 2020
        BY <1>2, <2>1, <2>6, <3>1, <3>2 DEF NearerEra, Nearer, InEra
      <4>2. a <= b
        BY <2>1, <4>1 DEF Gap
      <4>3. Lost(b) <= Lost(a) /\ Lost(a) \in Nat /\ Lost(b) \in Nat
        BY <2>1, <2>2, <2>3, <4>1, <4>2
      <4>4. EraFit(era, a) = AtLeast(200, 1000 - Lost(a))
        BY <2>1, <2>4, <3>1, <3>2
      <4>5. EraFit(era, b) = AtLeast(200, 1000 - Lost(b))
        BY <2>1, <2>4, <2>6, <3>2
      <4> QED
        BY <4>3, <4>4, <4>5 DEF AtLeast
    <3>3. CASE era = "modern_classics"
      <4>1. Gap(2005, b) <= Gap(2005, a)
        BY <1>2, <2>1, <2>6, <3>1, <3>3 DEF NearerEra, Nearer
      <4>2. /\ EraFit(era, a) = AtLeast(200, 1000 - 40 * Gap(a, 2005))
            /\ EraFit(era, b) = AtLeast(200, 1000 - 40 * Gap(b, 2005))
        BY <2>1, <2>4, <2>6, <3>1, <3>3
      <4> QED
        BY <2>1, <4>1, <4>2 DEF AtLeast, Gap
    <3>4. CASE era = "vintage"
      <4>1. Gap(1989, b) <= Gap(1989, a) /\ a >= 1990 /\ b >= 1990
        BY <1>2, <2>1, <2>6, <3>1, <3>4 DEF NearerEra, Nearer, InEra
      <4>2. /\ EraFit(era, a) = AtLeast(200, 1000 - 25 * (a - 1989))
            /\ EraFit(era, b) = AtLeast(200, 1000 - 25 * (b - 1989))
        BY <2>1, <2>4, <2>6, <3>1, <3>4
      <4> QED
        BY <2>1, <4>1, <4>2 DEF AtLeast, Gap
    <3> QED
      BY <1>2, <3>2, <3>3, <3>4
  <2> QED
    BY <2>5, <2>6
<1> QED
  BY <1>1, <1>2

\* A film that fits at least as well in every part has at least the raw score.
LEMMA CloserRawIsHigher ==
  ASSUME NEW c \in Comparisons, NEW i \in 1..2, NEW j \in 1..2,
         AtLeastAsClose(c.films[i], c.films[j], c.asked)
  PROVE  Raw(c.films[i], c.asked) <= Raw(c.films[j], c.asked)
<1> DEFINE asked == c.asked
           a == c.films[i]
           b == c.films[j]
           pacing == PacingTarget[asked.pacing]
           complexity == ComplexityTarget[asked.effort]
           obscurity == ObscurityTarget[asked.obscurity]
           fitA == [theme |-> Overlap(asked.genres, a.labels),
                    emotional |-> Overlap(asked.emotions, a.emotions),
                    pacing |-> NumericFit(pacing, a.pacing),
                    complexity |-> NumericFit(complexity, a.complexity),
                    era |-> EraFit(asked.era, a.year),
                    obscurity |-> NumericFit(obscurity, a.obscurity),
                    viewing_context |-> Overlap({asked.context}, a.contexts)]
           fitB == [theme |-> Overlap(asked.genres, b.labels),
                    emotional |-> Overlap(asked.emotions, b.emotions),
                    pacing |-> NumericFit(pacing, b.pacing),
                    complexity |-> NumericFit(complexity, b.complexity),
                    era |-> EraFit(asked.era, b.year),
                    obscurity |-> NumericFit(obscurity, b.obscurity),
                    viewing_context |-> Overlap({asked.context}, b.contexts)]
<1>1. /\ IsFiniteSet(asked.genres) /\ IsFiniteSet(asked.emotions)
      /\ IsFiniteSet({asked.context})
      /\ asked.era \in {"current", "modern_classics", "vintage", "no_preference"}
  BY ComparisonAssumption, FS_Singleton
<1>2. /\ pacing \in Int /\ complexity \in Int /\ obscurity \in Int
  BY ComparisonAssumption DEF PacingTarget, ComplexityTarget, ObscurityTarget
<1>3. /\ a.pacing \in Int \cup {None} /\ a.complexity \in Int \cup {None}
      /\ a.year \in Int \cup {None} /\ a.obscurity \in Int \cup {None}
      /\ b.pacing \in Int \cup {None} /\ b.complexity \in Int \cup {None}
      /\ b.year \in Int \cup {None} /\ b.obscurity \in Int \cup {None}
  BY ComparisonAssumption
<1>4. /\ asked.genres \cap a.labels \subseteq b.labels
      /\ a.labels # {} \/ b.labels = {} \/ asked.genres \cap b.labels # {}
      /\ a.emotions = b.emotions
      /\ a.contexts = b.contexts
      /\ Nearer(pacing, a.pacing, b.pacing)
      /\ Nearer(complexity, a.complexity, b.complexity)
      /\ Nearer(obscurity, a.obscurity, b.obscurity)
      /\ NearerEra(asked.era, a.year, b.year)
  BY DEF AtLeastAsClose
<1> HIDE DEF asked, a, b, pacing, complexity, obscurity
<1>5. fitA.theme \in Int /\ fitB.theme \in Int /\ fitA.theme <= fitB.theme
  BY <1>1, <1>4, OverlapIsInt, OverlapIsMonotone
<1>6. fitA.emotional \in Int /\ fitB.emotional \in Int /\ fitA.emotional <= fitB.emotional
  <2>1. fitA.emotional \in Int /\ fitB.emotional = fitA.emotional
    BY <1>1, <1>4, OverlapIsInt
  <2> QED
    BY <2>1
<1>7. fitA.pacing \in Int /\ fitB.pacing \in Int /\ fitA.pacing <= fitB.pacing
  BY <1>2, <1>3, <1>4, NumericFitIsInt, NearerFitsBetter
<1>8. fitA.complexity \in Int /\ fitB.complexity \in Int /\ fitA.complexity <= fitB.complexity
  BY <1>2, <1>3, <1>4, NumericFitIsInt, NearerFitsBetter
<1>9. fitA.era \in Int /\ fitB.era \in Int /\ fitA.era <= fitB.era
  BY <1>1, <1>3, <1>4, EraFitIsInt, NearerEraFitsBetter
<1>10. fitA.obscurity \in Int /\ fitB.obscurity \in Int /\ fitA.obscurity <= fitB.obscurity
  BY <1>2, <1>3, <1>4, NumericFitIsInt, NearerFitsBetter
<1>11. fitA.viewing_context \in Int /\ fitB.viewing_context \in Int /\ fitA.viewing_context <= fitB.viewing_context
  <2>1. fitA.viewing_context \in Int /\ fitB.viewing_context = fitA.viewing_context
    BY <1>1, <1>4, OverlapIsInt
  <2> QED
    BY <2>1
<1>12. /\ Raw(a, asked) =
            Weight.theme * fitA.theme + Weight.emotional * fitA.emotional + Weight.pacing * fitA.pacing
            + Weight.complexity * fitA.complexity + Weight.era * fitA.era
            + Weight.obscurity * fitA.obscurity + Weight.viewing_context * fitA.viewing_context
       /\ Raw(b, asked) =
            Weight.theme * fitB.theme + Weight.emotional * fitB.emotional + Weight.pacing * fitB.pacing
            + Weight.complexity * fitB.complexity + Weight.era * fitB.era
            + Weight.obscurity * fitB.obscurity + Weight.viewing_context * fitB.viewing_context
  BY DEF Raw, pacing, complexity, obscurity
<1>13. /\ Weight.theme \in Nat /\ Weight.emotional \in Nat /\ Weight.pacing \in Nat
       /\ Weight.complexity \in Nat /\ Weight.era \in Nat /\ Weight.obscurity \in Nat
       /\ Weight.viewing_context \in Nat
  BY WeightAssumption
<1> HIDE DEF fitA, fitB
<1> DEFINE p1 == Weight.theme * fitA.theme
           p2 == Weight.emotional * fitA.emotional
           p3 == Weight.pacing * fitA.pacing
           p4 == Weight.complexity * fitA.complexity
           p5 == Weight.era * fitA.era
           p6 == Weight.obscurity * fitA.obscurity
           p7 == Weight.viewing_context * fitA.viewing_context
           g1 == Weight.theme * fitB.theme
           g2 == Weight.emotional * fitB.emotional
           g3 == Weight.pacing * fitB.pacing
           g4 == Weight.complexity * fitB.complexity
           g5 == Weight.era * fitB.era
           g6 == Weight.obscurity * fitB.obscurity
           g7 == Weight.viewing_context * fitB.viewing_context
<1>14. p1 \in Int /\ g1 \in Int /\ p1 <= g1
  BY <1>5, <1>13, ProductsAreOrdered
<1>15. p2 \in Int /\ g2 \in Int /\ p2 <= g2
  BY <1>6, <1>13, ProductsAreOrdered
<1>16. p3 \in Int /\ g3 \in Int /\ p3 <= g3
  BY <1>7, <1>13, ProductsAreOrdered
<1>17. p4 \in Int /\ g4 \in Int /\ p4 <= g4
  BY <1>8, <1>13, ProductsAreOrdered
<1>18. p5 \in Int /\ g5 \in Int /\ p5 <= g5
  BY <1>9, <1>13, ProductsAreOrdered
<1>19. p6 \in Int /\ g6 \in Int /\ p6 <= g6
  BY <1>10, <1>13, ProductsAreOrdered
<1>20. p7 \in Int /\ g7 \in Int /\ p7 <= g7
  BY <1>11, <1>13, ProductsAreOrdered
<1> HIDE DEF p1, p2, p3, p4, p5, p6, p7, g1, g2, g3, g4, g5, g6, g7
<1>21. /\ Raw(a, asked) = p1 + p2 + p3 + p4 + p5 + p6 + p7
       /\ Raw(b, asked) = g1 + g2 + g3 + g4 + g5 + g6 + g7
  BY <1>12 DEF p1, p2, p3, p4, p5, p6, p7, g1, g2, g3, g4, g5, g6, g7
<1>22. Raw(a, asked) <= Raw(b, asked)
  BY <1>14, <1>15, <1>16, <1>17, <1>18, <1>19, <1>20, <1>21
<1> QED
  BY <1>22 DEF asked, a, b

\* A film that fits at least as well, and was recommended alike, never scores
\* below.
THEOREM CloserFilmsLead == Spec => []CloserScoresHigher
<1> DEFINE Scored ==
      /\ task = "compare" => input \in Comparisons
      /\ task = "compare" /\ output # None =>
           output = [scores |-> [i \in 1..2 |->
                       Final(input.films[i], input.asked, input.rows[i])]]
<1>1. Init => Scored
  BY DEF Init
<1>2. Scored /\ [Next]_algorithmVars => Scored'
  BY DEF Next, Compare, MatchFilm, ReadFile, MergeFiles, ShareProfile, algorithmVars
<1>3. Scored => CloserScoresHigher
  <2> SUFFICES ASSUME Scored, task = "compare", output # None,
                      NEW i \in 1..2, NEW j \in 1..2,
                      input.rows[i] = input.rows[j],
                      AtLeastAsClose(input.films[i], input.films[j], input.asked)
               PROVE  output.scores[i] <= output.scores[j]
    BY DEF CloserScoresHigher
  <2> DEFINE less == Raw(input.films[i], input.asked)
             more == Raw(input.films[j], input.asked)
             past == Weight.diversity * Signal(input.rows[i])
  <2>1. less \in Int /\ more \in Int /\ less <= more
    BY RawIsInt, CloserRawIsHigher
  <2>2. past \in Int
    <3>1. Signal(input.rows[i]) \in Int /\ Weight.diversity \in Nat
      BY ComparisonAssumption, NewSignalIsHighest, WeightAssumption
    <3> QED
      BY <3>1
  <2>3. output.scores[i] = less + past /\ output.scores[j] = more + past
    BY DEF Final
  <2> HIDE DEF less, more, past
  <2> QED
    BY <2>1, <2>2, <2>3
<1> QED
  BY <1>1, <1>2, <1>3, PTL DEF Spec

\* How large a score gets.  The ranges have names so that the lemmas about
\* them are found by the terms they bound.
Thousandths == 0..1000
UpTo(n) == 0..n

LEMMA OverlapIsBounded ==
  ASSUME NEW wanted, NEW labels, IsFiniteSet(wanted)
  PROVE  Overlap(wanted, labels) \in Thousandths
<1> DEFINE n == Cardinality(wanted)
           k == Cardinality(wanted \cap labels)
<1>1. n \in Nat /\ k \in Nat /\ k <= n
  BY FS_Subset, FS_CardinalityType
<1>2. wanted # {} => n > 0
  BY <1>1, FS_EmptySet
<1>3. wanted # {} => (500 * k) \div n \in 0..500
  <2> SUFFICES ASSUME n > 0
               PROVE  (500 * k) \div n \in 0..500
    BY <1>2
  <2> HIDE DEF n, k
  <2>1. 500 * k \in Nat /\ 500 * k <= 500 * n
    BY <1>1
  <2>2. (500 * k) \div n \in Nat /\ ((500 * k) \div n) * n <= 500 * k
    BY <1>1, <2>1
  <2> DEFINE q == (500 * k) \div n
  <2>3. q \in Nat /\ q * n <= 500 * n
    BY <1>1, <2>1, <2>2
  <2> HIDE DEF q
  <2>4. q <= 500
    <3>1. SUFFICES ASSUME q >= 501 PROVE FALSE
      BY <2>3
    <3>2. q * n >= 501 * n
      BY <1>1, <2>3, <3>1
    <3> QED
      BY <1>1, <2>3, <3>2
  <2> QED
    BY <2>3, <2>4 DEF q
<1> QED
  BY <1>2, <1>3 DEF Overlap, Thousandths

LEMMA NumericFitIsBounded ==
  ASSUME NEW target \in Int, NEW actual \in Int \cup {None}
  PROVE  NumericFit(target, actual) \in Thousandths
BY NoneAssumption DEF NumericFit, AtLeast, Gap, Thousandths

LEMMA EraFitIsBounded ==
  ASSUME NEW year \in Int \cup {None},
         NEW era \in {"current", "modern_classics", "vintage", "no_preference"}
  PROVE  EraFit(era, year) \in Thousandths
<1>1. CASE era = "no_preference" \/ year = None \/ InEra(era, year)
  <2>1. EraFit(era, year) = 750 \/ EraFit(era, year) = 1000
    BY <1>1 DEF EraFit
  <2> QED
    BY <2>1 DEF Thousandths
<1>2. CASE era # "no_preference" /\ year \in Int /\ ~InEra(era, year)
  <2>1. CASE era = "current"
    <3>1. 2020 - year > 0 /\ (1000 * (2020 - year)) \div 30 >= 0
      BY <1>2, <2>1 DEF InEra
    <3>2. EraFit(era, year) = AtLeast(200, 1000 - (1000 * (2020 - year)) \div 30)
      BY <1>2, <2>1, NoneAssumption DEF EraFit
    <3>3. (1000 * (2020 - year)) \div 30 \in Int
      BY <1>2
    <3> QED
      BY <3>1, <3>2, <3>3 DEF Thousandths, AtLeast
  <2>2. CASE era = "modern_classics"
    <3>1. EraFit(era, year) = AtLeast(200, 1000 - 40 * Gap(year, 2005))
      BY <1>2, <2>2, NoneAssumption DEF EraFit
    <3> QED
      BY <1>2, <3>1 DEF Thousandths, AtLeast, Gap
  <2>3. CASE era = "vintage"
    <3>1. EraFit(era, year) = AtLeast(200, 1000 - 25 * (year - 1989))
      BY <1>2, <2>3, NoneAssumption DEF EraFit
    <3>2. year >= 1990
      BY <1>2, <2>3 DEF InEra
    <3> QED
      BY <1>2, <3>1, <3>2 DEF Thousandths, AtLeast
  <2> QED
    BY <1>2, <2>1, <2>2, <2>3
<1> QED
  BY <1>1, <1>2

\* a share of a score is at most its weight
Share(w, x) == w * x

LEMMA ShareIsBounded ==
  ASSUME NEW w \in Nat, NEW x \in Thousandths
  PROVE  Share(w, x) \in UpTo(1000 * w)
BY DEF Share, Thousandths, UpTo

LEMMA SignalIsBounded ==
  ASSUME NEW row \in StoredRows \cup {None}
  PROVE  Signal(row) \in Int /\ -500 <= Signal(row) /\ Signal(row) <= 350
<1>1. CASE row = None
  <2>1. Freshness(row) = 300 /\ Penalty(row) = 0
    BY <1>1 DEF Freshness, Penalty
  <2> QED
    BY <2>1 DEF Signal
<1>2. CASE row # None
  <2>1. row.recs \in Nat /\ row.wins \in Nat /\ row.age \in Nat \cup {None}
    BY <1>2 DEF StoredRows
  <2>2. Freshness(row) \in {0, 100, 200, 300, 350}
    BY <1>2, <2>1, NoneAssumption DEF Freshness
  <2>3. Penalty(row) \in 0..500
    BY <1>2, <2>1 DEF Penalty, AtMost
  <2>4. Freshness(row) \in Int /\ 0 <= Freshness(row) /\ Freshness(row) <= 350
    BY <2>2
  <2>5. Penalty(row) \in Int /\ 0 <= Penalty(row) /\ Penalty(row) <= 500
    BY <2>3
  <2> QED
    BY <2>4, <2>5 DEF Signal
<1> QED
  BY <1>1, <1>2

\* The numeric columns of recommendation_candidates take every score: a raw
\* score is between zero and the sum of its weights, which the configuration
\* holds to one together with the weight of diversity; what was recommended
\* before takes half of that weight at most and adds 0.35 of it at most.
THEOREM ScoresAreBounded ==
  ASSUME NEW c \in Comparisons, NEW i \in 1..2
  PROVE  /\ Raw(c.films[i], c.asked) \in
              0..1000 * (Weight.theme + Weight.emotional + Weight.pacing
                         + Weight.complexity + Weight.era + Weight.obscurity
                         + Weight.viewing_context)
         /\ -500 <= Signal(c.rows[i]) /\ Signal(c.rows[i]) <= 350
<1> DEFINE film == c.films[i]
           asked == c.asked
           themes == Overlap(asked.genres, film.labels)
           emotions == Overlap(asked.emotions, film.emotions)
           pacing == NumericFit(PacingTarget[asked.pacing], film.pacing)
           effort == NumericFit(ComplexityTarget[asked.effort], film.complexity)
           era == EraFit(asked.era, film.year)
           obscure == NumericFit(ObscurityTarget[asked.obscurity], film.obscurity)
           context == Overlap({asked.context}, film.contexts)
<1>1. /\ Weight.theme \in Nat /\ Weight.emotional \in Nat /\ Weight.pacing \in Nat
      /\ Weight.complexity \in Nat /\ Weight.era \in Nat /\ Weight.obscurity \in Nat
      /\ Weight.viewing_context \in Nat
  BY WeightAssumption
<1>2. /\ film.pacing \in Int \cup {None} /\ film.complexity \in Int \cup {None}
      /\ film.year \in Int \cup {None} /\ film.obscurity \in Int \cup {None}
  BY ComparisonAssumption
<1>3. /\ PacingTarget[asked.pacing] \in Int
      /\ ComplexityTarget[asked.effort] \in Int
      /\ ObscurityTarget[asked.obscurity] \in Int
  BY ComparisonAssumption DEF PacingTarget, ComplexityTarget, ObscurityTarget
<1>4. /\ IsFiniteSet(asked.genres) /\ IsFiniteSet(asked.emotions)
      /\ IsFiniteSet({asked.context})
      /\ asked.era \in {"current", "modern_classics", "vintage", "no_preference"}
  BY ComparisonAssumption, FS_Singleton
<1>5. c.rows[i] \in StoredRows \cup {None}
  BY ComparisonAssumption
<1> HIDE DEF film, asked
<1>6. themes \in Thousandths /\ emotions \in Thousandths /\ context \in Thousandths
  <2>1. themes \in Thousandths
    BY <1>4, OverlapIsBounded
  <2>2. emotions \in Thousandths
    BY <1>4, OverlapIsBounded
  <2>3. context \in Thousandths
    BY <1>4, OverlapIsBounded
  <2> QED
    BY <2>1, <2>2, <2>3
<1>7. pacing \in Thousandths
  BY <1>2, <1>3, NumericFitIsBounded
<1>8. effort \in Thousandths
  BY <1>2, <1>3, NumericFitIsBounded
<1>9. obscure \in Thousandths
  BY <1>2, <1>3, NumericFitIsBounded
<1>10. era \in Thousandths
  BY <1>2, <1>4, EraFitIsBounded
<1>11. Raw(film, asked) =
           Weight.theme * themes + Weight.emotional * emotions
         + Weight.pacing * pacing + Weight.complexity * effort
         + Weight.era * era + Weight.obscurity * obscure
         + Weight.viewing_context * context
  BY DEF Raw
<1> HIDE DEF themes, emotions, pacing, effort, era, obscure, context
<1>12. Raw(film, asked) \in 0..1000 * (Weight.theme + Weight.emotional
          + Weight.pacing + Weight.complexity + Weight.era + Weight.obscurity
          + Weight.viewing_context)
  <2> DEFINE a == Share(Weight.theme, themes)
             b == Share(Weight.emotional, emotions)
             d == Share(Weight.pacing, pacing)
             e == Share(Weight.complexity, effort)
             g == Share(Weight.era, era)
             h == Share(Weight.obscurity, obscure)
             k == Share(Weight.viewing_context, context)
  <2>1. a \in UpTo(1000 * Weight.theme)
    BY <1>1, <1>6, ShareIsBounded
  <2>2. b \in UpTo(1000 * Weight.emotional)
    BY <1>1, <1>6, ShareIsBounded
  <2>3. d \in UpTo(1000 * Weight.pacing)
    BY <1>1, <1>7, ShareIsBounded
  <2>4. e \in UpTo(1000 * Weight.complexity)
    BY <1>1, <1>8, ShareIsBounded
  <2>5. g \in UpTo(1000 * Weight.era)
    BY <1>1, <1>10, ShareIsBounded
  <2>6. h \in UpTo(1000 * Weight.obscurity)
    BY <1>1, <1>9, ShareIsBounded
  <2>7. k \in UpTo(1000 * Weight.viewing_context)
    BY <1>1, <1>6, ShareIsBounded
  <2>8. Raw(film, asked) = a + b + d + e + g + h + k
    BY <1>11 DEF Share
  <2> HIDE DEF a, b, d, e, g, h, k
  <2> QED
    BY <1>1, <2>1, <2>2, <2>3, <2>4, <2>5, <2>6, <2>7, <2>8 DEF UpTo
<1> QED
  BY <1>5, <1>12, SignalIsBounded DEF film, asked

-----------------------------------------------------------------------------
(* Matches.                                                                *)

LEMMA ScoreIsInt ==
  ASSUME NEW c \in Candidate, NEW year \in Int \cup {Unknown}
  PROVE  Score(c, year) \in Int
<1>1. c.title \in 0..100 /\ c.year \in Int \cup {Unknown} /\ c.director \in BOOLEAN
  BY DEF Candidate
<1>2. YearScore(year, c.year) \in {0, 50, 70, 100}
  BY DEF YearScore
<1> QED
  BY <1>1, <1>2 DEF Score

\* The CHECK on the confidence of a review, and the four digits it is kept
\* with, never refuse a score; and since an import knows no director, a film
\* for which TMDB names one is never matched without being flagged: the best
\* it gets is 0.925.
THEOREM ConfidenceIsBounded ==
  ASSUME NEW c \in Candidate, NEW year \in Int \cup {Unknown}
  PROVE  /\ Score(c, year) \in Int
         /\ 0 <= Score(c, year) /\ Score(c, year) <= 10000
         /\ c.director => Action(Score(c, year)) # "auto_accept"
<1> DEFINE known == 55 * c.title + 30 * YearScore(year, c.year)
<1>1. c.title \in Int /\ 0 <= c.title /\ c.title <= 100 /\ c.director \in BOOLEAN
  BY DEF Candidate
<1>2. /\ YearScore(year, c.year) \in Int
      /\ 0 <= YearScore(year, c.year) /\ YearScore(year, c.year) <= 100
  BY DEF YearScore
<1>3. known \in Int /\ 0 <= known /\ known <= 8500
  BY <1>1, <1>2
<1> HIDE DEF known
<1>4. ASSUME c.director
      PROVE  /\ Score(c, year) \in Int /\ 0 <= Score(c, year)
             /\ Score(c, year) < 9500
  <2>1. Score(c, year) = known + 750
    BY <1>4 DEF Score, known
  <2> QED
    BY <1>3, <2>1
<1>5. ASSUME ~c.director
      PROVE  Score(c, year) \in Int /\ 0 <= Score(c, year) /\ Score(c, year) <= 10000
  <2>1. Score(c, year) = (200 * known + 85) \div 170
    BY <1>5 DEF Score, known
  <2> DEFINE score == (200 * known + 85) \div 170
  <2>2. score \in Int /\ 0 <= score /\ score <= 10000
    BY <1>3
  <2> HIDE DEF score
  <2> QED
    BY <2>1, <2>2 DEF score
<1>6. Score(c, year) \in Int /\ 0 <= Score(c, year) /\ Score(c, year) <= 10000
  BY <1>4, <1>5
<1>7. c.director => Action(Score(c, year)) # "auto_accept"
  <2> SUFFICES ASSUME c.director
               PROVE  ~(Score(c, year) >= 9500)
    BY DEF Action
  <2> QED
    BY <1>4
<1> QED
  BY <1>6, <1>7

\* Among the answered candidates there is a first one of the best.
LEMMA BestIsAnswered ==
  ASSUME NEW found \in Seq(Candidate), NEW year \in Int \cup {Unknown},
         Answered(found) # {}
  PROVE  Best(found, year) \in Answered(found)
<1> DEFINE A == Answered(found)
           s(i) == Score(found[i], year)
           IsBest(i, n) == \A j \in A \cap (1..n) :
                             s(j) <= s(i) /\ (j < i => s(j) < s(i))
           Has(n) == A \cap (1..n) # {} => \E i \in A \cap (1..n) : IsBest(i, n)
<1>1. A \subseteq 1..5 /\ \A i \in A : s(i) \in Int
  <2>1. A \subseteq 1..5
    BY DEF Answered
  <2>2. ASSUME NEW i \in A
        PROVE  s(i) \in Int
    <3>1. found[i] \in Candidate
      BY <2>2 DEF Answered
    <3> QED
      BY <3>1, ScoreIsInt
  <2> QED
    BY <2>1, <2>2
<1> HIDE DEF A, s
<1>2. Has(0)
  OBVIOUS
<1>3. ASSUME NEW n \in Nat, Has(n)
      PROVE  Has(n + 1)
  <2>1. A \cap (1..(n + 1)) \subseteq (A \cap (1..n)) \cup {n + 1}
    BY <1>1
  <2>2. CASE n + 1 \notin A
    <3>1. A \cap (1..(n + 1)) = A \cap (1..n)
      BY <2>1, <2>2
    <3> QED
      BY <1>3, <3>1
  <2>3. CASE n + 1 \in A /\ A \cap (1..n) = {}
    <3>1. A \cap (1..(n + 1)) = {n + 1}
      BY <2>1, <2>3
    <3> QED
      BY <1>1, <2>3, <3>1
  <2>4. CASE n + 1 \in A /\ A \cap (1..n) # {}
    <3>1. PICK i \in A \cap (1..n) : IsBest(i, n)
      BY <1>3, <2>4
    <3>2. CASE s(n + 1) <= s(i)
      <4>1. IsBest(i, n + 1)
        BY <1>1, <2>1, <3>1, <3>2
      <4> QED
        BY <3>1, <4>1
    <3>3. CASE s(n + 1) > s(i)
      <4>1. \A j \in A \cap (1..n) : s(j) < s(n + 1)
        BY <1>1, <2>4, <3>1, <3>3
      <4>2. IsBest(n + 1, n + 1)
        BY <1>1, <2>1, <2>4, <4>1
      <4>3. n + 1 \in A \cap (1..(n + 1))
        BY <2>4
      <4> QED
        BY <4>2, <4>3
    <3>4. s(i) \in Int /\ s(n + 1) \in Int
      BY <1>1, <2>4, <3>1
    <3>5. s(n + 1) <= s(i) \/ s(n + 1) > s(i)
      BY <3>4
    <3> QED
      BY <3>2, <3>3, <3>5, Zenon
  <2> QED
    BY <2>2, <2>3, <2>4
<1>4. Has(5)
  <2> HIDE DEF Has
  <2>1. Has(0 + 1)
    BY <1>2, <1>3
  <2>2. Has(1 + 1)
    BY <1>3, <2>1
  <2>3. Has(2 + 1)
    BY <1>3, <2>2
  <2>4. Has(3 + 1)
    BY <1>3, <2>3
  <2>5. Has(4 + 1)
    BY <1>3, <2>4
  <2> QED
    BY <2>5
<1>5. A \cap (1..5) = A
  BY <1>1
<1>6. \E i \in A : \A j \in A : s(j) <= s(i) /\ (j < i => s(j) < s(i))
  BY <1>4, <1>5 DEF A
<1>7. Best(found, year) =
        CHOOSE i \in A : \A j \in A : s(j) <= s(i) /\ (j < i => s(j) < s(i))
  BY DEF Best, A, s
<1> QED
  BY <1>6, <1>7 DEF A

\* The arithmetic of the thresholds.
LEMMA AcceptedIsAlike ==
  ASSUME NEW c \in Candidate, NEW year \in Int \cup {Unknown}
  PROVE  /\ Score(c, year) >= 8000 =>
              IF year = Unknown THEN ~c.director
              ELSE c.year # Unknown /\ YearGap(year, c.year) <= 1
         /\ Score(c, year) >= 9500 => ~c.director /\ c.year = year
<1>1. c.title \in 0..100 /\ c.year \in Int \cup {Unknown} /\ c.director \in BOOLEAN
  BY DEF Candidate
<1> DEFINE t == c.title
           z == YearScore(year, c.year)
<1>2. z \in {0, 50, 70, 100}
  BY DEF YearScore
<1>3. Score(c, year) = IF c.director THEN 55 * t + 30 * z + 750
                       ELSE (200 * (55 * t + 30 * z) + 85) \div 170
  BY <1>1, <1>2 DEF Score
<1>4. z = 50 => year = Unknown
  BY DEF YearScore
<1>5. z = 100 => year = c.year /\ year # Unknown
  BY DEF YearScore
<1>6. z = 70 => /\ year # Unknown /\ c.year # Unknown /\ YearGap(year, c.year) = 1
  BY DEF YearScore
<1>7. z = 0 => Score(c, year) < 8000
  BY <1>1, <1>3
<1>8. z = 50 /\ c.director => Score(c, year) < 8000
  BY <1>1, <1>3
<1>9. z # 100 => Score(c, year) < 9500
  BY <1>1, <1>2, <1>3
<1>10. c.director => Score(c, year) < 9500
  BY <1>1, <1>2, <1>3
<1>11. year \in Int => YearGap(year, year) = 0
  BY DEF YearGap
<1>12. Score(c, year) \in Int
  BY ScoreIsInt
<1>13. ASSUME Score(c, year) >= 8000
       PROVE  IF year = Unknown THEN ~c.director
              ELSE c.year # Unknown /\ YearGap(year, c.year) <= 1
  <2>1. z # 0
    BY <1>7, <1>12, <1>13
  <2>2. CASE z = 50
    BY <1>1, <1>4, <1>8, <1>12, <1>13, <2>2
  <2>3. CASE z = 70
    BY <1>6, <2>3
  <2>4. CASE z = 100
    BY <1>5, <1>11, <2>4
  <2> HIDE DEF z
  <2> QED
    BY <1>2, <2>1, <2>2, <2>3, <2>4
<1>14. ASSUME Score(c, year) >= 9500
       PROVE  ~c.director /\ c.year = year
  <2>1. z = 100
    BY <1>9, <1>12, <1>14
  <2>2. ~c.director
    BY <1>1, <1>10, <1>12, <1>14
  <2> QED
    BY <1>5, <2>1, <2>2
<1> QED
  BY <1>13, <1>14

\* No match is accepted in silence that the years do not support.
THEOREM MatchesAreSupported == Spec => []DoubtIsAsked
<1> DEFINE Matched ==
      /\ task = "match" => input \in Matchings
      /\ task = "match" /\ output # None => output = Decision(input.found, input.year)
<1>1. Init => Matched
  BY DEF Init
<1>2. Matched /\ [Next]_algorithmVars => Matched'
  BY DEF Next, Compare, MatchFilm, ReadFile, MergeFiles, ShareProfile, algorithmVars
<1>3. Matched => DoubtIsAsked
  <2> SUFFICES ASSUME Matched, task = "match", output # None
               PROVE  LET c == input.found[output.chosen] IN
                      /\ output.action \in {"auto_accept", "accept_flag"} =>
                           IF input.year = Unknown THEN ~c.director
                           ELSE c.year # Unknown /\ YearGap(input.year, c.year) <= 1
                      /\ output.action = "auto_accept" =>
                           ~c.director /\ c.year = input.year
    BY DEF DoubtIsAsked
  <2>1. input.found \in Seq(Candidate) /\ input.year \in Int \cup {Unknown}
    BY MatchingAssumption
  <2>2. CASE Answered(input.found) = {}
    BY <2>2 DEF Decision
  <2>3. CASE Answered(input.found) # {}
    <3> DEFINE i == Best(input.found, input.year)
               c == input.found[i]
    <3>1. i \in Answered(input.found)
      BY <2>1, <2>3, BestIsAnswered
    <3>2. c \in Candidate
      BY <2>1, <3>1 DEF Answered
    <3>3. output.chosen = i /\ output.action = Action(Score(c, input.year))
      BY <2>3 DEF Decision
    <3>4. Score(c, input.year) \in Int
      BY <2>1, <3>2, ScoreIsInt
    <3> HIDE DEF i, c
    <3>5. /\ output.action \in {"auto_accept", "accept_flag"} =>
               Score(c, input.year) >= 8000
          /\ output.action = "auto_accept" => Score(c, input.year) >= 9500
      BY <3>3, <3>4 DEF Action
    <3> DEFINE year == input.year
    <3>6. year \in Int \cup {Unknown}
      BY <2>1
    <3>7. output.chosen = i
      BY <3>3
    <3>8. input.found[output.chosen] = c
      BY <3>7 DEF c
    <3> HIDE DEF year
    <3>9. /\ Score(c, year) >= 8000 =>
               IF year = Unknown THEN ~c.director
               ELSE c.year # Unknown /\ YearGap(year, c.year) <= 1
          /\ Score(c, year) >= 9500 => ~c.director /\ c.year = year
      BY <3>2, <3>6, AcceptedIsAlike
    <3> QED
      BY <3>5, <3>8, <3>9 DEF year
  <2> QED
    BY <2>2, <2>3
<1> QED
  BY <1>1, <1>2, <1>3, PTL DEF Spec

-----------------------------------------------------------------------------
(* Files.                                                                  *)

\* Places among rows: each row of S takes the next place.
LEMMA PlaceSteps ==
  ASSUME NEW N \in Nat, NEW S \in SUBSET (1..N)
  PROVE  /\ Place(0, S) = 0
         /\ Place(N, S) = Cardinality(S)
         /\ \A i \in 0..N : Place(i, S) \in Nat
         /\ \A i \in 1..N :
              Place(i, S) = IF i \in S THEN Place(i - 1, S) + 1 ELSE Place(i - 1, S)
         /\ \A i \in 0..N, k \in S : k <= i => Place(k, S) \in 1..Place(i, S)
<1> DEFINE Upto(i) == {j \in S : j <= i}
<1>0. \A j \in S : j \in 1..N /\ j \in Int /\ j <= N /\ ~(j <= 0)
  <2>1. \A j \in 1..N : j \in Int /\ j <= N /\ ~(j <= 0)
    OBVIOUS
  <2> QED
    BY <2>1
<1>1. IsFiniteSet(S)
  <2>1. IsFiniteSet(1..N)
    BY FS_Interval
  <2> QED
    BY <2>1, FS_Subset
<1>2. ASSUME NEW i \in 0..N
      PROVE  IsFiniteSet(Upto(i)) /\ Place(i, S) = Cardinality(Upto(i)) /\ Place(i, S) \in Nat
  <2>1. IsFiniteSet(Upto(i))
    BY <1>1, FS_Subset
  <2> QED
    BY <2>1, FS_CardinalityType DEF Place
<1>3. Place(0, S) = 0
  <2>1. Upto(0) = {}
    BY <1>0
  <2>2. 0 \in 0..N
    OBVIOUS
  <2> QED
    BY <1>2, <2>1, <2>2, FS_EmptySet
<1>4. Place(N, S) = Cardinality(S)
  <2>1. Upto(N) = S
    BY <1>0
  <2>2. N \in 0..N
    OBVIOUS
  <2> QED
    BY <1>2, <2>1, <2>2
<1>5. ASSUME NEW i \in 1..N
      PROVE  Place(i, S) = IF i \in S THEN Place(i - 1, S) + 1 ELSE Place(i - 1, S)
  <2>1. i \in 0..N /\ i - 1 \in 0..N
    OBVIOUS
  <2>2. CASE i \in S
    <3>1. Upto(i) = Upto(i - 1) \cup {i} /\ i \notin Upto(i - 1)
      <4>1. \A j \in S : j <= i <=> j <= i - 1 \/ j = i
        BY <1>0
      <4>2. i <= i /\ ~(i <= i - 1)
        OBVIOUS
      <4> QED
        BY <2>2, <4>1, <4>2
    <3>2. Cardinality(Upto(i)) = Cardinality(Upto(i - 1)) + 1
      <4> HIDE DEF Upto
      <4> QED
        BY <1>2, <2>1, <3>1, FS_AddElement
    <3> QED
      BY <1>2, <2>1, <2>2, <3>2
  <2>3. CASE i \notin S
    <3>1. Upto(i) = Upto(i - 1)
      <4>1. \A j \in S : j <= i <=> j <= i - 1
        BY <1>0, <2>3
      <4> QED
        BY <4>1
    <3> QED
      BY <1>2, <2>1, <2>3, <3>1
  <2> QED
    BY <2>2, <2>3
<1>6. ASSUME NEW i \in 0..N, NEW k \in S, k <= i
      PROVE  Place(k, S) \in 1..Place(i, S)
  <2>1. k \in 0..N /\ k \in 1..N /\ k - 1 \in 0..N
    BY <1>0
  <2>2. Upto(k) \subseteq Upto(i)
    <3>1. \A j \in S : j <= k => j <= i
      BY <1>0, <1>6
    <3> QED
      BY <3>1
  <2>3. Place(k, S) <= Place(i, S)
    <3> HIDE DEF Upto
    <3> QED
      BY <1>2, <2>1, <2>2, FS_Subset
  <2>4. Place(k, S) = Place(k - 1, S) + 1 /\ Place(k - 1, S) \in Nat
    BY <1>2, <1>5, <2>1
  <2>5. Place(i, S) \in Nat
    BY <1>2
  <2> QED
    BY <2>3, <2>4, <2>5
<1> QED
  BY <1>2, <1>3, <1>4, <1>5, <1>6

\* The loop over the rows of a watchlist.
ReadLoop(after, rows) ==
  /\ after[0] = Blank
  /\ \A i \in 1..Len(rows) : after[i] = ReadRow(after[i - 1], rows[i])

ReadState ==
  [seen: SUBSET (Address \cup {Missing}), rows: Seq(Row), duplicates: Nat,
   error: {Missing, "INVALID_CSV_FORMAT"}]

LEMMA ReadUnfolds ==
  ASSUME NEW rows \in Seq(Row)
  PROVE  \E after \in [0..Len(rows) -> ReadState] :
           /\ ReadLoop(after, rows)
           /\ Parsed("table", rows) =
                IF after[Len(rows)].error = Missing /\ Len(after[Len(rows)].rows) > MaxFilms
                THEN [after[Len(rows)] EXCEPT !.error = "WATCHLIST_SIZE_EXCEEDED"]
                ELSE after[Len(rows)]
<1> DEFINE N == Len(rows)
           F == [p \in ReadState \X (1..N) |-> ReadRow(p[1], rows[p[2]])]
           Body(f) == [i \in 0..N |-> IF i = 0 THEN Blank ELSE ReadRow(f[i - 1], rows[i])]
<1>1. N \in Nat /\ \A i \in 1..N : rows[i] \in Row
  OBVIOUS
<1>2. Blank \in ReadState
  BY DEF Blank, ReadState
<1>3. \A r \in ReadState, row \in Row : ReadRow(r, row) \in ReadState
  <2> SUFFICES ASSUME NEW r \in ReadState, NEW row \in Row
               PROVE  ReadRow(r, row) \in ReadState
    OBVIOUS
  <2>1. [r EXCEPT !.error = "INVALID_CSV_FORMAT"] \in ReadState
    BY DEF ReadState
  <2>2. [r EXCEPT !.duplicates = @ + 1] \in ReadState
    BY DEF ReadState
  <2>3. row.uri \in Address \cup {Missing}
    BY DEF Row
  <2>4. [r EXCEPT !.seen = @ \cup {row.uri}, !.rows = Append(@, row)] \in ReadState
    <3>1. Append(r.rows, row) \in Seq(Row) /\ r.seen \cup {row.uri} \in SUBSET (Address \cup {Missing})
      BY <2>3 DEF ReadState
    <3> QED
      BY <3>1 DEF ReadState
  <2> QED
    BY <2>1, <2>2, <2>4 DEF ReadRow
<1>4. F \in [ReadState \X (1..N) -> ReadState]
  BY <1>1, <1>3
<1>5. PICK g \in [0..N -> ReadState] : IsRun(g, N, Blank, F)
  <2> HIDE DEF F, N
  <2> QED
    BY <1>1, <1>2, <1>4, RunExists
<1>6. \A i \in 1..N : g[i] = ReadRow(g[i - 1], rows[i])
  <2> SUFFICES ASSUME NEW i \in 1..N
               PROVE  g[i] = ReadRow(g[i - 1], rows[i])
    OBVIOUS
  <2>1. g[i - 1] \in ReadState
    BY <1>1
  <2>2. F[<<g[i - 1], i>>] = ReadRow(g[i - 1], rows[i])
    BY <2>1
  <2> QED
    BY <1>5, <2>2 DEF IsRun
<1>7. g = Body(g)
  BY <1>5, <1>6 DEF IsRun
<1> DEFINE after == CHOOSE f : f = Body(f)
<1>8. after = Body(after)
  BY <1>7
<1>9. after = [i \in 0..N |-> IF i = 0 THEN Blank ELSE ReadRow(after[i - 1], rows[i])]
  BY <1>8
<1>10. Parsed("table", rows) =
         IF after[N].error = Missing /\ Len(after[N].rows) > MaxFilms
         THEN [after[N] EXCEPT !.error = "WATCHLIST_SIZE_EXCEEDED"]
         ELSE after[N]
  BY DEF Parsed
<1> HIDE DEF after
<1>11. ReadLoop(after, rows)
  BY <1>1, <1>9 DEF ReadLoop
<1> DEFINE P == {i \in 0..N : after[i] \in ReadState}
<1>12. 0 \in P
  BY <1>1, <1>2, <1>11 DEF ReadLoop
<1>13. ASSUME NEW i \in 1..N, i - 1 \in P
       PROVE  i \in P
  BY <1>1, <1>3, <1>11, <1>13 DEF ReadLoop
<1>14. \A i \in 0..N : i \in P
  <2> HIDE DEF P, N
  <2> QED
    BY <1>1, <1>12, <1>13, StepByStep
<1>15. after \in [0..N -> ReadState]
  BY <1>9, <1>14
<1> QED
  BY <1>10, <1>11, <1>15

\* What has been kept of the first i rows.
ReadSoFar(r, rows, i) ==
  LET first == FirstRows(rows) IN
  IF r.error = Missing
  THEN /\ r.seen = {rows[j].uri : j \in 1..i}
       /\ Missing \notin r.seen
       /\ \A k \in first : k <= i => Wellformed(rows[k])
       /\ Len(r.rows) = Place(i, first)
       /\ \A k \in first : k <= i => r.rows[Place(k, first)] = rows[k]
       /\ r.duplicates = i - Place(i, first)
  ELSE \E k \in first : k <= i /\ ~Wellformed(rows[k])

LEMMA ReadRowStep ==
  ASSUME NEW rows \in Seq(Row), NEW i \in 1..Len(rows), NEW r \in ReadState,
         ReadSoFar(r, rows, i - 1)
  PROVE  ReadSoFar(ReadRow(r, rows[i]), rows, i)
<1> DEFINE N == Len(rows)
           first == FirstRows(rows)
           row == rows[i]
           next == ReadRow(r, row)
<1>1. /\ N \in Nat /\ first \in SUBSET (1..N) /\ i - 1 \in 0..N /\ i \in 0..N
      /\ i \in 1..N /\ row \in Row
  BY DEF FirstRows
<1>2. \A k \in first : k <= i <=> k <= i - 1 \/ k = i
  <2>1. \A k \in 1..N : k <= i <=> k <= i - 1 \/ k = i
    OBVIOUS
  <2> QED
    BY <1>1, <2>1
<1>3. i \in first <=> row.uri \notin {rows[j].uri : j \in 1..(i - 1)}
  BY <1>1 DEF FirstRows
<1>4. {rows[j].uri : j \in 1..i} = {rows[j].uri : j \in 1..(i - 1)} \cup {row.uri}
  <2>1. \A j : j \in 1..i <=> j \in 1..(i - 1) \/ j = i
    OBVIOUS
  <2> QED
    BY <2>1
<1>5. /\ Place(i, first) = IF i \in first THEN Place(i - 1, first) + 1
                           ELSE Place(i - 1, first)
      /\ Place(i - 1, first) \in Nat
      /\ \A k \in first : k <= i - 1 => Place(k, first) \in 1..Place(i - 1, first)
  <2> HIDE DEF first, N
  <2> QED
    BY <1>1, PlaceSteps, ZenonT(30)
<1> HIDE DEF first, N
<1>6. ASSUME i \in first, ~Wellformed(row), next.error # Missing
      PROVE  ReadSoFar(next, rows, i)
  BY <1>6, <1>1 DEF ReadSoFar, first
<1>7. CASE r.error # Missing
  <2>1. next = r
    BY <1>7 DEF ReadRow
  <2>2. PICK k \in first : k <= i - 1 /\ ~Wellformed(rows[k])
    BY <1>7 DEF ReadSoFar, first
  <2> QED
    BY <1>2, <1>7, <2>1, <2>2 DEF ReadSoFar, first
<1>8. CASE r.error = Missing
  <2>1. /\ r.seen = {rows[j].uri : j \in 1..(i - 1)}
        /\ Missing \notin r.seen
        /\ \A k \in first : k <= i - 1 => Wellformed(rows[k])
        /\ Len(r.rows) = Place(i - 1, first)
        /\ \A k \in first : k <= i - 1 => r.rows[Place(k, first)] = rows[k]
        /\ r.duplicates = (i - 1) - Place(i - 1, first)
    BY <1>8 DEF ReadSoFar, first
  <2>2. i \in first <=> row.uri \notin r.seen
    BY <1>3, <2>1
  <2>3. [r EXCEPT !.error = "INVALID_CSV_FORMAT"].error # Missing
    BY MissingAssumption DEF ReadState
  <2>4. CASE row.uri = Missing
    <3>1. next = [r EXCEPT !.error = "INVALID_CSV_FORMAT"]
      BY <1>8, <2>4 DEF ReadRow
    <3>2. i \in first /\ ~Wellformed(row)
      BY <2>1, <2>2, <2>4 DEF Wellformed
    <3> QED
      BY <1>6, <2>3, <3>1, <3>2
  <2>5. CASE row.uri # Missing /\ row.uri \in r.seen
    <3>1. next = [r EXCEPT !.duplicates = @ + 1]
      BY <1>8, <2>5 DEF ReadRow
    <3>2. /\ next.seen = r.seen /\ next.rows = r.rows /\ next.error = Missing
          /\ next.duplicates = r.duplicates + 1
      BY <1>8, <3>1 DEF ReadState
    <3>3. Place(i, first) = Place(i - 1, first) /\ i \notin first
      BY <1>5, <2>2, <2>5
    <3>4. \A k \in first : k <= i => k <= i - 1
      BY <1>2, <3>3
    <3>5. next.seen = {rows[j].uri : j \in 1..i}
      BY <1>4, <2>1, <2>5, <3>2
    <3>6. next.duplicates = i - Place(i, first)
      BY <1>5, <2>1, <3>2, <3>3
    <3>7. ReadSoFar(next, rows, i)
      <4> HIDE DEF next
      <4> QED
        BY <2>1, <3>2, <3>3, <3>4, <3>5, <3>6 DEF ReadSoFar, first
    <3> QED
      BY <3>7
  <2>6. CASE row.uri # Missing /\ row.uri \notin r.seen /\ ~Wellformed(row)
    <3>1. next = [r EXCEPT !.error = "INVALID_CSV_FORMAT"]
      BY <1>8, <2>6 DEF ReadRow, Wellformed
    <3> QED
      BY <1>6, <2>2, <2>3, <2>6, <3>1
  <2>7. CASE row.uri # Missing /\ row.uri \notin r.seen /\ Wellformed(row)
    <3>1. next = [r EXCEPT !.seen = @ \cup {row.uri}, !.rows = Append(@, row)]
      BY <1>8, <2>7 DEF ReadRow, Wellformed
    <3>2. /\ next.seen = r.seen \cup {row.uri} /\ next.rows = Append(r.rows, row)
          /\ next.error = Missing /\ next.duplicates = r.duplicates
      BY <1>8, <3>1 DEF ReadState
    <3>3. Place(i, first) = Place(i - 1, first) + 1 /\ i \in first
      BY <1>5, <2>2, <2>7
    <3>4. next.seen = {rows[j].uri : j \in 1..i} /\ Missing \notin next.seen
      BY <1>4, <2>1, <2>7, <3>2
    <3>5. next.duplicates = i - Place(i, first)
      BY <1>5, <2>1, <3>2, <3>3
    <3>6. r.rows \in Seq(Row)
      BY DEF ReadState
    <3>7. /\ Len(next.rows) = Place(i, first)
          /\ next.rows[Place(i, first)] = row
          /\ \A n \in 1..Place(i - 1, first) : next.rows[n] = r.rows[n]
      BY <1>1, <1>5, <2>1, <3>2, <3>3, <3>6, SMTT(30)
    <3>8. \A k \in first : k <= i => next.rows[Place(k, first)] = rows[k]
      BY <1>2, <1>5, <2>1, <3>7
    <3>9. \A k \in first : k <= i => Wellformed(rows[k])
      BY <1>2, <2>1, <2>7
    <3>10. ReadSoFar(next, rows, i)
      <4> HIDE DEF next
      <4> QED
        BY <3>2, <3>4, <3>5, <3>7, <3>8, <3>9 DEF ReadSoFar, first
    <3> QED
      BY <3>10
  <2> QED
    BY <2>4, <2>5, <2>6, <2>7
<1> QED
  BY <1>7, <1>8

LEMMA TableIsRead ==
  ASSUME NEW rows \in Seq(Row)
  PROVE  LET first == FirstRows(rows)
             read  == Parsed("table", rows)
         IN  IF Cardinality(first) <= MaxFilms /\ \A i \in first : Wellformed(rows[i])
             THEN /\ read.error = Missing
                  /\ Len(read.rows) = Cardinality(first)
                  /\ \A i \in first : read.rows[Place(i, first)] = rows[i]
                  /\ read.duplicates = Len(rows) - Cardinality(first)
             ELSE read.error # Missing
<1> DEFINE N == Len(rows)
           first == FirstRows(rows)
           read == Parsed("table", rows)
<1>1. PICK after \in [0..N -> ReadState] :
        /\ ReadLoop(after, rows)
        /\ Parsed("table", rows) =
             IF after[N].error = Missing /\ Len(after[N].rows) > MaxFilms
             THEN [after[N] EXCEPT !.error = "WATCHLIST_SIZE_EXCEEDED"]
             ELSE after[N]
  BY ReadUnfolds
<1>2. /\ N \in Nat /\ first \in SUBSET (1..N) /\ N \in 0..N /\ 0 \in 0..N
      /\ \A k \in first : k <= N /\ ~(k <= 0)
  <2>1. N \in Nat /\ first \in SUBSET (1..N)
    BY DEF FirstRows
  <2>2. \A k \in 1..N : k <= N /\ ~(k <= 0)
    BY <2>1
  <2> QED
    BY <2>1, <2>2
<1>3. Place(0, first) = 0 /\ Place(N, first) = Cardinality(first) /\ Place(N, first) \in Nat
  <2> HIDE DEF first, N
  <2> QED
    BY <1>2, PlaceSteps
<1> DEFINE P == {i \in 0..N : ReadSoFar(after[i], rows, i)}
<1>4. 0 \in P
  <2>1. after[0] = Blank
    BY <1>1 DEF ReadLoop
  <2>2. {rows[j].uri : j \in 1..0} = {}
    OBVIOUS
  <2>3. ReadSoFar(Blank, rows, 0)
    BY <1>2, <1>3, <2>2 DEF ReadSoFar, Blank, first
  <2> QED
    BY <1>2, <2>1, <2>3
<1>5. ASSUME NEW i \in 1..N, i - 1 \in P
      PROVE  i \in P
  <2>1. i \in 0..N /\ i - 1 \in 0..N /\ i \in 1..Len(rows)
    BY <1>2
  <2>2. after[i] = ReadRow(after[i - 1], rows[i]) /\ after[i - 1] \in ReadState
    BY <1>1, <2>1 DEF ReadLoop
  <2>3. ReadSoFar(after[i - 1], rows, i - 1)
    BY <1>5
  <2> QED
    BY <2>1, <2>2, <2>3, ReadRowStep
<1>6. ReadSoFar(after[N], rows, N)
  <2> HIDE DEF P, N
  <2>1. \A i \in 0..N : i \in P
    BY <1>2, <1>4, <1>5, StepByStep
  <2> QED
    BY <1>2, <2>1 DEF P
<1> DEFINE last == after[N]
<1>7. last \in ReadState
  BY <1>2
<1>8. read = IF last.error = Missing /\ Len(last.rows) > MaxFilms
             THEN [last EXCEPT !.error = "WATCHLIST_SIZE_EXCEEDED"]
             ELSE last
  BY <1>1
<1> HIDE DEF last, first, N, read
<1>9. [last EXCEPT !.error = "WATCHLIST_SIZE_EXCEEDED"].error # Missing
  BY <1>7, MissingAssumption DEF ReadState
<1>10. CASE last.error # Missing
  <2>1. \E k \in first : ~Wellformed(rows[k])
    BY <1>6, <1>10 DEF ReadSoFar, last, first
  <2>2. read.error # Missing
    BY <1>8, <1>10
  <2> QED
    BY <2>1, <2>2 DEF first, read
<1>11. CASE last.error = Missing
  <2>1. /\ \A k \in first : Wellformed(rows[k])
        /\ Len(last.rows) = Cardinality(first)
        /\ \A k \in first : last.rows[Place(k, first)] = rows[k]
        /\ last.duplicates = N - Cardinality(first)
    BY <1>2, <1>3, <1>6, <1>11 DEF ReadSoFar, last, first
  <2>2. CASE Cardinality(first) <= MaxFilms
    <3>1. read = last
      BY <1>3, <1>8, <2>1, <2>2, MaxFilmsAssumption
    <3> QED
      BY <1>11, <2>1, <2>2, <3>1 DEF first, read, N
  <2>3. CASE ~(Cardinality(first) <= MaxFilms)
    <3>1. read.error # Missing
      BY <1>3, <1>8, <1>9, <1>11, <2>1, <2>3, MaxFilmsAssumption
    <3> QED
      BY <2>3, <3>1 DEF first, read
  <2> QED
    BY <2>2, <2>3
<1> QED
  BY <1>10, <1>11

\* A file is taken with the first row of each address, in its order, or refused.
THEOREM FilesAreReadOnce == Spec => []FirstRowsKept
<1> DEFINE Read ==
      /\ task = "read" => input \in Readings
      /\ task = "read" /\ output # None => output = Parsed(input.file, input.rows)
<1>1. Init => Read
  BY DEF Init
<1>2. Read /\ [Next]_algorithmVars => Read'
  BY DEF Next, Compare, MatchFilm, ReadFile, MergeFiles, ShareProfile, algorithmVars
<1>3. Read => FirstRowsKept
  <2> SUFFICES ASSUME Read, task = "read", output # None
               PROVE  FirstRowsKept
    BY DEF FirstRowsKept
  <2> DEFINE rows == input.rows
             file == input.file
  <2>1. /\ rows \in Seq(Row) /\ file \in {"empty", "unreadable", "table"}
        /\ output = Parsed(file, rows)
    BY ReadingAssumption
  <2> HIDE DEF rows, file
  <2>2. CASE file = "table"
    BY <2>1, <2>2, TableIsRead DEF FirstRowsKept, rows, file
  <2>3. CASE file # "table"
    <3>1. output.error \in {"VALIDATION_ERROR", "INVALID_CSV_FORMAT"}
      BY <2>1, <2>3 DEF Parsed, Blank
    <3>2. output.error # Missing
      BY <3>1, MissingAssumption
    <3> QED
      BY <2>3, <3>2 DEF FirstRowsKept, rows, file
  <2> QED
    BY <2>2, <2>3
<1> QED
  BY <1>1, <1>2, <1>3, PTL DEF Spec

-----------------------------------------------------------------------------
(* Watched exports.                                                        *)

\* The loop over the ratings.
RatingState ==
  [score: [Title -> Rating \cup {Missing}], error: {Missing, "INVALID_CSV_FORMAT"}]

Unrated == [score |-> [t \in Title |-> Missing], error |-> Missing]

RatingLoop(after, rows) ==
  /\ after[0] = Unrated
  /\ \A i \in 1..Len(rows) : after[i] = ReadRating(after[i - 1], rows[i])

LEMMA RatingsUnfold ==
  ASSUME NEW rows \in Seq(RatingRow)
  PROVE  \E after \in [0..Len(rows) -> RatingState] :
           RatingLoop(after, rows) /\ Ratings(rows) = after[Len(rows)]
<1> DEFINE N == Len(rows)
           F == [p \in RatingState \X (1..N) |-> ReadRating(p[1], rows[p[2]])]
           Body(f) == [i \in 0..N |-> IF i = 0 THEN Unrated
                                      ELSE ReadRating(f[i - 1], rows[i])]
<1>1. N \in Nat /\ \A i \in 1..N : rows[i] \in RatingRow
  OBVIOUS
<1>2. Unrated \in RatingState
  BY DEF Unrated, RatingState
<1>3. \A r \in RatingState, row \in RatingRow : ReadRating(r, row) \in RatingState
  <2> SUFFICES ASSUME NEW r \in RatingState, NEW row \in RatingRow
               PROVE  ReadRating(r, row) \in RatingState
    OBVIOUS
  <2>1. [r EXCEPT !.error = "INVALID_CSV_FORMAT"] \in RatingState
    BY DEF RatingState
  <2>2. ASSUME Named(row), row.rating # Invalid
        PROVE  [r EXCEPT !.score[row.key] = row.rating] \in RatingState
    <3>1. row.rating \in Rating \cup {Missing} /\ row.key \in Title
      BY <2>2 DEF RatingRow, Named
    <3>2. r.score \in [Title -> Rating \cup {Missing}]
      BY DEF RatingState
    <3>3. [r.score EXCEPT ![row.key] = row.rating] \in [Title -> Rating \cup {Missing}]
      BY <3>1, <3>2
    <3> QED
      BY <3>3 DEF RatingState
  <2> QED
    BY <2>1, <2>2 DEF ReadRating
<1>4. F \in [RatingState \X (1..N) -> RatingState]
  BY <1>1, <1>3
<1>5. PICK g \in [0..N -> RatingState] : IsRun(g, N, Unrated, F)
  <2> HIDE DEF F, N
  <2> QED
    BY <1>1, <1>2, <1>4, RunExists
<1>6. \A i \in 1..N : g[i] = ReadRating(g[i - 1], rows[i])
  <2> SUFFICES ASSUME NEW i \in 1..N
               PROVE  g[i] = ReadRating(g[i - 1], rows[i])
    OBVIOUS
  <2>1. g[i - 1] \in RatingState
    BY <1>1
  <2>2. F[<<g[i - 1], i>>] = ReadRating(g[i - 1], rows[i])
    BY <2>1
  <2> QED
    BY <1>5, <2>2 DEF IsRun
<1>7. g = Body(g)
  BY <1>5, <1>6 DEF IsRun
<1> DEFINE after == CHOOSE f : f = Body(f)
<1>8. after = Body(after)
  BY <1>7
<1>9. after = [i \in 0..N |-> IF i = 0 THEN Unrated ELSE ReadRating(after[i - 1], rows[i])]
  BY <1>8
<1>10. Ratings(rows) = after[N]
  BY DEF Ratings, Unrated
<1> HIDE DEF after
<1>11. RatingLoop(after, rows)
  BY <1>1, <1>9 DEF RatingLoop
<1> DEFINE P == {i \in 0..N : after[i] \in RatingState}
<1>12. 0 \in P
  BY <1>1, <1>2, <1>11 DEF RatingLoop
<1>13. ASSUME NEW i \in 1..N, i - 1 \in P
       PROVE  i \in P
  BY <1>1, <1>3, <1>11, <1>13 DEF RatingLoop
<1>14. \A i \in 0..N : i \in P
  <2> HIDE DEF P, N
  <2> QED
    BY <1>1, <1>12, <1>13, StepByStep
<1>15. after \in [0..N -> RatingState]
  BY <1>9, <1>14
<1> QED
  BY <1>10, <1>11, <1>15

\* What the first i ratings say of each title.
RatedSoFar(r, rows, i) ==
  IF r.error = Missing
  THEN /\ \A k \in 1..i : Wellrated(rows[k])
       /\ \A t \in Title :
            \/ (\A k \in RatedAt(rows, t) : ~(k <= i)) /\ r.score[t] = Missing
            \/ \E k \in RatedAt(rows, t) :
                 /\ k <= i
                 /\ \A j \in RatedAt(rows, t) : j <= i => j <= k
                 /\ r.score[t] = rows[k].rating
  ELSE \E k \in 1..i : ~Wellrated(rows[k])

LEMMA ReadRatingStep ==
  ASSUME NEW rows \in Seq(RatingRow), NEW i \in 1..Len(rows), NEW r \in RatingState,
         RatedSoFar(r, rows, i - 1)
  PROVE  RatedSoFar(ReadRating(r, rows[i]), rows, i)
<1> DEFINE N == Len(rows)
           row == rows[i]
           next == ReadRating(r, row)
<1>1. N \in Nat /\ i \in 1..N /\ row \in RatingRow /\ i \in Int
  OBVIOUS
<1>2. /\ \A k \in 1..N : k <= i <=> k <= i - 1 \/ k = i
      /\ \A k : k \in 1..i <=> k \in 1..(i - 1) \/ k = i
      /\ \A k \in 1..N : k <= i - 1 => k <= i
  BY <1>1
<1>3. CASE r.error # Missing
  <2>1. next = r
    BY <1>3 DEF ReadRating
  <2>2. PICK k \in 1..(i - 1) : ~Wellrated(rows[k])
    BY <1>3 DEF RatedSoFar
  <2> QED
    BY <1>2, <1>3, <2>1, <2>2 DEF RatedSoFar
<1>4. CASE r.error = Missing
  <2>1. /\ \A k \in 1..(i - 1) : Wellrated(rows[k])
        /\ \A t \in Title :
             \/ (\A k \in RatedAt(rows, t) : ~(k <= i - 1)) /\ r.score[t] = Missing
             \/ \E k \in RatedAt(rows, t) :
                  /\ k <= i - 1
                  /\ \A j \in RatedAt(rows, t) : j <= i - 1 => j <= k
                  /\ r.score[t] = rows[k].rating
    BY <1>4 DEF RatedSoFar
  <2>2. CASE ~Wellrated(row)
    <3>1. next = [r EXCEPT !.error = "INVALID_CSV_FORMAT"]
      BY <1>4, <2>2 DEF ReadRating, Wellrated
    <3>2. next.error # Missing
      BY <3>1, MissingAssumption DEF RatingState
    <3> QED
      BY <1>2, <2>2, <3>2 DEF RatedSoFar
  <2>3. CASE Wellrated(row)
    <3>1. \A k \in 1..i : Wellrated(rows[k])
      BY <1>2, <2>1, <2>3
    <3>2. row.key \in Title /\ r.score \in [Title -> Rating \cup {Missing}]
      BY <1>1, <2>3 DEF Wellrated, Named, RatingRow, RatingState
    <3>3. /\ next.error = Missing
          /\ \A t \in Title :
               next.score[t] = IF t = row.key /\ row.rating # Missing
                               THEN row.rating ELSE r.score[t]
      <4>1. CASE row.rating = Missing
        BY <1>4, <2>3, <4>1 DEF ReadRating, Wellrated
      <4>2. CASE row.rating # Missing
        <5>1. next = [r EXCEPT !.score[row.key] = row.rating]
          BY <1>4, <2>3, <4>2 DEF ReadRating, Wellrated
        <5>2. /\ next.error = Missing
              /\ next.score = [r.score EXCEPT ![row.key] = row.rating]
          BY <1>4, <5>1 DEF RatingState
        <5> QED
          BY <3>2, <4>2, <5>2
      <4> QED
        BY <4>1, <4>2
    <3>4. ASSUME NEW t \in Title
          PROVE  \/ (\A k \in RatedAt(rows, t) : ~(k <= i)) /\ next.score[t] = Missing
                 \/ \E k \in RatedAt(rows, t) :
                      /\ k <= i
                      /\ \A j \in RatedAt(rows, t) : j <= i => j <= k
                      /\ next.score[t] = rows[k].rating
      <4>1. RatedAt(rows, t) \subseteq 1..N
        BY DEF RatedAt
      <4>2. i \in RatedAt(rows, t) <=> t = row.key /\ row.rating # Missing
        BY <1>1 DEF RatedAt
      <4>3. CASE i \in RatedAt(rows, t)
        <5>1. next.score[t] = rows[i].rating
          BY <3>3, <4>2, <4>3
        <5>2. \A j \in RatedAt(rows, t) : j <= i => j <= i
          OBVIOUS
        <5> QED
          BY <1>1, <4>3, <5>1, <5>2
      <4>4. CASE i \notin RatedAt(rows, t)
        <5>1. next.score[t] = r.score[t]
          BY <3>3, <4>2, <4>4
        <5>2. \A k \in RatedAt(rows, t) : k <= i <=> k <= i - 1
          BY <1>2, <4>1, <4>4
        <5> HIDE DEF next
        <5> QED
          BY <2>1, <5>1, <5>2
      <4> QED
        BY <4>3, <4>4
    <3>5. RatedSoFar(next, rows, i)
      <4> HIDE DEF next
      <4> QED
        BY <3>1, <3>3, <3>4 DEF RatedSoFar
    <3> QED
      BY <3>5
  <2> QED
    BY <2>2, <2>3
<1> QED
  BY <1>3, <1>4

\* The last rating of each title, or a refusal for a row that is no rating.
LEMMA RatingsAreRead ==
  ASSUME NEW rows \in Seq(RatingRow)
  PROVE  /\ Ratings(rows).error = Missing <=> \A k \in 1..Len(rows) : Wellrated(rows[k])
         /\ Ratings(rows).error = Missing =>
              \A t \in Title : Ratings(rows).score[t] = LastRating(rows, t)
<1> DEFINE N == Len(rows)
<1>1. PICK after \in [0..N -> RatingState] :
        RatingLoop(after, rows) /\ Ratings(rows) = after[N]
  BY RatingsUnfold
<1>2. N \in Nat /\ N \in 0..N /\ 0 \in 0..N
  OBVIOUS
<1> DEFINE P == {i \in 0..N : RatedSoFar(after[i], rows, i)}
<1>3. 0 \in P
  <2>1. after[0] = Unrated
    BY <1>1 DEF RatingLoop
  <2>2. \A t \in Title : \A k \in RatedAt(rows, t) : ~(k <= 0)
    BY DEF RatedAt
  <2>3. RatedSoFar(Unrated, rows, 0)
    BY <2>2 DEF RatedSoFar, Unrated
  <2> QED
    BY <1>2, <2>1, <2>3
<1>4. ASSUME NEW i \in 1..N, i - 1 \in P
      PROVE  i \in P
  <2>1. i \in 0..N /\ i - 1 \in 0..N /\ i \in 1..Len(rows)
    BY <1>2
  <2>2. after[i] = ReadRating(after[i - 1], rows[i]) /\ after[i - 1] \in RatingState
    BY <1>1, <2>1 DEF RatingLoop
  <2>3. RatedSoFar(after[i - 1], rows, i - 1)
    BY <1>4
  <2> QED
    BY <2>1, <2>2, <2>3, ReadRatingStep
<1>5. RatedSoFar(after[N], rows, N)
  <2> HIDE DEF P, N
  <2>1. \A i \in 0..N : i \in P
    BY <1>2, <1>3, <1>4, StepByStep
  <2> QED
    BY <1>2, <2>1 DEF P
<1> DEFINE read == Ratings(rows)
<1>6. RatedSoFar(read, rows, N)
  BY <1>1, <1>5
<1> HIDE DEF read
<1>7. read.error = Missing <=> \A k \in 1..N : Wellrated(rows[k])
  BY <1>6 DEF RatedSoFar
<1>8. ASSUME NEW t \in Title, read.error = Missing
      PROVE  read.score[t] = LastRating(rows, t)
  <2> DEFINE rated == RatedAt(rows, t)
  <2>1. rated \subseteq 1..N /\ \A k \in rated : k <= N /\ k \in Int
    BY DEF RatedAt
  <2> HIDE DEF N
  <2>2. \/ rated = {} /\ read.score[t] = Missing
        \/ \E k \in rated : (\A j \in rated : j <= k) /\ read.score[t] = rows[k].rating
    BY <1>6, <1>8, <2>1 DEF RatedSoFar
  <2> HIDE DEF rated
  <2>3. CASE rated = {}
    BY <2>2, <2>3 DEF LastRating, rated
  <2>4. CASE rated # {}
    <3>1. PICK k \in rated : (\A j \in rated : j <= k) /\ read.score[t] = rows[k].rating
      BY <2>2, <2>4
    <3> DEFINE m == Max(rated)
    <3>2. m \in rated /\ \A j \in rated : j <= m
      BY <3>1 DEF Max
    <3> HIDE DEF m
    <3>3. m = k
      <4>1. m \in Int /\ k \in Int /\ m <= k /\ k <= m
        BY <2>1, <3>1, <3>2
      <4> QED
        BY <4>1
    <3> QED
      BY <2>4, <3>1, <3>3 DEF LastRating, rated, m
  <2> QED
    BY <2>3, <2>4
<1> QED
  BY <1>7, <1>8 DEF read

\* The loop over the diary.
DiaryState ==
  [days: [Title -> Seq(Day)], error: {Missing, "INVALID_CSV_FORMAT"}]

Undated == [days |-> [t \in Title |-> <<>>], error |-> Missing]

DiaryLoop(after, rows) ==
  /\ after[0] = Undated
  /\ \A i \in 1..Len(rows) : after[i] = ReadDiary(after[i - 1], rows[i])

LEMMA DiaryUnfolds ==
  ASSUME NEW rows \in Seq(DiaryRow)
  PROVE  \E after \in [0..Len(rows) -> DiaryState] :
           DiaryLoop(after, rows) /\ Diary(rows) = after[Len(rows)]
<1> DEFINE N == Len(rows)
           F == [p \in DiaryState \X (1..N) |-> ReadDiary(p[1], rows[p[2]])]
           Body(f) == [i \in 0..N |-> IF i = 0 THEN Undated
                                      ELSE ReadDiary(f[i - 1], rows[i])]
<1>1. N \in Nat /\ \A i \in 1..N : rows[i] \in DiaryRow
  OBVIOUS
<1>2. Undated \in DiaryState
  BY DEF Undated, DiaryState
<1>3. \A r \in DiaryState, row \in DiaryRow : ReadDiary(r, row) \in DiaryState
  <2> SUFFICES ASSUME NEW r \in DiaryState, NEW row \in DiaryRow
               PROVE  ReadDiary(r, row) \in DiaryState
    OBVIOUS
  <2>1. [r EXCEPT !.error = "INVALID_CSV_FORMAT"] \in DiaryState
    BY DEF DiaryState
  <2>2. ASSUME Named(row), row.day \notin {Missing, Invalid}
        PROVE  [r EXCEPT !.days[row.key] = Append(@, row.day)] \in DiaryState
    <3>1. row.day \in Day /\ row.key \in Title
      BY <2>2 DEF DiaryRow, Named
    <3>2. r.days \in [Title -> Seq(Day)]
      BY DEF DiaryState
    <3>3. Append(r.days[row.key], row.day) \in Seq(Day)
      BY <3>1, <3>2
    <3>4. [r.days EXCEPT ![row.key] = Append(@, row.day)] \in [Title -> Seq(Day)]
      BY <3>1, <3>2, <3>3
    <3> QED
      BY <3>4 DEF DiaryState
  <2> QED
    BY <2>1, <2>2 DEF ReadDiary
<1>4. F \in [DiaryState \X (1..N) -> DiaryState]
  BY <1>1, <1>3
<1>5. PICK g \in [0..N -> DiaryState] : IsRun(g, N, Undated, F)
  <2> HIDE DEF F, N
  <2> QED
    BY <1>1, <1>2, <1>4, RunExists
<1>6. \A i \in 1..N : g[i] = ReadDiary(g[i - 1], rows[i])
  <2> SUFFICES ASSUME NEW i \in 1..N
               PROVE  g[i] = ReadDiary(g[i - 1], rows[i])
    OBVIOUS
  <2>1. g[i - 1] \in DiaryState
    BY <1>1
  <2>2. F[<<g[i - 1], i>>] = ReadDiary(g[i - 1], rows[i])
    BY <2>1
  <2> QED
    BY <1>5, <2>2 DEF IsRun
<1>7. g = Body(g)
  BY <1>5, <1>6 DEF IsRun
<1> DEFINE after == CHOOSE f : f = Body(f)
<1>8. after = Body(after)
  BY <1>7
<1>9. after = [i \in 0..N |-> IF i = 0 THEN Undated ELSE ReadDiary(after[i - 1], rows[i])]
  BY <1>8
<1>10. Diary(rows) = after[N]
  BY DEF Diary, Undated
<1> HIDE DEF after
<1>11. DiaryLoop(after, rows)
  BY <1>1, <1>9 DEF DiaryLoop
<1> DEFINE P == {i \in 0..N : after[i] \in DiaryState}
<1>12. 0 \in P
  BY <1>1, <1>2, <1>11 DEF DiaryLoop
<1>13. ASSUME NEW i \in 1..N, i - 1 \in P
       PROVE  i \in P
  BY <1>1, <1>3, <1>11, <1>13 DEF DiaryLoop
<1>14. \A i \in 0..N : i \in P
  <2> HIDE DEF P, N
  <2> QED
    BY <1>1, <1>12, <1>13, StepByStep
<1>15. after \in [0..N -> DiaryState]
  BY <1>9, <1>14
<1> QED
  BY <1>10, <1>11, <1>15

\* What the first i rows of the diary give to each title.
DatedSoFar(r, rows, i) ==
  IF r.error = Missing
  THEN /\ \A k \in 1..i : Welldated(rows[k])
       /\ \A t \in Title :
            /\ Len(r.days[t]) = Place(i, DiaryOf(rows, t))
            /\ \A k \in DiaryOf(rows, t) :
                 k <= i => r.days[t][Place(k, DiaryOf(rows, t))] = rows[k].day
  ELSE \E k \in 1..i : ~Welldated(rows[k])

LEMMA ReadDiaryStep ==
  ASSUME NEW rows \in Seq(DiaryRow), NEW i \in 1..Len(rows), NEW r \in DiaryState,
         DatedSoFar(r, rows, i - 1)
  PROVE  DatedSoFar(ReadDiary(r, rows[i]), rows, i)
<1> DEFINE N == Len(rows)
           row == rows[i]
           next == ReadDiary(r, row)
<1>1. N \in Nat /\ i \in 1..N /\ row \in DiaryRow /\ i \in Int
  OBVIOUS
<1>2. /\ \A k \in 1..N : k <= i <=> k <= i - 1 \/ k = i
      /\ \A k : k \in 1..i <=> k \in 1..(i - 1) \/ k = i
  BY <1>1
<1>3. CASE r.error # Missing
  <2>1. next = r
    BY <1>3 DEF ReadDiary
  <2>2. PICK k \in 1..(i - 1) : ~Welldated(rows[k])
    BY <1>3 DEF DatedSoFar
  <2> QED
    BY <1>2, <1>3, <2>1, <2>2 DEF DatedSoFar
<1>4. CASE r.error = Missing
  <2>1. /\ \A k \in 1..(i - 1) : Welldated(rows[k])
        /\ \A t \in Title :
             /\ Len(r.days[t]) = Place(i - 1, DiaryOf(rows, t))
             /\ \A k \in DiaryOf(rows, t) :
                  k <= i - 1 => r.days[t][Place(k, DiaryOf(rows, t))] = rows[k].day
    BY <1>4 DEF DatedSoFar
  <2>2. CASE ~Welldated(row)
    <3>1. next = [r EXCEPT !.error = "INVALID_CSV_FORMAT"]
      BY <1>4, <2>2 DEF ReadDiary, Welldated
    <3>2. next.error # Missing
      BY <3>1, MissingAssumption DEF DiaryState
    <3> QED
      BY <1>2, <2>2, <3>2 DEF DatedSoFar
  <2>3. CASE Welldated(row)
    <3>1. \A k \in 1..i : Welldated(rows[k])
      BY <1>2, <2>1, <2>3
    <3>2. /\ row.key \in Title /\ row.day \in Day
          /\ r.days \in [Title -> Seq(Day)]
      BY <1>1, <2>3 DEF Welldated, Named, DiaryRow, DiaryState
    <3>3. /\ next.error = Missing
          /\ \A t \in Title :
               next.days[t] = IF t = row.key THEN Append(r.days[t], row.day) ELSE r.days[t]
      <4>1. next = [r EXCEPT !.days[row.key] = Append(@, row.day)]
        BY <1>4, <2>3 DEF ReadDiary, Welldated
      <4>2. /\ next.error = Missing
            /\ next.days = [r.days EXCEPT ![row.key] = Append(@, row.day)]
        BY <1>4, <4>1 DEF DiaryState
      <4> QED
        BY <3>2, <4>2
    <3>4. ASSUME NEW t \in Title
          PROVE  /\ Len(next.days[t]) = Place(i, DiaryOf(rows, t))
                 /\ \A k \in DiaryOf(rows, t) :
                      k <= i => next.days[t][Place(k, DiaryOf(rows, t))] = rows[k].day
      <4> DEFINE S == DiaryOf(rows, t)
                 old == r.days[t]
                 new == next.days[t]
      <4>1. S \in SUBSET (1..N) /\ (i \in S <=> t = row.key)
        BY <1>1 DEF DiaryOf
      <4>2. \A k \in S : k <= i <=> k <= i - 1 \/ k = i
        BY <1>2, <4>1
      <4>3. /\ old \in Seq(Day) /\ Len(old) = Place(i - 1, S)
            /\ \A k \in S : k <= i - 1 => old[Place(k, S)] = rows[k].day
        BY <2>1, <3>2
      <4>4. new = IF i \in S THEN Append(old, row.day) ELSE old
        BY <3>3, <4>1
      <4> HIDE DEF S, N, old, new
      <4>5. /\ Place(i, S) = IF i \in S THEN Place(i - 1, S) + 1 ELSE Place(i - 1, S)
            /\ Place(i - 1, S) \in Nat
            /\ \A k \in S : k <= i - 1 => Place(k, S) \in 1..Place(i - 1, S)
        <5>1. i \in 1..N /\ i - 1 \in 0..N
          BY <1>1
        <5> QED
          BY <1>1, <4>1, <5>1, PlaceSteps, ZenonT(30)
      <4>6. CASE i \in S
        <5>1. new = Append(old, row.day) /\ Place(i, S) = Place(i - 1, S) + 1
          BY <4>4, <4>5, <4>6
        <5>2. /\ Len(new) = Place(i, S) /\ new[Place(i, S)] = row.day
              /\ \A n \in 1..Place(i - 1, S) : new[n] = old[n]
          BY <3>2, <4>3, <4>5, <5>1
        <5>3. \A k \in S : k <= i => new[Place(k, S)] = rows[k].day
          BY <4>2, <4>3, <4>5, <5>2
        <5> QED
          BY <5>2, <5>3 DEF S, new
      <4>7. CASE i \notin S
        <5>1. \A k \in S : k <= i => k <= i - 1
          BY <4>2, <4>7
        <5>2. Len(new) = Place(i, S) /\ \A k \in S : k <= i => new[Place(k, S)] = rows[k].day
          BY <4>3, <4>4, <4>5, <4>7, <5>1
        <5> QED
          BY <5>2 DEF S, new
      <4> QED
        BY <4>6, <4>7
    <3>5. DatedSoFar(next, rows, i)
      <4> HIDE DEF next
      <4> QED
        BY <3>1, <3>3, <3>4 DEF DatedSoFar
    <3> QED
      BY <3>5
  <2> QED
    BY <2>2, <2>3
<1> QED
  BY <1>3, <1>4

\* The days of each title in their order, or a refusal for a row without a day.
LEMMA DiaryIsRead ==
  ASSUME NEW rows \in Seq(DiaryRow)
  PROVE  /\ Diary(rows).error = Missing <=> \A k \in 1..Len(rows) : Welldated(rows[k])
         /\ Diary(rows).error = Missing =>
              \A t \in Title :
                /\ Diary(rows).days[t] \in Seq(Day)
                /\ Len(Diary(rows).days[t]) = Cardinality(DiaryOf(rows, t))
                /\ \A k \in DiaryOf(rows, t) :
                     Diary(rows).days[t][Place(k, DiaryOf(rows, t))] = rows[k].day
<1> DEFINE N == Len(rows)
<1>1. PICK after \in [0..N -> DiaryState] :
        DiaryLoop(after, rows) /\ Diary(rows) = after[N]
  BY DiaryUnfolds
<1>2. N \in Nat /\ N \in 0..N /\ 0 \in 0..N
  OBVIOUS
<1>3. ASSUME NEW t \in Title
      PROVE  /\ \A k \in DiaryOf(rows, t) : k <= N /\ ~(k <= 0)
             /\ Place(0, DiaryOf(rows, t)) = 0
             /\ Place(N, DiaryOf(rows, t)) = Cardinality(DiaryOf(rows, t))
  <2> DEFINE S == DiaryOf(rows, t)
  <2>1. S \in SUBSET (1..N)
    BY DEF DiaryOf
  <2> HIDE DEF S, N
  <2>2. \A k \in 1..N : k <= N /\ ~(k <= 0)
    BY <1>2
  <2>3. Place(0, S) = 0 /\ Place(N, S) = Cardinality(S)
    BY <1>2, <2>1, PlaceSteps
  <2> QED
    BY <2>1, <2>2, <2>3 DEF S
<1> DEFINE P == {i \in 0..N : DatedSoFar(after[i], rows, i)}
<1>4. 0 \in P
  <2>1. after[0] = Undated
    BY <1>1 DEF DiaryLoop
  <2>2. DatedSoFar(Undated, rows, 0)
    <3>1. \A t \in Title : Undated.days[t] = <<>>
      BY DEF Undated
    <3>2. Undated.error = Missing
      BY DEF Undated
    <3> QED
      BY <1>3, <3>1, <3>2 DEF DatedSoFar
  <2> QED
    BY <1>2, <2>1, <2>2
<1>5. ASSUME NEW i \in 1..N, i - 1 \in P
      PROVE  i \in P
  <2>1. i \in 0..N /\ i - 1 \in 0..N /\ i \in 1..Len(rows)
    BY <1>2
  <2>2. after[i] = ReadDiary(after[i - 1], rows[i]) /\ after[i - 1] \in DiaryState
    BY <1>1, <2>1 DEF DiaryLoop
  <2>3. DatedSoFar(after[i - 1], rows, i - 1)
    BY <1>5
  <2> QED
    BY <2>1, <2>2, <2>3, ReadDiaryStep
<1>6. DatedSoFar(after[N], rows, N)
  <2> HIDE DEF P, N
  <2>1. \A i \in 0..N : i \in P
    BY <1>2, <1>4, <1>5, StepByStep
  <2> QED
    BY <1>2, <2>1 DEF P
<1> DEFINE read == Diary(rows)
<1>7. DatedSoFar(read, rows, N) /\ read \in DiaryState
  BY <1>1, <1>2, <1>6
<1> HIDE DEF read
<1>8. read.error = Missing <=> \A k \in 1..N : Welldated(rows[k])
  BY <1>7 DEF DatedSoFar
<1>9. ASSUME NEW t \in Title, read.error = Missing
      PROVE  /\ read.days[t] \in Seq(Day)
             /\ Len(read.days[t]) = Cardinality(DiaryOf(rows, t))
             /\ \A k \in DiaryOf(rows, t) :
                  read.days[t][Place(k, DiaryOf(rows, t))] = rows[k].day
  <2>1. read.days[t] \in Seq(Day)
    BY <1>7 DEF DiaryState
  <2> HIDE DEF N
  <2> QED
    BY <1>3, <1>7, <1>9, <2>1 DEF DatedSoFar
<1> QED
  BY <1>8, <1>9 DEF read

\* Each entry of the diary has its event, in order, or the one event its day.
EventsFit(events, entries, diary, score) ==
  /\ IF entries = {}
     THEN Len(events) = 1 /\ events[1].day = DefaultDay
     ELSE /\ Len(events) = Cardinality(entries)
          /\ \A k \in entries : events[Place(k, entries)].day = diary[k].day
  /\ \A k \in DOMAIN events :
       /\ events[k].score = score
       /\ ~events[k].completed <=> entries # {} /\ score = Missing

\* The events planned for a title whose days and rating have been read.
LEMMA EventsArePlanned ==
  ASSUME NEW row \in WatchedRow, NEW diary \in Seq(DiaryRow), NEW score,
         NEW days \in Seq(Day), NEW entries \in SUBSET (1..Len(diary)),
         Len(days) = Cardinality(entries),
         \A k \in entries : days[Place(k, entries)] = diary[k].day
  PROVE  EventsFit(Planned(row, score, days).events, entries, diary, score)
<1> DEFINE events == Planned(row, score, days).events
           N == Len(diary)
<1>1. /\ IsFiniteSet(entries) /\ Cardinality(entries) \in Nat
      /\ Cardinality(entries) = 0 <=> entries = {}
  <2>1. IsFiniteSet(1..N) /\ N \in Nat
    BY FS_Interval
  <2>2. IsFiniteSet(entries)
    BY <2>1, FS_Subset
  <2> QED
    BY <2>2, FS_CardinalityType, FS_EmptySet
<1>2. CASE entries = {}
  <2>1. days = <<>>
    BY <1>1, <1>2
  <2>2. events = <<[day |-> DefaultDay, score |-> score, completed |-> TRUE]>>
    BY <2>1 DEF Planned
  <2> QED
    BY <1>2, <2>2 DEF EventsFit
<1>3. CASE entries # {}
  <2>0. Len(days) \in Nat /\ DOMAIN days = 1..Len(days) /\ (days = <<>> => Len(days) = 0)
    OBVIOUS
  <2>1. Len(days) \in Nat /\ Len(days) # 0 /\ days # <<>> /\ DOMAIN days = 1..Len(days)
    BY <1>1, <1>3, <2>0
  <2>2. events = [i \in DOMAIN days |->
                    [day |-> days[i], score |-> score, completed |-> score # Missing]]
    BY <2>1 DEF Planned
  <2>3. DOMAIN events = 1..Len(days) /\ Len(events) = Cardinality(entries)
    BY <2>1, <2>2
  <2>4. \A k \in DOMAIN events :
          /\ events[k].day = days[k] /\ events[k].score = score
          /\ events[k].completed = (score # Missing)
    BY <2>2, <2>3
  <2>5. \A k \in entries : Place(k, entries) \in DOMAIN events
    <3> HIDE DEF N, events
    <3>1. /\ \A i \in 0..N : \A k \in entries : k <= i => Place(k, entries) \in 1..Place(i, entries)
          /\ Place(N, entries) = Cardinality(entries)
      <4>1. entries \in SUBSET (1..N) /\ N \in Nat
        BY DEF N
      <4> QED
        BY <4>1, PlaceSteps
    <3>2. N \in 0..N /\ \A k \in entries : k <= N
      BY DEF N
    <3> QED
      BY <2>3, <3>1, <3>2
  <2> HIDE DEF events, N
  <2>6. \A k \in entries : events[Place(k, entries)].day = diary[k].day
    BY <2>4, <2>5
  <2> QED
    BY <1>3, <2>3, <2>4, <2>6 DEF EventsFit, events
<1> QED
  BY <1>2, <1>3

\* A watched export is taken as a whole or refused, and each watched film gets
\* all the days of the diary and the last of the ratings that go by its name.
THEOREM WatchesArePlanned == Spec => []EachWatchIsPlanned
<1> DEFINE Merging ==
      /\ task = "merge" => input \in Mergings
      /\ task = "merge" /\ output # None =>
           output = Merged(input.files, input.watched, input.ratings, input.diary)
<1>1. Init => Merging
  BY DEF Init
<1>2. Merging /\ [Next]_algorithmVars => Merging'
  BY DEF Next, Compare, MatchFilm, ReadFile, MergeFiles, ShareProfile, algorithmVars
<1>3. Merging => EachWatchIsPlanned
  <2> SUFFICES ASSUME Merging, task = "merge", output # None
               PROVE  EachWatchIsPlanned
    BY DEF EachWatchIsPlanned
  <2> DEFINE files == input.files
             watched == input.watched
             ratings == input.ratings
             diary == input.diary
             rated == Ratings(ratings)
             dated == Diary(diary)
             wrong == {i \in 1..3 :
                         \/ files[i] # "table"
                         \/ i = 1 /\ \/ watched = <<>>
                                      \/ \E k \in DOMAIN watched :
                                           ~Named(watched[k]) \/ watched[k].uri = Missing
                         \/ i = 2 /\ rated.error # Missing
                         \/ i = 3 /\ dated.error # Missing}
             good == /\ \A i \in 1..3 : files[i] = "table"
                     /\ watched # <<>>
                     /\ \A i \in DOMAIN watched :
                          Named(watched[i]) /\ watched[i].uri # Missing
                     /\ \A i \in DOMAIN ratings : Wellrated(ratings[i])
                     /\ \A i \in DOMAIN diary : Welldated(diary[i])
  <2>1. /\ files \in [1..3 -> {"empty", "unreadable", "table"}]
        /\ watched \in Seq(WatchedRow)
        /\ ratings \in Seq(RatingRow)
        /\ diary \in Seq(DiaryRow)
    BY MergingAssumption
  <2>2. output = IF wrong = {}
                 THEN [error |-> Missing,
                       plans |-> [i \in DOMAIN watched |->
                                    Planned(watched[i], rated.score[watched[i].key],
                                            dated.days[watched[i].key])]]
                 ELSE IF files[Min(wrong)] = "empty" THEN Refused("VALIDATION_ERROR")
                 ELSE Refused("INVALID_CSV_FORMAT")
    BY DEF Merged
  <2>3. /\ rated.error = Missing <=> \A k \in DOMAIN ratings : Wellrated(ratings[k])
        /\ rated.error = Missing =>
             \A t \in Title : rated.score[t] = LastRating(ratings, t)
    <3> HIDE DEF ratings
    <3>1. DOMAIN ratings = 1..Len(ratings)
      BY <2>1
    <3> QED
      BY <2>1, <3>1, RatingsAreRead
  <2>4. /\ dated.error = Missing <=> \A k \in DOMAIN diary : Welldated(diary[k])
        /\ dated.error = Missing =>
             \A t \in Title :
               /\ dated.days[t] \in Seq(Day)
               /\ Len(dated.days[t]) = Cardinality(DiaryOf(diary, t))
               /\ \A k \in DiaryOf(diary, t) :
                    dated.days[t][Place(k, DiaryOf(diary, t))] = diary[k].day
    <3> HIDE DEF diary
    <3>1. DOMAIN diary = 1..Len(diary)
      BY <2>1
    <3> QED
      BY <2>1, <3>1, DiaryIsRead
  <2> HIDE DEF files, watched, ratings, diary, rated, dated
  <2>5. wrong = {} <=> good
    <3>1. 1..3 = {1, 2, 3}
      OBVIOUS
    <3>2. wrong = {} <=> 1 \notin wrong /\ 2 \notin wrong /\ 3 \notin wrong
      BY <3>1
    <3> QED
      BY <2>3, <2>4, <3>1, <3>2
  <2>6. CASE ~good
    <3>1. output.error \in {"VALIDATION_ERROR", "INVALID_CSV_FORMAT"} /\ output.plans = <<>>
      <4>1. wrong # {}
        BY <2>5, <2>6
      <4> HIDE DEF wrong, good
      <4> QED
        BY <2>2, <4>1 DEF Refused
    <3>2. output.error # Missing
      BY <3>1, MissingAssumption
    <3> QED
      BY <2>6, <3>1, <3>2 DEF EachWatchIsPlanned, files, watched, ratings, diary
  <2>7. CASE good
    <3>1. /\ Len(output.plans) = Len(watched)
          /\ \A i \in DOMAIN watched :
               output.plans[i] = Planned(watched[i], rated.score[watched[i].key],
                                         dated.days[watched[i].key])
      <4>1. output.plans = [i \in DOMAIN watched |->
                              Planned(watched[i], rated.score[watched[i].key],
                                      dated.days[watched[i].key])]
        <5>1. wrong = {}
          BY <2>5, <2>7
        <5> HIDE DEF wrong, good
        <5> QED
          BY <2>2, <5>1
      <4>2. DOMAIN watched = 1..Len(watched) /\ Len(watched) \in Nat
        BY <2>1
      <4> QED
        BY <4>1, <4>2
    <3>2. ASSUME NEW i \in DOMAIN watched
          PROVE  EventsFit(output.plans[i].events, DiaryOf(diary, watched[i].key), diary,
                           LastRating(ratings, watched[i].key))
      <4> DEFINE t == watched[i].key
                 entries == DiaryOf(diary, t)
                 days == dated.days[t]
                 score == rated.score[t]
      <4>1. watched[i] \in WatchedRow /\ t \in Title
        <5>1. watched[i] \in WatchedRow
          BY <2>1
        <5> QED
          BY <2>7, <5>1 DEF WatchedRow, Named
      <4>2. score = LastRating(ratings, t)
        BY <2>3, <2>7, <4>1
      <4>3. /\ days \in Seq(Day) /\ Len(days) = Cardinality(entries)
            /\ \A k \in entries : days[Place(k, entries)] = diary[k].day
        BY <2>4, <2>7, <4>1
      <4>4. entries \in SUBSET (1..Len(diary))
        BY <2>1 DEF DiaryOf
      <4>5. output.plans[i] = Planned(watched[i], score, days)
        BY <3>1
      <4> HIDE DEF entries, days, score, good, wrong
      <4>6. EventsFit(Planned(watched[i], score, days).events, entries, diary, score)
        BY <2>1, <4>1, <4>3, <4>4, EventsArePlanned
      <4> QED
        BY <4>2, <4>5, <4>6 DEF entries
    <3> QED
      BY <2>7, <3>1, <3>2 DEF EachWatchIsPlanned, EventsFit, files, watched, ratings, diary
  <2> QED
    BY <2>6, <2>7
<1> QED
  BY <1>1, <1>2, <1>3, PTL DEF Spec

-----------------------------------------------------------------------------
(* Profiles.                                                               *)

\* A word is in a list when it is counted there.
LEMMA CountedWords ==
  ASSUME NEW texts \in Seq(Text), NEW word \in Word \cup {NoPreference}
  PROVE  Words(texts)[word] # 0 <=> \E i \in DOMAIN texts : texts[i].word = word
<1> DEFINE places == {i \in DOMAIN texts : texts[i].word = word}
<1>1. IsFiniteSet(places)
  <2>1. IsFiniteSet(1..Len(texts))
    BY FS_Interval
  <2> QED
    BY <2>1, FS_Subset
<1>2. Words(texts)[word] = Cardinality(places)
  BY DEF Words
<1>3. Cardinality(places) = 0 <=> places = {}
  BY <1>1, FS_EmptySet
<1> QED
  BY <1>2, <1>3

\* Lists with the same words ask for the same.
LEMMA SameWordsAskTheSame ==
  ASSUME NEW texts1 \in Seq(Text), NEW texts2 \in Seq(Text),
         Words(texts1) = Words(texts2)
  PROVE  Preferences(texts1) = Preferences(texts2)
<1>1. \A word \in Word \cup {NoPreference} :
        (\E i \in DOMAIN texts1 : texts1[i].word = word)
          <=> (\E i \in DOMAIN texts2 : texts2[i].word = word)
  BY CountedWords
<1>2. ASSUME NEW texts \in Seq(Text), NEW i \in DOMAIN texts
      PROVE  texts[i].word \in Word \cup {Empty, NoPreference}
  <2>1. texts[i] \in Text
    OBVIOUS
  <2> QED
    BY <2>1 DEF Text
<1> QED
  BY <1>1, <1>2 DEF Preferences

\* Spelling and order do not change how often a word is there.
LEMMA RespelledSameWords ==
  ASSUME NEW texts1 \in Seq(Text), NEW texts2 \in Seq(Text),
         Respelled(texts1, texts2)
  PROVE  Words(texts1) = Words(texts2)
<1> SUFFICES ASSUME NEW word \in Word \cup {NoPreference}
             PROVE  Cardinality({i \in DOMAIN texts1 : texts1[i].word = word})
                      = Cardinality({i \in DOMAIN texts2 : texts2[i].word = word})
  BY DEF Words
<1> DEFINE A == {i \in DOMAIN texts1 : texts1[i].word = word}
           B == {i \in DOMAIN texts2 : texts2[i].word = word}
<1>1. PICK place \in Bijection(DOMAIN texts1, DOMAIN texts2) :
        \A i \in DOMAIN texts1 : texts2[place[i]].word = texts1[i].word
  BY DEF Respelled
<1>2. IsFiniteSet(A)
  <2>1. IsFiniteSet(1..Len(texts1))
    BY FS_Interval
  <2> QED
    BY <2>1, FS_Subset
<1>3. /\ place \in [DOMAIN texts1 -> DOMAIN texts2]
      /\ \A i, j \in DOMAIN texts1 : place[i] = place[j] => i = j
      /\ \A k \in DOMAIN texts2 : \E i \in DOMAIN texts1 : place[i] = k
  BY <1>1 DEF Bijection, Injection, Surjection, IsInjective
<1> DEFINE g == [i \in A |-> place[i]]
<1>4. g \in [A -> B]
  BY <1>1, <1>3
<1>5. \A k \in B : \E i \in A : g[i] = k
  <2> SUFFICES ASSUME NEW k \in B
               PROVE  \E i \in A : g[i] = k
    OBVIOUS
  <2>1. PICK i \in DOMAIN texts1 : place[i] = k
    BY <1>3
  <2>2. i \in A
    BY <1>1, <2>1
  <2> QED
    BY <2>1, <2>2
<1>6. g \in Bijection(A, B)
  BY <1>3, <1>4, <1>5 DEF Bijection, Injection, Surjection, IsInjective
<1> HIDE DEF g, A, B
<1>7. Cardinality(A) = Cardinality(B)
  BY <1>2, <1>6, FS_Bijection DEF ExistsBijection
<1> QED
  BY <1>7 DEF A, B

\* A stored profile stands for every request it is taken for.
THEOREM ProfilesStandForAnswers == Spec => []ProfileIsOwn
<1> DEFINE Shared ==
      /\ task = "share" => input \in Sharings
      /\ task = "share" /\ output # None => output = Resolved(input.stored, input.asked)
<1>1. Init => Shared
  BY DEF Init
<1>2. Shared /\ [Next]_algorithmVars => Shared'
  BY DEF Next, Compare, MatchFilm, ReadFile, MergeFiles, ShareProfile, algorithmVars
<1>3. Shared => ProfileIsOwn
  <2> SUFFICES ASSUME Shared, task = "share", output # None
               PROVE  ProfileIsOwn
    BY DEF ProfileIsOwn
  <2> DEFINE p == input.stored
             q == input.asked
  <2>1. p \in Questionnaire /\ q \in Questionnaire /\ output = Resolved(p, q)
    BY SharingAssumption
  <2> HIDE DEF p, q
  <2>2. \A a \in Lists : p[a] \in Seq(Text) /\ q[a] \in Seq(Text)
    BY <2>1 DEF Questionnaire, Lists
  <2>3. DOMAIN p = DOMAIN q /\ "notes" \in DOMAIN q /\ Lists \subseteq DOMAIN q
    BY <2>1 DEF Questionnaire, Lists
  <2>4. CASE Canonical(p) = Canonical(q)
    <3>1. \A a \in DOMAIN q : Canonical(p)[a] = Canonical(q)[a]
      BY <2>4
    <3>2. Noted(p.notes) = Noted(q.notes)
      BY <2>3, <3>1 DEF Canonical
    <3>3. \A a \in Lists : Words(p[a]) = Words(q[a])
      BY <2>3, <3>1 DEF Canonical, Lists
    <3>4. \A a \in DOMAIN q \ (Lists \cup {"notes"}) : p[a] = q[a]
      BY <2>3, <3>1 DEF Canonical
    <3>5. \A a \in Lists : Preferences(p[a]) = Preferences(q[a])
      BY <2>2, <3>3, SameWordsAskTheSame
    <3>6. Asked(Structured(p)) = Asked(Structured(q))
      BY <2>1, <3>4, <3>5 DEF Asked, Structured, Questionnaire, Lists
    <3> QED
      BY <2>1, <2>4, <3>2, <3>6 DEF Resolved, ProfileIsOwn, p, q
  <2>5. CASE Canonical(p) # Canonical(q)
    <3>1. ~(/\ \A a \in Lists : Respelled(p[a], q[a])
            /\ \A a \in DOMAIN q \ (Lists \cup {"notes"}) : p[a] = q[a]
            /\ Noted(p.notes) = Noted(q.notes))
      <4> SUFFICES ASSUME \A a \in Lists : Respelled(p[a], q[a]),
                          \A a \in DOMAIN q \ (Lists \cup {"notes"}) : p[a] = q[a],
                          Noted(p.notes) = Noted(q.notes)
                   PROVE  Canonical(p) = Canonical(q)
        BY <2>5
      <4>1. \A a \in Lists : Words(p[a]) = Words(q[a])
        BY <2>2, RespelledSameWords
      <4> QED
        BY <2>3, <4>1 DEF Canonical
    <3> QED
      BY <2>1, <2>5, <3>1 DEF Resolved, ProfileIsOwn, p, q
  <2> QED
    BY <2>4, <2>5
<1> QED
  BY <1>1, <1>2, <1>3, PTL DEF Spec
=============================================================================
