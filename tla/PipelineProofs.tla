--------------------------- MODULE PipelineProofs ---------------------------
(***************************************************************************)
(* The shortlist of a recommendation, and what is made of any answer of    *)
(* the language model, for any library, any bounds and any order of the    *)
(* scores.                                                                 *)
(***************************************************************************)
EXTENDS Pipeline, Recursions

\* What stage 1 leaves satisfies the constraints as the session records them.
Admitted(f, constraints) ==
  /\ catalog[f].listed
  /\ ask.runtime => catalog[f].over <= IF "runtime" \in constraints THEN 1 ELSE 0
  /\ ask.english /\ "english" \notin constraints => catalog[f].english

\* A shortlist is some of the films in order, the first of them promoted.
Promoted(s, order1, n) ==
  \E i \in 1..n :
    s = [k \in 1..Least(ShortlistSize, Len(order1)) |->
           IF k = 1 THEN order1[i] ELSE IF k <= i THEN order1[k - 1] ELSE order1[k]]

Inv ==
  /\ TypeOK
  /\ RelaxedOnlyWhenScarce
  /\ at \in Ranked =>
       /\ \A f \in pool : Admitted(f, relaxed)
       /\ \A k \in 1..Len(order) : order[k] \in pool
       /\ \A k, l \in 1..Len(order) : order[k] = order[l] => k = l
       /\ Promoted(shortlist, order, band)

LEMMA PoolIsAdmitted ==
  ASSUME TypeOK
  PROVE  /\ Pool \subseteq Film
         /\ \A f \in Pool : Admitted(f, Relaxation)
<1>1. catalog \in [Film -> FilmData] /\ ask.runtime \in BOOLEAN /\ ask.english \in BOOLEAN
  BY CatalogAssumption DEF TypeOK
<1>2. Asked = {c \in {"runtime", "english"} :
                 (c = "runtime" /\ ask.runtime) \/ (c = "english" /\ ask.english)}
  BY DEF Asked
<1>3. ASSUME NEW f \in Pool
      PROVE  Admitted(f, Relaxation)
  <2>1. ask.runtime => catalog[f].over <= Slack
    BY <1>2, <1>3 DEF Pool, Matching
  <2>2. ask.english /\ "english" \notin Relaxation => catalog[f].english
    BY <1>2, <1>3 DEF Pool, Matching
  <2>3. Longer => "runtime" \in Relaxation
    BY DEF Relaxation
  <2>4. catalog[f].listed /\ catalog[f].over \in 0..2
    BY <1>1, <1>3 DEF Pool, Matching, FilmData
  <2> QED
    BY <2>1, <2>2, <2>3, <2>4 DEF Admitted, Slack
<1> QED
  BY <1>3 DEF Pool, Matching

\* A relaxation is recorded only for a scarce pool.
LEMMA RelaxationIsScarce ==
  ASSUME TypeOK
  PROVE  /\ "runtime" \in Relaxation =>
              /\ ask.runtime
              /\ MinCandidates > Cardinality({f \in Film :
                   catalog[f].listed /\ catalog[f].over = 0
                     /\ (ask.english => catalog[f].english)})
         /\ "english" \in Relaxation =>
              /\ ask.english
              /\ MinCandidates > Cardinality({f \in Film :
                   catalog[f].listed /\ catalog[f].english
                     /\ (ask.runtime => catalog[f].over <= 1)})
<1>1. catalog \in [Film -> FilmData] /\ ask.runtime \in BOOLEAN /\ ask.english \in BOOLEAN
  BY CatalogAssumption DEF TypeOK
<1>2. Asked = {c \in {"runtime", "english"} :
                 (c = "runtime" /\ ask.runtime) \/ (c = "english" /\ ask.english)}
  BY DEF Asked
<1>3. ASSUME NEW n \in {0, 1}
      PROVE  Matching(Asked, n) =
               {f \in Film : /\ catalog[f].listed
                             /\ ask.runtime => catalog[f].over <= n
                             /\ ask.english => catalog[f].english}
  BY <1>2 DEF Matching
<1>4. \A S : IsFiniteSet(S) => Cardinality(S) \in Nat
  BY FS_CardinalityType
<1>5. \A S \in SUBSET Film : IsFiniteSet(S)
  BY FilmAssumption, FS_Subset
<1>6. CASE "runtime" \in Relaxation
  <2>1. Longer
    BY <1>6 DEF Relaxation
  <2> DEFINE S == {f \in Film : catalog[f].listed /\ catalog[f].over = 0
                                  /\ (ask.english => catalog[f].english)}
  <2>2. Matching(Asked, 0) = S
    <3>1. \A f \in Film : catalog[f].over \in 0..2
      BY <1>1 DEF FilmData
    <3>2. ask.runtime
      BY <2>1 DEF Longer
    <3>3. \A f \in Film : catalog[f].over <= 0 <=> catalog[f].over = 0
      BY <3>1
    <3> QED
      BY <1>3, <3>2, <3>3
  <2>3. Cardinality(S) \in Nat
    BY <1>4, <1>5
  <2>4. MinCandidates > Cardinality(S)
    BY <2>1, <2>2, <2>3, BoundAssumption DEF Longer, Scarce
  <2>5. ask.runtime
    BY <2>1 DEF Longer
  <2>6. CASE "english" \notin Relaxation
    BY <2>4, <2>5, <2>6
  <2>7. CASE "english" \in Relaxation
    <3>1. AnyLanguage
      BY <2>7 DEF Relaxation
    <3> DEFINE T == {f \in Film : catalog[f].listed /\ catalog[f].english
                                    /\ (ask.runtime => catalog[f].over <= 1)}
    <3>2. ask.english /\ Slack = 1
      BY <2>1, <3>1 DEF AnyLanguage, Slack
    <3>3. Matching(Asked, 1) = T
      BY <1>3, <3>2
    <3>4. Cardinality(T) \in Nat
      BY <1>4, <1>5
    <3>5. MinCandidates > Cardinality(T)
      BY <3>1, <3>2, <3>3, <3>4, BoundAssumption DEF AnyLanguage, Scarce
    <3> QED
      BY <2>4, <2>5, <3>2, <3>5
  <2> QED
    BY <2>6, <2>7
<1>7. CASE "runtime" \notin Relaxation
  <2>1. ~Longer
    BY <1>7 DEF Relaxation
  <2>2. CASE "english" \notin Relaxation
    BY <1>7, <2>2
  <2>3. CASE "english" \in Relaxation
    <3>1. AnyLanguage
      BY <2>3 DEF Relaxation
    <3> DEFINE T == {f \in Film : catalog[f].listed /\ catalog[f].english
                                    /\ (ask.runtime => catalog[f].over <= 1)}
    <3>2. ask.english /\ Slack = 0 /\ Scarce(Matching(Asked, 0))
      BY <2>1, <3>1 DEF AnyLanguage, Slack
    <3>3. ~ask.runtime
      BY <2>1, <3>2 DEF Longer
    <3>4. Matching(Asked, 0) = T
      BY <1>3, <3>2, <3>3
    <3>5. Cardinality(T) \in Nat
      BY <1>4, <1>5
    <3>6. MinCandidates > Cardinality(T)
      BY <3>2, <3>4, <3>5, BoundAssumption DEF Scarce
    <3> QED
      BY <1>7, <3>2, <3>6
  <2> QED
    BY <2>2, <2>3
<1> QED
  BY <1>6, <1>7

\* Something is retrieved from a pool that is not empty, and only from it.
LEMMA RetrievalsAreFound ==
  ASSUME TypeOK, Pool # {}, NEW R \in Retrievals
  PROVE  /\ R \subseteq Pool
         /\ IsFiniteSet(R) /\ Cardinality(R) \in Nat \ {0}
<1> DEFINE near  == {f \in Pool : catalog[f].vector}
           from  == IF near = {} THEN Pool ELSE near
           limit == Least(Limit, Cardinality(Pool))
<1>1. R \in SUBSET from /\ Cardinality(R) = Least(limit, Cardinality(from))
  BY DEF Retrievals
<1>2. from \subseteq Pool /\ from # {}
  OBVIOUS
<1>3. Pool \subseteq Film
  BY PoolIsAdmitted
<1>4. IsFiniteSet(Pool) /\ IsFiniteSet(from) /\ IsFiniteSet(R)
  <2>1. Pool \in SUBSET Film /\ from \in SUBSET Film /\ R \in SUBSET Film
    BY <1>1, <1>2, <1>3
  <2> QED
    BY <2>1, FilmAssumption, FS_Subset
<1>5. Cardinality(Pool) \in Nat \ {0} /\ Cardinality(from) \in Nat \ {0}
  BY <1>2, <1>4, FS_CardinalityType, FS_EmptySet
<1> HIDE DEF from
<1>6. limit \in Nat \ {0}
  BY <1>5, BoundAssumption DEF Least
<1> HIDE DEF limit
<1>7. Cardinality(R) \in Nat \ {0}
  BY <1>1, <1>5, <1>6 DEF Least
<1> QED
  BY <1>1, <1>2, <1>4, <1>7

LEMMA PrepareStep ==
  ASSUME Inv, Prepare
  PROVE  Inv'
<1>1. PICK R \in Retrievals :
        /\ order' \in SetToSeqs(R)
        /\ band' \in Least(1, Cardinality(R))..Cardinality(R)
        /\ shortlist' \in Shortlists(order', band')
  BY DEF Prepare
<1> DEFINE n == Cardinality(R)
<1>2. /\ pool' = Pool /\ relaxed' = Relaxation /\ at' = "ranking" /\ attempt' = 1
      /\ UNCHANGED <<catalog, ask, result, detail>> /\ Pool # {}
  BY DEF Prepare
<1>3. TypeOK
  BY DEF Inv
<1>4. R \subseteq Pool /\ n \in Nat \ {0}
  BY <1>2, <1>3, RetrievalsAreFound
<1>5. Pool \subseteq Film /\ \A f \in Pool : Admitted(f, Relaxation)
  BY <1>3, PoolIsAdmitted
<1>6. /\ order' \in [1..n -> R]
      /\ \A k, l \in 1..n : k # l => order'[k] # order'[l]
  BY <1>1 DEF SetToSeqs
<1>7. order' \in Seq(Film) /\ Len(order') = n
  BY <1>4, <1>5, <1>6
<1>8. order' # <<>>
  BY <1>4, <1>7
<1>9. band' \in 1..n
  BY <1>1, <1>4 DEF Least
<1>10. PICK i \in 1..band' : shortlist' = Shortlist(order', i)
  BY <1>1, <1>8 DEF Shortlists
<1> DEFINE m == Least(ShortlistSize, Len(order'))
<1>11. m \in 1..n
  BY <1>4, <1>7, BoundAssumption DEF Least
<1>12. shortlist' \in [1..m -> Film]
  <2>1. \A k \in 1..m : order'[i] \in Film /\ order'[k] \in Film
                        /\ (k # 1 => order'[k - 1] \in Film)
    BY <1>4, <1>5, <1>6, <1>9, <1>10, <1>11
  <2> QED
    BY <1>10, <2>1 DEF Shortlist
<1>13. shortlist' \in Seq(Film) /\ shortlist' # <<>>
  BY <1>11, <1>12
<1>14. TypeOK'
  <2>1. relaxed' \subseteq {"runtime", "english"}
    BY <1>2 DEF Relaxation
  <2>2. attempt' \in 0..Attempts /\ band' \in 0..Len(order')
    BY <1>2, <1>7, <1>9, BoundAssumption
  <2> QED
    BY <1>2, <1>3, <1>5, <1>7, <1>13, <2>1, <2>2 DEF TypeOK, Ranked
<1>15. RelaxedOnlyWhenScarce'
  BY <1>2, <1>3, RelaxationIsScarce DEF RelaxedOnlyWhenScarce
<1>16. \A f \in pool' : Admitted(f, relaxed)'
  BY <1>2, <1>5 DEF Admitted
<1>17. /\ \A k \in 1..Len(order') : order'[k] \in pool'
       /\ \A k, l \in 1..Len(order') : order'[k] = order'[l] => k = l
  BY <1>2, <1>4, <1>6, <1>7
<1>18. Promoted(shortlist, order, band)'
  BY <1>10 DEF Promoted, Shortlist
<1> QED
  BY <1>14, <1>15, <1>16, <1>17, <1>18 DEF Inv

LEMMA NextInv == Inv /\ [Next]_vars => Inv'
<1> SUFFICES ASSUME Inv, [Next]_vars PROVE Inv'
  OBVIOUS
<1>1. CASE Prepare
  BY <1>1, PrepareStep
<1>2. ASSUME UNCHANGED <<catalog, ask, pool, relaxed, order, band, shortlist>>,
             at' \in Ranked => at \in Ranked,
             at' \in {"asked", "refused"} \cup Ranked,
             attempt' \in 0..Attempts
      PROVE  Inv'
  <2>1. TypeOK'
    BY <1>2 DEF Inv, TypeOK
  <2>2. RelaxedOnlyWhenScarce'
    BY <1>2 DEF Inv, RelaxedOnlyWhenScarce
  <2>3. \A f, c : Admitted(f, c)' <=> Admitted(f, c)
    BY <1>2 DEF Admitted
  <2>4. Promoted(shortlist, order, band)' <=> Promoted(shortlist, order, band)
    BY <1>2 DEF Promoted
  <2>5. at \in Ranked => \A f \in pool : Admitted(f, relaxed)
    BY DEF Inv
  <2>6. at' \in Ranked => \A f \in pool' : Admitted(f, relaxed)'
    BY <1>2, <2>5 DEF Admitted
  <2> QED
    BY <1>2, <2>1, <2>2, <2>4, <2>6 DEF Inv
<1>3. CASE Refuse
  BY <1>2, <1>3 DEF Refuse, Ranked, Inv, TypeOK
<1>4. CASE Retry
  <2>1. attempt' \in 0..Attempts
    BY <1>4, BoundAssumption DEF Retry, Inv, TypeOK
  <2> QED
    BY <1>2, <1>4, <2>1 DEF Retry, Inv, TypeOK
<1>5. CASE RankingFails
  BY <1>2, <1>5 DEF RankingFails, Ranked, Inv, TypeOK
<1>6. CASE Rank
  BY <1>2, <1>6 DEF Rank, Ranked, Inv, TypeOK
<1>7. CASE Read
  BY <1>2, <1>7 DEF Read, Inv, TypeOK
<1>8. CASE UNCHANGED vars
  BY <1>2, <1>8 DEF vars, Inv, TypeOK
<1> QED
  BY <1>1, <1>3, <1>4, <1>5, <1>6, <1>7, <1>8 DEF Next

LEMMA InitInv == Init => Inv
<1> SUFFICES ASSUME Init PROVE Inv
  OBVIOUS
<1>1. TypeOK
  BY BoundAssumption DEF Init, TypeOK, Ranked
<1> QED
  BY <1>1 DEF Init, Inv, RelaxedOnlyWhenScarce, Ranked

THEOREM PipelineInvariant == Spec => []Inv
<1> QED
  BY InitInv, NextInv, PTL DEF Spec

\* A request that is ranked has a shortlist to rank: the model is never asked
\* to choose from nothing.
THEOREM PipelineTypes == Spec => []TypeOK
<1>1. Inv => TypeOK
  BY DEF Inv
<1> QED
  BY <1>1, PipelineInvariant, PTL

\* A constraint is loosened only for a scarce pool, in any library.
THEOREM RelaxationNeedsScarcity == Spec => []RelaxedOnlyWhenScarce
<1>1. Inv => RelaxedOnlyWhenScarce
  BY DEF Inv
<1> QED
  BY <1>1, PipelineInvariant, PTL

\* The films of a shortlist are films of the order they were taken from.
LEMMA ShortlistIsOrdered ==
  ASSUME Inv, at \in Ranked
  PROVE  \E p \in 1..band :
           /\ p \in 1..Len(order) /\ Len(order) \in Nat
           /\ DOMAIN shortlist = 1..Least(ShortlistSize, Len(order))
           /\ \A k \in DOMAIN shortlist :
                shortlist[k] = IF k = 1 THEN order[p]
                               ELSE IF k <= p THEN order[k - 1] ELSE order[k]
           /\ \A k \in DOMAIN shortlist : k \in 1..Len(order)
<1>1. PICK p \in 1..band :
        shortlist = [k \in 1..Least(ShortlistSize, Len(order)) |->
           IF k = 1 THEN order[p] ELSE IF k <= p THEN order[k - 1] ELSE order[k]]
  BY DEF Inv, Promoted
<1>2. Len(order) \in Nat /\ band \in 0..Len(order)
  BY DEF Inv, TypeOK
<1>3. \A k \in 1..Least(ShortlistSize, Len(order)) : k \in 1..Len(order)
  BY <1>2, BoundAssumption DEF Least
<1>4. p \in 1..Len(order) /\ Len(order) \in Nat
  BY <1>2
<1>5. DOMAIN shortlist = 1..Least(ShortlistSize, Len(order))
  BY <1>1
<1>6. \A k \in DOMAIN shortlist :
        shortlist[k] = IF k = 1 THEN order[p]
                       ELSE IF k <= p THEN order[k - 1] ELSE order[k]
  <2> DEFINE at_(k) == IF k = 1 THEN order[p]
                       ELSE IF k <= p THEN order[k - 1] ELSE order[k]
  <2> HIDE DEF at_
  <2>1. shortlist = [k \in 1..Least(ShortlistSize, Len(order)) |-> at_(k)]
    BY <1>1, Zenon DEF at_
  <2>2. \A k \in DOMAIN shortlist : shortlist[k] = at_(k)
    BY <2>1, Zenon
  <2> QED
    BY <2>2, Zenon DEF at_
<1>7. \A k \in DOMAIN shortlist : k \in 1..Len(order)
  BY <1>3, <1>5
<1> QED
  <2> WITNESS p \in 1..band
  <2> QED
    BY <1>4, <1>5, <1>6, <1>7, Zenon

\* Every film the model may choose meets the constraints that are recorded.
THEOREM ConstraintsAreRecorded == Spec => []RecordedConstraintsHold
<1>1. Inv => RecordedConstraintsHold
  <2> SUFFICES ASSUME Inv, at \in Ranked, NEW f \in ToSet(shortlist)
               PROVE  Admitted(f, relaxed)
    BY DEF RecordedConstraintsHold, Admitted
  <2>1. PICK k \in DOMAIN shortlist : f = shortlist[k]
    BY DEF ToSet
  <2>2. PICK p \in 1..band :
          /\ p \in 1..Len(order) /\ Len(order) \in Nat
          /\ shortlist[k] = IF k = 1 THEN order[p]
                            ELSE IF k <= p THEN order[k - 1] ELSE order[k]
          /\ k \in 1..Len(order)
    BY ShortlistIsOrdered
  <2>3. k # 1 => k - 1 \in 1..Len(order)
    BY <2>2
  <2>4. f \in pool
    BY <2>1, <2>2, <2>3 DEF Inv
  <2> QED
    BY <2>4 DEF Inv
<1> QED
  BY <1>1, PipelineInvariant, PTL

\* No film is passed over for a worse one, but for the promoted film of the band.
THEOREM ShortlistIsTheBest == Spec => []BestAreShortlisted
<1>1. Inv => BestAreShortlisted
  <2> SUFFICES ASSUME Inv, at \in Ranked,
                      NEW i \in 1..Len(order), NEW j \in 1..Len(order), i < j,
                      order[i] \notin ToSet(shortlist),
                      order[j] \in ToSet(shortlist)
               PROVE  order[j] = shortlist[1] /\ j <= band
    BY DEF BestAreShortlisted
  <2>1. PICK p \in 1..band :
          /\ p \in 1..Len(order) /\ Len(order) \in Nat
          /\ DOMAIN shortlist = 1..Least(ShortlistSize, Len(order))
          /\ \A k \in DOMAIN shortlist :
               shortlist[k] = IF k = 1 THEN order[p]
                              ELSE IF k <= p THEN order[k - 1] ELSE order[k]
          /\ \A k \in DOMAIN shortlist : k \in 1..Len(order)
    BY ShortlistIsOrdered
  <2>2. PICK k \in DOMAIN shortlist : order[j] = shortlist[k]
    BY DEF ToSet
  <2>3. \A a, b \in 1..Len(order) : order[a] = order[b] => a = b
    BY DEF Inv
  <2>4. \A l \in DOMAIN shortlist : shortlist[l] # order[i]
    BY DEF ToSet
  <2>5. \A l \in 1..k : l \in DOMAIN shortlist
    BY <2>1, <2>2, BoundAssumption DEF Least
  <2>6. band \in 0..Len(order)
    BY DEF Inv, TypeOK
  <2>7. CASE k = 1
    BY <2>1, <2>2, <2>3, <2>6, <2>7
  <2>8. CASE k # 1 /\ k <= p
    <3>1. j = k - 1
      BY <2>1, <2>2, <2>3, <2>8
    <3>2. i + 1 \in 1..k /\ i + 1 # 1 /\ i + 1 <= p
      BY <2>1, <2>8, <3>1
    <3>3. shortlist[i + 1] = order[i]
      BY <2>1, <2>5, <3>2
    <3> QED
      BY <2>4, <2>5, <3>2, <3>3
  <2>9. CASE k # 1 /\ k > p
    <3>1. j = k
      BY <2>1, <2>2, <2>3, <2>9
    <3>2. CASE i = p
      <4>1. 1 \in DOMAIN shortlist /\ shortlist[1] = order[p]
        BY <2>1, <2>2, <2>5
      <4> QED
        BY <2>4, <3>2, <4>1
    <3>3. CASE i < p
      <4>1. i + 1 \in 1..k /\ i + 1 # 1 /\ i + 1 <= p
        BY <2>1, <3>1, <3>3
      <4>2. shortlist[i + 1] = order[i]
        BY <2>1, <2>5, <4>1
      <4> QED
        BY <2>4, <2>5, <4>1, <4>2
    <3>4. CASE i > p
      <4>1. i \in 1..k /\ i # 1
        BY <2>1, <3>1, <3>4
      <4>2. shortlist[i] = order[i]
        BY <2>1, <2>5, <3>4, <4>1
      <4> QED
        BY <2>4, <2>5, <4>1, <4>2
    <3> QED
      BY <2>1, <3>2, <3>3, <3>4
  <2> QED
    BY <2>1, <2>2, <2>7, <2>8, <2>9
<1> QED
  BY <1>1, PipelineInvariant, PTL

-----------------------------------------------------------------------------
(* What the loops of the ranking leave.                                    *)

\* The loop of Take, item by item: what it has before the first, and after each.
TakeLoop(upto, taken, s, winner, n) ==
  /\ upto[0] = taken
  /\ \A i \in 1..Len(s) :
       upto[i] = IF /\ Len(upto[i - 1]) < n
                    /\ s[i] \in ToSet(shortlist) \ {winner}
                    /\ s[i] \notin ToSet(upto[i - 1])
                 THEN Append(upto[i - 1], s[i])
                 ELSE upto[i - 1]

LEMMA TakeUnfolds ==
  ASSUME NEW S, NEW taken \in Seq(S), NEW s \in Seq(S), NEW winner, NEW n
  PROVE  \E upto \in [0..Len(s) -> Seq(S)] :
           /\ Take(taken, s, winner, n) = upto[Len(s)]
           /\ TakeLoop(upto, taken, s, winner, n)
<1> DEFINE N == Len(s)
           Step(t, i) == IF /\ Len(t) < n
                            /\ s[i] \in ToSet(shortlist) \ {winner}
                            /\ s[i] \notin ToSet(t)
                         THEN Append(t, s[i])
                         ELSE t
           F == [p \in Seq(S) \X (1..N) |-> Step(p[1], p[2])]
           Body(f) == [i \in 0..N |-> IF i = 0 THEN taken ELSE Step(f[i - 1], i)]
<1>1. N \in Nat
  OBVIOUS
<1>2. \A t \in Seq(S), i \in 1..N : Step(t, i) \in Seq(S)
  OBVIOUS
<1> HIDE DEF Step
<1>3. F \in [Seq(S) \X (1..N) -> Seq(S)]
  BY <1>2
<1>4. PICK g \in [0..N -> Seq(S)] : IsRun(g, N, taken, F)
  <2> HIDE DEF F, N
  <2> QED
    BY <1>1, <1>3, RunExists
<1>5. \A i \in 1..N : g[i] = Step(g[i - 1], i)
  <2> SUFFICES ASSUME NEW i \in 1..N
               PROVE  g[i] = Step(g[i - 1], i)
    OBVIOUS
  <2>1. g[i - 1] \in Seq(S)
    BY <1>1
  <2>2. F[<<g[i - 1], i>>] = Step(g[i - 1], i)
    BY <2>1
  <2> QED
    BY <1>4, <2>2 DEF IsRun
<1>6. g = Body(g)
  BY <1>4, <1>5 DEF IsRun
<1> DEFINE upto == CHOOSE f : f = Body(f)
<1>7. upto = Body(upto)
  BY <1>6
<1>8. DOMAIN upto = 0..N /\ upto[0] = taken
  <2>1. upto = [i \in 0..N |-> IF i = 0 THEN taken ELSE Step(upto[i - 1], i)]
    BY <1>7
  <2> HIDE DEF upto
  <2> QED
    BY <1>1, <2>1
<1>9. \A i \in 1..N : upto[i] = Step(upto[i - 1], i)
  <2>1. upto = [i \in 0..N |-> IF i = 0 THEN taken ELSE Step(upto[i - 1], i)]
    BY <1>7
  <2> HIDE DEF upto
  <2> QED
    BY <1>1, <2>1
<1>10. Take(taken, s, winner, n) = upto[N]
  BY DEF Take, Step
<1> HIDE DEF upto
<1> DEFINE T == {i \in 0..N : upto[i] \in Seq(S)}
<1>11. 0 \in T
  BY <1>1, <1>8
<1>12. ASSUME NEW i \in 1..N, i - 1 \in T
       PROVE  i \in T
  BY <1>1, <1>2, <1>9, <1>12, SMTT(30)
<1>13. \A i \in 0..N : i \in T
  <2> HIDE DEF T, N
  <2> QED
    BY <1>1, <1>11, <1>12, StepByStep
<1>14. \A i \in 0..N : upto[i] \in Seq(S)
  BY <1>13
<1>15. upto \in [0..N -> Seq(S)]
  <2>1. upto = [i \in 0..N |-> upto[i]]
    BY <1>7, <1>8 DEF upto
  <2> QED
    BY <1>14, <2>1
<1>16. \A i \in 1..N :
         upto[i] = IF /\ Len(upto[i - 1]) < n
                      /\ s[i] \in ToSet(shortlist) \ {winner}
                      /\ s[i] \notin ToSet(upto[i - 1])
                   THEN Append(upto[i - 1], s[i])
                   ELSE upto[i - 1]
  BY <1>9 DEF Step
<1> QED
  BY <1>8, <1>10, <1>15, <1>16 DEF TakeLoop

\* What Take may add, and that it leaves nothing out while there is room.
Taken(t, taken, s, i, winner, n) ==
  /\ IsInjective(t)
  /\ Len(taken) <= Len(t) /\ Len(t) <= n
  /\ Len(taken) # 0 => t[1] = taken[1]
  /\ ToSet(taken) \subseteq ToSet(t)
  /\ ToSet(t) \subseteq ToSet(taken) \cup (ToSet(shortlist) \ {winner})
  /\ Len(t) < n =>
       \A j \in 1..i : s[j] \in ToSet(shortlist) \ {winner} => s[j] \in ToSet(t)

LEMMA TakenOneMore ==
  ASSUME NEW S, NEW taken \in Seq(S), NEW s \in Seq(S), NEW winner, NEW n \in Nat,
         NEW t \in Seq(S), NEW i \in 1..Len(s), Taken(t, taken, s, i - 1, winner, n),
         Len(t) < n, s[i] \in ToSet(shortlist) \ {winner}, s[i] \notin ToSet(t)
  PROVE  Taken(Append(t, s[i]), taken, s, i, winner, n)
<1> DEFINE u == Append(t, s[i])
<1>1. s[i] \in S
  OBVIOUS
<1>2. ToSet(u) = ToSet(t) \cup {s[i]}
  BY <1>1, OneMoreMembers
<1>3. IsInjective(t)
  BY DEF Taken
<1>4. IsInjective(u)
  BY <1>1, <1>3, OneMoreIsInjective
<1>5. /\ Len(u) = Len(t) + 1 /\ Len(t) \in Nat /\ Len(taken) \in Nat
      /\ Len(t) # 0 => u[1] = t[1]
  BY <1>1
<1> HIDE DEF u
<1>6. Len(taken) <= Len(u) /\ Len(u) <= n /\ (Len(taken) # 0 => u[1] = taken[1])
  BY <1>5 DEF Taken
<1>7. /\ ToSet(taken) \subseteq ToSet(u)
      /\ ToSet(u) \subseteq ToSet(taken) \cup (ToSet(shortlist) \ {winner})
  BY <1>2 DEF Taken
<1>8. \A j \in 1..i : j \in 1..(i - 1) \/ j = i
  OBVIOUS
<1>9. \A j \in 1..i : s[j] \in ToSet(shortlist) \ {winner} => s[j] \in ToSet(u)
  BY <1>2, <1>8 DEF Taken
<1>10. Taken(u, taken, s, i, winner, n)
  BY <1>4, <1>6, <1>7, <1>9 DEF Taken
<1> QED
  BY <1>10 DEF u

LEMMA TakeIsTaken ==
  ASSUME NEW S, NEW taken \in Seq(S), NEW s \in Seq(S), NEW winner, NEW n \in Nat,
         IsInjective(taken), Len(taken) <= n
  PROVE  /\ Take(taken, s, winner, n) \in Seq(S)
         /\ Taken(Take(taken, s, winner, n), taken, s, Len(s), winner, n)
<1>1. PICK upto \in [0..Len(s) -> Seq(S)] :
        /\ Take(taken, s, winner, n) = upto[Len(s)]
        /\ TakeLoop(upto, taken, s, winner, n)
  BY TakeUnfolds
<1> DEFINE N == Len(s)
           P == {i \in 0..N : Taken(upto[i], taken, s, i, winner, n)}
<1>2. N \in Nat
  OBVIOUS
<1>3. 0 \in P
  <2>1. Len(taken) \in Nat
    OBVIOUS
  <2>2. Taken(taken, taken, s, 0, winner, n)
    BY <2>1 DEF Taken
  <2> QED
    BY <1>1, <1>2, <2>2 DEF TakeLoop
<1>4. ASSUME NEW i \in 1..N, i - 1 \in P
      PROVE  i \in P
  <2> DEFINE t == upto[i - 1]
  <2>1. /\ t \in Seq(S) /\ Taken(t, taken, s, i - 1, winner, n)
        /\ i \in 1..Len(s) /\ i \in 0..N
    BY <1>2, <1>4, SMTT(30)
  <2>2. CASE /\ Len(t) < n
             /\ s[i] \in ToSet(shortlist) \ {winner}
             /\ s[i] \notin ToSet(t)
    <3>1. upto[i] = Append(t, s[i])
      BY <1>1, <2>2 DEF TakeLoop
    <3> HIDE DEF t
    <3>2. Taken(Append(t, s[i]), taken, s, i, winner, n)
      BY <2>1, <2>2, TakenOneMore
    <3> QED
      BY <2>1, <3>1, <3>2
  <2>3. CASE ~(/\ Len(t) < n
               /\ s[i] \in ToSet(shortlist) \ {winner}
               /\ s[i] \notin ToSet(t))
    <3>1. upto[i] = t
      BY <1>1, <2>3 DEF TakeLoop
    <3> HIDE DEF t
    <3>2. \A j \in 1..i : j \in 1..(i - 1) \/ j = i
      OBVIOUS
    <3>3. Taken(t, taken, s, i, winner, n)
      BY <2>1, <2>3, <3>2 DEF Taken
    <3> QED
      BY <2>1, <3>1, <3>3
  <2> QED
    BY <2>2, <2>3
<1>5. \A i \in 0..N : i \in P
  <2> HIDE DEF P, N
  <2> QED
    BY <1>2, <1>3, <1>4, StepByStep
<1>6. N \in 0..N
  BY <1>2
<1> QED
  BY <1>1, <1>5, <1>6

\* A shortlist names no film twice.
LEMMA ShortlistIsInjective ==
  ASSUME Inv, at \in Ranked
  PROVE  /\ IsInjective(shortlist) /\ shortlist \in Seq(Film) /\ shortlist # <<>>
         /\ Len(shortlist) \in Nat \ {0}
         /\ IsFiniteSet(ToSet(shortlist))
         /\ Cardinality(ToSet(shortlist)) = Len(shortlist)
<1>1. PICK p \in 1..band :
        /\ p \in 1..Len(order) /\ Len(order) \in Nat
        /\ DOMAIN shortlist = 1..Least(ShortlistSize, Len(order))
        /\ \A k \in DOMAIN shortlist :
             shortlist[k] = IF k = 1 THEN order[p]
                            ELSE IF k <= p THEN order[k - 1] ELSE order[k]
        /\ \A k \in DOMAIN shortlist : k \in 1..Len(order)
  BY ShortlistIsOrdered
<1> DEFINE from(k) == IF k = 1 THEN p ELSE IF k <= p THEN k - 1 ELSE k
<1>2. \A k \in DOMAIN shortlist :
        from(k) \in 1..Len(order) /\ shortlist[k] = order[from(k)]
  BY <1>1
<1>3. \A k, l \in DOMAIN shortlist : from(k) = from(l) => k = l
  BY <1>1
<1>4. \A k, l \in 1..Len(order) : order[k] = order[l] => k = l
  BY DEF Inv
<1> HIDE DEF from
<1>5. IsInjective(shortlist)
  BY <1>2, <1>3, <1>4 DEF IsInjective
<1>6. shortlist \in Seq(Film) /\ shortlist # <<>>
  BY DEF Inv, TypeOK
<1>7. Len(shortlist) \in Nat \ {0}
  BY <1>6
<1> QED
  BY <1>5, <1>6, <1>7, InjectiveLength

\* What a ranked request answers and stores.
Complete(winner, runners, cands) ==
  /\ winner \in ToSet(shortlist)
  /\ runners \in Seq(Film) /\ IsInjective(runners)
  /\ Len(runners) = Least(MaxRunners, Len(shortlist) - 1)
  /\ Len(cands) = Len(shortlist)
  /\ ToSet(cands) = ToSet(shortlist)
  /\ cands[1] = winner /\ cands # <<>>

\* Whatever the model names, there are as many runners-up as there can be.
LEMMA RunnersAreFound ==
  ASSUME Inv, at \in Ranked, NEW winner \in ToSet(shortlist), NEW others \in Answers
  PROVE  LET runners == Runners(winner, others) IN
         /\ runners \in Seq(Film) /\ IsInjective(runners)
         /\ Len(runners) = Least(MaxRunners, Len(shortlist) - 1)
         /\ ToSet(runners) \subseteq ToSet(shortlist) \ {winner}
<1> DEFINE S == Film \cup {None}
           rest == ToSet(shortlist) \ {winner}
           m == Least(MaxRunners, Len(shortlist) - 1)
           named == Take(<<>>, others, winner, MaxRunners)
           runners == Take(named, shortlist, winner, m)
<1>1. /\ IsInjective(shortlist) /\ shortlist \in Seq(Film)
      /\ Len(shortlist) \in Nat \ {0}
      /\ IsFiniteSet(ToSet(shortlist))
      /\ Cardinality(ToSet(shortlist)) = Len(shortlist)
  BY ShortlistIsInjective
<1>2. MaxRunners \in Nat /\ m \in Nat /\ m <= MaxRunners /\ m <= Len(shortlist) - 1
  BY <1>1, BoundAssumption DEF Least
<1>3. ToSet(shortlist) \subseteq Film
  BY <1>1 DEF ToSet
<1>4. others \in Seq(S)
  <2>1. CASE others = shortlist
    BY <1>1, <2>1
  <2>2. CASE others \in SeqOf(ToSet(shortlist) \cup {None}, MaxRunners)
    <3>1. PICK k \in 0..MaxRunners : others \in [1..k -> ToSet(shortlist) \cup {None}]
      BY <2>2 DEF SeqOf
    <3>2. k \in Nat
      BY <1>2
    <3> QED
      BY <1>3, <3>1, <3>2
  <2> QED
    BY <2>1, <2>2 DEF Answers
<1>5. IsFiniteSet(rest) /\ Cardinality(rest) = Len(shortlist) - 1
  BY <1>1, FS_RemoveElement
<1>6. ASSUME NEW t \in Seq(S), IsInjective(t), ToSet(t) \subseteq rest
      PROVE  Len(t) <= Len(shortlist) - 1 /\ (rest \subseteq ToSet(t) => Len(t) = Len(shortlist) - 1)
  <2>1. Cardinality(ToSet(t)) = Len(t)
    BY <1>6, InjectiveLength
  <2>2. Cardinality(ToSet(t)) <= Cardinality(rest)
    BY <1>5, <1>6, FS_Subset
  <2>3. rest \subseteq ToSet(t) => ToSet(t) = rest
    BY <1>6
  <2> QED
    BY <1>5, <2>1, <2>2, <2>3
<1>7. /\ <<>> \in Seq(S) /\ IsInjective(<<>>) /\ Len(<<>>) = 0 /\ ToSet(<<>>) = {}
  BY DEF IsInjective, ToSet
<1>8. named \in Seq(S) /\ Taken(named, <<>>, others, Len(others), winner, MaxRunners)
  <2> DEFINE none == <<>>
  <2>1. none \in Seq(S) /\ IsInjective(none) /\ Len(none) <= MaxRunners
    BY <1>2, <1>7
  <2> HIDE DEF none, S
  <2>2. /\ Take(none, others, winner, MaxRunners) \in Seq(S)
        /\ Taken(Take(none, others, winner, MaxRunners), none, others, Len(others),
                 winner, MaxRunners)
    BY <1>2, <1>4, <2>1, TakeIsTaken
  <2> QED
    BY <2>2 DEF none
<1> HIDE DEF named
<1>9. /\ IsInjective(named) /\ Len(named) <= MaxRunners
      /\ ToSet(named) \subseteq rest
  BY <1>7, <1>8 DEF Taken
<1>10. Len(named) <= m /\ Len(named) \in Nat
  <2>1. Len(named) <= Len(shortlist) - 1
    BY <1>6, <1>8, <1>9
  <2>2. Len(named) \in Nat
    BY <1>8
  <2> QED
    BY <1>1, <1>2, <1>9, <2>1, <2>2 DEF Least
<1>11. shortlist \in Seq(S)
  BY <1>1
<1> HIDE DEF m, S
<1>12. /\ runners \in Seq(S)
       /\ Taken(runners, named, shortlist, Len(shortlist), winner, m)
  BY <1>2, <1>8, <1>9, <1>10, <1>11, TakeIsTaken
<1>13. Runners(winner, others) = runners
  BY DEF Runners, named, m
<1> HIDE DEF runners
<1>14. /\ IsInjective(runners) /\ Len(runners) <= m /\ Len(runners) \in Nat
       /\ ToSet(runners) \subseteq rest
  BY <1>9, <1>12 DEF Taken
<1>15. Len(runners) < m => rest \subseteq ToSet(runners)
  <2> SUFFICES ASSUME Len(runners) < m, NEW f \in rest
               PROVE  f \in ToSet(runners)
    OBVIOUS
  <2>1. PICK j \in 1..Len(shortlist) : f = shortlist[j]
    BY <1>1 DEF ToSet
  <2> QED
    BY <1>12, <2>1 DEF Taken
<1>16. Len(runners) = m
  <2>1. rest \subseteq ToSet(runners) => Len(runners) = Len(shortlist) - 1
    BY <1>6, <1>12, <1>14
  <2> QED
    BY <1>1, <1>2, <1>14, <1>15, <2>1
<1>17. runners \in Seq(Film)
  <2>1. \A k \in 1..Len(runners) : runners[k] \in Film
    BY <1>3, <1>12, <1>14 DEF ToSet, S
  <2> QED
    BY <1>12, <2>1
<1> QED
  BY <1>13, <1>14, <1>16, <1>17 DEF m

\* The merged ranking is the shortlist, each film once, the winner first.
LEMMA MergeIsShortlist ==
  ASSUME Inv, at \in Ranked, NEW winner \in ToSet(shortlist),
         NEW runners \in Seq(Film), IsInjective(runners),
         ToSet(runners) \subseteq ToSet(shortlist) \ {winner}
  PROVE  LET cands == Merged(winner, runners) IN
         /\ cands \in Seq(Film) /\ cands[1] = winner
         /\ Len(cands) = Len(shortlist) /\ ToSet(cands) = ToSet(shortlist)
<1> DEFINE ranked == <<winner>> \o runners
           n == Len(ranked) + Len(shortlist)
           cands == Take(ranked, shortlist, None, n)
<1>1. /\ shortlist \in Seq(Film) /\ Len(shortlist) \in Nat \ {0}
      /\ IsFiniteSet(ToSet(shortlist))
      /\ Cardinality(ToSet(shortlist)) = Len(shortlist)
  BY ShortlistIsInjective
<1>2. ToSet(shortlist) \subseteq Film /\ winner \in Film
  BY <1>1 DEF ToSet
<1>3. /\ ranked \in Seq(Film) /\ Len(ranked) = Len(runners) + 1 /\ Len(runners) \in Nat
      /\ ranked[1] = winner
      /\ \A k \in 1..Len(runners) : ranked[k + 1] = runners[k]
  BY <1>2
<1> HIDE DEF ranked
<1>4. \A k \in 1..Len(ranked) : k = 1 \/ (k - 1 \in 1..Len(runners) /\ ranked[k] = runners[k - 1])
  BY <1>3
<1>5. \A k \in 1..Len(runners) : runners[k] \in ToSet(shortlist) /\ runners[k] # winner
  <2>1. \A k \in 1..Len(runners) : runners[k] \in ToSet(runners)
    BY DEF ToSet
  <2> QED
    BY <2>1
<1>6. IsInjective(ranked)
  <2>1. \A k, l \in 1..Len(runners) : runners[k] = runners[l] => k = l
    BY DEF IsInjective
  <2>2. ASSUME NEW k \in 1..Len(ranked), NEW l \in 1..Len(ranked), ranked[k] = ranked[l]
        PROVE  k = l
    <3>1. k = 1 /\ l # 1 => ranked[l] # ranked[1]
      BY <1>3, <1>4, <1>5
    <3>2. l = 1 /\ k # 1 => ranked[k] # ranked[1]
      BY <1>3, <1>4, <1>5
    <3>3. k # 1 /\ l # 1 => k - 1 = l - 1
      BY <1>4, <2>1, <2>2
    <3> QED
      BY <2>2, <3>1, <3>2, <3>3
  <2>3. DOMAIN ranked = 1..Len(ranked)
    BY <1>3
  <2> QED
    BY <2>2, <2>3 DEF IsInjective
<1>7. ToSet(ranked) \subseteq ToSet(shortlist)
  <2>1. \A k \in 1..Len(ranked) : ranked[k] \in ToSet(shortlist)
    BY <1>3, <1>4, <1>5
  <2>2. DOMAIN ranked = 1..Len(ranked)
    BY <1>3
  <2> QED
    BY <2>1, <2>2 DEF ToSet
<1>8. n \in Nat /\ Len(ranked) <= n /\ Len(shortlist) < n
  BY <1>1, <1>3
<1> HIDE DEF n
<1>9. cands \in Seq(Film) /\ Taken(cands, ranked, shortlist, Len(shortlist), None, n)
  BY <1>1, <1>3, <1>6, <1>8, TakeIsTaken
<1>10. Merged(winner, runners) = cands
  BY DEF Merged, ranked, n
<1> HIDE DEF cands
<1>11. ToSet(cands) \subseteq ToSet(shortlist)
  BY <1>7, <1>9 DEF Taken
<1>12. Len(cands) = Cardinality(ToSet(cands)) /\ Len(cands) \in Nat
  BY <1>9, InjectiveLength DEF Taken
<1>13. Len(cands) <= Len(shortlist)
  BY <1>1, <1>11, <1>12, FS_Subset
<1>14. ToSet(shortlist) \subseteq ToSet(cands)
  <2> SUFFICES ASSUME NEW f \in ToSet(shortlist)
               PROVE  f \in ToSet(cands)
    OBVIOUS
  <2>1. f # None
    BY <1>2, FilmAssumption
  <2>2. PICK j \in 1..Len(shortlist) : f = shortlist[j]
    BY <1>1 DEF ToSet
  <2>3. Len(cands) < n
    BY <1>1, <1>8, <1>12, <1>13
  <2> QED
    BY <1>9, <2>1, <2>2, <2>3 DEF Taken
<1>15. ToSet(cands) = ToSet(shortlist)
  BY <1>11, <1>14
<1>16. cands[1] = winner
  BY <1>3, <1>9 DEF Taken
<1> QED
  BY <1>1, <1>9, <1>10, <1>12, <1>15, <1>16

\* What the response, the session's rows and the session as it is read say.
Answer ==
  /\ at = "answered" =>
       /\ Complete(result.winner, result.runners, result.cands)
       /\ result.explained = ToSet(result.runners)
  /\ detail # NoDetail =>
       /\ at = "answered"
       /\ detail.winner = result.winner
       /\ ToSet(detail.runners) = ToSet(result.runners)

LEMMA RankAnswer ==
  ASSUME Inv, Rank
  PROVE  /\ Complete(result.winner, result.runners, result.cands)'
         /\ result'.explained = ToSet(result'.runners)
<1>1. PICK named \in ToSet(shortlist) \cup {None}, others \in Answers :
        result' = [winner    |-> Winner(named),
                   runners   |-> Runners(Winner(named), others),
                   explained |-> ToSet(Runners(Winner(named), others)) \cap
                                   Explained(ToSet(others), Winner(named),
                                             Runners(Winner(named), others)),
                   cands     |-> Merged(Winner(named), Runners(Winner(named), others))]
  BY DEF Rank
<1> DEFINE winner == Winner(named)
           runners == Runners(winner, others)
           cands == Merged(winner, runners)
<1>2. at \in Ranked /\ shortlist' = shortlist
  BY DEF Rank, Ranked
<1>3. shortlist \in Seq(Film) /\ Len(shortlist) \in Nat \ {0}
  BY <1>2, ShortlistIsInjective
<1>4. winner \in ToSet(shortlist)
  <2>1. shortlist[1] \in ToSet(shortlist)
    BY <1>3 DEF ToSet
  <2> QED
    BY <2>1 DEF Winner
<1> HIDE DEF winner
<1>5. /\ runners \in Seq(Film) /\ IsInjective(runners)
      /\ Len(runners) = Least(MaxRunners, Len(shortlist) - 1)
      /\ ToSet(runners) \subseteq ToSet(shortlist) \ {winner}
  BY <1>2, <1>4, RunnersAreFound
<1> HIDE DEF runners
<1>6. /\ cands \in Seq(Film) /\ cands[1] = winner
      /\ Len(cands) = Len(shortlist) /\ ToSet(cands) = ToSet(shortlist)
  BY <1>2, <1>4, <1>5, MergeIsShortlist
<1>7. cands # <<>>
  BY <1>3, <1>6
<1> HIDE DEF cands
<1>8. Complete(winner, runners, cands)
  BY <1>4, <1>5, <1>6, <1>7 DEF Complete
<1>9. /\ result'.winner = winner /\ result'.runners = runners /\ result'.cands = cands
      /\ result'.explained =
           ToSet(runners) \cap Explained(ToSet(others), winner, runners)
  BY <1>1 DEF winner, runners, cands
<1>10. ToSet(runners) \cap Explained(ToSet(others), winner, runners) = ToSet(runners)
  BY DEF Explained
<1> QED
  BY <1>2, <1>8, <1>9, <1>10 DEF Complete

\* The keys of the explanations are the runners-up, and no more than are read.
LEMMA ReadAnswer ==
  ASSUME Inv, Answer, Read
  PROVE  /\ detail'.winner = result.winner
         /\ ToSet(detail'.runners) = ToSet(result.runners)
<1>1. PICK keys \in SetToSeqs(result.explained) :
        detail' = [winner  |-> result.winner,
                   runners |-> SubSeq(keys, 1, Least(4, Len(keys)))]
  BY DEF Read
<1> DEFINE runners == result.runners
           K == ToSet(runners)
<1>2. /\ runners \in Seq(Film) /\ IsInjective(runners)
      /\ Len(runners) = Least(MaxRunners, Len(shortlist) - 1)
      /\ result.explained = K
  BY DEF Read, Answer, Complete
<1>3. at \in Ranked
  BY DEF Read, Ranked
<1>4. Len(shortlist) \in Nat \ {0}
  BY <1>3, ShortlistIsInjective
<1>5. IsFiniteSet(K) /\ Cardinality(K) = Len(runners)
  BY <1>2, InjectiveLength
<1>6. Len(runners) \in 0..4
  <2>1. \A m \in 0..4, l \in Nat : Least(m, l) \in 0..4
    BY DEF Least
  <2>2. MaxRunners \in 0..4 /\ Len(shortlist) - 1 \in Nat
    BY <1>4, BoundAssumption
  <2>3. Least(MaxRunners, Len(shortlist) - 1) \in 0..4
    BY <2>1, <2>2
  <2> QED
    BY <1>2, <2>3
<1> DEFINE n == Cardinality(K)
<1>7. /\ keys \in [1..n -> K]
      /\ \A i, j \in 1..n : i # j => keys[i] # keys[j]
  BY <1>1, <1>2 DEF SetToSeqs
<1>8. n \in 0..4
  BY <1>5, <1>6
<1> HIDE DEF K, n
<1>9. keys \in Seq(K) /\ Len(keys) = n /\ IsInjective(keys)
  BY <1>7, <1>8 DEF IsInjective
<1>10. ToSet(keys) \subseteq K
  BY <1>9 DEF ToSet
<1>11. Cardinality(ToSet(keys)) = Cardinality(K)
  BY <1>9, InjectiveLength DEF n
<1>12. ToSet(keys) = K
  BY <1>5, <1>10, <1>11, FS_Subset
<1>13. Least(4, Len(keys)) = Len(keys) /\ Len(keys) \in Nat
  BY <1>8, <1>9 DEF Least
<1>14. SubSeq(keys, 1, Len(keys)) = keys
  BY <1>9
<1>15. detail'.winner = result.winner /\ detail'.runners = keys
  BY <1>1, <1>13, <1>14
<1> QED
  BY <1>12, <1>15 DEF K

THEOREM AnswerIsComplete == Spec => []Answer
<1>1. Init => Answer
  BY DEF Init, Answer
<1>2. Inv /\ Answer /\ [Next]_vars => Answer'
  <2> SUFFICES ASSUME Inv, Answer, [Next]_vars
               PROVE  Answer'
    OBVIOUS
  <2>1. ASSUME UNCHANGED <<result, detail>>, at # "answered", at' # "answered"
        PROVE  Answer'
    BY <2>1 DEF Answer, NoDetail
  <2>2. CASE Prepare
    BY <2>1, <2>2 DEF Prepare
  <2>3. CASE Refuse
    BY <2>1, <2>3 DEF Refuse
  <2>4. CASE Retry
    BY <2>1, <2>4 DEF Retry
  <2>5. CASE RankingFails
    BY <2>1, <2>5 DEF RankingFails
  <2>6. CASE Rank
    <3>1. detail' = detail /\ detail = NoDetail
      BY <2>6 DEF Rank, Answer
    <3> QED
      BY <2>6, <3>1, RankAnswer DEF Answer, NoDetail
  <2>7. CASE Read
    <3>1. UNCHANGED <<result, shortlist>> /\ at = "answered" /\ at' = "answered"
      BY <2>7 DEF Read
    <3>2. Complete(result.winner, result.runners, result.cands)'
      BY <3>1 DEF Answer, Complete
    <3>3. result'.explained = ToSet(result'.runners)
      BY <3>1 DEF Answer
    <3> QED
      BY <2>7, <3>1, <3>2, <3>3, ReadAnswer DEF Answer
  <2>8. CASE UNCHANGED vars
    BY <2>8 DEF vars, Answer, Complete, NoDetail
  <2> QED
    BY <2>2, <2>3, <2>4, <2>5, <2>6, <2>7, <2>8 DEF Next
<1> QED
  BY <1>1, <1>2, PipelineInvariant, PTL DEF Spec

\* Whatever the language model answers, each film of the shortlist is stored
\* once, the winner first, with as many runners-up as there can be.
THEOREM ShortlistIsStored == Spec => []EachStoredOnce
<1>1. Answer => EachStoredOnce
  BY DEF Answer, Complete, EachStoredOnce
<1> QED
  BY <1>1, AnswerIsComplete, PTL

\* The session as it is read names the films the response named.
THEOREM DetailNamesTheRunners == Spec => []DetailIsComplete
<1>1. Answer => DetailIsComplete
  BY DEF Answer, DetailIsComplete
<1> QED
  BY <1>1, AnswerIsComplete, PTL
=============================================================================
