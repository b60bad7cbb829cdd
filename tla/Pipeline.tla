------------------------------ MODULE Pipeline ------------------------------
(***************************************************************************)
(* What happens to the films of one recommendation: the hard constraints   *)
(* and their relaxation, retrieval, the order of the scores, the promotion *)
(* of a close film, the answer of the language model and what is left of   *)
(* it, the stored candidates, and the session as it is read later.         *)
(*                                                                         *)
(* Scores appear as what is done with them: an order of the retrieved      *)
(* films and how many of the first are in the band of the best.  Module    *)
(* Scoring says what the scores are.                                       *)
(***************************************************************************)
EXTENDS Integers, Sequences, FiniteSets, SequencesExt

CONSTANTS
  Film,
  Catalog,        \* the libraries of a run: what films there may be
  MinCandidates,  \* MIN_CANDIDATES, 5
  Limit,          \* retrieval_candidate_limit
  ShortlistSize,  \* 20
  MaxRunners,     \* 4
  Attempts,       \* _MAX_ATTEMPTS, 3
  None

(* A film as the filter sees it.  listed: active, ready and with metadata; *)
(* over: 0 within the asked runtime or without a runtime, 1 within half an *)
(* hour more, 2 beyond; english: or of no known language; vector: has one  *)
(* of the active embedding version.                                        *)
FilmData == [listed: BOOLEAN, over: 0..2, english: BOOLEAN, vector: BOOLEAN]

ASSUME CatalogAssumption == Catalog \subseteq [Film -> FilmData]
ASSUME FilmAssumption    == IsFiniteSet(Film) /\ None \notin Film
ASSUME BoundAssumption ==
  /\ MinCandidates \in Nat
  /\ MaxRunners \in 0..4
  /\ Limit \in Nat \ {0}
  /\ ShortlistSize \in Nat \ {0}
  /\ Attempts \in Nat \ {0}

VARIABLES
  catalog,    \* the films of the library
  ask,        \* the hard constraints of the questionnaire
  at,         \* where the request is
  pool,       \* films that passed stage 1
  relaxed,    \* constraint_relaxation
  order,      \* retrieved films by final score, best first
  band,       \* how many of them are within STOCHASTIC_BAND of the best
  shortlist,  \* what the language model is asked to rank
  attempt,    \* calls of the ranking provider
  result,     \* the response and the rows of the session
  detail      \* the session as it was read last

vars == <<catalog, ask, at, pool, relaxed, order, band, shortlist, attempt,
          result, detail>>

Least(m, n) == IF m < n THEN m ELSE n

NoResult == [winner |-> None, runners |-> <<>>, explained |-> {}, cands |-> <<>>]
NoDetail == [winner |-> None, runners |-> <<>>]

Init ==
  /\ catalog \in Catalog
  /\ ask \in [runtime: BOOLEAN, english: BOOLEAN]
  /\ at = "asked"
  /\ pool = {}
  /\ relaxed = {}
  /\ order = <<>>
  /\ band = 0
  /\ shortlist = <<>>
  /\ attempt = 0
  /\ result = NoResult
  /\ detail = NoDetail

-----------------------------------------------------------------------------
(* Stage 1: list_recommendation_candidates and _stage1_filter.             *)

Matching(constraints, slack) ==
  {f \in Film :
     /\ catalog[f].listed
     /\ "runtime" \in constraints => catalog[f].over <= slack
     /\ "english" \in constraints => catalog[f].english}

Asked == {c \in {"runtime", "english"} : ask[c]}

\* mistake: five films are too few
Scarce_AtBound(films) == Cardinality(films) <= MinCandidates

Scarce(films) == Cardinality(films) < MinCandidates

\* the runtime is raised by half an hour when too few films are left ...
Longer == Scarce(Matching(Asked, 0)) /\ ask.runtime

\* mistake: an hour more than asked
Slack_Hour == IF Longer THEN 2 ELSE 0

Slack  == IF Longer THEN 1 ELSE 0

\* ... and the language dropped when they still are
AnyLanguage == Scarce(Matching(Asked, Slack)) /\ ask.english

Relaxation == {c \in {"runtime", "english"} :
                 (c = "runtime" /\ Longer) \/ (c = "english" /\ AnyLanguage)}

Pool == Matching(Asked \ (Relaxation \ {"runtime"}), Slack)

-----------------------------------------------------------------------------
(* Stages 2 to 5.                                                          *)

\* mistake: no film is retrieved when none has a vector
Retrievals_VectorsOnly ==
  LET near == {f \in Pool : catalog[f].vector}
  IN  {R \in SUBSET near : Cardinality(R) = Least(Limit, Cardinality(near))}

\* _stage2_retrieve: the nearest by vector; when no film of the pool has one,
\* the first of the pool
Retrievals ==
  LET near  == {f \in Pool : catalog[f].vector}
      from  == IF near = {} THEN Pool ELSE near
      limit == Least(Limit, Cardinality(Pool))
  IN  {R \in SUBSET from : Cardinality(R) = Least(limit, Cardinality(from))}

\* mistake: the film that was first is dropped for the promoted one
Shortlist_DropsFirst(s, i) ==
  [k \in 1..Least(ShortlistSize, Len(s)) |-> IF k = 1 THEN s[i] ELSE s[k]]

\* _stage5_stochastic: film number i goes first, the others keep their order.
\* The first is promoted when it is alone in its band.
Shortlist(s, i) ==
  [k \in 1..Least(ShortlistSize, Len(s)) |->
     IF k = 1 THEN s[i] ELSE IF k <= i THEN s[k - 1] ELSE s[k]]

\* nothing retrieved, nothing to promote
Shortlists(s, b) ==
  IF s = <<>> THEN {<<>>} ELSE {Shortlist(s, i) : i \in 1..b}

\* stages 1 to 5 run without an await
Prepare ==
  /\ at = "asked"
  /\ Pool # {}
  /\ pool' = Pool
  /\ relaxed' = Relaxation
  /\ \E R \in Retrievals :
       /\ order' \in SetToSeqs(R)
       /\ band' \in Least(1, Cardinality(R))..Cardinality(R)
       /\ shortlist' \in Shortlists(order', band')
  /\ at' = "ranking"
  /\ attempt' = 1
  /\ UNCHANGED <<catalog, ask, result, detail>>

\* 422 INSUFFICIENT_CANDIDATES
Refuse ==
  /\ at = "asked"
  /\ Pool = {}
  /\ at' = "refused"
  /\ UNCHANGED <<catalog, ask, pool, relaxed, order, band, shortlist, attempt,
                 result, detail>>

-----------------------------------------------------------------------------
(* Stage 6.                                                                *)

\* request_with_retry: a status that is retried, and an attempt left
Retry ==
  /\ at = "ranking"
  /\ attempt < Attempts
  /\ attempt' = attempt + 1
  /\ UNCHANGED <<catalog, ask, at, pool, relaxed, order, band, shortlist,
                 result, detail>>

\* any other error, the last attempt's status, or an answer that is not JSON
RankingFails ==
  /\ at = "ranking"
  /\ at' = "failed"
  /\ UNCHANGED <<catalog, ask, pool, relaxed, order, band, shortlist, attempt,
                 result, detail>>

\* mistake: a film may be taken twice
Take_Again(taken, s, winner, n) ==
  LET upto[i \in 0..Len(s)] ==
        IF i = 0 THEN taken
        ELSE IF Len(upto[i - 1]) < n /\ s[i] \in ToSet(shortlist) \ {winner}
             THEN Append(upto[i - 1], s[i])
             ELSE upto[i - 1]
  IN  upto[Len(s)]

\* items of s that are not yet taken, until there are n
Take(taken, s, winner, n) ==
  LET upto[i \in 0..Len(s)] ==
        IF i = 0 THEN taken
        ELSE IF /\ Len(upto[i - 1]) < n
                /\ s[i] \in ToSet(shortlist) \ {winner}
                /\ s[i] \notin ToSet(upto[i - 1])
             THEN Append(upto[i - 1], s[i])
             ELSE upto[i - 1]
  IN  upto[Len(s)]

\* _parse_ranking_json; None stands for an id that is missing or not a
\* candidate's
Winner(named) == IF named \in ToSet(shortlist) THEN named ELSE shortlist[1]

Runners(winner, named) ==
  Take(Take(<<>>, named, winner, MaxRunners), shortlist, winner,
       Least(MaxRunners, Len(shortlist) - 1))

\* _merge_ranking: what the model ranked, then every film of the shortlist that
\* is not among them, however many they are
Merged(winner, runners) ==
  LET ranked == <<winner>> \o runners
  IN  Take(ranked, shortlist, None, Len(ranked) + Len(shortlist))

\* runners-up the model may name: too few, twice, the winner, strangers, or all
Answers == SeqOf(ToSet(shortlist) \cup {None}, MaxRunners) \cup {shortlist}

\* mistake: a runner-up the model did not explain is left without
Explained_AsGiven(given, winner, runners) == given

\* films the model explained, and a default explanation for those it should have
Explained(given, winner, runners) == given \cup {winner} \cup ToSet(runners)

\* the response, the candidates, and the explanations of the runners-up
Rank ==
  /\ at = "ranking"
  /\ \E named \in ToSet(shortlist) \cup {None}, others \in Answers :
       LET winner  == Winner(named)
           runners == Runners(winner, others)
       IN  result' = [winner    |-> winner,
                      runners   |-> runners,
                      explained |-> ToSet(runners) \cap
                                      Explained(ToSet(others), winner, runners),
                      cands     |-> Merged(winner, runners)]
  /\ at' = "answered"
  /\ UNCHANGED <<catalog, ask, pool, relaxed, order, band, shortlist, attempt,
                 detail>>

\* get_session: the runners-up are the keys of a JSONB object, whose order is
\* not that of the ranking
Read ==
  /\ at = "answered"
  /\ \E keys \in SetToSeqs(result.explained) :
       detail' = [winner  |-> result.winner,
                  runners |-> SubSeq(keys, 1, Least(4, Len(keys)))]
  /\ UNCHANGED <<catalog, ask, at, pool, relaxed, order, band, shortlist,
                 attempt, result>>

Next == Prepare \/ Refuse \/ Retry \/ RankingFails \/ Rank \/ Read

Spec == Init /\ [][Next]_vars

-----------------------------------------------------------------------------

Ranked == {"ranking", "answered", "failed"}

TypeOK ==
  /\ catalog \in Catalog
  /\ ask \in [runtime: BOOLEAN, english: BOOLEAN]
  /\ at \in {"asked", "refused"} \cup Ranked
  /\ pool \subseteq Film
  /\ relaxed \subseteq {"runtime", "english"}
  /\ order \in Seq(Film)
  /\ band \in 0..Len(order)
  /\ shortlist \in Seq(Film)
  /\ at \in Ranked => shortlist # <<>>
  /\ attempt \in 0..Attempts

\* Every film the model may choose was listed, and meets the constraints as
\* asked, loosened by no more than the session records.
RecordedConstraintsHold ==
  at \in Ranked => \A f \in ToSet(shortlist) :
    /\ catalog[f].listed
    /\ ask.runtime => catalog[f].over <= IF "runtime" \in relaxed THEN 1 ELSE 0
    /\ ask.english /\ "english" \notin relaxed => catalog[f].english

\* A constraint is loosened only when it was asked and too few films are left
\* with it, and the language only when the longer runtime does not help.
RelaxedOnlyWhenScarce ==
  /\ "runtime" \in relaxed =>
       /\ ask.runtime
       /\ MinCandidates > Cardinality({f \in Film :
            catalog[f].listed /\ catalog[f].over = 0
              /\ (ask.english => catalog[f].english)})
  /\ "english" \in relaxed =>
       /\ ask.english
       /\ MinCandidates > Cardinality({f \in Film :
            catalog[f].listed /\ catalog[f].english
              /\ (ask.runtime => catalog[f].over <= 1)})

\* A retrieved film is left out of the shortlist only for better ones, and for
\* one film of the band.
BestAreShortlisted ==
  at \in Ranked => \A i, j \in 1..Len(order) :
    /\ i < j
    /\ order[i] \notin ToSet(shortlist)
    /\ order[j] \in ToSet(shortlist)
    => order[j] = shortlist[1] /\ j <= band

\* Whatever the language model answers, each film of the shortlist is stored,
\* and counted, exactly once, the winner first, with as many runners-up as
\* there can be.
EachStoredOnce ==
  at = "answered" =>
    /\ Len(result.cands) = Len(shortlist)
    /\ ToSet(result.cands) = ToSet(shortlist)
    /\ Head(result.cands) = result.winner
    /\ Len(result.runners) = Least(MaxRunners, Len(shortlist) - 1)

\* The session read later names the films the response named.
DetailIsComplete ==
  detail # NoDetail =>
    /\ detail.winner = result.winner
    /\ ToSet(detail.runners) = ToSet(result.runners)
=============================================================================
