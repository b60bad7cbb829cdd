---------------------------- MODULE MCEnrichment ----------------------------
(* Enrichment for TLC: everything but the requests is interchangeable.     *)
EXTENDS Enrichment, TLC

\* a search may bring any film of TMDB, or each search another
FindsAny == [f \in Film |-> Match]
FindsOwn == CHOOSE s \in [Film -> {{m} : m \in Match}] :
              \A f, g \in Film : f # g => s[f] # s[g]

Symmetry ==
  Permutations(Film) \cup Permutations(Job) \cup Permutations(Task)
    \cup Permutations(Thread) \cup Permutations(Match) \cup Permutations(Review)
=============================================================================
