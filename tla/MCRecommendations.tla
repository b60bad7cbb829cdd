------------------------- MODULE MCRecommendations -------------------------
(* Recommendations for TLC.  Films, requests, sessions and answers are     *)
(* interchangeable: nothing in the model orders them.                      *)
EXTENDS Recommendations, TLC

Symmetry ==
  Permutations(Film) \cup Permutations(Request) \cup Permutations(Session)
    \cup Permutations(Answer)
=============================================================================
