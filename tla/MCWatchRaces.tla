---------------------------- MODULE MCWatchRaces ----------------------------
(* WatchRaces for TLC.  Primary keys are interchangeable, and so are films *)
(* and requests.                                                           *)
EXTENDS WatchRaces, TLC

Symmetry ==
  Permutations(Film) \cup Permutations(Request)
    \cup Permutations(Entry) \cup Permutations(Row)
=============================================================================
