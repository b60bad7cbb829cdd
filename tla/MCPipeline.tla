----------------------------- MODULE MCPipeline -----------------------------
(* Pipeline for TLC: every library whose films are of five kinds, among     *)
(* them films that only a relaxation admits and films without a vector.     *)
EXTENDS Pipeline

Kind(listed, over, english, vector) ==
  [listed |-> listed, over |-> over, english |-> english, vector |-> vector]

MCCatalog ==
  [Film -> {Kind(TRUE, 0, TRUE, TRUE),  Kind(TRUE, 1, TRUE, FALSE),
            Kind(TRUE, 0, FALSE, TRUE), Kind(TRUE, 2, FALSE, TRUE),
            Kind(FALSE, 0, TRUE, TRUE)}]

Symmetry == Permutations(Film)
=============================================================================
