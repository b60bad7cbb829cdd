----------------------------- MODULE MCRssFeed -----------------------------
(* RssFeed for TLC: three entries of one film, of which the last two are   *)
(* on the feed; the first has a date that cannot be read and the last no   *)
(* readable time.                                                          *)
EXTENDS RssFeed

Entries == 1..3
Films   == [e \in Entries |-> CHOOSE f \in Film : TRUE]
Days    == <<Malformed, 2, 1>>
=============================================================================
