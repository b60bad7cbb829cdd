----------------------------- MODULE WatchDiary -----------------------------
(***************************************************************************)
(* What the watch side of Cuebox promises about a film, said without       *)
(* watchlist entries, draft rows, caps or sources: which stage of its life *)
(* a film is in, and on which days it was watched.  WatchLifecycle         *)
(* implements this module.                                                 *)
(*                                                                         *)
(* The stages are films.status; the moves are those that the status        *)
(* service, the review service, the imports and the feed may make          *)
(* together, in one transaction for any number of films.                   *)
(***************************************************************************)
CONSTANTS Film, Date

VARIABLES stage, diary

Stage == {"absent", "active", "pending_watch_review", "watched", "archived"}

Init ==
  /\ stage = [f \in Film |-> "absent"]
  /\ diary = [f \in Film |-> {}]

\* Watched is never taken back to review or dropped, and a film that is not
\* active cannot be archived except from a review that is cancelled.
MayMove(from, to) ==
  \/ from = to
  \/ from = "absent"               /\ to \in Stage \ {"archived"}
  \/ from = "active"               /\ to \in Stage \ {"absent"}
  \/ from = "pending_watch_review" /\ to \in Stage \ {"absent"}
  \/ from = "watched"              /\ to = "active"
  \/ from = "archived"             /\ to \in Stage \ {"absent"}

\* Films move along their stages and gain days; a film that becomes watched
\* has a day to show for it.
Move ==
  /\ stage' \in [Film -> Stage]
  /\ diary' \in [Film -> SUBSET Date]
  /\ \A f \in Film :
       /\ MayMove(stage[f], stage'[f])
       /\ diary[f] \subseteq diary'[f]
       /\ stage'[f] \in {"absent", "active", "archived",
                         "pending_watch_review"} \/ diary'[f] # {}
       /\ diary'[f] # diary[f] => stage'[f] = "watched"

\* The user corrects the day of one watch.
Correct(f) ==
  /\ UNCHANGED stage
  /\ \E old \in diary[f], new \in Date :
       /\ new \notin diary[f] \ {old}
       /\ diary' = [diary EXCEPT ![f] = (@ \ {old}) \cup {new}]

Next == Move \/ \E f \in Film : Correct(f)

Spec == Init /\ [][Next]_<<stage, diary>>
=============================================================================
