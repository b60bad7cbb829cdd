-------------------------- MODULE Recommendations --------------------------
(***************************************************************************)
(* Recommendations and the exposure of films.  A recommendation resolves   *)
(* the profile of the answers (awaiting an embedding when none is cached), *)
(* reads the exposure of the films it will rank, awaits the ranking, and   *)
(* then writes its session and the counters it computed from what it had   *)
(* read.  A deletion, in a worker thread, takes them back.                 *)
(*                                                                         *)
(* Recommendations run on one event loop, so what lies between two awaits  *)
(* is one action; the statements of a deletion are three.  An UPDATE names *)
(* its row by primary key and the columns that changed.                    *)
(***************************************************************************)
EXTENDS Integers, FiniteSets

CONSTANTS
  Film,      \* films that can be recommended
  Request,   \* requests under way at a time
  Session,   \* recommendations ever asked for: the bound of a run
  Answer,    \* questionnaires with notes, up to their hash
  None

VARIABLES
  session,    \* recommendation_sessions with their candidates
  exposure,   \* recommendation_exposure
  profile,    \* answers whose profile is committed
  req,        \* the requests and what they have read
  hung,       \* the event loop is blocked in a statement
  disturbed   \* history: films a request wrote while another worked on them

vars == <<session, exposure, profile, req, hung, disturbed>>

Count == 0..Cardinality(Session)
Row   == [recs: Count, wins: Count]

ASSUME FiniteAssumption == IsFiniteSet(Session)
ASSUME NoneAssumption ==
  /\ None \notin [recs: Nat, wins: Nat]
  /\ None \notin Film \cup Session \cup Answer

SessionState ==
  [state: {"free", "live", "deleted"}, cands: SUBSET Film, winner: Film \cup {None}]

Phase == {"idle", "embedding", "ranking", "loaded", "deleting"}
RequestState ==
  [at: Phase, answer: Answer \cup {None}, new: BOOLEAN,
   session: Session \cup {None}, cands: SUBSET Film, winner: Film \cup {None},
   read: [Film -> Row \cup {None}]]

TypeOK ==
  /\ session \in [Session -> SessionState]
  /\ exposure \in [Film -> Row \cup {None}]
  /\ profile \subseteq Answer
  /\ req \in [Request -> RequestState]
  /\ hung \in BOOLEAN
  /\ disturbed \subseteq Film

Idle == [at |-> "idle", answer |-> None, new |-> FALSE, session |-> None,
         cands |-> {}, winner |-> None, read |-> [f \in Film |-> None]]

Init ==
  /\ session = [s \in Session |-> [state |-> "free", cands |-> {}, winner |-> None]]
  /\ exposure = [f \in Film |-> None]
  /\ profile = {}
  /\ req = [r \in Request |-> Idle]
  /\ hung = FALSE
  /\ disturbed = {}

-----------------------------------------------------------------------------
(* The rows.                                                               *)

\* mistake: a film must not have won whenever it was recommended
Allowed_Strict(row) == IF row = None THEN TRUE ELSE row.wins < row.recs

\* chk_re_winner_lte_recommendations, chk_re_counts_non_negative
Allowed(row) ==
  IF row = None THEN TRUE ELSE 0 <= row.wins /\ row.wins <= row.recs

Minus1(n) == IF n = 0 THEN 0 ELSE n - 1

\* mistake: every candidate counts as a winner
Incremented_AllWin(r, winner, f) ==
  LET base == IF req[r].read[f] = None THEN exposure[f] ELSE req[r].read[f]
  IN  IF base = None THEN [recs |-> 1, wins |-> 1]
      ELSE [recs |-> base.recs + 1, wins |-> base.wins + 1]

\* mistake: the winner is counted once as such and once as a candidate
Incremented_Twice(r, winner, f) ==
  LET base == IF req[r].read[f] = None THEN exposure[f] ELSE req[r].read[f]
      once == IF base = None THEN [recs |-> 0, wins |-> 0] ELSE base
  IN  IF f = winner THEN [recs |-> once.recs + 2, wins |-> once.wins + 1]
      ELSE [recs |-> once.recs + 1, wins |-> once.wins]

\* increment_exposure: a row that was read is still in the session's identity
\* map; one that was not there is looked up again.  winner_count is a column
\* of the UPDATE only for the winner.
Incremented(r, winner, f) ==
  LET base == IF req[r].read[f] = None THEN exposure[f] ELSE req[r].read[f]
  IN  IF base = None
      THEN [recs |-> 1, wins |-> IF f = winner THEN 1 ELSE 0]
      ELSE [recs |-> base.recs + 1,
            wins |-> IF f = winner THEN base.wins + 1 ELSE exposure[f].wins]

\* mistake: the winner's win is not taken back
Taken_KeepsWins(r, f) ==
  [recs |-> Minus1(req[r].read[f].recs), wins |-> req[r].read[f].wins]

\* decrement_exposure, in memory
Taken(r, f) ==
  [recs |-> Minus1(req[r].read[f].recs),
   wins |-> IF f = req[r].winner THEN Minus1(req[r].read[f].wins)
            ELSE req[r].read[f].wins]

\* a row that is left without counts is deleted
Emptied(r, f) == Taken(r, f) = [recs |-> 0, wins |-> 0]

Decremented(r, f) ==
  IF Emptied(r, f) THEN None
  ELSE [recs |-> Taken(r, f).recs,
        wins |-> IF Taken(r, f).wins # req[r].read[f].wins THEN Taken(r, f).wins
                 ELSE exposure[f].wins]

\* an UPDATE whose row is gone: StaleDataError.  Deleting it only warns.
Stale(r) ==
  \E f \in req[r].cands :
    /\ req[r].read[f] # None
    /\ exposure[f] = None
    /\ req[r].at = "ranking" \/ ~Emptied(r, f)

\* films that another request has read, or is about to read again
Shared(r) ==
  {f \in req[r].cands : \E o \in Request \ {r} : f \in req[o].cands}

-----------------------------------------------------------------------------
(* create_recommendation.                                                  *)

\* a session of the bound; the row itself gets its id when it is inserted
Free(s) == session[s].state = "free" /\ \A r \in Request : req[r].session # s

\* stages 1 to 5 run without an await; the exposure read there is kept
Ranking(r, a, new, s, S) ==
  req' = [req EXCEPT ![r] =
            [Idle EXCEPT !.at = "ranking", !.answer = a, !.new = new,
                         !.session = s, !.cands = S,
                         !.read = [f \in Film |-> IF f \in S THEN exposure[f]
                                                  ELSE None]]]

\* the profile of these answers is cached
AskKnown(r) ==
  /\ ~hung
  /\ req[r].at = "idle"
  /\ \E a \in profile, s \in Session, S \in SUBSET Film \ {{}} :
       Free(s) /\ Ranking(r, a, FALSE, s, S)
  /\ UNCHANGED <<session, exposure, profile, hung, disturbed>>

AskNew(r) ==
  /\ ~hung
  /\ req[r].at = "idle"
  /\ \E a \in Answer \ profile, s \in Session :
       /\ Free(s)
       /\ req' = [req EXCEPT ![r] = [Idle EXCEPT !.at = "embedding",
                                       !.answer = a, !.session = s]]
  /\ UNCHANGED <<session, exposure, profile, hung, disturbed>>

\* another request has inserted a profile with this hash and not committed
Blocked(r) ==
  \E o \in Request \ {r} :
    req[o].at = "ranking" /\ req[o].new /\ req[o].answer = req[r].answer

\* the profile is inserted, its unique hash locked until the commit
Embedded(r) ==
  /\ ~hung
  /\ req[r].at = "embedding"
  /\ req[r].answer \notin profile
  /\ ~Blocked(r)
  /\ \E S \in SUBSET Film \ {{}} :
       Ranking(r, req[r].answer, TRUE, req[r].session, S)
  /\ UNCHANGED <<session, exposure, profile, hung, disturbed>>

\* the INSERT waits for the other transaction, and the loop with it
EmbeddedBlocks(r) ==
  /\ ~hung
  /\ req[r].at = "embedding"
  /\ Blocked(r)
  /\ hung' = TRUE
  /\ UNCHANGED <<session, exposure, profile, req, disturbed>>

\* the profile was committed meanwhile: IntegrityError
EmbeddedTaken(r) ==
  /\ ~hung
  /\ req[r].at = "embedding"
  /\ req[r].answer \in profile
  /\ req' = [req EXCEPT ![r] = Idle]
  /\ UNCHANGED <<session, exposure, profile, hung, disturbed>>

\* the counters after a ranking won by w
Counters(r, w) ==
  [f \in Film |-> IF f \in req[r].cands THEN Incremented(r, w, f) ELSE exposure[f]]

Writable(r, w) == ~Stale(r) /\ \A f \in req[r].cands : Allowed(Counters(r, w)[f])

\* session, candidates, result and counters, in one commit
Ranked(r) ==
  \E w \in req[r].cands :
    /\ ~hung
    /\ req[r].at = "ranking"
    /\ Writable(r, w)
    /\ exposure' = Counters(r, w)
    /\ session' = [session EXCEPT ![req[r].session] =
                     [state |-> "live", cands |-> req[r].cands, winner |-> w]]
    /\ profile' = profile \cup {req[r].answer}
    /\ disturbed' = disturbed \cup Shared(r)
    /\ req' = [req EXCEPT ![r] = Idle]
    /\ UNCHANGED hung

\* the ranking is lost: a counter cannot be written
RankedRefused(r) ==
  /\ ~hung
  /\ req[r].at = "ranking"
  /\ \E w \in req[r].cands : ~Writable(r, w)
  /\ req' = [req EXCEPT ![r] = Idle]
  /\ UNCHANGED <<session, exposure, profile, hung, disturbed>>

-----------------------------------------------------------------------------
(* delete_session, in a worker thread.                                     *)

Load(r) ==
  /\ ~hung
  /\ req[r].at = "idle"
  /\ \E s \in Session :
       /\ session[s].state = "live"
       /\ req' = [req EXCEPT ![r] =
                    [Idle EXCEPT !.at = "loaded", !.session = s,
                                 !.cands = session[s].cands,
                                 !.winner = session[s].winner]]
  /\ UNCHANGED <<session, exposure, profile, hung, disturbed>>

ReadRows(r) ==
  /\ req[r].at = "loaded"
  /\ req' = [req EXCEPT ![r].at = "deleting",
                        ![r].read = [f \in Film |-> IF f \in req[r].cands
                                                    THEN exposure[f] ELSE None]]
  /\ UNCHANGED <<session, exposure, profile, hung, disturbed>>

\* the counters after the deletion; a film without a row is passed over
Left(r) ==
  [f \in Film |-> IF f \in req[r].cands /\ req[r].read[f] # None
                  THEN Decremented(r, f) ELSE exposure[f]]

Deletable(r) == ~Stale(r) /\ \A f \in req[r].cands : Allowed(Left(r)[f])

Delete(r) ==
  /\ req[r].at = "deleting"
  /\ Deletable(r)
  /\ exposure' = Left(r)
  /\ session' = [session EXCEPT ![req[r].session].state = "deleted"]
  /\ disturbed' = disturbed \cup Shared(r)
  /\ req' = [req EXCEPT ![r] = Idle]
  /\ UNCHANGED <<profile, hung>>

DeleteRefused(r) ==
  /\ req[r].at = "deleting"
  /\ ~Deletable(r)
  /\ req' = [req EXCEPT ![r] = Idle]
  /\ UNCHANGED <<session, exposure, profile, hung, disturbed>>

-----------------------------------------------------------------------------

\* no film survives the filter, a provider fails, or the database ends the
\* transaction: get_db closes the session and everything is rolled back
Fail(r) ==
  /\ req[r].at # "idle"
  /\ hung => req[r].at \in {"loaded", "deleting"}
  /\ req' = [req EXCEPT ![r] = Idle]
  /\ UNCHANGED <<session, exposure, profile, hung, disturbed>>

Restart ==
  /\ hung \/ \E r \in Request : req[r].at # "idle"
  /\ req' = [r \in Request |-> Idle]
  /\ hung' = FALSE
  /\ UNCHANGED <<session, exposure, profile, disturbed>>

Next ==
  \/ \E r \in Request :
       \/ AskKnown(r) \/ AskNew(r)
       \/ Embedded(r) \/ EmbeddedBlocks(r) \/ EmbeddedTaken(r)
       \/ Ranked(r) \/ RankedRefused(r)
       \/ Load(r) \/ ReadRows(r) \/ Delete(r) \/ DeleteRefused(r)
       \/ Fail(r)
  \/ Restart

Spec == Init /\ [][Next]_vars

-----------------------------------------------------------------------------
(* What the counters say.                                                  *)

Showing(f) == {s \in Session : session[s].state = "live" /\ f \in session[s].cands}
Won(f)     == {s \in Session : session[s].state = "live" /\ f = session[s].winner}

\* with the sessions that were deleted
Shown(f)   == {s \in Session : f \in session[s].cands}
Victory(f) == {s \in Session : f = session[s].winner}

Counted(f) ==
  IF Showing(f) = {} THEN None
  ELSE [recs |-> Cardinality(Showing(f)), wins |-> Cardinality(Won(f))]

\* The exposure of a film is the sessions that show it, unless one request has
\* written the film while another was working on it: stale reads, deletions
\* of one session by two requests and refused writes are the only ways for the
\* counters to drift.
CountsRight == \A f \in Film \ disturbed : exposure[f] = Counted(f)

\* A film whose recommendations were all deleted counts as never recommended:
\* a deletion is documented to leave exposure as if the run never happened.
DeletedIsForgotten == \A f \in Film : Showing(f) = {} => exposure[f] = None

\* However requests overlap, no counter exceeds the sessions there ever were
\* with that film, or that it won: drift is bounded by what really happened.
NeverOvercounts ==
  \A f \in Film : exposure[f] # None =>
    /\ exposure[f].recs <= Cardinality(Shown(f))
    /\ exposure[f].wins <= Cardinality(Victory(f))

\* The database refuses the counters of a ranking or of a deletion only for a
\* film that requests have disturbed; anyone else's work is never lost.
RefusedOnlyWhenDisturbed ==
  [][\A r \in Request :
       RankedRefused(r) \/ DeleteRefused(r) => req[r].cands \cap disturbed # {}]_vars
=============================================================================
