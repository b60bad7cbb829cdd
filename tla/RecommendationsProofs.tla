----------------------- MODULE RecommendationsProofs -----------------------
(***************************************************************************)
(* The exposure of a film that no two requests have worked on at a time is *)
(* the sessions that show it, for any films, requests and sessions.        *)
(***************************************************************************)
EXTENDS Recommendations, FiniteSetTheorems, TLAPS

NatRow == [recs: Nat, wins: Nat]

\* TypeOK without the bound on the counters, which is a theorem.
WeakType ==
  /\ session \in [Session -> SessionState]
  /\ exposure \in [Film -> NatRow \cup {None}]
  /\ profile \subseteq Answer
  /\ req \in [Request ->
       [at: Phase, answer: Answer \cup {None}, new: BOOLEAN,
        session: Session \cup {None}, cands: SUBSET Film, winner: Film \cup {None},
        read: [Film -> NatRow \cup {None}]]]
  /\ hung \in BOOLEAN
  /\ disturbed \subseteq Film

Asking(r)   == req[r].at \in {"embedding", "ranking"}
Deleting(r) == req[r].at \in {"loaded", "deleting"}

SessionInv ==
  \A s \in Session :
    IF session[s].state = "free"
    THEN session[s].cands = {} /\ session[s].winner = None
    ELSE session[s].winner \in session[s].cands

\* What a request is about.
RequestInv ==
  \A r \in Request :
    /\ req[r].at \in {"idle", "embedding"} => req[r].cands = {}
    /\ Asking(r) => /\ req[r].answer \in Answer
                    /\ req[r].session \in Session
                    /\ session[req[r].session].state = "free"
                    /\ \A o \in Request \ {r} :
                         Asking(o) => req[o].session # req[r].session
    /\ Deleting(r) => /\ req[r].session \in Session
                      /\ session[req[r].session].state # "free"
                      /\ req[r].cands = session[req[r].session].cands
                      /\ req[r].winner = session[req[r].session].winner

\* A row has no more counts than there were sessions.
Within(row, f) ==
  row # None => /\ row.recs <= Cardinality(Shown(f))
                /\ row.wins <= Cardinality(Victory(f))

BoundInv ==
  \A f \in Film :
    Within(exposure[f], f) /\ \A r \in Request : Within(req[r].read[f], f)

\* What a request has read of a film that nobody disturbed still holds.
FreshInv ==
  \A f \in Film \ disturbed, r \in Request :
    f \in req[r].cands =>
      /\ req[r].at \in {"ranking", "deleting"} => req[r].read[f] = exposure[f]
      /\ Deleting(r) => session[req[r].session].state = "live"

Inv ==
  /\ WeakType /\ SessionInv /\ RequestInv
  /\ BoundInv /\ FreshInv /\ CountsRight

-----------------------------------------------------------------------------

\* The sets of sessions of a film are finite, so their sizes are numbers.
LEMMA Sizes ==
  ASSUME NEW f
  PROVE  /\ IsFiniteSet(Showing(f)) /\ Cardinality(Showing(f)) \in Nat
         /\ IsFiniteSet(Won(f))     /\ Cardinality(Won(f)) \in Nat
         /\ IsFiniteSet(Shown(f))   /\ Cardinality(Shown(f)) \in Nat
         /\ IsFiniteSet(Victory(f)) /\ Cardinality(Victory(f)) \in Nat
         /\ Cardinality(Session) \in Nat
         /\ Cardinality(Shown(f)) <= Cardinality(Session)
         /\ Cardinality(Victory(f)) <= Cardinality(Session)
<1>1. /\ Showing(f) \in SUBSET Session /\ Won(f) \in SUBSET Session
      /\ Shown(f) \in SUBSET Session /\ Victory(f) \in SUBSET Session
  BY DEF Showing, Won, Shown, Victory
<1> QED
  BY <1>1, FiniteAssumption, FS_Subset, FS_CardinalityType

\* A live session is won by one of its candidates.
LEMMA WonIsShown ==
  ASSUME SessionInv, NEW f
  PROVE  Won(f) \subseteq Showing(f)
BY DEF SessionInv, Won, Showing

\* The counters of a film are within the sessions that were ever asked for.
LEMMA Bounded ==
  ASSUME WeakType, BoundInv
  PROVE  TypeOK
<1>1. ASSUME NEW f, NEW row \in NatRow \cup {None}, Within(row, f)
      PROVE  row \in Row \cup {None}
  <2>1. CASE row = None
    BY <2>1
  <2>2. CASE row # None
    <3>1. row.recs \in Count /\ row.wins \in Count
      BY <1>1, <2>2, Sizes DEF Within, NatRow, Count
    <3> QED
      BY <1>1, <2>2, <3>1 DEF NatRow, Row
  <2> QED
    BY <2>1, <2>2
<1>2. exposure \in [Film -> Row \cup {None}]
  BY <1>1 DEF WeakType, BoundInv
<1>3. ASSUME NEW r \in Request
      PROVE  req[r] \in RequestState
  <2>1. req[r].read \in [Film -> Row \cup {None}]
    BY <1>1 DEF WeakType, BoundInv
  <2> QED
    BY <2>1 DEF WeakType, RequestState
<1> QED
  BY <1>2, <1>3 DEF WeakType, TypeOK

-----------------------------------------------------------------------------
(* Steps that leave the sessions and the counters as they are.             *)

\* What is said of sessions and counters survives when they stay.
LEMMA SameCounters ==
  ASSUME Inv, UNCHANGED <<session, exposure>>
  PROVE  /\ SessionInv'
         /\ disturbed' = disturbed => CountsRight'
         /\ \A f \in Film : Shown(f)' = Shown(f) /\ Victory(f)' = Victory(f)
<1>1. \A f \in Film : /\ Shown(f)' = Shown(f) /\ Victory(f)' = Victory(f)
                      /\ Showing(f)' = Showing(f) /\ Won(f)' = Won(f)
  BY DEF Shown, Victory, Showing, Won
<1>2. SessionInv'
  BY DEF Inv, SessionInv
<1>3. disturbed' = disturbed => CountsRight'
  BY <1>1 DEF Inv, CountsRight, Counted
<1> QED
  BY <1>1, <1>2, <1>3

RequestType ==
  [at: Phase, answer: Answer \cup {None}, new: BOOLEAN,
   session: Session \cup {None}, cands: SUBSET Film, winner: Film \cup {None},
   read: [Film -> NatRow \cup {None}]]

\* What the new state q of request r must satisfy, everything else unchanged.
Proper(r, q) ==
  /\ q.at \in {"idle", "embedding"} => q.cands = {}
  /\ q.at \in {"embedding", "ranking"} =>
       /\ q.answer \in Answer
       /\ q.session \in Session
       /\ session[q.session].state = "free"
       /\ \A o \in Request \ {r} : Asking(o) => req[o].session # q.session
  /\ q.at \in {"loaded", "deleting"} =>
       /\ q.session \in Session
       /\ session[q.session].state # "free"
       /\ q.cands = session[q.session].cands
       /\ q.winner = session[q.session].winner
       /\ \A f \in q.cands \ disturbed : session[q.session].state = "live"
  /\ \A f \in Film : q.read[f] # None => q.read[f] = exposure[f]
  /\ q.at \in {"ranking", "deleting"} =>
       \A f \in q.cands : q.read[f] = exposure[f]

\* A request that moves on properly keeps the invariant.
LEMMA Moved ==
  ASSUME Inv, NEW r \in Request, NEW q \in RequestType, Proper(r, q),
         req' = [req EXCEPT ![r] = q],
         UNCHANGED <<session, exposure, profile, disturbed>>, hung' \in BOOLEAN
  PROVE  Inv'
<1>0. /\ req \in [Request -> RequestType]
      /\ req'[r] = q /\ \A o \in Request \ {r} : req'[o] = req[o]
  BY DEF Inv, WeakType, RequestType
<1>1. WeakType'
  BY <1>0 DEF Inv, WeakType, RequestType
<1>2. SessionInv' /\ CountsRight'
  BY SameCounters
<1>3. RequestInv'
  <2> SUFFICES ASSUME NEW o \in Request
               PROVE  /\ req'[o].at \in {"idle", "embedding"} => req'[o].cands = {}
                      /\ Asking(o)' =>
                           /\ req'[o].answer \in Answer
                           /\ req'[o].session \in Session
                           /\ session[req'[o].session].state = "free"
                           /\ \A p \in Request \ {o} :
                                Asking(p)' => req'[p].session # req'[o].session
                      /\ Deleting(o)' =>
                           /\ req'[o].session \in Session
                           /\ session[req'[o].session].state # "free"
                           /\ req'[o].cands = session[req'[o].session].cands
                           /\ req'[o].winner = session[req'[o].session].winner
    BY DEF RequestInv
  <2>1. CASE o = r
    BY <1>0, <2>1 DEF Proper, Asking, Deleting
  <2>2. CASE o # r
    BY <1>0, <2>2 DEF Proper, Asking, Deleting, Inv, RequestInv
  <2> QED
    BY <2>1, <2>2
<1>4. BoundInv'
  <2>1. \A f \in Film : Within(q.read[f], f)
    BY DEF Proper, Inv, BoundInv, Within
  <2>2. \A f \in Film : Within(exposure[f], f)'
    BY SameCounters DEF Inv, BoundInv, Within
  <2>3. ASSUME NEW f \in Film, NEW o \in Request
        PROVE  Within(req[o].read[f], f)'
    <3>1. CASE o = r
      BY <3>1, <1>0, <2>1, SameCounters DEF Within
    <3>2. CASE o # r
      BY <3>2, <1>0, SameCounters DEF Within, Inv, BoundInv
    <3> QED
      BY <3>1, <3>2
  <2> QED
    BY <2>2, <2>3 DEF BoundInv
<1>5. FreshInv'
  <2> SUFFICES ASSUME NEW f \in Film \ disturbed, NEW o \in Request,
                      f \in req'[o].cands
               PROVE  /\ req'[o].at \in {"ranking", "deleting"} =>
                           req'[o].read[f] = exposure[f]
                      /\ Deleting(o)' => session[req'[o].session].state = "live"
    BY DEF FreshInv
  <2>1. CASE o = r
    BY <1>0, <2>1 DEF Proper, Deleting
  <2>2. CASE o # r
    BY <1>0, <2>2 DEF Deleting, Inv, FreshInv
  <2> QED
    BY <2>1, <2>2
<1> QED
  BY <1>1, <1>2, <1>3, <1>4, <1>5 DEF Inv

LEMMA IdleIsProper ==
  ASSUME NEW r
  PROVE  Idle \in RequestType /\ Proper(r, Idle)
BY DEF Idle, RequestType, Phase, Proper

\* A request that is dropped: refused, failed or answered by an error.
\* A request that ends without a write.
LEMMA Dropped ==
  ASSUME Inv, NEW r \in Request, req' = [req EXCEPT ![r] = Idle],
         UNCHANGED <<session, exposure, profile, disturbed, hung>>
  PROVE  Inv'
BY IdleIsProper, Moved DEF Inv, WeakType

\* A request that starts, reads or waits.
LEMMA Advanced ==
  ASSUME Inv, NEW r \in Request, NEW q \in RequestType, Proper(r, q),
         req' = [req EXCEPT ![r] = q],
         UNCHANGED <<session, exposure, profile, disturbed, hung>>
  PROVE  Inv'
BY Moved DEF Inv, WeakType

\* The state a request has after its shortlist was made.
RankingState(a, new, s, S) ==
  [Idle EXCEPT !.at = "ranking", !.answer = a, !.new = new, !.session = s,
               !.cands = S,
               !.read = [f \in Film |-> IF f \in S THEN exposure[f] ELSE None]]

LEMMA RankingType ==
  ASSUME Inv, NEW a \in Answer, NEW n \in BOOLEAN, NEW s \in Session,
         NEW S \in SUBSET Film
  PROVE  RankingState(a, n, s, S) \in RequestType
BY DEF RankingState, RequestType, Idle, Phase, Inv, WeakType

LEMMA AskKnownStep ==
  ASSUME Inv, NEW r \in Request, AskKnown(r)
  PROVE  Inv'
<1>1. PICK a \in profile, s \in Session, S \in SUBSET Film \ {{}} :
        Free(s) /\ Ranking(r, a, FALSE, s, S)
  BY DEF AskKnown
<1> DEFINE q == RankingState(a, FALSE, s, S)
<1>2. a \in Answer
  BY DEF Inv, WeakType
<1>3. q \in RequestType
  BY <1>2, RankingType
<1>4. Proper(r, q)
  BY <1>1, <1>2 DEF Proper, RankingState, Idle, Free, Asking
<1>5. req' = [req EXCEPT ![r] = q]
  BY <1>1 DEF Ranking, RankingState
<1> QED
  BY <1>3, <1>4, <1>5, Advanced DEF AskKnown

LEMMA AskNewStep ==
  ASSUME Inv, NEW r \in Request, AskNew(r)
  PROVE  Inv'
<1>1. PICK a \in Answer \ profile, s \in Session :
        /\ Free(s)
        /\ req' = [req EXCEPT ![r] = [Idle EXCEPT !.at = "embedding", !.answer = a,
                                                  !.session = s]]
  BY DEF AskNew
<1> DEFINE q == [Idle EXCEPT !.at = "embedding", !.answer = a, !.session = s]
<1>2. q \in RequestType
  BY DEF RequestType, Idle, Phase
<1>3. Proper(r, q)
  BY <1>1 DEF Proper, Idle, Free, Asking
<1> QED
  BY <1>1, <1>2, <1>3, Advanced DEF AskNew

LEMMA EmbeddedStep ==
  ASSUME Inv, NEW r \in Request, Embedded(r)
  PROVE  Inv'
<1>1. PICK S \in SUBSET Film \ {{}} :
        Ranking(r, req[r].answer, TRUE, req[r].session, S)
  BY DEF Embedded
<1> DEFINE q == RankingState(req[r].answer, TRUE, req[r].session, S)
<1>2. Asking(r) /\ ~hung
  BY DEF Embedded, Asking
<1>3. req[r].answer \in Answer /\ req[r].session \in Session
      /\ session[req[r].session].state = "free"
      /\ \A o \in Request \ {r} : Asking(o) => req[o].session # req[r].session
  BY <1>2 DEF Inv, RequestInv
<1>4. q \in RequestType
  BY <1>3, RankingType
<1>6. Proper(r, q)
  BY <1>3 DEF Proper, RankingState, Idle, Embedded
<1>7. req' = [req EXCEPT ![r] = q]
  BY <1>1 DEF Ranking, RankingState
<1> QED
  BY <1>2, <1>4, <1>6, <1>7, Advanced DEF Embedded

LEMMA EmbeddedBlocksStep ==
  ASSUME Inv, NEW r \in Request, EmbeddedBlocks(r)
  PROVE  Inv'
<1>1. UNCHANGED <<session, exposure, profile, req, disturbed>> /\ hung' \in BOOLEAN
  BY DEF EmbeddedBlocks
<1>2. WeakType' /\ SessionInv' /\ CountsRight'
  <2>1. SessionInv' /\ CountsRight'
    BY <1>1, SameCounters
  <2>2. WeakType'
    BY <1>1 DEF Inv, WeakType
  <2> QED
    BY <2>1, <2>2
<1>3. BoundInv'
  BY <1>1, SameCounters DEF Inv, BoundInv, Within
<1>4. RequestInv' /\ FreshInv'
  BY <1>1 DEF Inv, RequestInv, FreshInv, Asking, Deleting
<1> QED
  BY <1>2, <1>3, <1>4 DEF Inv

LEMMA LoadStep ==
  ASSUME Inv, NEW r \in Request, Load(r)
  PROVE  Inv'
<1>1. PICK s \in Session :
        /\ session[s].state = "live"
        /\ req' = [req EXCEPT ![r] =
                     [Idle EXCEPT !.at = "loaded", !.session = s,
                                  !.cands = session[s].cands,
                                  !.winner = session[s].winner]]
  BY DEF Load
<1> DEFINE q == [Idle EXCEPT !.at = "loaded", !.session = s,
                             !.cands = session[s].cands,
                             !.winner = session[s].winner]
<1>2. session[s] \in SessionState
  BY DEF Inv, WeakType
<1>3. q \in RequestType
  BY <1>2 DEF RequestType, Idle, Phase, SessionState
<1>4. Proper(r, q)
  BY <1>1 DEF Proper, Idle
<1> QED
  BY <1>1, <1>3, <1>4, Advanced DEF Load

LEMMA ReadRowsStep ==
  ASSUME Inv, NEW r \in Request, ReadRows(r)
  PROVE  Inv'
<1> DEFINE rows == [f \in Film |-> IF f \in req[r].cands THEN exposure[f] ELSE None]
           q == [req[r] EXCEPT !.at = "deleting", !.read = rows]
<1>1. Deleting(r)
  BY DEF ReadRows, Deleting
<1>2. req[r] \in RequestType
  BY DEF Inv, WeakType, RequestType
<1>3. rows \in [Film -> NatRow \cup {None}]
  BY DEF Inv, WeakType
<1>4. q \in RequestType
  BY <1>2, <1>3 DEF RequestType, Phase
<1>5. /\ q.at = "deleting" /\ q.session = req[r].session /\ q.cands = req[r].cands
      /\ q.winner = req[r].winner /\ q.read = rows
  BY <1>2 DEF RequestType
<1>6. q.cands \subseteq Film
  BY <1>2, <1>5 DEF RequestType
<1>7. Proper(r, q)
  BY <1>1, <1>5, <1>6 DEF Proper, Inv, RequestInv, FreshInv
<1>8. req' = [req EXCEPT ![r] = q]
  BY DEF ReadRows, Inv, WeakType
<1> QED
  BY <1>1, <1>4, <1>7, <1>8, Advanced DEF ReadRows

LEMMA RestartStep ==
  ASSUME Inv, Restart
  PROVE  Inv'
<1>1. \A r \in Request : req'[r] = Idle
  BY DEF Restart
<1>2. WeakType'
  BY IdleIsProper DEF Restart, Inv, WeakType, RequestType
<1>3. SessionInv' /\ CountsRight'
  BY SameCounters DEF Restart
<1>4. RequestInv' /\ FreshInv'
  BY <1>1 DEF RequestInv, FreshInv, Asking, Deleting, Idle
<1>5. BoundInv'
  BY <1>1, SameCounters DEF Inv, BoundInv, Within, Restart, Idle
<1> QED
  BY <1>2, <1>3, <1>4, <1>5 DEF Inv

-----------------------------------------------------------------------------
(* A recommendation is written.                                            *)

\* The sessions of a film after a free session became live.
LEMMA NewSession ==
  ASSUME Inv, NEW s \in Session, session[s].state = "free",
         NEW S \in SUBSET Film, NEW w \in S,
         session' = [session EXCEPT ![s] = [state |-> "live", cands |-> S, winner |-> w]],
         NEW f \in Film
  PROVE  /\ Cardinality(Shown(f))' = Cardinality(Shown(f)) + (IF f \in S THEN 1 ELSE 0)
         /\ Cardinality(Showing(f))' = Cardinality(Showing(f)) + (IF f \in S THEN 1 ELSE 0)
         /\ Cardinality(Victory(f))' = Cardinality(Victory(f)) + (IF f = w THEN 1 ELSE 0)
         /\ Cardinality(Won(f))' = Cardinality(Won(f)) + (IF f = w THEN 1 ELSE 0)
         /\ f \in S => Showing(f)' # {}
         /\ f \notin S => Showing(f)' = Showing(f)
<1>1. session \in [Session -> SessionState]
  BY DEF Inv, WeakType
<1>2. session[s].cands = {} /\ session[s].winner = None
  BY DEF Inv, SessionInv
<1>3. f # None
  BY NoneAssumption
<1>4. s \notin Shown(f) \cup Showing(f) \cup Victory(f) \cup Won(f)
  BY <1>2, <1>3 DEF Shown, Showing, Victory, Won
<1>5. /\ Shown(f)' = IF f \in S THEN Shown(f) \cup {s} ELSE Shown(f)
      /\ Showing(f)' = IF f \in S THEN Showing(f) \cup {s} ELSE Showing(f)
      /\ Victory(f)' = IF f = w THEN Victory(f) \cup {s} ELSE Victory(f)
      /\ Won(f)' = IF f = w THEN Won(f) \cup {s} ELSE Won(f)
  BY <1>1, <1>2, <1>3 DEF Shown, Showing, Victory, Won
<1>6. /\ IsFiniteSet(Shown(f)) /\ Cardinality(Shown(f)) \in Nat
      /\ IsFiniteSet(Showing(f)) /\ Cardinality(Showing(f)) \in Nat
      /\ IsFiniteSet(Victory(f)) /\ Cardinality(Victory(f)) \in Nat
      /\ IsFiniteSet(Won(f)) /\ Cardinality(Won(f)) \in Nat
  BY Sizes
<1>7. /\ Cardinality(Shown(f) \cup {s}) = Cardinality(Shown(f)) + 1
      /\ Cardinality(Showing(f) \cup {s}) = Cardinality(Showing(f)) + 1
      /\ Cardinality(Victory(f) \cup {s}) = Cardinality(Victory(f)) + 1
      /\ Cardinality(Won(f) \cup {s}) = Cardinality(Won(f)) + 1
  BY <1>4, <1>6, FS_AddElement
<1> QED
  BY <1>5, <1>6, <1>7

\* The counter a ranking writes is a counter, one up on what it was read from.
LEMMA IncrementedRow ==
  ASSUME Inv, NEW r \in Request, req[r].at = "ranking", ~Stale(r),
         NEW w \in req[r].cands, NEW f \in req[r].cands
  PROVE  LET base == IF req[r].read[f] = None THEN exposure[f] ELSE req[r].read[f]
         IN  /\ Incremented(r, w, f) \in NatRow
             /\ f # w => \/ Incremented(r, w, f).wins = 0
                         \/ /\ exposure[f] # None
                            /\ Incremented(r, w, f).wins = exposure[f].wins
             /\ f = w => Incremented(r, w, f).wins =
                           IF base = None THEN 1 ELSE base.wins + 1
             /\ Incremented(r, w, f).recs = IF base = None THEN 1 ELSE base.recs + 1
             /\ base \in NatRow \cup {None} /\ Within(base, f)
<1> DEFINE base == IF req[r].read[f] = None THEN exposure[f] ELSE req[r].read[f]
<1>1. req[r] \in RequestType /\ f \in Film
  BY DEF Inv, WeakType, RequestType
<1>2. exposure[f] \in NatRow \cup {None} /\ req[r].read[f] \in NatRow \cup {None}
  BY <1>1 DEF Inv, WeakType, RequestType
<1>3. base \in NatRow \cup {None} /\ Within(base, f)
  BY <1>1, <1>2 DEF Inv, BoundInv
<1>4. base # None => exposure[f] # None
  BY DEF Stale
<1>5. CASE base = None
  BY <1>3, <1>5 DEF Incremented, NatRow
<1>6. CASE base # None
  BY <1>2, <1>3, <1>4, <1>6 DEF Incremented, NatRow
<1> QED
  BY <1>3, <1>5, <1>6

LEMMA RankedStep ==
  ASSUME Inv, NEW r \in Request, Ranked(r)
  PROVE  Inv'
<1>1. PICK w \in req[r].cands :
        /\ ~hung /\ req[r].at = "ranking" /\ Writable(r, w)
        /\ exposure' = Counters(r, w)
        /\ session' = [session EXCEPT ![req[r].session] =
                         [state |-> "live", cands |-> req[r].cands, winner |-> w]]
        /\ profile' = profile \cup {req[r].answer}
        /\ disturbed' = disturbed \cup Shared(r)
        /\ req' = [req EXCEPT ![r] = Idle]
        /\ UNCHANGED hung
  BY DEF Ranked
<1> DEFINE s == req[r].session
           S == req[r].cands
<1>2. /\ s \in Session /\ session[s].state = "free" /\ req[r].answer \in Answer
      /\ \A o \in Request \ {r} : Asking(o) => req[o].session # s
  BY <1>1 DEF Inv, RequestInv, Asking
<1>3. S \in SUBSET Film /\ w \in Film
  BY DEF Inv, WeakType
<1>4. /\ req' \in [Request -> RequestType] /\ req'[r] = Idle
      /\ \A o \in Request \ {r} : req'[o] = req[o]
  BY <1>1, IdleIsProper DEF Inv, WeakType, RequestType
<1>5. \A f \in Film : exposure'[f] = IF f \in S THEN Incremented(r, w, f)
                                     ELSE exposure[f]
  BY <1>1 DEF Counters
<1>6. \A f \in S : Incremented(r, w, f) \in NatRow
  BY <1>1, IncrementedRow DEF Writable
<1>7. session' \in [Session -> SessionState]
  <2>1. [state |-> "live", cands |-> S, winner |-> w] \in SessionState
    BY <1>3 DEF SessionState
  <2> QED
    BY <1>1, <2>1 DEF Inv, WeakType
<1>8. WeakType'
  <2>1. exposure' \in [Film -> NatRow \cup {None}]
    BY <1>1, <1>5, <1>6 DEF Counters, Inv, WeakType
  <2>2. disturbed' \subseteq Film
    BY <1>1, <1>3 DEF Shared, Inv, WeakType
  <2> QED
    BY <1>1, <1>2, <1>4, <1>7, <2>1, <2>2 DEF Inv, WeakType, RequestType
<1>9. /\ session'[s].state = "live" /\ session'[s].cands = S /\ session'[s].winner = w
      /\ \A t \in Session \ {s} : session'[t] = session[t]
  BY <1>1, <1>2 DEF Inv, WeakType
<1>10. SessionInv'
  BY <1>9 DEF Inv, SessionInv
<1>11. RequestInv'
  <2> SUFFICES ASSUME NEW o \in Request
               PROVE  /\ req'[o].at \in {"idle", "embedding"} => req'[o].cands = {}
                      /\ Asking(o)' =>
                           /\ req'[o].answer \in Answer
                           /\ req'[o].session \in Session
                           /\ session'[req'[o].session].state = "free"
                           /\ \A p \in Request \ {o} :
                                Asking(p)' => req'[p].session # req'[o].session
                      /\ Deleting(o)' =>
                           /\ req'[o].session \in Session
                           /\ session'[req'[o].session].state # "free"
                           /\ req'[o].cands = session'[req'[o].session].cands
                           /\ req'[o].winner = session'[req'[o].session].winner
    BY DEF RequestInv
  <2>1. CASE o = r
    BY <1>4, <2>1 DEF Idle, Asking, Deleting
  <2>2. CASE o # r
    <3>1. req'[o] = req[o] /\ (Asking(o)' <=> Asking(o)) /\ (Deleting(o)' <=> Deleting(o))
      BY <1>4, <2>2 DEF Asking, Deleting
    <3>2. Deleting(o) => req[o].session # s
      BY <1>2 DEF Inv, RequestInv
    <3>3. ~Asking(r)'
      BY <1>4 DEF Asking, Idle
    <3>4. \A p \in Request \ {r} : req'[p] = req[p] /\ (Asking(p)' <=> Asking(p))
      BY <1>4 DEF Asking
    <3>5. Asking(o) => req[o].session # s
      BY <1>2, <2>2
    <3> QED
      BY <1>9, <2>2, <3>1, <3>2, <3>3, <3>4, <3>5 DEF Inv, RequestInv
  <2> QED
    BY <2>1, <2>2
<1>12. ASSUME NEW f \in Film
       PROVE  /\ Cardinality(Shown(f))' = Cardinality(Shown(f)) + (IF f \in S THEN 1 ELSE 0)
              /\ Cardinality(Showing(f))' = Cardinality(Showing(f)) + (IF f \in S THEN 1 ELSE 0)
              /\ Cardinality(Victory(f))' = Cardinality(Victory(f)) + (IF f = w THEN 1 ELSE 0)
              /\ Cardinality(Won(f))' = Cardinality(Won(f)) + (IF f = w THEN 1 ELSE 0)
              /\ f \in S => Showing(f)' # {}
              /\ f \notin S => Showing(f)' = Showing(f)
  <2>1. /\ w \in S
        /\ session' = [session EXCEPT ![s] =
                         [state |-> "live", cands |-> S, winner |-> w]]
    BY <1>1
  <2> HIDE DEF s, S
  <2> QED
    BY <1>2, <1>3, <2>1, NewSession
<1>13. BoundInv'
  <2>1. ASSUME NEW f \in Film, NEW row \in NatRow \cup {None}, Within(row, f)
        PROVE  Within(row, f)'
    BY <1>12, <2>1, Sizes DEF Within, NatRow
  <2>2. ASSUME NEW f \in S, NEW row, row = Incremented(r, w, f)
        PROVE  Within(row, f)'
    <3> DEFINE base == IF req[r].read[f] = None THEN exposure[f] ELSE req[r].read[f]
               inc  == Incremented(r, w, f)
    <3>1. f \in Film
      BY <1>3
    <3>2. /\ inc \in NatRow
          /\ f # w => inc.wins = 0 \/ (exposure[f] # None /\ inc.wins = exposure[f].wins)
          /\ f = w => inc.wins = IF base = None THEN 1 ELSE base.wins + 1
          /\ inc.recs = IF base = None THEN 1 ELSE base.recs + 1
          /\ base \in NatRow \cup {None} /\ Within(base, f)
      BY <1>1, IncrementedRow DEF Writable
    <3>3. Within(exposure[f], f) /\ exposure[f] \in NatRow \cup {None}
      BY <3>1 DEF Inv, BoundInv, WeakType
    <3>4. Cardinality(Shown(f)) \in Nat /\ Cardinality(Victory(f)) \in Nat
      BY Sizes
    <3>5. inc.recs <= Cardinality(Shown(f))'
      BY <3>1, <3>2, <3>4, <1>12 DEF Within, NatRow
    <3>6. inc.wins <= Cardinality(Victory(f))'
      <4>1. CASE f = w
        BY <3>1, <3>2, <3>4, <1>12, <4>1 DEF Within, NatRow
      <4>2. CASE f # w
        BY <3>1, <3>2, <3>3, <3>4, <1>12, <4>2 DEF Within, NatRow
      <4> QED
        BY <4>1, <4>2
    <3> QED
      BY <2>2, <3>5, <3>6 DEF Within
  <2>3. ASSUME NEW f \in Film
        PROVE  Within(exposure[f], f)'
    <3>1. \A row : row = exposure'[f] => Within(row, f)'
      BY <1>5, <2>1, <2>2 DEF Inv, BoundInv, WeakType
    <3> QED
      BY <3>1 DEF Within
  <2>4. ASSUME NEW f \in Film, NEW o \in Request
        PROVE  Within(req[o].read[f], f)'
    <3>1. CASE o = r
      BY <1>4, <3>1 DEF Within, Idle
    <3>2. CASE o # r
      <4>1. req[o].read[f] \in NatRow \cup {None} /\ Within(req[o].read[f], f)
        BY DEF Inv, WeakType, BoundInv
      <4>2. Within(req[o].read[f], f)' <=> (LET row == req[o].read[f] IN
              row # None => /\ row.recs <= Cardinality(Shown(f))'
                            /\ row.wins <= Cardinality(Victory(f))')
        BY <1>4, <3>2 DEF Within
      <4> QED
        BY <1>12, <4>1, <4>2, Sizes DEF Within, NatRow
    <3> QED
      BY <3>1, <3>2
  <2> QED
    BY <2>3, <2>4 DEF BoundInv
<1>14. \A f \in Film \ disturbed', o \in Request \ {r} :
         f \in req[o].cands => f \notin S
  BY <1>1 DEF Shared
<1>15. FreshInv'
  <2> SUFFICES ASSUME NEW f \in Film \ disturbed', NEW o \in Request,
                      f \in req'[o].cands
               PROVE  /\ req'[o].at \in {"ranking", "deleting"} =>
                           req'[o].read[f] = exposure'[f]
                      /\ Deleting(o)' => session'[req'[o].session].state = "live"
    BY DEF FreshInv
  <2>1. o # r /\ req'[o] = req[o]
    BY <1>4 DEF Idle
  <2>2. f \notin S /\ f \notin disturbed
    BY <1>1, <1>14, <2>1
  <2>3. Deleting(o) => req[o].session # s /\ req[o].session \in Session
    BY <1>2 DEF Inv, RequestInv
  <2> QED
    BY <1>5, <1>9, <2>1, <2>2, <2>3 DEF Deleting, Inv, FreshInv
<1>16. CountsRight'
  <2> SUFFICES ASSUME NEW f \in Film \ disturbed'
               PROVE  exposure'[f] = Counted(f)'
    BY DEF CountsRight
  <2>1. f \notin disturbed /\ exposure[f] = Counted(f)
    BY <1>1 DEF Inv, CountsRight
  <2>2. CASE f \notin S
    BY <1>3, <1>5, <1>12, <2>1, <2>2, Sizes DEF Counted
  <2>3. CASE f \in S
    <3>1. req[r].read[f] = exposure[f]
      BY <1>1, <2>1, <2>3 DEF Inv, FreshInv
    <3>2. exposure'[f] = IF exposure[f] = None
                         THEN [recs |-> 1, wins |-> IF f = w THEN 1 ELSE 0]
                         ELSE [recs |-> exposure[f].recs + 1,
                               wins |-> IF f = w THEN exposure[f].wins + 1
                                        ELSE exposure[f].wins]
      BY <1>5, <2>3, <3>1 DEF Incremented
    <3>3. Counted(f)' = [recs |-> Cardinality(Showing(f)) + 1,
                         wins |-> Cardinality(Won(f)) + (IF f = w THEN 1 ELSE 0)]
      BY <1>12, <2>3 DEF Counted
    <3>4. CASE Showing(f) = {}
      <4>1. Won(f) = {}
        BY <3>4, WonIsShown DEF Inv
      <4> QED
        BY <2>1, <3>2, <3>3, <3>4, <4>1, FS_EmptySet DEF Counted
    <3>5. CASE Showing(f) # {}
      <4>1. exposure[f] = [recs |-> Cardinality(Showing(f)), wins |-> Cardinality(Won(f))]
        BY <2>1, <3>5 DEF Counted
      <4>2. exposure[f] # None
        BY <4>1, Sizes, NoneAssumption
      <4> QED
        BY <3>2, <3>3, <4>1, <4>2, Sizes
    <3> QED
      BY <3>4, <3>5
  <2> QED
    BY <2>2, <2>3
<1> QED
  BY <1>8, <1>10, <1>11, <1>13, <1>15, <1>16 DEF Inv

-----------------------------------------------------------------------------
(* A session is deleted.                                                   *)

\* The counter a deletion writes is a counter, and not above those it was
\* computed from; the one of a film with the counts of its sessions is one down.
LEMMA DecrementedRow ==
  ASSUME Inv, NEW r \in Request, req[r].at = "deleting", ~Stale(r),
         NEW f \in req[r].cands, req[r].read[f] # None
  PROVE  /\ Decremented(r, f) \in NatRow \cup {None}
         /\ Within(Decremented(r, f), f)
<1>1. f \in Film
  BY DEF Inv, WeakType
<1>2. /\ req[r].read[f] \in NatRow /\ Within(req[r].read[f], f)
      /\ exposure[f] \in NatRow \cup {None} /\ Within(exposure[f], f)
  BY <1>1 DEF Inv, WeakType, BoundInv
<1>3. Taken(r, f) \in NatRow
      /\ Taken(r, f).recs <= req[r].read[f].recs
      /\ Taken(r, f).wins <= req[r].read[f].wins
  BY <1>2 DEF Taken, Minus1, NatRow
<1>4. ~Emptied(r, f) => exposure[f] # None
  BY DEF Stale
<1>5. CASE Emptied(r, f)
  BY <1>5 DEF Decremented, Within
<1>6. CASE ~Emptied(r, f)
  <2>1. /\ Decremented(r, f) \in NatRow
        /\ Decremented(r, f).recs = Taken(r, f).recs
        /\ Decremented(r, f).wins \in {Taken(r, f).wins, exposure[f].wins}
    BY <1>2, <1>3, <1>4, <1>6 DEF Decremented, NatRow
  <2> QED
    BY <1>2, <1>3, <1>4, <1>6, <2>1, Sizes DEF Within, NatRow
<1> QED
  BY <1>5, <1>6

\* The sessions of a film after one of them was deleted.
LEMMA GoneSession ==
  ASSUME Inv, NEW s \in Session, session[s].state # "free",
         session' = [session EXCEPT ![s].state = "deleted"], NEW f \in Film
  PROVE  /\ Shown(f)' = Shown(f) /\ Victory(f)' = Victory(f)
         /\ Showing(f)' = Showing(f) \ {s}
         /\ Won(f)' = Won(f) \ {s}
BY DEF Inv, WeakType, SessionState, Shown, Victory, Showing, Won

\* A film whose counters are those of its sessions, and one session less.
LEMMA CountedDown ==
  ASSUME Inv, NEW r \in Request, req[r].at = "deleting", NEW f \in req[r].cands,
         session[req[r].session].state = "live",
         exposure[f] = Counted(f), req[r].read[f] = exposure[f],
         session' = [session EXCEPT ![req[r].session].state = "deleted"]
  PROVE  /\ req[r].read[f] # None
         /\ Decremented(r, f) = Counted(f)'
<1> DEFINE s == req[r].session
<1>1. /\ s \in Session /\ f \in session[s].cands /\ f \in Film
      /\ req[r].winner = session[s].winner
  BY DEF Inv, RequestInv, Deleting, WeakType
<1>2. s \in Showing(f) /\ (s \in Won(f) <=> f = req[r].winner)
  BY <1>1 DEF Showing, Won
<1>3. /\ Showing(f)' = Showing(f) \ {s} /\ Won(f)' = Won(f) \ {s}
      /\ Won(f)' \subseteq Showing(f)'
  <2>1. Showing(f)' = Showing(f) \ {s} /\ Won(f)' = Won(f) \ {s}
    BY <1>1, GoneSession
  <2>2. Won(f) \subseteq Showing(f)
    BY <1>1, WonIsShown DEF Inv
  <2> QED
    BY <2>1, <2>2
<1>4. /\ IsFiniteSet(Showing(f)) /\ Cardinality(Showing(f)) \in Nat
      /\ IsFiniteSet(Won(f)) /\ Cardinality(Won(f)) \in Nat
  BY Sizes
<1>5. /\ Cardinality(Showing(f)') = Cardinality(Showing(f)) - 1
      /\ IsFiniteSet(Showing(f)')
      /\ Cardinality(Won(f)') = IF f = req[r].winner THEN Cardinality(Won(f)) - 1
                                ELSE Cardinality(Won(f))
  <2>1. /\ Cardinality(Showing(f) \ {s}) = Cardinality(Showing(f)) - 1
        /\ IsFiniteSet(Showing(f) \ {s})
    BY <1>2, <1>4, FS_RemoveElement
  <2>2. Cardinality(Won(f) \ {s}) = IF s \in Won(f) THEN Cardinality(Won(f)) - 1
                                    ELSE Cardinality(Won(f))
    BY <1>4, FS_RemoveElement
  <2> QED
    BY <1>2, <1>3, <2>1, <2>2
<1>6. /\ Cardinality(Showing(f)') \in Nat /\ Cardinality(Won(f)') \in Nat
      /\ Cardinality(Showing(f)') = 0 <=> Showing(f)' = {}
      /\ Showing(f)' = {} => Cardinality(Won(f)') = 0
  <2>1. Won(f)' \in SUBSET Showing(f)'
    BY <1>3
  <2>2. IsFiniteSet(Won(f)')
    BY <1>5, <2>1, FS_Subset
  <2> QED
    BY <1>3, <1>5, <2>2, FS_CardinalityType, FS_EmptySet
<1>7. exposure[f] = [recs |-> Cardinality(Showing(f)), wins |-> Cardinality(Won(f))]
  BY <1>2 DEF Counted
<1>8. exposure[f] # None
  BY <1>4, <1>7, NoneAssumption
<1>9. Taken(r, f) = [recs |-> Cardinality(Showing(f)'), wins |-> Cardinality(Won(f)')]
  BY <1>4, <1>5, <1>6, <1>7 DEF Taken, Minus1
<1>10. Emptied(r, f) <=> Showing(f)' = {}
  BY <1>6, <1>9 DEF Emptied
<1>11. CASE Showing(f)' = {}
  BY <1>8, <1>10, <1>11 DEF Decremented, Counted
<1>12. CASE Showing(f)' # {}
  <2>1. Decremented(r, f) = [recs |-> Cardinality(Showing(f)'),
                             wins |-> Cardinality(Won(f)')]
    BY <1>9, <1>10, <1>12 DEF Decremented
  <2>2. Counted(f)' = [recs |-> Cardinality(Showing(f)'),
                       wins |-> Cardinality(Won(f)')]
    BY <1>12 DEF Counted
  <2> QED
    BY <1>8, <2>1, <2>2
<1> QED
  BY <1>11, <1>12

LEMMA DeleteStep ==
  ASSUME Inv, NEW r \in Request, Delete(r)
  PROVE  Inv'
<1> DEFINE s == req[r].session
           S == req[r].cands
<1>1. /\ req[r].at = "deleting" /\ ~Stale(r)
      /\ exposure' = Left(r)
      /\ session' = [session EXCEPT ![s].state = "deleted"]
      /\ disturbed' = disturbed \cup Shared(r)
      /\ req' = [req EXCEPT ![r] = Idle]
      /\ UNCHANGED <<profile, hung>>
  BY DEF Delete, Deletable
<1>2. s \in Session /\ session[s].state # "free" /\ S = session[s].cands
  BY <1>1 DEF Inv, RequestInv, Deleting
<1>3. S \in SUBSET Film
  BY DEF Inv, WeakType
<1>4. /\ req' \in [Request -> RequestType] /\ req'[r] = Idle
      /\ \A o \in Request \ {r} : req'[o] = req[o]
  BY <1>1, IdleIsProper DEF Inv, WeakType, RequestType
<1>5. \A f \in Film : exposure'[f] = IF f \in S /\ req[r].read[f] # None
                                     THEN Decremented(r, f) ELSE exposure[f]
  BY <1>1 DEF Left
<1>6. \A f \in Film : exposure'[f] \in NatRow \cup {None}
                      /\ Within(Left(r)[f], f)
  <2>1. ASSUME NEW f \in S, req[r].read[f] # None
        PROVE  /\ Decremented(r, f) \in NatRow \cup {None}
               /\ Within(Decremented(r, f), f)
    BY <1>1, <2>1, DecrementedRow
  <2>2. \A f \in Film : exposure[f] \in NatRow \cup {None} /\ Within(exposure[f], f)
    BY DEF Inv, WeakType, BoundInv
  <2>3. \A f \in Film : Left(r)[f] = exposure'[f]
    BY <1>1
  <2> HIDE DEF S
  <2> QED
    BY <1>5, <2>1, <2>2, <2>3
<1>7. /\ session' \in [Session -> SessionState]
      /\ session'[s] = [session[s] EXCEPT !.state = "deleted"]
      /\ \A t \in Session \ {s} : session'[t] = session[t]
  <2>1. session \in [Session -> SessionState] /\ session[s] \in SessionState
    BY <1>2 DEF Inv, WeakType
  <2>2. [session[s] EXCEPT !.state = "deleted"] \in SessionState
    BY <2>1 DEF SessionState
  <2>3. session' = [session EXCEPT ![s].state = "deleted"]
    BY <1>1
  <2> QED
    BY <1>2, <2>1, <2>2, <2>3
<1>8. /\ session'[s].state = "deleted" /\ session'[s].cands = session[s].cands
      /\ session'[s].winner = session[s].winner
  BY <1>7, <1>2 DEF Inv, WeakType, SessionState
<1>9. WeakType'
  <2>1. exposure' \in [Film -> NatRow \cup {None}]
    BY <1>1, <1>6 DEF Left
  <2>2. disturbed' \subseteq Film
    BY <1>1, <1>3 DEF Shared, Inv, WeakType
  <2> QED
    BY <1>1, <1>4, <1>7, <2>1, <2>2 DEF Inv, WeakType, RequestType
<1>10. SessionInv'
  BY <1>2, <1>7, <1>8 DEF Inv, SessionInv
<1>11. RequestInv'
  <2> SUFFICES ASSUME NEW o \in Request
               PROVE  /\ req'[o].at \in {"idle", "embedding"} => req'[o].cands = {}
                      /\ Asking(o)' =>
                           /\ req'[o].answer \in Answer
                           /\ req'[o].session \in Session
                           /\ session'[req'[o].session].state = "free"
                           /\ \A p \in Request \ {o} :
                                Asking(p)' => req'[p].session # req'[o].session
                      /\ Deleting(o)' =>
                           /\ req'[o].session \in Session
                           /\ session'[req'[o].session].state # "free"
                           /\ req'[o].cands = session'[req'[o].session].cands
                           /\ req'[o].winner = session'[req'[o].session].winner
    BY DEF RequestInv
  <2>1. CASE o = r
    BY <1>4, <2>1 DEF Idle, Asking, Deleting
  <2>2. CASE o # r
    <3>1. req'[o] = req[o] /\ (Asking(o)' <=> Asking(o)) /\ (Deleting(o)' <=> Deleting(o))
      BY <1>4, <2>2 DEF Asking, Deleting
    <3>2. ~Asking(r)'
      BY <1>4 DEF Asking, Idle
    <3>3. \A p \in Request \ {r} : req'[p] = req[p] /\ (Asking(p)' <=> Asking(p))
      BY <1>4 DEF Asking
    <3>4. Asking(o) => req[o].session # s
      BY <1>2 DEF Inv, RequestInv
    <3>5. Asking(o) => /\ req[o].answer \in Answer
                       /\ req[o].session \in Session
                       /\ session[req[o].session].state = "free"
                       /\ \A p \in Request \ {o} :
                            Asking(p) => req[p].session # req[o].session
      BY DEF Inv, RequestInv
    <3>6. Deleting(o) => /\ req[o].session \in Session
                         /\ session[req[o].session].state # "free"
                         /\ req[o].cands = session[req[o].session].cands
                         /\ req[o].winner = session[req[o].session].winner
      BY DEF Inv, RequestInv
    <3>7. Asking(o)' => session'[req[o].session].state = "free"
      BY <1>7, <3>1, <3>4, <3>5
    <3>8. Deleting(o)' => /\ session'[req[o].session].state # "free"
                          /\ req[o].cands = session'[req[o].session].cands
                          /\ req[o].winner = session'[req[o].session].winner
      BY <1>7, <1>8, <3>1, <3>6
    <3>9. \A p \in Request \ {o} :
            Asking(o)' /\ Asking(p)' => req'[p].session # req'[o].session
      BY <3>1, <3>2, <3>3, <3>5
    <3>10. req[o].at \in {"idle", "embedding"} => req[o].cands = {}
      BY DEF Inv, RequestInv
    <3> QED
      BY <3>1, <3>5, <3>6, <3>7, <3>8, <3>9, <3>10
  <2> QED
    BY <2>1, <2>2
<1>12. \A f \in Film : Shown(f)' = Shown(f) /\ Victory(f)' = Victory(f)
  BY <1>1, <1>2, GoneSession
<1>13. BoundInv'
  <2>1. \A f \in Film : Within(exposure[f], f)'
    BY <1>1, <1>6, <1>12 DEF Within
  <2>2. \A f \in Film, o \in Request : Within(req[o].read[f], f)'
    BY <1>4, <1>12 DEF Within, Idle, Inv, BoundInv
  <2> QED
    BY <2>1, <2>2 DEF BoundInv
<1>14. \A f \in Film \ disturbed', o \in Request \ {r} :
         f \in req[o].cands => f \notin S
  BY <1>1 DEF Shared
<1>15. FreshInv'
  <2> SUFFICES ASSUME NEW f \in Film \ disturbed', NEW o \in Request,
                      f \in req'[o].cands
               PROVE  /\ req'[o].at \in {"ranking", "deleting"} =>
                           req'[o].read[f] = exposure'[f]
                      /\ Deleting(o)' => session'[req'[o].session].state = "live"
    BY DEF FreshInv
  <2>1. o # r /\ req'[o] = req[o]
    BY <1>4 DEF Idle
  <2>2. f \notin S /\ f \notin disturbed
    BY <1>1, <1>14, <2>1
  <2>3. Deleting(o) => req[o].session # s /\ req[o].session \in Session
    BY <1>2, <2>1, <2>2 DEF Inv, RequestInv
  <2> QED
    BY <1>5, <1>7, <2>1, <2>2, <2>3 DEF Deleting, Inv, FreshInv
<1>16. CountsRight'
  <2> SUFFICES ASSUME NEW f \in Film \ disturbed'
               PROVE  exposure'[f] = Counted(f)'
    BY DEF CountsRight
  <2>1. f \notin disturbed /\ exposure[f] = Counted(f)
    BY <1>1 DEF Inv, CountsRight
  <2>2. CASE f \notin S
    <3>1. s \notin Showing(f)
      BY <1>2, <2>2 DEF Showing
    <3>2. s \notin Won(f)
      BY <3>1, WonIsShown DEF Inv
    <3>3. Showing(f)' = Showing(f) /\ Won(f)' = Won(f)
      <4>1. f \in Film
        OBVIOUS
      <4>2. Showing(f)' = Showing(f) \ {s} /\ Won(f)' = Won(f) \ {s}
        BY <1>1, <1>2, <4>1, GoneSession
      <4> QED
        BY <3>1, <3>2, <4>2
    <3> QED
      BY <1>5, <2>1, <2>2, <3>3 DEF Counted
  <2>3. CASE f \in S
    <3>1. req[r].read[f] = exposure[f] /\ session[s].state = "live"
      BY <1>1, <2>1, <2>3 DEF Inv, FreshInv, Deleting
    <3> QED
      BY <1>1, <1>5, <2>1, <2>3, <3>1, CountedDown
  <2> QED
    BY <2>2, <2>3
<1> QED
  BY <1>9, <1>10, <1>11, <1>13, <1>15, <1>16 DEF Inv

-----------------------------------------------------------------------------
(* The specification.                                                      *)

LEMMA InitInv == Init => Inv
<1> SUFFICES ASSUME Init PROVE Inv
  OBVIOUS
<1>1. WeakType
  BY IdleIsProper DEF Init, WeakType, SessionState, RequestType
<1>2. SessionInv /\ RequestInv /\ FreshInv
  BY DEF Init, SessionInv, RequestInv, FreshInv, Idle,
         Asking, Deleting
<1>3. BoundInv
  BY DEF Init, BoundInv, Within, Idle
<1>4. CountsRight
  BY DEF Init, CountsRight, Counted, Showing
<1> QED
  BY <1>1, <1>2, <1>3, <1>4 DEF Inv

LEMMA NextInv == Inv /\ [Next]_vars => Inv'
<1> SUFFICES ASSUME Inv, [Next]_vars PROVE Inv'
  OBVIOUS
<1>1. ASSUME NEW r \in Request, AskKnown(r) PROVE Inv'
  BY <1>1, AskKnownStep
<1>2. ASSUME NEW r \in Request, AskNew(r) PROVE Inv'
  BY <1>2, AskNewStep
<1>3. ASSUME NEW r \in Request, Embedded(r) PROVE Inv'
  BY <1>3, EmbeddedStep
<1>4. ASSUME NEW r \in Request, EmbeddedBlocks(r) PROVE Inv'
  BY <1>4, EmbeddedBlocksStep
<1>5. ASSUME NEW r \in Request,
             EmbeddedTaken(r) \/ RankedRefused(r) \/ DeleteRefused(r) \/ Fail(r)
      PROVE Inv'
  BY <1>5, Dropped DEF EmbeddedTaken, RankedRefused, DeleteRefused, Fail, Deleting
<1>6. ASSUME NEW r \in Request, Ranked(r) PROVE Inv'
  BY <1>6, RankedStep
<1>7. ASSUME NEW r \in Request, Load(r) PROVE Inv'
  BY <1>7, LoadStep
<1>8. ASSUME NEW r \in Request, ReadRows(r) PROVE Inv'
  BY <1>8, ReadRowsStep
<1>9. ASSUME NEW r \in Request, Delete(r) PROVE Inv'
  BY <1>9, DeleteStep
<1>10. CASE Restart
  BY <1>10, RestartStep
<1>11. CASE UNCHANGED vars
  BY <1>11, SameCounters DEF vars, Inv, WeakType, RequestInv, BoundInv, Within,
       FreshInv, Asking, Deleting
<1> QED
  BY <1>1, <1>2, <1>3, <1>4, <1>5, <1>6, <1>7, <1>8, <1>9, <1>10, <1>11 DEF Next

\* The invariant the other theorems follow from.
THEOREM RecommendationInvariant == Spec => []Inv
<1> QED
  BY InitInv, NextInv, PTL DEF Spec

\* Counters never leave the range of the sessions there ever were, however
\* recommendations and deletions overlap.
THEOREM RecommendationTypes == Spec => []TypeOK
<1>1. Inv => TypeOK
  BY Bounded DEF Inv
<1> QED
  BY <1>1, RecommendationInvariant, PTL

\* The exposure of a film is the sessions that show it, unless requests that
\* worked on the film at a time have overlapped.
THEOREM ExposureCountsSessions == Spec => []CountsRight
<1>1. Inv => CountsRight
  BY DEF Inv
<1> QED
  BY <1>1, RecommendationInvariant, PTL

\* What overlapping requests make of a counter is at most what was recommended.
THEOREM ExposureNeverOvercounts == Spec => []NeverOvercounts
<1>1. Inv => NeverOvercounts
  BY DEF Inv, BoundInv, Within, NeverOvercounts
<1> QED
  BY <1>1, RecommendationInvariant, PTL

\* A film with undisturbed counters takes one more recommendation.
LEMMA CountersFit ==
  ASSUME Inv, NEW f \in Film, exposure[f] = Counted(f), exposure[f] # None
  PROVE  /\ exposure[f] \in NatRow
         /\ exposure[f].wins <= exposure[f].recs
<1>1. Showing(f) # {} /\ exposure[f] = [recs |-> Cardinality(Showing(f)),
                                        wins |-> Cardinality(Won(f))]
  BY DEF Counted
<1>2. Won(f) \in SUBSET Showing(f)
  BY WonIsShown DEF Inv
<1>3. Cardinality(Won(f)) <= Cardinality(Showing(f))
  BY <1>2, Sizes, FS_Subset
<1> QED
  BY <1>1, <1>3, Sizes DEF NatRow

\* A ranking or a deletion is refused by the database only on films that were
\* disturbed; nobody else's work is lost.
THEOREM RefusalsNeedDisturbance == Spec => RefusedOnlyWhenDisturbed
<1>1. ASSUME Inv, NEW r \in Request, req[r].cands \cap disturbed = {},
             req[r].at \in {"ranking", "deleting"}, NEW f \in req[r].cands
      PROVE  /\ f \in Film
             /\ exposure[f] = Counted(f) /\ req[r].read[f] = exposure[f]
             /\ exposure[f] # None => /\ exposure[f] \in NatRow
                                      /\ exposure[f].wins <= exposure[f].recs
  <2>1. f \in Film \ disturbed
    BY <1>1 DEF Inv, WeakType
  <2>2. exposure[f] = Counted(f) /\ req[r].read[f] = exposure[f]
    BY <1>1, <2>1 DEF Inv, CountsRight, FreshInv
  <2> QED
    BY <1>1, <2>1, <2>2, CountersFit
<1>2. ASSUME Inv, NEW r \in Request, req[r].cands \cap disturbed = {}
      PROVE  ~RankedRefused(r)
  <2> SUFFICES ASSUME req[r].at = "ranking", NEW w \in req[r].cands
               PROVE  Writable(r, w)
    BY DEF RankedRefused
  <2>1. ~Stale(r)
    BY <1>1, <1>2 DEF Stale
  <2>2. ASSUME NEW f \in req[r].cands
        PROVE  Allowed(Counters(r, w)[f])
    <3>1. f \in Film /\ req[r].read[f] = exposure[f]
          /\ (exposure[f] # None => /\ exposure[f] \in NatRow
                                    /\ exposure[f].wins <= exposure[f].recs)
      BY <1>1, <1>2
    <3>2. Counters(r, w)[f] = Incremented(r, w, f)
      BY <3>1 DEF Counters
    <3>3. CASE exposure[f] = None
      BY <3>1, <3>2, <3>3 DEF Incremented, Allowed
    <3>4. CASE exposure[f] # None
      BY <3>1, <3>2, <3>4 DEF Incremented, Allowed, NatRow
    <3> QED
      BY <3>3, <3>4
  <2> QED
    BY <2>1, <2>2 DEF Writable
<1>3. ASSUME Inv, NEW r \in Request, req[r].cands \cap disturbed = {}
      PROVE  ~DeleteRefused(r)
  <2> SUFFICES ASSUME req[r].at = "deleting"
               PROVE  Deletable(r)
    BY DEF DeleteRefused
  <2>1. ~Stale(r)
    BY <1>1, <1>3 DEF Stale
  <2>2. ASSUME NEW f \in req[r].cands
        PROVE  Allowed(Left(r)[f])
    <3>1. f \in Film /\ req[r].read[f] = exposure[f] /\ exposure[f] = Counted(f)
          /\ (exposure[f] # None => /\ exposure[f] \in NatRow
                                    /\ exposure[f].wins <= exposure[f].recs)
      BY <1>1, <1>3
    <3>2. Left(r)[f] = IF exposure[f] # None THEN Decremented(r, f) ELSE None
      BY <3>1 DEF Left
    <3>3. CASE exposure[f] = None
      BY <3>2, <3>3 DEF Allowed
    <3>4. CASE exposure[f] # None
      <4>1. PICK n \in Nat, m \in Nat :
              /\ exposure[f] = [recs |-> n, wins |-> m] /\ m <= n
              /\ n > 0 /\ (f # req[r].winner => m < n)
              /\ (f = req[r].winner => m > 0)
        <5> DEFINE s == req[r].session
        <5>1. /\ s \in Session /\ session[s].state = "live" /\ f \in session[s].cands
              /\ req[r].winner = session[s].winner
          BY <1>3, <3>1 DEF Inv, RequestInv, FreshInv, Deleting
        <5>2. s \in Showing(f) /\ (s \in Won(f) <=> f = req[r].winner)
          BY <5>1 DEF Showing, Won
        <5>3. exposure[f] = [recs |-> Cardinality(Showing(f)),
                             wins |-> Cardinality(Won(f))]
          BY <3>1, <5>2 DEF Counted
        <5>4. Won(f) \in SUBSET Showing(f) /\ IsFiniteSet(Showing(f))
          BY <1>3, WonIsShown, Sizes DEF Inv
        <5>5. /\ Cardinality(Showing(f)) \in Nat /\ Cardinality(Won(f)) \in Nat
              /\ Cardinality(Showing(f)) > 0
              /\ f = req[r].winner => Cardinality(Won(f)) > 0
          BY <5>2, Sizes, FS_EmptySet
        <5>6. Cardinality(Won(f)) <= Cardinality(Showing(f))
              /\ (Cardinality(Won(f)) = Cardinality(Showing(f)) => Won(f) = Showing(f))
          BY <5>4, FS_Subset
        <5>7. f # req[r].winner => Cardinality(Won(f)) < Cardinality(Showing(f))
          BY <5>2, <5>5, <5>6
        <5> QED
          BY <5>3, <5>5, <5>6, <5>7
      <4>2. /\ req[r].read[f] = [recs |-> n, wins |-> m]
            /\ exposure[f] = [recs |-> n, wins |-> m]
        BY <3>1, <4>1
      <4>3. Taken(r, f) = [recs |-> n - 1, wins |-> IF f = req[r].winner THEN m - 1 ELSE m]
        BY <4>1, <4>2 DEF Taken, Minus1
      <4>4. Decremented(r, f) \in {None, Taken(r, f)}
        BY <4>2, <4>3 DEF Decremented
      <4> QED
        BY <3>2, <3>4, <4>1, <4>3, <4>4 DEF Allowed
    <3> QED
      BY <3>3, <3>4
  <2> QED
    BY <2>1, <2>2 DEF Deletable
<1>4. Inv /\ [Next]_vars =>
        [\A r \in Request :
           RankedRefused(r) \/ DeleteRefused(r) => req[r].cands \cap disturbed # {}]_vars
  BY <1>2, <1>3
<1> QED
  BY <1>4, RecommendationInvariant, PTL DEF Spec, RefusedOnlyWhenDisturbed
=============================================================================
