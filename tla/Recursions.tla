----------------------------- MODULE Recursions -----------------------------
(***************************************************************************)
(* Induction and recursion on the natural numbers, stated with sets and    *)
(* functions: what the other proof modules need to follow a loop of the    *)
(* program, row by row, to its end.                                        *)
(***************************************************************************)
EXTENDS Integers, Sequences, FiniteSets, SequencesExt, FiniteSetTheorems,
        WellFoundedInduction, TLAPS

\* A set of natural numbers has a least member.
LEMMA LeastNatural ==
  ASSUME NEW T, T \subseteq Nat, T # {}
  PROVE  \E x \in T : \A y \in T : x <= y
<1>1. PICK x \in T : \A y \in T : ~(<<y, x>> \in OpToRel(<, Nat))
  BY NatLessThanWellFounded, WFMin, Zenon
<1>2. \A y \in T : ~(y < x)
  BY <1>1 DEF OpToRel
<1>3. \A y \in T : x <= y
  BY <1>2
<1> QED
  BY <1>3

\* A set that has 0, and with a number the next one, has them all.
LEMMA NatByInduction ==
  ASSUME NEW T, 0 \in T, \A n \in Nat : n \in T => n + 1 \in T
  PROVE  \A n \in Nat : n \in T
<1> DEFINE U == {n \in Nat : n \notin T}
<1>1. CASE U # {}
  <2>1. PICK x \in U : \A y \in U : x <= y
    BY <1>1, LeastNatural
  <2>2. x # 0 /\ x - 1 \in Nat
    BY <2>1
  <2>3. x - 1 \notin U
    BY <2>1, <2>2
  <2> QED
    BY <2>1, <2>2, <2>3
<1> QED
  BY <1>1

\* What holds before the first step of N, and after a step when it held before
\* it, holds throughout.
LEMMA StepByStep ==
  ASSUME NEW N \in Nat, NEW P, 0 \in P, \A i \in 1..N : i - 1 \in P => i \in P
  PROVE  \A i \in 0..N : i \in P
<1> DEFINE T == {i \in Nat : i <= N => i \in P}
<1>1. 0 \in T
  OBVIOUS
<1>2. ASSUME NEW i \in Nat, i \in T
      PROVE  i + 1 \in T
  <2> SUFFICES ASSUME i + 1 <= N
               PROVE  i + 1 \in P
    OBVIOUS
  <2>1. i + 1 \in 1..N /\ (i + 1) - 1 = i /\ i \in P
    BY <1>2
  <2> QED
    BY <2>1
<1>3. \A i \in Nat : i \in T
  <2> HIDE DEF T
  <2> QED
    BY <1>1, <1>2, NatByInduction
<1> QED
  BY <1>3

\* N steps from a, each a function of what the last one left and its number.
IsRun(g, N, a, F) ==
  /\ g[0] = a
  /\ \A i \in 1..N : g[i] = F[<<g[i - 1], i>>]

\* There are such steps, of whatever they are made.
LEMMA RunExists ==
  ASSUME NEW N \in Nat, NEW S, NEW a \in S, NEW F \in [S \X (1..N) -> S]
  PROVE  \E g \in [0..N -> S] : IsRun(g, N, a, F)
<1> DEFINE Follows(g, n) == /\ g[0] = a
                            /\ \A i \in 1..n : g[i] = F[<<g[i - 1], i>>]
           T == {n \in Nat : n <= N => \E g \in [0..n -> S] : Follows(g, n)}
<1>1. 0 \in T
  <2> DEFINE g == [i \in 0..0 |-> a]
  <2>1. g \in [0..0 -> S] /\ Follows(g, 0)
    OBVIOUS
  <2> QED
    BY <2>1
<1>2. ASSUME NEW n \in Nat, n \in T
      PROVE  n + 1 \in T
  <2> SUFFICES ASSUME n + 1 <= N
               PROVE  \E h \in [0..(n + 1) -> S] : Follows(h, n + 1)
    BY <1>2
  <2>1. PICK g \in [0..n -> S] : Follows(g, n)
    BY <1>2
  <2> DEFINE h == [i \in 0..(n + 1) |-> IF i <= n THEN g[i] ELSE F[<<g[n], n + 1>>]]
  <2>2. g[n] \in S /\ n + 1 \in 1..N
    BY <2>1
  <2>3. <<g[n], n + 1>> \in S \X (1..N)
    BY <2>2
  <2>4. F[<<g[n], n + 1>>] \in S
    BY <2>3
  <2>5. h \in [0..(n + 1) -> S]
    BY <2>1, <2>4
  <2>6. \A i \in 0..n : h[i] = g[i]
    OBVIOUS
  <2>7. h[n + 1] = F[<<h[n], n + 1>>]
    <3>1. h[n] = g[n]
      BY <2>6
    <3>2. h[n + 1] = F[<<g[n], n + 1>>]
      OBVIOUS
    <3> QED
      BY <3>1, <3>2, Zenon
  <2>8. \A i \in 1..n : h[i] = F[<<h[i - 1], i>>]
    BY <2>1, <2>6
  <2>9. h[0] = a
    BY <2>1, <2>6
  <2> HIDE DEF h
  <2>10. \A i \in 1..(n + 1) : i \in 1..n \/ i = n + 1
    OBVIOUS
  <2>11. (n + 1) - 1 = n
    OBVIOUS
  <2>12. Follows(h, n + 1)
    BY <2>7, <2>8, <2>9, <2>10, <2>11, Zenon
  <2> QED
    BY <2>5, <2>12
<1>3. \A n \in Nat : n \in T
  <2> HIDE DEF T
  <2> QED
    BY <1>1, <1>2, NatByInduction
<1>4. \E g \in [0..N -> S] : Follows(g, N)
  <2>1. N \in T
    BY <1>3
  <2> HIDE DEF Follows
  <2> QED
    BY <2>1
<1>5. PICK g \in [0..N -> S] : Follows(g, N)
  BY <1>4
<1>6. IsRun(g, N, a, F)
  BY <1>5 DEF IsRun
<1> HIDE DEF T, Follows
<1> QED
  BY <1>6, Zenon

-----------------------------------------------------------------------------
(* Sequences without repetitions.                                          *)

\* Such a sequence has as many members as it is long.
LEMMA InjectiveLength ==
  ASSUME NEW S, NEW s \in Seq(S), IsInjective(s)
  PROVE  IsFiniteSet(ToSet(s)) /\ Cardinality(ToSet(s)) = Len(s)
<1> DEFINE D == DOMAIN s
           M == ToSet(s)
<1>1. Len(s) \in Nat /\ D = 1..Len(s)
  OBVIOUS
<1>2. s \in Bijection(D, M)
  <2>1. s \in [D -> M]
    BY DEF ToSet
  <2>2. \A y \in M : \E i \in D : s[i] = y
    BY DEF ToSet
  <2> QED
    BY <2>1, <2>2 DEF Bijection, Injection, Surjection
<1>3. IsFiniteSet(D) /\ Cardinality(D) = Len(s)
  <2>1. \A n \in Nat : IsFiniteSet(1..n) /\ Cardinality(1..n) = n
    BY FS_Interval
  <2> QED
    BY <1>1, <2>1, Zenon
<1>4. ExistsBijection(D, M)
  BY <1>2 DEF ExistsBijection
<1> HIDE DEF D, M
<1>5. IsFiniteSet(M) /\ Cardinality(M) = Cardinality(D)
  BY <1>3, <1>4, FS_Bijection
<1> QED
  BY <1>3, <1>5 DEF M

\* One more that is not yet there.
LEMMA OneMoreIsInjective ==
  ASSUME NEW S, NEW s \in Seq(S), IsInjective(s), NEW e \in S, e \notin ToSet(s)
  PROVE  IsInjective(Append(s, e))
<1> DEFINE t == Append(s, e)
<1>1. /\ DOMAIN t = 1..(Len(s) + 1) /\ DOMAIN s = 1..Len(s)
      /\ Len(s) \in Nat
      /\ \A i \in 1..Len(s) : t[i] = s[i]
      /\ t[Len(s) + 1] = e
  OBVIOUS
<1>2. \A i \in 1..Len(s) : s[i] # e
  BY DEF ToSet
<1>3. \A i, j \in 1..Len(s) : s[i] = s[j] => i = j
  BY <1>1 DEF IsInjective
<1>4. \A i \in 1..(Len(s) + 1) : i \in 1..Len(s) \/ i = Len(s) + 1
  BY <1>1
<1> HIDE DEF t
<1>5. \A i, j \in DOMAIN t : t[i] = t[j] => i = j
  BY <1>1, <1>2, <1>3, <1>4
<1>6. IsInjective(t)
  BY <1>5 DEF IsInjective
<1> QED
  BY <1>6 DEF t

LEMMA OneMoreMembers ==
  ASSUME NEW S, NEW s \in Seq(S), NEW e \in S
  PROVE  ToSet(Append(s, e)) = ToSet(s) \cup {e}
<1>1. /\ DOMAIN Append(s, e) = 1..(Len(s) + 1) /\ DOMAIN s = 1..Len(s)
      /\ Len(s) \in Nat
      /\ \A i \in 1..Len(s) : Append(s, e)[i] = s[i]
      /\ Append(s, e)[Len(s) + 1] = e
  OBVIOUS
<1>2. \A i \in 1..(Len(s) + 1) : i \in 1..Len(s) \/ i = Len(s) + 1
  BY <1>1
<1>3. ASSUME NEW x \in ToSet(Append(s, e))
      PROVE  x \in ToSet(s) \cup {e}
  BY <1>1, <1>2, <1>3 DEF ToSet
<1>4. ASSUME NEW x \in ToSet(s)
      PROVE  x \in ToSet(Append(s, e))
  <2>1. PICK i \in 1..Len(s) : x = s[i]
    BY <1>1, <1>4 DEF ToSet
  <2>2. i \in DOMAIN Append(s, e) /\ Append(s, e)[i] = x
    BY <1>1, <2>1
  <2> QED
    BY <2>2 DEF ToSet
<1>5. e \in ToSet(Append(s, e))
  <2>1. Len(s) + 1 \in DOMAIN Append(s, e)
    BY <1>1
  <2> QED
    BY <1>1, <2>1 DEF ToSet
<1> QED
  BY <1>3, <1>4, <1>5

=============================================================================
