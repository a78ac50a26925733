---------------------------- MODULE InductionFacts ----------------------------
(***************************************************************************)
(* Induction by a least counterexample, and the functions that recursion   *)
(* defines: what the proofs about loops over vectors and about powers of   *)
(* two rest on.                                                            *)
(***************************************************************************)
EXTENDS Integers, WellFoundedInduction, TLAPS

\* A set of numbers that is not empty has a least one.
LEMMA Least ==
  ASSUME NEW T, T \subseteq Nat, T # {}
  PROVE  \E m \in T : \A k \in T : m <= k
<1>1. PICK m \in T : \A k \in T : ~(<<k, m>> \in OpToRel(<, Nat))
  BY WFMin, NatLessThanWellFounded
<1>2. \A k \in T : ~(k < m)
  BY <1>1 DEF OpToRel
<1> QED BY <1>2

\* One that is bounded has a greatest one.
LEMMA Greatest ==
  ASSUME NEW n \in Nat, NEW T, T \subseteq 0..n, T # {}
  PROVE  \E m \in T : \A k \in T : k <= m
<1> DEFINE D == {n - k : k \in T}
<1>1. D \subseteq Nat /\ D # {}
  <2>1. \A k \in T : n - k \in Nat
    OBVIOUS
  <2>2. PICK k : k \in T
    OBVIOUS
  <2>3. n - k \in D
    BY <2>2
  <2> QED BY <2>1, <2>3
<1>2. PICK d \in D : \A k \in D : d <= k
  <2> HIDE DEF D
  <2> QED BY <1>1, Least
<1>3. PICK m \in T : d = n - m
  OBVIOUS
<1>4. \A k \in T : d <= n - k
  BY <1>2
<1> QED BY <1>3, <1>4

\* What holds of 0, and of a number if it does of the one before, holds of all.
LEMMA UpTo ==
  ASSUME NEW n \in Nat, NEW P, 0 \in P, \A i \in 1..n : i - 1 \in P => i \in P
  PROVE  0..n \subseteq P
<1> DEFINE T == (0..n) \ P
<1> SUFFICES ASSUME T # {} PROVE FALSE
  OBVIOUS
<1>1. T \subseteq Nat
  OBVIOUS
<1>2. PICK m \in T : \A k \in T : m <= k
  <2> HIDE DEF T
  <2> QED BY <1>1, Least
<1>3. m \in 1..n /\ m - 1 \notin T /\ m \notin P
  BY <1>2
<1>4. m - 1 \in P
  BY <1>3
<1> QED BY <1>3, <1>4

\* g is x at 0, and F of the value before after that.
Recurses(g, X, x, n, F) ==
  g \in [0..n -> X] /\ g[0] = x /\ \A i \in 1..n : g[i] = F[<<i, g[i - 1]>>]

\* There is such a function.
LEMMA Recursion ==
  ASSUME NEW X, NEW x \in X, NEW n \in Nat, NEW F \in [(1..n) \X X -> X]
  PROVE  \E g : Recurses(g, X, x, n, F)
<1> DEFINE Defined(m) == \E g \in [0..m -> X] : g[0] = x /\ \A i \in 1..m : g[i] = F[<<i, g[i - 1]>>]
           P == {m \in 0..n : Defined(m)}
<1>1. Defined(0)
  <2> DEFINE g == [i \in 0..0 |-> x]
  <2>1. g \in [0..0 -> X] /\ g[0] = x /\ 1..0 = {}
    OBVIOUS
  <2> QED BY <2>1
<1>2. ASSUME NEW m \in 1..n, Defined(m - 1) PROVE Defined(m)
  <2>1. PICK g \in [0..(m - 1) -> X] : g[0] = x /\ \A i \in 1..(m - 1) : g[i] = F[<<i, g[i - 1]>>]
    BY <1>2
  <2> DEFINE h == [i \in 0..m |-> IF i = m THEN F[<<m, g[m - 1]>>] ELSE g[i]]
  <2>2. F[<<m, g[m - 1]>>] \in X
    BY <2>1
  <2>3. \A i \in 0..m : i # m => i \in 0..(m - 1)
    OBVIOUS
  <2>4. h \in [0..m -> X] /\ h[0] = x
    BY <2>1, <2>2, <2>3
  <2>5. ASSUME NEW i \in 1..m PROVE h[i] = F[<<i, h[i - 1]>>]
    <3>1. i \in 0..m /\ i - 1 \in 0..m /\ i - 1 # m /\ h[i - 1] = g[i - 1]
      OBVIOUS
    <3>2. i # m => i \in 1..(m - 1)
      OBVIOUS
    <3> QED BY <3>1, <3>2, <2>1
  <2> HIDE DEF h
  <2> QED BY <2>4, <2>5
<1> HIDE DEF Defined
<1>3. 0 \in P /\ \A i \in 1..n : i - 1 \in P => i \in P
  BY <1>1, <1>2
<1>4. 0..n \subseteq P
  <2> HIDE DEF P
  <2> QED BY <1>3, UpTo
<1>5. n \in 0..n /\ Defined(n)
  BY <1>4
<1> QED BY <1>5 DEF Defined, Recurses
==============================================================================
