------------------------------- MODULE Fixpoints -------------------------------
(****************************************************************************)
(* What a closure computed by rounds comes to.  The code follows references *)
(* until nothing is added (state.rs, transaction_conflicts.rs); the models  *)
(* write the rounds as a recursive function and take as many as there are   *)
(* nodes.  A round is a function F on the subsets of a set S.  These lemmas *)
(* say that the recursion defines a function, that as many rounds as S has  *)
(* elements reach a fixed point, and that it lies in every closed set.      *)
(****************************************************************************)
EXTENDS Naturals, FiniteSets, FiniteSetTheorems, WellFoundedInduction, NaturalsInduction, TLAPS

-----------------------------------------------------------------------------
(* Induction, as the least of a set of numbers *)

LEMMA LeastNumber ==
    ASSUME NEW S, S \subseteq Nat, S # {}
    PROVE  \E m \in S : \A n \in S : m <= n
<1>1. PICK below : /\ IsWellFoundedOn(below, Nat)
                   /\ \A m, n \in Nat : n < m => <<n, m>> \in below
  <2>1. IsWellFoundedOn(OpToRel(<, Nat), Nat)
    BY NatLessThanWellFounded
  <2>2. \A m, n \in Nat : n < m => <<n, m>> \in OpToRel(<, Nat)
    BY DEF OpToRel
  <2> QED
    BY <2>1, <2>2, Zenon
<1>2. PICK m \in S : \A n \in S : ~(<<n, m>> \in below)
  BY <1>1, WFMin
<1>3. ASSUME NEW n \in S
      PROVE  m <= n
  <2>1. m \in Nat /\ n \in Nat /\ ~(n < m)
    BY <1>1, <1>2
  <2> QED
    BY <2>1
<1> QED
  BY <1>2, <1>3

\* What holds of 0 and goes on from each number to the next holds of all.
LEMMA EveryNumber ==
    ASSUME NEW Good, 0 \in Good,
           \A n \in Nat : n \in Good => n + 1 \in Good
    PROVE  \A n \in Nat : n \in Good
<1> SUFFICES ASSUME NEW n \in Nat, n \notin Good PROVE FALSE
  OBVIOUS
<1> DEFINE Bad == {k \in Nat : k \notin Good}
<1>1. PICK m \in Bad : \A k \in Bad : m <= k
  BY LeastNumber
<1>2. m \in Nat /\ m # 0 /\ m - 1 \in Nat /\ (m - 1) + 1 = m
  BY <1>1
<1>3. m - 1 \in Good
  BY <1>1, <1>2
<1> QED
  BY <1>1, <1>2, <1>3

-----------------------------------------------------------------------------
(* The rounds *)

\* g is the rounds of F from From, up to the last of D.
Rounds(g, D, F, From) ==
    g = [n \in D |-> IF n = 0 THEN From ELSE F[g[n - 1]]]

\* Up to each number there are rounds, and only one sequence of them.
LEMMA RoundsUpTo ==
    ASSUME NEW F, NEW From, NEW n \in Nat
    PROVE  \E g : Rounds(g, 0..n, F, From)
<1> DEFINE Good == {k \in Nat : \E g : Rounds(g, 0..k, F, From)}
<1>1. 0 \in Good
  <2>1. Rounds([k \in 0..0 |-> From], 0..0, F, From)
    BY DEF Rounds
  <2> QED
    BY <2>1
<1>2. ASSUME NEW k \in Nat, k \in Good
      PROVE  k + 1 \in Good
  <2>1. PICK g : Rounds(g, 0..k, F, From)
    BY <1>2
  <2> DEFINE h == [m \in 0..(k + 1) |-> IF m = k + 1 THEN F[g[k]] ELSE g[m]]
  <2>2. \A m \in 0..(k + 1) : h[m] = IF m = 0 THEN From ELSE F[h[m - 1]]
    <3> SUFFICES ASSUME NEW m \in 0..(k + 1)
                 PROVE  h[m] = IF m = 0 THEN From ELSE F[h[m - 1]]
      OBVIOUS
    <3>1. CASE m = k + 1
      <4>1. m # 0 /\ m - 1 = k /\ k \in 0..(k + 1) /\ k # k + 1
        BY <3>1
      <4> QED
        BY <3>1, <4>1
    <3>2. CASE m # k + 1
      <4>1. m \in 0..k
        BY <3>2
      <4>2. g[m] = IF m = 0 THEN From ELSE F[g[m - 1]]
        BY <2>1, <4>1 DEF Rounds
      <4>3. m # 0 => m - 1 \in 0..(k + 1) /\ m - 1 # k + 1
        BY <4>1
      <4> QED
        BY <3>2, <4>1, <4>2, <4>3
    <3> QED
      BY <3>1, <3>2
  <2>3. Rounds(h, 0..(k + 1), F, From)
    BY <2>2 DEF Rounds
  <2> QED
    BY <2>3
<1> HIDE DEF Good
<1>3. n \in Good
  BY <1>1, <1>2, EveryNumber
<1> QED
  BY <1>3 DEF Good

LEMMA RoundsAgree ==
    ASSUME NEW F, NEW From, NEW j \in Nat, NEW k \in Nat,
           NEW g, Rounds(g, 0..j, F, From), NEW h, Rounds(h, 0..k, F, From),
           NEW n \in Nat, n <= j, n <= k
    PROVE  g[n] = h[n]
<1> DEFINE Good == {m \in Nat : m <= j /\ m <= k => g[m] = h[m]}
<1>1. 0 \in Good
  BY DEF Rounds
<1>2. ASSUME NEW m \in Nat, m \in Good
      PROVE  m + 1 \in Good
  <2>1. CASE m + 1 <= j /\ m + 1 <= k
    <3>1. m + 1 \in 0..j /\ m + 1 \in 0..k /\ m + 1 # 0 /\ (m + 1) - 1 = m /\ m <= j /\ m <= k
      BY <2>1
    <3>2. g[m + 1] = F[g[m]] /\ h[m + 1] = F[h[m]]
      BY <3>1 DEF Rounds
    <3> QED
      BY <1>2, <3>1, <3>2
  <2> QED
    BY <2>1
<1> HIDE DEF Good
<1>3. n \in Good
  BY <1>1, <1>2, EveryNumber
<1> QED
  BY <1>3 DEF Good

LEMMA RoundsExist ==
    ASSUME NEW F, NEW From
    PROVE  \E g : Rounds(g, Nat, F, From)
<1> DEFINE upTo(n) == CHOOSE g : Rounds(g, 0..n, F, From)
           g == [n \in Nat |-> upTo(n)[n]]
<1>1. \A n \in Nat : Rounds(upTo(n), 0..n, F, From)
  BY RoundsUpTo
<1> HIDE DEF upTo
<1>2. ASSUME NEW n \in Nat
      PROVE  g[n] = IF n = 0 THEN From ELSE F[g[n - 1]]
  <2>1. upTo(n)[n] = IF n = 0 THEN From ELSE F[upTo(n)[n - 1]]
    BY <1>1 DEF Rounds
  <2>2. ASSUME n # 0
        PROVE  upTo(n)[n - 1] = upTo(n - 1)[n - 1]
    <3>1. n - 1 \in Nat /\ n - 1 <= n /\ n - 1 <= n - 1
      BY <2>2
    <3>2. Rounds(upTo(n), 0..n, F, From) /\ Rounds(upTo(n - 1), 0..(n - 1), F, From)
      BY <1>1, <3>1
    <3> QED
      BY <3>1, <3>2, RoundsAgree
  <2>3. n # 0 => g[n - 1] = upTo(n - 1)[n - 1]
    OBVIOUS
  <2> QED
    BY <2>1, <2>2, <2>3
<1>3. Rounds(g, Nat, F, From)
  BY <1>2 DEF Rounds
<1> QED
  BY <1>3

-----------------------------------------------------------------------------
(* What the rounds come to *)

\* g is what the first K rounds of F from From come to.
Computes(g, K, F, From) ==
    /\ g[0] = From
    /\ \A n \in 1..K : g[n] = F[g[n - 1]]

LEMMA RoundsCompute ==
    ASSUME NEW F, NEW From, NEW g, Rounds(g, Nat, F, From), NEW K \in Nat
    PROVE  Computes(g, K, F, From)
<1>1. \A n \in Nat : g[n] = IF n = 0 THEN From ELSE F[g[n - 1]]
  BY DEF Rounds
<1>2. \A n \in 1..K : n \in Nat /\ n # 0
  OBVIOUS
<1> QED
  BY <1>1, <1>2 DEF Computes

\* A round adds to what there is, and stays within S.
Growing(F, S) ==
    /\ F \in [SUBSET S -> SUBSET S]
    /\ \A Y \in SUBSET S : Y \subseteq F[Y]

LEMMA RoundsTyped ==
    ASSUME NEW S, NEW F, Growing(F, S), NEW From \in SUBSET S,
           NEW K \in Nat, NEW g, Computes(g, K, F, From), NEW n \in 0..K
    PROVE  g[n] \in SUBSET S
<1> DEFINE Good == {m \in Nat : m <= K => g[m] \in SUBSET S}
<1>1. 0 \in Good
  BY DEF Computes
<1>2. ASSUME NEW m \in Nat, m \in Good
      PROVE  m + 1 \in Good
  <2>1. CASE m + 1 <= K
    <3>1. m + 1 \in 1..K /\ (m + 1) - 1 = m /\ m <= K
      BY <2>1
    <3>2. g[m + 1] = F[g[m]] /\ g[m] \in SUBSET S
      BY <1>2, <3>1 DEF Computes
    <3> QED
      BY <3>2 DEF Growing
  <2> QED
    BY <2>1
<1> HIDE DEF Good
<1>3. n \in Good
  BY <1>1, <1>2, EveryNumber
<1> QED
  BY <1>3 DEF Good

\* What the rounds start with stays.
LEMMA RoundsHold ==
    ASSUME NEW S, NEW F, Growing(F, S), NEW From \in SUBSET S,
           NEW K \in Nat, NEW g, Computes(g, K, F, From), NEW n \in 0..K
    PROVE  From \subseteq g[n]
<1> DEFINE Good == {m \in Nat : m <= K => From \subseteq g[m]}
<1>1. 0 \in Good
  BY DEF Computes
<1>2. ASSUME NEW m \in Nat, m \in Good
      PROVE  m + 1 \in Good
  <2>1. CASE m + 1 <= K
    <3>1. m + 1 \in 1..K /\ (m + 1) - 1 = m /\ m <= K /\ m \in 0..K
      BY <2>1
    <3>2. g[m] \in SUBSET S
      BY <3>1, RoundsTyped
    <3>3. g[m + 1] = F[g[m]] /\ From \subseteq g[m]
      BY <1>2, <3>1 DEF Computes
    <3> QED
      BY <3>2, <3>3 DEF Growing
  <2> QED
    BY <2>1
<1> HIDE DEF Good
<1>3. n \in Good
  BY <1>1, <1>2, EveryNumber
<1> QED
  BY <1>3 DEF Good

\* Rounds that start in a closed set stay in it.
LEMMA RoundsStayWithin ==
    ASSUME NEW S, NEW F, Growing(F, S), NEW From \in SUBSET S,
           NEW K \in Nat, NEW g, Computes(g, K, F, From), NEW n \in 0..K,
           NEW X, From \subseteq X,
           \A Y \in SUBSET S : Y \subseteq X => F[Y] \subseteq X
    PROVE  g[n] \subseteq X
<1> DEFINE Good == {m \in Nat : m <= K => g[m] \subseteq X}
<1>1. 0 \in Good
  BY DEF Computes
<1>2. ASSUME NEW m \in Nat, m \in Good
      PROVE  m + 1 \in Good
  <2>1. CASE m + 1 <= K
    <3>1. m + 1 \in 1..K /\ (m + 1) - 1 = m /\ m <= K /\ m \in 0..K
      BY <2>1
    <3>2. g[m] \in SUBSET S
      BY <3>1, RoundsTyped
    <3>3. g[m + 1] = F[g[m]] /\ g[m] \subseteq X
      BY <1>2, <3>1 DEF Computes
    <3> QED
      BY <3>2, <3>3
  <2> QED
    BY <2>1
<1> HIDE DEF Good
<1>3. n \in Good
  BY <1>1, <1>2, EveryNumber
<1> QED
  BY <1>3 DEF Good

\* A round that adds nothing is followed by none that does.
LEMMA RoundsStandStill ==
    ASSUME NEW F, NEW From, NEW K \in Nat, NEW g, Computes(g, K, F, From),
           NEW n \in 0..K, F[g[n]] = g[n]
    PROVE  g[K] = g[n]
<1> DEFINE Good == {m \in Nat : n <= m /\ m <= K => g[m] = g[n]}
<1>1. 0 \in Good
  OBVIOUS
<1>2. ASSUME NEW m \in Nat, m \in Good
      PROVE  m + 1 \in Good
  <2>1. CASE n <= m /\ m + 1 <= K
    <3>1. m + 1 \in 1..K /\ (m + 1) - 1 = m /\ m <= K
      BY <2>1
    <3>2. g[m + 1] = F[g[m]] /\ g[m] = g[n]
      BY <1>2, <2>1, <3>1 DEF Computes
    <3> QED
      BY <3>2
  <2>2. CASE ~(n <= m)
    <3>1. n <= m + 1 => n = m + 1
      BY <2>2
    <3> QED
      BY <3>1
  <2> QED
    BY <2>1, <2>2
<1> HIDE DEF Good
<1>3. K \in Good
  BY <1>1, <1>2, EveryNumber
<1> QED
  BY <1>3 DEF Good

\* As many rounds as there are elements reach a fixed point.
LEMMA RoundsSettle ==
    ASSUME NEW S, IsFiniteSet(S), NEW F, Growing(F, S), NEW From \in SUBSET S,
           NEW g, Computes(g, Cardinality(S), F, From)
    PROVE  F[g[Cardinality(S)]] = g[Cardinality(S)]
<1> DEFINE K == Cardinality(S)
<1>0. K \in Nat
  BY FS_CardinalityType
<1> SUFFICES ASSUME F[g[K]] # g[K] PROVE FALSE
  OBVIOUS
<1>1. \A n \in 0..K : g[n] \in SUBSET S
  BY <1>0, RoundsTyped
<1>2. \A n \in 0..K : F[g[n]] # g[n]
  BY <1>0, RoundsStandStill
<1> HIDE DEF K
<1> DEFINE Good == {m \in Nat : m <= K => Cardinality(g[m]) >= m}
<1>3. 0 \in Good
  <2>1. Cardinality(g[0]) \in Nat
    BY <1>0, <1>1, FS_Subset, FS_CardinalityType
  <2> QED
    BY <2>1
<1>4. ASSUME NEW m \in Nat, m \in Good
      PROVE  m + 1 \in Good
  <2>1. CASE m + 1 <= K
    <3>1. m + 1 \in 1..K /\ m + 1 \in 0..K /\ (m + 1) - 1 = m /\ m <= K /\ m \in 0..K
      BY <1>0, <2>1
    <3>2. g[m + 1] = F[g[m]] /\ Cardinality(g[m]) >= m
      BY <1>4, <3>1 DEF Computes, K
    <3>3. g[m] \subseteq g[m + 1] /\ g[m] # g[m + 1] /\ g[m + 1] \in SUBSET S
      BY <1>1, <1>2, <3>1, <3>2 DEF Growing
    <3>4. IsFiniteSet(g[m + 1])
      BY <3>3, FS_Subset
    <3>5. /\ Cardinality(g[m]) <= Cardinality(g[m + 1])
          /\ Cardinality(g[m]) # Cardinality(g[m + 1])
          /\ Cardinality(g[m]) \in Nat /\ Cardinality(g[m + 1]) \in Nat
      BY <3>3, <3>4, FS_Subset, FS_CardinalityType
    <3> QED
      BY <3>2, <3>5
  <2> QED
    BY <2>1
<1> HIDE DEF Good
<1>5. K \in Good
  BY <1>0, <1>3, <1>4, EveryNumber
<1>6. Cardinality(g[K]) >= K /\ g[K] \in SUBSET S
  BY <1>0, <1>1, <1>5 DEF Good
<1>7. Cardinality(g[K]) <= K /\ Cardinality(g[K]) \in Nat
  BY <1>6, FS_Subset, FS_CardinalityType DEF K
<1>8. g[K] = S
  BY <1>0, <1>6, <1>7, FS_Subset DEF K
<1>9. S \in SUBSET S
  OBVIOUS
<1>10. F[S] \in SUBSET S /\ S \subseteq F[S]
  BY <1>9 DEF Growing
<1>11. F[S] = S
  BY <1>10
<1> QED
  BY <1>8, <1>11

===============================================================================
