----------------------------- MODULE FiniteSums -----------------------------
(***************************************************************************)
(* Sums over a finite set, as the community modules compute them: an       *)
(* element at a time, chosen from what is left (MapThenFoldSet of Folds).  *)
(* The ledger of captures is such a sum over the operations, and           *)
(* PaymentLedgerProofs needs three facts about it: it is a natural number, *)
(* it grows with its summands, and changing one summand changes it by the  *)
(* same amount.  Each is proved by induction along the order in which the  *)
(* elements are chosen.                                                    *)
(***************************************************************************)
EXTENDS Naturals, FiniteSetTheorems, WellFoundedInduction, TLAPS

-----------------------------------------------------------------------------
(* Induction over the subsets of a finite set *)

\* A set of naturals that is not empty has a least element.
LEMMA NatMin ==
    ASSUME NEW T, T \subseteq Nat, T # {}
    PROVE  \E n \in T : \A m \in T : n <= m
<1>1. IsWellFoundedOn(OpToRel(<, Nat), Nat)
  BY NatLessThanWellFounded
<1>2. PICK R : R = OpToRel(<, Nat)
  OBVIOUS
<1>3. IsWellFoundedOn(R, Nat)
  BY <1>1, <1>2
<1>4. PICK n \in T : \A m \in T : ~ (<<m, n>> \in R)
  BY <1>3, WFMin
<1>5. \A m, k \in Nat : m < k => <<m, k>> \in R
  BY <1>2 DEF OpToRel
<1>6. ASSUME NEW m \in T PROVE n <= m
  <2>1. n \in Nat /\ m \in Nat /\ ~ (<<m, n>> \in R)
    BY <1>4
  <2>2. ~ (m < n)
    BY <1>5, <2>1
  <2> QED BY <2>1, <2>2
<1> QED BY <1>6

\* The element a fold takes next, and the equation that defines the sums g of f
\* over the subsets of S.
Pick(s) == CHOOSE x \in s : TRUE
IsSum(g, f, S) ==
    g = [s \in SUBSET S |-> IF s = {} THEN 0 ELSE f[Pick(s)] + g[s \ {Pick(s)}]]

LEMMA PickIn == ASSUME NEW s, s # {} PROVE Pick(s) \in s
BY DEF Pick

\* Taking an element out of a subset leaves a subset with one element less.
LEMMA LessByPick ==
    ASSUME NEW S, IsFiniteSet(S), NEW s \in SUBSET S
    PROVE  /\ IsFiniteSet(s) /\ Cardinality(s) \in Nat
           /\ s # {} => /\ s \ {Pick(s)} \in SUBSET S
                        /\ Cardinality(s \ {Pick(s)}) = Cardinality(s) - 1
<1>1. IsFiniteSet(s) /\ Cardinality(s) \in Nat
  BY FS_Subset, FS_CardinalityType
<1>2. s # {} => Pick(s) \in s /\ Cardinality(s \ {Pick(s)}) = Cardinality(s) - 1
  BY <1>1, PickIn, FS_RemoveElement
<1> QED BY <1>1, <1>2

\* A collection that has the empty set, and a set whenever it has what is left of
\* it after a pick, has every subset.
LEMMA SubsetInduction ==
    ASSUME NEW S, IsFiniteSet(S), NEW T, {} \in T,
           \A s \in SUBSET S : s # {} /\ s \ {Pick(s)} \in T => s \in T
    PROVE  SUBSET S \subseteq T
<1> DEFINE Bad == {s \in SUBSET S : s \notin T}
           Sizes == {Cardinality(s) : s \in Bad}
<1> SUFFICES ASSUME Bad # {} PROVE FALSE
  OBVIOUS
<1>0. \A s \in SUBSET S : Cardinality(s) \in Nat
  BY LessByPick
<1>1. Sizes \subseteq Nat /\ Sizes # {}
  BY <1>0
<1>2. PICK n \in Sizes : \A m \in Sizes : n <= m
  <2> HIDE DEF Sizes
  <2> QED BY <1>1, NatMin
<1>3. PICK s \in Bad : n = Cardinality(s)
  BY <1>2
<1>4. s # {} /\ Cardinality(s \ {Pick(s)}) = Cardinality(s) - 1 /\ s \ {Pick(s)} \in SUBSET S
      /\ Cardinality(s) \in Nat
  <2>1. s \in SUBSET S /\ s # {}
    OBVIOUS
  <2> QED BY <2>1, LessByPick
<1>5. s \ {Pick(s)} \in Bad
  BY <1>4
<1>6. Cardinality(s) <= Cardinality(s \ {Pick(s)})
  BY <1>2, <1>3, <1>5
<1> QED BY <1>4, <1>6

-----------------------------------------------------------------------------
(* Sums *)

\* The equation has a solution: it is built size by size.
LEMMA SumExists ==
    ASSUME NEW S, IsFiniteSet(S), NEW f \in [S -> Nat]
    PROVE  \E g : IsSum(g, f, S)
<1> DEFINE Step(g, s) == IF s = {} THEN 0 ELSE f[Pick(s)] + g[s \ {Pick(s)}]
           Upto(n) == {s \in SUBSET S : Cardinality(s) <= n}
           Good(n) == \E g \in [SUBSET S -> Nat] : \A s \in Upto(n) : g[s] = Step(g, s)
<1>1. ASSUME NEW g \in [SUBSET S -> Nat]
      PROVE  [s \in SUBSET S |-> Step(g, s)] \in [SUBSET S -> Nat]
  <2> SUFFICES ASSUME NEW s \in SUBSET S PROVE Step(g, s) \in Nat
    OBVIOUS
  <2>1. CASE s = {}
    BY <2>1
  <2>2. CASE s # {}
    <3>1. Pick(s) \in S /\ s \ {Pick(s)} \in SUBSET S
      BY <2>2, PickIn
    <3>2. f[Pick(s)] \in Nat /\ g[s \ {Pick(s)}] \in Nat
      BY <3>1
    <3> QED BY <2>2, <3>2
  <2> QED BY <2>1, <2>2
<1>2. Good(0)
  <2> DEFINE g == [s \in SUBSET S |-> 0]
  <2>1. g \in [SUBSET S -> Nat]
    OBVIOUS
  <2>2. ASSUME NEW s \in Upto(0) PROVE s = {}
    <3>1. s \in SUBSET S /\ Cardinality(s) <= 0
      OBVIOUS
    <3>2. Cardinality(s) \in Nat /\ IsFiniteSet(s)
      BY <3>1, LessByPick
    <3>3. Cardinality(s) = 0
      BY <3>1, <3>2
    <3> QED BY <3>2, <3>3, FS_EmptySet
  <2> QED BY <2>1, <2>2
<1>3. ASSUME NEW n \in Nat, Good(n) PROVE Good(n + 1)
  <2>1. PICK g \in [SUBSET S -> Nat] : \A s \in Upto(n) : g[s] = Step(g, s)
    BY <1>3
  <2> DEFINE h == [s \in SUBSET S |-> Step(g, s)]
  <2>2. h \in [SUBSET S -> Nat]
    BY <1>1
  <2>3. ASSUME NEW s \in Upto(n + 1) PROVE h[s] = Step(h, s)
    <3>1. CASE s = {}
      BY <3>1
    <3>2. CASE s # {}
      <4>0. s \in SUBSET S /\ Cardinality(s) <= n + 1
        OBVIOUS
      <4>1. s \ {Pick(s)} \in SUBSET S /\ Cardinality(s \ {Pick(s)}) <= n
        BY <3>2, <4>0, LessByPick
      <4>2. h[s \ {Pick(s)}] = g[s \ {Pick(s)}]
        BY <2>1, <4>1
      <4> QED BY <3>2, <4>0, <4>2
    <3> QED BY <3>1, <3>2
  <2> HIDE DEF h
  <2> QED BY <2>2, <2>3
<1>4. \A n \in Nat : Good(n)
  <2> DEFINE T == {n \in Nat : ~Good(n)}
  <2> SUFFICES ASSUME T # {} PROVE FALSE
    OBVIOUS
  <2>1. PICK n \in T : \A m \in T : n <= m
    <3>1. T \subseteq Nat
      OBVIOUS
    <3> HIDE DEF T
    <3> QED BY <3>1, NatMin
  <2> HIDE DEF Good
  <2>2. n # 0
    BY <1>2
  <2>3. n - 1 \in Nat /\ n - 1 \notin T
    BY <2>1, <2>2
  <2>4. Good(n - 1 + 1)
    BY <1>3, <2>3
  <2>5. n - 1 + 1 = n
    OBVIOUS
  <2> QED BY <2>4, <2>5
<1>5. Good(Cardinality(S))
  BY <1>4, FS_CardinalityType
<1>6. PICK g \in [SUBSET S -> Nat] : \A s \in Upto(Cardinality(S)) : g[s] = Step(g, s)
  BY <1>5
<1>7. \A s \in SUBSET S : Cardinality(s) <= Cardinality(S)
  BY FS_Subset
<1>8. IsSum(g, f, S)
  BY <1>6, <1>7 DEF IsSum
<1> QED BY <1>8

\* The equation for one subset.
LEMMA SumStep ==
    ASSUME NEW S, NEW f, NEW g, IsSum(g, f, S), NEW s \in SUBSET S
    PROVE  g[s] = IF s = {} THEN 0 ELSE f[Pick(s)] + g[s \ {Pick(s)}]
BY DEF IsSum

\* Nothing sums to zero.
LEMMA SumEmpty ==
    ASSUME NEW S, NEW f, NEW g, IsSum(g, f, S)
    PROVE  g[{}] = 0
<1>1. {} \in SUBSET S
  OBVIOUS
<1> QED BY <1>1, SumStep

\* Natural numbers sum to a natural number.
LEMMA SumNat ==
    ASSUME NEW S, IsFiniteSet(S), NEW f, \A x \in S : f[x] \in Nat, NEW g, IsSum(g, f, S)
    PROVE  \A s \in SUBSET S : g[s] \in Nat
<1> DEFINE T == {s \in SUBSET S : g[s] \in Nat}
<1>1. {} \in T
  BY SumEmpty
<1>2. ASSUME NEW s \in SUBSET S, s # {}, s \ {Pick(s)} \in T PROVE s \in T
  <2>1. g[s] = f[Pick(s)] + g[s \ {Pick(s)}] /\ Pick(s) \in S
    BY <1>2, SumStep, PickIn
  <2>2. f[Pick(s)] \in Nat /\ g[s \ {Pick(s)}] \in Nat
    BY <1>2, <2>1
  <2> QED BY <2>1, <2>2
<1>3. SUBSET S \subseteq T
  <2> HIDE DEF T
  <2> QED BY <1>1, <1>2, SubsetInduction
<1> QED BY <1>3

\* Where every summand is at most its counterpart, so is the sum.
LEMMA SumMono ==
    ASSUME NEW S, IsFiniteSet(S), NEW f, NEW g, IsSum(g, f, S), NEW e, NEW h, IsSum(h, e, S),
           \A x \in S : f[x] \in Nat /\ e[x] \in Nat /\ f[x] <= e[x]
    PROVE  g[S] <= h[S]
<1> DEFINE T == {s \in SUBSET S : g[s] <= h[s]}
<1>0. \A s \in SUBSET S : g[s] \in Nat /\ h[s] \in Nat
  BY SumNat
<1>1. {} \in T
  BY SumEmpty
<1>2. ASSUME NEW s \in SUBSET S, s # {}, s \ {Pick(s)} \in T PROVE s \in T
  <2>1. /\ g[s] = f[Pick(s)] + g[s \ {Pick(s)}]
        /\ h[s] = e[Pick(s)] + h[s \ {Pick(s)}] /\ Pick(s) \in S
    BY <1>2, SumStep, PickIn
  <2>2. /\ f[Pick(s)] <= e[Pick(s)] /\ f[Pick(s)] \in Nat /\ e[Pick(s)] \in Nat
        /\ g[s \ {Pick(s)}] <= h[s \ {Pick(s)}]
        /\ g[s \ {Pick(s)}] \in Nat /\ h[s \ {Pick(s)}] \in Nat
    BY <1>0, <1>2, <2>1
  <2> QED BY <2>1, <2>2
<1>3. SUBSET S \subseteq T
  <2> HIDE DEF T
  <2> QED BY <1>1, <1>2, SubsetInduction
<1> QED BY <1>3

\* A summand that grows by d lets the sum grow by d.
LEMMA SumMore ==
    ASSUME NEW S, IsFiniteSet(S), NEW f, NEW g, IsSum(g, f, S), NEW e, NEW h, IsSum(h, e, S),
           \A x \in S : f[x] \in Nat /\ e[x] \in Nat,
           NEW a \in S, NEW d \in Nat, e[a] = f[a] + d, \A x \in S \ {a} : e[x] = f[x]
    PROVE  h[S] = g[S] + d
<1> DEFINE T == {s \in SUBSET S : h[s] = IF a \in s THEN g[s] + d ELSE g[s]}
<1>0. \A s \in SUBSET S : g[s] \in Nat /\ h[s] \in Nat
  BY SumNat
<1>1. {} \in T
  BY SumEmpty
<1>2. ASSUME NEW s \in SUBSET S, s # {}, s \ {Pick(s)} \in T PROVE s \in T
  <2> DEFINE p == Pick(s)
             r == s \ {p}
  <2>1. g[s] = f[p] + g[r] /\ h[s] = e[p] + h[r] /\ p \in s /\ p \in S
    BY <1>2, SumStep, PickIn
  <2>2. /\ h[r] = IF a \in r THEN g[r] + d ELSE g[r]
        /\ f[p] \in Nat /\ e[p] \in Nat /\ g[r] \in Nat /\ h[r] \in Nat
    BY <1>0, <1>2, <2>1
  <2>3. CASE p = a
    <3>1. a \in s /\ a \notin r
      BY <2>1, <2>3
    <3> HIDE DEF p, r
    <3>2. h[s] = f[p] + d + g[r] /\ g[s] = f[p] + g[r] /\ a \in s
      BY <2>1, <2>2, <2>3, <3>1
    <3> QED BY <2>2, <3>2
  <2>4. CASE p # a
    <3>1. (a \in s) = (a \in r) /\ e[p] = f[p]
      BY <2>1, <2>4
    <3> HIDE DEF p, r
    <3>2. h[s] = f[p] + h[r] /\ g[s] = f[p] + g[r]
      BY <2>1, <3>1
    <3> QED BY <2>2, <3>1, <3>2
  <2> QED BY <2>3, <2>4
<1>3. SUBSET S \subseteq T
  <2> HIDE DEF T
  <2> QED BY <1>1, <1>2, SubsetInduction
<1> QED BY <1>3
=============================================================================
