----------------------------- MODULE FiniteSums -----------------------------
(***************************************************************************)
(* Lemmas about least and greatest numbers and about sums over finite      *)
(* sets, which the theorems about totals rest on.  What the library's      *)
(* induction theorems would give is proved here by way of a least          *)
(* counterexample, with the claim as a set and not as an operator.         *)
(***************************************************************************)
EXTENDS Integers, FiniteSetsExt, FiniteSetTheorems, WellFoundedInduction, TLAPS

(***************************************************************************)
(* Induction: there is a least and a greatest number for which a claim     *)
(* that fails at all fails.                                                *)
(***************************************************************************)

(* A set of naturals that is not empty has a least one. *)
LEMMA LeastNat ==
  ASSUME NEW T \in SUBSET Nat, T # {}
  PROVE  \E m \in T : \A x \in T : m <= x
<1> DEFINE Less == {ss \in Nat \X Nat : ss[1] < ss[2]}
<1>1. IsWellFoundedOn(Less, Nat)
  BY NatLessThanWellFounded DEF OpToRel
<1>2. \A x, y \in Nat : x < y => <<x, y>> \in Less
  OBVIOUS
<1>3. PICK m \in T : \A x \in T : <<x, m>> \notin Less
  <2> HIDE DEF Less
  <2> QED
    BY <1>1, WFMin
<1> QED
  <2>1. \A x \in T : ~(x < m)
    BY <1>2, <1>3
  <2> QED
    BY <2>1

(* A nonempty set of levels has a deepest one: the levels above n are      *)
(* well-founded.                                                           *)
LEMMA DeepestLevel ==
  ASSUME NEW n \in Nat, NEW S \in SUBSET (1..n), S # {}
  PROVE  \E k \in S : \A j \in S : j <= k
<1> DEFINE T == {n - j : j \in S}
           Less == {ss \in Nat \X Nat : ss[1] < ss[2]}
<1>1. \A j \in S : j \in Nat /\ n - j \in Nat /\ n - j \in T
  OBVIOUS
<1>2. \A x \in T : \E j \in S : x = n - j
  OBVIOUS
<1>3. T \subseteq Nat
  BY <1>1, <1>2
<1>4. T # {}
  BY <1>1
<1>5. IsWellFoundedOn(Less, Nat)
  BY NatLessThanWellFounded DEF OpToRel
<1>6. \A x, y \in Nat : x < y => <<x, y>> \in Less
  OBVIOUS
<1> HIDE DEF T, Less
<1>7. PICK m \in T : \A x \in T : <<x, m>> \notin Less
  BY <1>3, <1>4, <1>5, WFMin
<1>8. ASSUME NEW x \in T PROVE m <= x
  <2>1. x \in Nat /\ m \in Nat /\ ~(x < m)
    BY <1>3, <1>6, <1>7
  <2> QED
    BY <2>1
<1>9. PICK k \in S : m = n - k
  BY <1>2
<1>10. \A j \in S : j <= k
  BY <1>1, <1>8, <1>9
<1> QED
  BY <1>10

LEMMA FirstMissing ==
  ASSUME NEW n \in Nat, NEW S, \E i \in 1..n : i \notin S
  PROVE  \E m \in 1..n : m \notin S /\ \A j \in 1..(m - 1) : j \in S
<1> DEFINE T == {i \in 1..n : i \notin S}
           Less == {ss \in Nat \X Nat : ss[1] < ss[2]}
<1>1. T \subseteq Nat /\ T # {}
  OBVIOUS
<1>2. IsWellFoundedOn(Less, Nat)
  BY NatLessThanWellFounded DEF OpToRel
<1>3. \A x, y \in Nat : x < y => <<x, y>> \in Less
  OBVIOUS
<1>4. PICK m \in T : \A x \in T : <<x, m>> \notin Less
  <2> HIDE DEF T, Less
  <2> QED
    BY <1>1, <1>2, WFMin
<1>5. \A x \in T : ~(x < m)
  BY <1>1, <1>3, <1>4
<1> QED
  BY <1>5

LEMMA LastMissing ==
  ASSUME NEW n \in Nat, NEW S, \E i \in 1..n : i \notin S
  PROVE  \E m \in 1..n : m \notin S /\ \A j \in (m + 1)..n : j \in S
<1> DEFINE T == {i \in 1..n : i \notin S}
<1>1. T \in SUBSET (1..n) /\ T # {}
  OBVIOUS
<1>2. PICK m \in T : \A j \in T : j <= m
  <2> HIDE DEF T
  <2> QED
    BY <1>1, DeepestLevel
<1> QED
  BY <1>2

-----------------------------------------------------------------------------
(***************************************************************************)
(* Sums over finite sets.                                                  *)
(***************************************************************************)
(* The sum of f over S, as the specification writes it. *)
Sum(f, S) == MapThenSumSet(LAMBDA x : f[x], S)

Pick(s) == CHOOSE x \in s : TRUE

(* g is the function on the subsets of S that it is computed by. *)
IsSum(g, f, S) ==
  g = [s \in SUBSET S |-> IF s = {} THEN 0 ELSE f[Pick(s)] + g[s \ {Pick(s)}]]

LEMMA SumIs ==
  ASSUME NEW f, NEW S
  PROVE  Sum(f, S) = (CHOOSE g : IsSum(g, f, S))[S]
BY DEF Sum, MapThenSumSet, MapThenFoldSet, IsSum, Pick

(* Of the subsets of a finite set that are not in P, one is smallest. *)
LEMMA SmallestSet ==
  ASSUME NEW U, IsFiniteSet(U), NEW P, \E s \in SUBSET U : s \notin P
  PROVE  \E s \in SUBSET U : /\ s \notin P
                             /\ \A t \in SUBSET U : Cardinality(t) < Cardinality(s) => t \in P
<1> DEFINE N == Cardinality(U)
           G == {k \in 1..(N + 1) : \A s \in SUBSET U : Cardinality(s) < k => s \in P}
<1>1. N \in Nat /\ \A s \in SUBSET U : Cardinality(s) \in Nat /\ Cardinality(s) <= N
  BY FS_CardinalityType, FS_Subset
<1>2. PICK b \in SUBSET U : b \notin P
  OBVIOUS
<1> HIDE DEF N
<1>3. N + 1 \in 1..(N + 1) /\ N + 1 \notin G
  BY <1>1, <1>2
<1>4. PICK m \in 1..(N + 1) : m \notin G /\ \A j \in 1..(m - 1) : j \in G
  <2> HIDE DEF G
  <2>1. N + 1 \in Nat /\ \E i \in 1..(N + 1) : i \notin G
    BY <1>1, <1>3
  <2> QED
    BY <2>1, FirstMissing
<1>5. PICK s \in SUBSET U : Cardinality(s) < m /\ s \notin P
  BY <1>4
<1>6. ASSUME NEW t \in SUBSET U, Cardinality(t) < Cardinality(s) PROVE t \in P
  <2> DEFINE k == Cardinality(s)
  <2>1. k \in 1..(m - 1)
    BY <1>1, <1>5, <1>6
  <2>2. k \in G
    BY <1>4, <2>1
  <2> QED
    BY <1>6, <2>2
<1> QED
  BY <1>5, <1>6

LEMMA PickFacts ==
  ASSUME NEW s, IsFiniteSet(s), s # {}
  PROVE  /\ Pick(s) \in s /\ IsFiniteSet(s \ {Pick(s)})
         /\ Cardinality(s) \in Nat /\ Cardinality(s) >= 1
         /\ Cardinality(s \ {Pick(s)}) = Cardinality(s) - 1
<1>1. Pick(s) \in s
  BY DEF Pick
<1>2. Cardinality(s) \in Nat /\ Cardinality(s \ {Pick(s)}) \in Nat
      /\ IsFiniteSet(s \ {Pick(s)}) /\ Cardinality(s \ {Pick(s)}) = Cardinality(s) - 1
  BY <1>1, FS_RemoveElement, FS_CardinalityType
<1> QED
  BY <1>1, <1>2

LEMMA SumExists ==
  ASSUME NEW U, IsFiniteSet(U), NEW f
  PROVE  \E g : IsSum(g, f, U)
<1> DEFINE N == Cardinality(U)
           Small(k) == {s \in SUBSET U : Cardinality(s) < k}
           Part(g, k) == g = [s \in Small(k) |-> IF s = {} THEN 0 ELSE f[Pick(s)] + g[s \ {Pick(s)}]]
           G == {k \in 1..(N + 1) : \E g : Part(g, k)}
<1>1. /\ N \in Nat
      /\ \A s \in SUBSET U : IsFiniteSet(s) /\ Cardinality(s) \in Nat /\ Cardinality(s) <= N
  BY FS_CardinalityType, FS_Subset
<1>2. ASSUME NEW k \in Nat, NEW g, Part(g, k) PROVE \E h : Part(h, k + 1)
  <2> DEFINE val(s) == IF s = {} THEN 0 ELSE f[Pick(s)] + g[s \ {Pick(s)}]
             h == [s \in Small(k + 1) |-> val(s)]
  <2>1. \A s \in Small(k) : g[s] = val(s)
    BY <1>2
  <2>2. \A s \in Small(k + 1) : s # {} => s \ {Pick(s)} \in Small(k)
    <3> SUFFICES ASSUME NEW s \in Small(k + 1), s # {} PROVE s \ {Pick(s)} \in Small(k)
      OBVIOUS
    <3>1. IsFiniteSet(s) /\ Cardinality(s) < k + 1 /\ s \in SUBSET U
      BY <1>1
    <3>2. Cardinality(s) \in Nat /\ Cardinality(s \ {Pick(s)}) = Cardinality(s) - 1
      BY <3>1, PickFacts
    <3> QED
      BY <3>1, <3>2
  <2>3. \A s \in Small(k) : s \in Small(k + 1)
    BY <1>1
  <2> HIDE DEF Small
  <2>4. \A s \in Small(k) : h[s] = g[s]
    BY <2>1, <2>3
  <2>5. \A s \in Small(k + 1) : val(s) = IF s = {} THEN 0 ELSE f[Pick(s)] + h[s \ {Pick(s)}]
    <3> HIDE DEF h
    <3> QED
      BY <2>2, <2>4
  <2>6. h = [s \in Small(k + 1) |-> IF s = {} THEN 0 ELSE f[Pick(s)] + h[s \ {Pick(s)}]]
    <3> DEFINE w(s) == IF s = {} THEN 0 ELSE f[Pick(s)] + h[s \ {Pick(s)}]
    <3>1. \A s \in Small(k + 1) : val(s) = w(s)
      BY <2>5
    <3> HIDE DEF val, w
    <3>2. [s \in Small(k + 1) |-> val(s)] = [s \in Small(k + 1) |-> w(s)]
      BY <3>1
    <3>3. h = [s \in Small(k + 1) |-> w(s)]
      BY <3>2
    <3> QED
      BY <3>3 DEF w
  <2> HIDE DEF h, val
  <2> QED
    BY <2>6
<1>3. \E g : Part(g, 0)
  <2> DEFINE g == [s \in {} |-> 0]
  <2>1. Small(0) = {}
    BY <1>1
  <2> HIDE DEF Small
  <2>2. Part(g, 0)
    BY <2>1
  <2> HIDE DEF Part, g
  <2> QED
    BY <2>2
<1> HIDE DEF Part, N, Small
<1>4. N + 1 \in G
  <2> SUFFICES ASSUME N + 1 \notin G PROVE FALSE
    OBVIOUS
  <2>1. N + 1 \in Nat /\ \E i \in 1..(N + 1) : i \notin G
    BY <1>1
  <2>2. PICK m \in 1..(N + 1) : m \notin G /\ \A j \in 1..(m - 1) : j \in G
    <3> HIDE DEF G
    <3> QED
      BY <2>1, FirstMissing
  <2>3. m - 1 \in Nat /\ (m - 1) + 1 = m /\ (m = 1 \/ m - 1 \in 1..(m - 1))
    OBVIOUS
  <2>4. \E g : Part(g, m - 1)
    BY <1>3, <2>2, <2>3
  <2>5. \E h : Part(h, (m - 1) + 1)
    BY <1>2, <2>3, <2>4
  <2> QED
    BY <2>2, <2>3, <2>5
<1>5. Small(N + 1) = SUBSET U
  BY <1>1 DEF Small
<1> QED
  BY <1>4, <1>5 DEF Part, IsSum

(* The function of a larger set gives the same sum. *)
LEMMA SumAgrees ==
  ASSUME NEW U, IsFiniteSet(U), NEW f, NEW g, IsSum(g, f, U), NEW S \in SUBSET U
  PROVE  Sum(f, S) = g[S]
<1> DEFINE h == CHOOSE h : IsSum(h, f, S)
<1>1. IsFiniteSet(S)
  BY FS_Subset
<1>2. IsSum(h, f, S)
  BY <1>1, SumExists
<1>3. Sum(f, S) = h[S]
  BY SumIs
<1> HIDE DEF h
<1>4. ASSUME \E s \in SUBSET S : h[s] # g[s] PROVE FALSE
  <2> DEFINE P == {s \in SUBSET S : h[s] = g[s]}
  <2>1. \E s \in SUBSET S : s \notin P
    BY <1>4
  <2>2. PICK s \in SUBSET S : s \notin P /\ \A t \in SUBSET S : Cardinality(t) < Cardinality(s) => t \in P
    <3>1. \A Q : (\E s \in SUBSET S : s \notin Q) =>
                    \E s \in SUBSET S : /\ s \notin Q
                                        /\ \A t \in SUBSET S : Cardinality(t) < Cardinality(s) => t \in Q
      BY <1>1, SmallestSet
    <3> HIDE DEF P
    <3> QED
      BY <2>1, <3>1
  <2>3. /\ h[s] = IF s = {} THEN 0 ELSE f[Pick(s)] + h[s \ {Pick(s)}]
        /\ g[s] = IF s = {} THEN 0 ELSE f[Pick(s)] + g[s \ {Pick(s)}]
    BY <1>2 DEF IsSum
  <2>4. s # {}
    BY <2>2, <2>3
  <2>5. s \ {Pick(s)} \in P
    <3>1. IsFiniteSet(s)
      BY <1>1, FS_Subset
    <3>2. Cardinality(s \ {Pick(s)}) = Cardinality(s) - 1 /\ Cardinality(s) \in Nat
      BY <2>4, <3>1, PickFacts
    <3> QED
      BY <2>2, <3>2
  <2> QED
    BY <2>2, <2>3, <2>5
<1> QED
  BY <1>3, <1>4

LEMMA SumUnfold ==
  ASSUME NEW S, IsFiniteSet(S), NEW f
  PROVE  /\ Sum(f, {}) = 0
         /\ S # {} => Sum(f, S) = f[Pick(S)] + Sum(f, S \ {Pick(S)})
<1>1. PICK g : IsSum(g, f, S)
  BY SumExists
<1>2. \A s \in SUBSET S : g[s] = IF s = {} THEN 0 ELSE f[Pick(s)] + g[s \ {Pick(s)}]
  BY <1>1 DEF IsSum
<1>3. \A s \in SUBSET S : Sum(f, s) = g[s]
  BY <1>1, SumAgrees
<1>4. {} \in SUBSET S /\ S \in SUBSET S /\ S \ {Pick(S)} \in SUBSET S
  OBVIOUS
<1> QED
  BY <1>2, <1>3, <1>4

LEMMA SumNat ==
  ASSUME NEW S, IsFiniteSet(S), NEW f, \A x \in S : f[x] \in Nat
  PROVE  Sum(f, S) \in Nat
<1> DEFINE P == {s \in SUBSET S : Sum(f, s) \in Nat}
<1>1. ASSUME \E s \in SUBSET S : s \notin P PROVE FALSE
  <2>1. PICK s \in SUBSET S : s \notin P /\ \A t \in SUBSET S : Cardinality(t) < Cardinality(s) => t \in P
    <3>1. \A Q : (\E s \in SUBSET S : s \notin Q) =>
                    \E s \in SUBSET S : /\ s \notin Q
                                        /\ \A t \in SUBSET S : Cardinality(t) < Cardinality(s) => t \in Q
      BY SmallestSet
    <3> HIDE DEF P
    <3> QED
      BY <1>1, <3>1
  <2>2. IsFiniteSet(s)
    BY FS_Subset
  <2>3. s # {}
    BY <2>1, <2>2, SumUnfold
  <2>4. Pick(s) \in s /\ Cardinality(s \ {Pick(s)}) < Cardinality(s)
    BY <2>2, <2>3, PickFacts
  <2>5. s \ {Pick(s)} \in P /\ f[Pick(s)] \in Nat
    BY <2>1, <2>4
  <2>6. Sum(f, s) = f[Pick(s)] + Sum(f, s \ {Pick(s)}) /\ Sum(f, s \ {Pick(s)}) \in Nat
    BY <2>2, <2>3, <2>5, SumUnfold
  <2> QED
    BY <2>1, <2>5, <2>6
<1> QED
  BY <1>1

(* Any element may be taken out first. *)
LEMMA SumRemove ==
  ASSUME NEW S, IsFiniteSet(S), NEW f, \A x \in S : f[x] \in Nat, NEW x \in S
  PROVE  Sum(f, S) = f[x] + Sum(f, S \ {x})
<1> DEFINE P == {s \in SUBSET S : \A y \in s : Sum(f, s) = f[y] + Sum(f, s \ {y})}
<1>1. ASSUME \E s \in SUBSET S : s \notin P PROVE FALSE
  <2>1. PICK s \in SUBSET S : s \notin P /\ \A t \in SUBSET S : Cardinality(t) < Cardinality(s) => t \in P
    <3>1. \A Q : (\E s \in SUBSET S : s \notin Q) =>
                    \E s \in SUBSET S : /\ s \notin Q
                                        /\ \A t \in SUBSET S : Cardinality(t) < Cardinality(s) => t \in Q
      BY SmallestSet
    <3> HIDE DEF P
    <3> QED
      BY <1>1, <3>1
  <2>2. PICK y \in s : Sum(f, s) # f[y] + Sum(f, s \ {y})
    BY <2>1
  <2> DEFINE c == Pick(s)
             r == s \ {y, c}
  <2>3. IsFiniteSet(s) /\ s # {}
    BY FS_Subset
  <2>4. Sum(f, s) = f[c] + Sum(f, s \ {c}) /\ c \in s
    BY <2>3, SumUnfold, PickFacts
  <2>5. y # c
    BY <2>2, <2>4
  <2>6. \A z \in s : s \ {z} \in P
    <3> SUFFICES ASSUME NEW z \in s PROVE s \ {z} \in P
      OBVIOUS
    <3>1. Cardinality(s \ {z}) = Cardinality(s) - 1 /\ Cardinality(s) \in Nat
      BY <2>3, FS_RemoveElement, FS_CardinalityType
    <3> QED
      BY <2>1, <3>1
  <2>7. Sum(f, s \ {c}) = f[y] + Sum(f, r)
    <3>1. y \in s \ {c} /\ (s \ {c}) \ {y} = r
      BY <2>5
    <3> QED
      BY <2>4, <2>6, <3>1
  <2>8. Sum(f, s \ {y}) = f[c] + Sum(f, r)
    <3>1. c \in s \ {y} /\ (s \ {y}) \ {c} = r
      BY <2>4, <2>5
    <3> QED
      BY <2>6, <3>1
  <2>9. Sum(f, r) \in Nat /\ f[c] \in Nat /\ f[y] \in Nat
    <3>1. r \in SUBSET S
      OBVIOUS
    <3> HIDE DEF r
    <3>2. IsFiniteSet(r) /\ \A z \in r : f[z] \in Nat
      BY <3>1, FS_Subset
    <3> QED
      BY <2>4, <3>2, SumNat
  <2> HIDE DEF r, c
  <2> QED
    BY <2>2, <2>4, <2>7, <2>8, <2>9
<1> QED
  BY <1>1

LEMMA SumUnion ==
  ASSUME NEW A, IsFiniteSet(A), NEW B, IsFiniteSet(B), A \cap B = {}, NEW f,
         \A x \in A \cup B : f[x] \in Nat
  PROVE  IsFiniteSet(A \cup B) /\ Sum(f, A \cup B) = Sum(f, A) + Sum(f, B)
<1> DEFINE P == {b \in SUBSET B : Sum(f, A \cup b) = Sum(f, A) + Sum(f, b)}
<1>0. \A b \in SUBSET B : IsFiniteSet(b) /\ IsFiniteSet(A \cup b)
  BY FS_Subset, FS_Union
<1>3. \A Q : (\E b \in SUBSET B : b \notin Q) =>
               \E b \in SUBSET B : /\ b \notin Q
                                  /\ \A t \in SUBSET B : Cardinality(t) < Cardinality(b) => t \in Q
  BY SmallestSet
<1>1. ASSUME \E b \in SUBSET B : b \notin P PROVE FALSE
  <2>0. \E b \in SUBSET B : b \notin P
    BY <1>1
  <2>1. PICK b \in SUBSET B : b \notin P /\ \A t \in SUBSET B : Cardinality(t) < Cardinality(b) => t \in P
    <3> HIDE DEF P
    <3> QED
      BY <2>0, <1>3
  <2>2. \A s \in SUBSET (A \cup B) : IsFiniteSet(s) => Sum(f, s) \in Nat
    BY SumNat
  <2>3. b # {}
    <3>1. A \cup {} = A /\ Sum(f, {}) = 0 /\ Sum(f, A) \in Nat
      BY <2>2, SumUnfold
    <3> QED
      BY <2>1, <3>1
  <2>4. PICK x \in b : TRUE
    BY <2>3
  <2> DEFINE r == b \ {x}
  <2>5. r \in P
    <3>1. Cardinality(r) = Cardinality(b) - 1 /\ Cardinality(b) \in Nat
      BY <1>0, FS_RemoveElement, FS_CardinalityType
    <3> QED
      BY <2>1, <3>1
  <2>6. Sum(f, b) = f[x] + Sum(f, r)
    BY <1>0, SumRemove
  <2>7. Sum(f, A \cup b) = f[x] + Sum(f, A \cup r)
    <3>1. (A \cup b) \ {x} = A \cup r /\ x \in A \cup b
      BY <2>4
    <3>2. Sum(f, A \cup b) = f[x] + Sum(f, (A \cup b) \ {x})
      BY <1>0, <3>1, SumRemove
    <3> QED
      BY <3>1, <3>2
  <2>8. Sum(f, A) \in Nat /\ Sum(f, r) \in Nat /\ Sum(f, A \cup r) \in Nat /\ f[x] \in Nat
    BY <1>0, <2>2
  <2> QED
    BY <2>1, <2>5, <2>6, <2>7, <2>8
<1>2. Sum(f, A \cup B) = Sum(f, A) + Sum(f, B)
  BY <1>1
<1> QED
  BY <1>0, <1>2

LEMMA SumOfOne ==
  ASSUME NEW x, NEW f, f[x] \in Nat
  PROVE  IsFiniteSet({x}) /\ Sum(f, {x}) = f[x]
<1>1. IsFiniteSet({x}) /\ {x} \ {x} = {}
  BY FS_Singleton
<1>2. Sum(f, {x}) = f[x] + Sum(f, {x} \ {x})
  BY <1>1, SumRemove
<1> QED
  BY <1>1, <1>2, SumUnfold

LEMMA SumCompare ==
  ASSUME NEW S, IsFiniteSet(S), NEW f, NEW g,
         \A x \in S : f[x] \in Nat /\ g[x] \in Nat /\ f[x] <= g[x]
  PROVE  Sum(f, S) <= Sum(g, S)
<1> DEFINE P == {s \in SUBSET S : Sum(f, s) <= Sum(g, s)}
<1>1. ASSUME \E s \in SUBSET S : s \notin P PROVE FALSE
  <2>1. PICK s \in SUBSET S : s \notin P /\ \A t \in SUBSET S : Cardinality(t) < Cardinality(s) => t \in P
    <3>1. \A Q : (\E s \in SUBSET S : s \notin Q) =>
                    \E s \in SUBSET S : /\ s \notin Q
                                        /\ \A t \in SUBSET S : Cardinality(t) < Cardinality(s) => t \in Q
      BY SmallestSet
    <3> HIDE DEF P
    <3> QED
      BY <1>1, <3>1
  <2>2. IsFiniteSet(s) /\ Sum(f, {}) = 0 /\ Sum(g, {}) = 0
    BY FS_Subset, SumUnfold, FS_EmptySet
  <2>3. s # {}
    BY <2>1, <2>2
  <2> DEFINE x == Pick(s)
             r == s \ {x}
  <2>4. x \in s /\ IsFiniteSet(r) /\ Cardinality(r) < Cardinality(s)
    BY <2>2, <2>3, PickFacts
  <2>5. r \in P
    BY <2>1, <2>4
  <2>6. Sum(f, s) = f[x] + Sum(f, r) /\ Sum(g, s) = g[x] + Sum(g, r)
    BY <2>2, <2>3, SumUnfold
  <2>7. Sum(f, r) \in Nat /\ Sum(g, r) \in Nat
    <3>1. \A z \in r : f[z] \in Nat /\ g[z] \in Nat
      OBVIOUS
    <3> HIDE DEF r
    <3> QED
      BY <2>4, <3>1, SumNat
  <2>8. f[x] \in Nat /\ g[x] \in Nat /\ f[x] <= g[x]
    BY <2>4
  <2> HIDE DEF r, x
  <2> QED
    BY <2>1, <2>5, <2>6, <2>7, <2>8
<1> QED
  BY <1>1

LEMMA SumEqual ==
  ASSUME NEW S, IsFiniteSet(S), NEW f, NEW g,
         \A x \in S : f[x] \in Nat /\ g[x] = f[x]
  PROVE  Sum(f, S) = Sum(g, S)
<1>1. Sum(f, S) <= Sum(g, S) /\ Sum(g, S) <= Sum(f, S)
  BY SumCompare
<1>2. Sum(f, S) \in Nat /\ Sum(g, S) \in Nat
  BY SumNat
<1> QED
  BY <1>1, <1>2

LEMMA SumSubset ==
  ASSUME NEW B, IsFiniteSet(B), NEW A \in SUBSET B, NEW f, \A x \in B : f[x] \in Nat
  PROVE  IsFiniteSet(A) /\ Sum(f, A) <= Sum(f, B)
<1> DEFINE R == B \ A
<1>1. IsFiniteSet(A) /\ IsFiniteSet(R)
  BY FS_Subset
<1>2. A \cup R = B /\ A \cap R = {}
  OBVIOUS
<1>3. Sum(f, B) = Sum(f, A) + Sum(f, R)
  BY <1>1, <1>2, SumUnion
<1>4. Sum(f, A) \in Nat /\ Sum(f, R) \in Nat
  BY <1>1, SumNat
<1> QED
  BY <1>1, <1>3, <1>4

(* A sum of nothing but zeros. *)
LEMMA SumZero ==
  ASSUME NEW S, IsFiniteSet(S), NEW f, \A x \in S : f[x] = 0
  PROVE  Sum(f, S) = 0
<1> DEFINE P == {s \in SUBSET S : Sum(f, s) = 0}
<1>1. ASSUME \E s \in SUBSET S : s \notin P PROVE FALSE
  <2>1. PICK s \in SUBSET S : s \notin P /\ \A t \in SUBSET S : Cardinality(t) < Cardinality(s) => t \in P
    <3>1. \A Q : (\E s \in SUBSET S : s \notin Q) =>
                    \E s \in SUBSET S : /\ s \notin Q
                                        /\ \A t \in SUBSET S : Cardinality(t) < Cardinality(s) => t \in Q
      BY SmallestSet
    <3> HIDE DEF P
    <3> QED
      BY <1>1, <3>1
  <2>2. s # {}
    BY <2>1, SumUnfold
  <2>3. IsFiniteSet(s)
    BY FS_Subset
  <2>4. /\ Pick(s) \in s /\ s \ {Pick(s)} \in SUBSET S
        /\ Cardinality(s \ {Pick(s)}) < Cardinality(s)
    BY <2>2, <2>3, PickFacts
  <2>5. Sum(f, s) = f[Pick(s)] + Sum(f, s \ {Pick(s)})
    BY <2>2, <2>3, SumUnfold
  <2>6. Sum(f, s \ {Pick(s)}) = 0 /\ f[Pick(s)] = 0
    BY <2>1, <2>4
  <2> QED
    BY <2>1, <2>5, <2>6
<1> QED
  BY <1>1

(* Zeros may be left out of a sum. *)
LEMMA SumNonZero ==
  ASSUME NEW S, IsFiniteSet(S), NEW f, \A x \in S : f[x] \in Nat,
         NEW A \in SUBSET S, \A x \in S \ A : f[x] = 0
  PROVE  IsFiniteSet(A) /\ Sum(f, S) = Sum(f, A)
<1> DEFINE Z == S \ A
<1>1. IsFiniteSet(A) /\ IsFiniteSet(Z)
  BY FS_Subset
<1>2. A \cup Z = S /\ A \cap Z = {}
  OBVIOUS
<1>3. Sum(f, S) = Sum(f, A) + Sum(f, Z)
  <2> HIDE DEF Z
  <2>1. \A x \in A \cup Z : f[x] \in Nat
    BY <1>2
  <2>2. Sum(f, A \cup Z) = Sum(f, A) + Sum(f, Z)
    BY <1>1, <1>2, <2>1, SumUnion
  <2> QED
    BY <2>2, <1>2
<1>4. Sum(f, Z) = 0
  BY <1>1, SumZero
<1>5. Sum(f, A) \in Nat
  BY <1>1, SumNat
<1> QED
  BY <1>1, <1>3, <1>4, <1>5

(* A sum over an image under which no two elements become one. *)
LEMMA SumImage ==
  ASSUME NEW A, IsFiniteSet(A), NEW h, \A x, y \in A : h[x] = h[y] => x = y,
         NEW f, NEW g, \A x \in A : f[x] \in Nat /\ g[h[x]] = f[x]
  PROVE  IsFiniteSet({h[x] : x \in A}) /\ Sum(f, A) = Sum(g, {h[x] : x \in A})
<1> DEFINE Im(s) == {h[x] : x \in s}
           P == {s \in SUBSET A : IsFiniteSet(Im(s)) /\ Sum(f, s) = Sum(g, Im(s))}
<1>1. ASSUME \E s \in SUBSET A : s \notin P PROVE FALSE
  <2>1. PICK s \in SUBSET A : s \notin P /\ \A t \in SUBSET A : Cardinality(t) < Cardinality(s) => t \in P
    <3>1. \A Q : (\E s \in SUBSET A : s \notin Q) =>
                    \E s \in SUBSET A : /\ s \notin Q
                                        /\ \A t \in SUBSET A : Cardinality(t) < Cardinality(s) => t \in Q
      BY SmallestSet
    <3> HIDE DEF P
    <3> QED
      BY <1>1, <3>1
  <2>2. s # {}
    <3>1. Im({}) = {}
      OBVIOUS
    <3>2. Sum(f, {}) = 0 /\ Sum(g, {}) = 0
      BY SumUnfold
    <3> QED
      BY <2>1, <3>1, <3>2, FS_EmptySet
  <2>3. IsFiniteSet(s)
    BY FS_Subset
  <2> DEFINE x == Pick(s)
             r == s \ {x}
  <2>4. x \in s /\ r \in SUBSET A /\ Cardinality(r) < Cardinality(s)
    <3>1. /\ Pick(s) \in s /\ Cardinality(s) \in Nat
          /\ Cardinality(s \ {Pick(s)}) = Cardinality(s) - 1
      BY <2>2, <2>3, PickFacts
    <3> QED
      BY <3>1
  <2> HIDE DEF x
  <2>5. Sum(f, s) = f[x] + Sum(f, r)
    BY <2>3, <2>4, SumRemove
  <2>6. h[x] \in Im(s) /\ Im(s) \ {h[x]} = Im(r) /\ Im(s) = Im(r) \cup {h[x]}
    BY <2>4
  <2>7. \A z \in Im(s) : g[z] \in Nat
    OBVIOUS
  <2>8. IsFiniteSet(Im(r)) /\ Sum(f, r) = Sum(g, Im(r))
    BY <2>1, <2>4
  <2>9. IsFiniteSet(Im(s))
    <3> HIDE DEF Im, r
    <3> QED
      BY <2>6, <2>8, FS_AddElement
  <2>10. Sum(g, Im(s)) = g[h[x]] + Sum(g, Im(r))
    <3>1. \A T : IsFiniteSet(T) /\ (\A z \in T : g[z] \in Nat) =>
                   \A z \in T : Sum(g, T) = g[z] + Sum(g, T \ {z})
      BY SumRemove
    <3> HIDE DEF Im
    <3>2. Sum(g, Im(s)) = g[h[x]] + Sum(g, Im(s) \ {h[x]})
      BY <3>1, <2>6, <2>7, <2>9
    <3> QED
      BY <3>2, <2>6
  <2> QED
    BY <2>1, <2>4, <2>5, <2>8, <2>9, <2>10
<1>2. A \in P
  BY <1>1
<1> QED
  BY <1>2

(* How many there are, as a sum. *)
LEMMA SumOfOnes ==
  ASSUME NEW S, IsFiniteSet(S), NEW f, \A x \in S : f[x] = 1
  PROVE  Sum(f, S) = Cardinality(S)
<1> DEFINE P == {s \in SUBSET S : Sum(f, s) = Cardinality(s)}
<1>1. ASSUME \E s \in SUBSET S : s \notin P PROVE FALSE
  <2>1. PICK s \in SUBSET S : s \notin P /\ \A t \in SUBSET S : Cardinality(t) < Cardinality(s) => t \in P
    <3>1. \A Q : (\E s \in SUBSET S : s \notin Q) =>
                    \E s \in SUBSET S : /\ s \notin Q
                                        /\ \A t \in SUBSET S : Cardinality(t) < Cardinality(s) => t \in Q
      BY SmallestSet
    <3> HIDE DEF P
    <3> QED
      BY <1>1, <3>1
  <2>2. s # {}
    <3>1. Sum(f, {}) = 0 /\ Cardinality({}) = 0
      BY SumUnfold, FS_EmptySet
    <3> QED
      BY <2>1, <3>1
  <2>3. IsFiniteSet(s)
    BY FS_Subset
  <2>4. /\ Pick(s) \in s /\ s \ {Pick(s)} \in SUBSET S
        /\ Cardinality(s \ {Pick(s)}) < Cardinality(s)
        /\ Cardinality(s) \in Nat /\ Cardinality(s \ {Pick(s)}) = Cardinality(s) - 1
    <3>1. /\ Pick(s) \in s /\ Cardinality(s) \in Nat
          /\ Cardinality(s \ {Pick(s)}) = Cardinality(s) - 1
      BY <2>2, <2>3, PickFacts
    <3>2. s \ {Pick(s)} \in SUBSET S
      OBVIOUS
    <3> QED
      BY <3>1, <3>2
  <2>5. Sum(f, s) = f[Pick(s)] + Sum(f, s \ {Pick(s)})
    BY <2>2, <2>3, SumUnfold
  <2>6. Sum(f, s \ {Pick(s)}) = Cardinality(s) - 1 /\ f[Pick(s)] = 1
    BY <2>1, <2>4
  <2> QED
    BY <2>1, <2>4, <2>5, <2>6
<1> QED
  BY <1>1

(* The sum of the sums over sets of which no two have an element in common.*)
AllOf(A, K) == UNION {A[k] : k \in K}
Apart(A, K) ==
  /\ IsFiniteSet(K) /\ \A k \in K : IsFiniteSet(A[k])
  /\ \A j, k \in K : j # k => A[j] \cap A[k] = {}
SumsUp(g, f, A, K) == \A k \in K : g[k] = Sum(f, A[k]) /\ \A x \in A[k] : f[x] \in Nat

LEMMA SumOfSums ==
  ASSUME NEW K, NEW A, Apart(A, K), NEW f, NEW g, SumsUp(g, f, A, K)
  PROVE  IsFiniteSet(AllOf(A, K)) /\ Sum(g, K) = Sum(f, AllOf(A, K))
<1> DEFINE All(s) == UNION {A[k] : k \in s}
           P == {s \in SUBSET K : IsFiniteSet(All(s)) /\ Sum(g, s) = Sum(f, All(s))}
<1>2. IsFiniteSet(K) /\ \A k \in K : IsFiniteSet(A[k])
  BY DEF Apart
<1>3. \A j, k \in K : j # k => A[j] \cap A[k] = {}
  BY DEF Apart
<1>4. \A k \in K : g[k] = Sum(f, A[k]) /\ \A x \in A[k] : f[x] \in Nat
  BY DEF SumsUp
<1>1. ASSUME \E s \in SUBSET K : s \notin P PROVE FALSE
  <2>1. PICK s \in SUBSET K : s \notin P /\ \A t \in SUBSET K : Cardinality(t) < Cardinality(s) => t \in P
    <3>1. \A Q : (\E s \in SUBSET K : s \notin Q) =>
                    \E s \in SUBSET K : /\ s \notin Q
                                        /\ \A t \in SUBSET K : Cardinality(t) < Cardinality(s) => t \in Q
      BY <1>2, SmallestSet
    <3> HIDE DEF P
    <3> QED
      BY <1>1, <3>1
  <2>2. s # {}
    <3>1. All({}) = {}
      OBVIOUS
    <3>2. Sum(f, {}) = 0 /\ Sum(g, {}) = 0
      BY <1>2, SumUnfold
    <3> QED
      BY <2>1, <3>1, <3>2, FS_EmptySet
  <2>3. IsFiniteSet(s)
    BY <1>2, FS_Subset
  <2> DEFINE x == Pick(s)
             r == s \ {x}
  <2>4. x \in s /\ r \in SUBSET K /\ Cardinality(r) < Cardinality(s)
    <3>1. /\ Pick(s) \in s /\ Cardinality(s) \in Nat
          /\ Cardinality(s \ {Pick(s)}) = Cardinality(s) - 1
      BY <2>2, <2>3, PickFacts
    <3> QED
      BY <3>1
  <2>5. Sum(g, s) = g[x] + Sum(g, r)
    BY <2>2, <2>3, SumUnfold
  <2> HIDE DEF x
  <2>6. All(s) = A[x] \cup All(r) /\ A[x] \cap All(r) = {}
    <3>1. \A k \in r : k \in K /\ x \in K /\ A[x] \cap A[k] = {}
      BY <1>3, <2>4
    <3>2. s = r \cup {x}
      BY <2>4
    <3>3. A[x] \cap All(r) = {}
      BY <3>1
    <3>4. All(s) = A[x] \cup All(r)
      BY <3>2
    <3> QED
      BY <3>3, <3>4
  <2>7. IsFiniteSet(All(r)) /\ Sum(g, r) = Sum(f, All(r))
    BY <2>1, <2>4
  <2>8. IsFiniteSet(A[x]) /\ g[x] = Sum(f, A[x]) /\ \A z \in A[x] \cup All(r) : f[z] \in Nat
    BY <1>2, <1>4, <2>4
  <2>9. IsFiniteSet(A[x] \cup All(r)) /\ Sum(f, A[x] \cup All(r)) = Sum(f, A[x]) + Sum(f, All(r))
    <3>1. \A X, Y : IsFiniteSet(X) /\ IsFiniteSet(Y) /\ X \cap Y = {} /\ (\A z \in X \cup Y : f[z] \in Nat) =>
                      IsFiniteSet(X \cup Y) /\ Sum(f, X \cup Y) = Sum(f, X) + Sum(f, Y)
      BY SumUnion
    <3> HIDE DEF All, r
    <3> QED
      BY <2>6, <2>7, <2>8, <3>1
  <2>10. IsFiniteSet(All(s)) /\ Sum(g, s) = Sum(f, All(s))
    <3> HIDE DEF All, r
    <3> QED
      BY <2>5, <2>6, <2>7, <2>8, <2>9
  <2> QED
    BY <2>1, <2>10
<1>5. K \in P
  BY <1>1
<1> QED
  BY <1>5 DEF AllOf

=============================================================================
