------------------------ MODULE SnapshotDiffProofs ------------------------
(***************************************************************************)
(* Proofs about SnapshotDiff, for any trees, names, sizes, formats and     *)
(* directories compared (DiffAssumption): the report of a comparison is    *)
(* that of the two trees themselves, and a snapshot gives back the tree it *)
(* was made of, with the names that are not UTF-8 converted.               *)
(*                                                                         *)
(* diff reads two streams of encoded entries, side by side, by their keys. *)
(* So most of what is proved here is about the operators that the model is *)
(* built from: what sorting lists and a fold computes; that the order of   *)
(* the keys is the order of the paths, name by name; that capture writes   *)
(* every item of a tree once and in this order; that a stream decodes to   *)
(* the entries it encodes; and that a finished tree has, in every folder,  *)
(* the totals of what is below it.                                         *)
(*                                                                         *)
(* On this rests MergeInv: while the two cursors move there is one set W   *)
(* of items, those of both scans that are read, such that each cursor is   *)
(* at the first item of its own scan outside W, and what has been gathered *)
(* is what the two trees say of the items in W.  As both streams are in    *)
(* one order, an item that one cursor is at, and the other is past or not  *)
(* yet at, is in one tree only.  The way back, from entries to a tree,     *)
(* goes by the folders open when an entry is placed: they are the prefixes *)
(* of the path of the last folder.                                         *)
(***************************************************************************)
EXTENDS SnapshotDiff, FiniteSums, SequenceTheorems, FunctionTheorems

-----------------------------------------------------------------------------
(***************************************************************************)
(* Folds over sequences, and recursion over numbers.                       *)
(***************************************************************************)

(* A fold over a finite set has a value at each of its subsets, whichever  *)
(* element `ch` says is next.                                              *)
IsFold(it, U, V, base, ch, step) ==
  /\ it \in [SUBSET U -> V]
  /\ \A s \in SUBSET U : it[s] = IF s = {} THEN base ELSE step[ch[s]][it[s \ {ch[s]}]]

LEMMA FoldExists ==
  ASSUME NEW U, IsFiniteSet(U), NEW ch, \A s \in SUBSET U : s # {} => ch[s] \in s,
         NEW V, NEW base \in V, NEW step \in [U -> [V -> V]]
  PROVE  \E it : IsFold(it, U, V, base, ch, step)
<1> DEFINE N == Cardinality(U)
           Upto(k) == {s \in SUBSET U : Cardinality(s) <= k}
           Ok(k, it) == \A s \in Upto(k) : it[s] = IF s = {} THEN base ELSE step[ch[s]][it[s \ {ch[s]}]]
           P == {j \in Nat : \E it \in [Upto(j - 1) -> V] : Ok(j - 1, it)}
<1>1. /\ N \in Nat
      /\ \A s \in SUBSET U : /\ Cardinality(s) \in Nat /\ Cardinality(s) <= N /\ IsFiniteSet(s)
                             /\ Cardinality(s) = 0 <=> s = {}
                             /\ s # {} => Cardinality(s \ {ch[s]}) = Cardinality(s) - 1
  <2>1. \A s \in SUBSET U : IsFiniteSet(s)
    BY FS_Subset
  <2>2. \A s \in SUBSET U : Cardinality(s) \in Nat /\ (Cardinality(s) = 0 <=> s = {})
    BY <2>1, FS_CardinalityType, FS_EmptySet
  <2>3. \A s \in SUBSET U : s # {} => Cardinality(s \ {ch[s]}) = Cardinality(s) - 1
    BY <2>1, FS_RemoveElement
  <2>4. N \in Nat /\ \A s \in SUBSET U : Cardinality(s) <= N
    BY FS_CardinalityType, FS_Subset
  <2> QED
    BY <2>1, <2>2, <2>3, <2>4
<1> HIDE DEF N
<1>2. 1 \in P
  <2> DEFINE it == [s \in Upto(0) |-> base]
  <2>1. it \in [Upto(0) -> V]
    OBVIOUS
  <2>2. ASSUME NEW s \in Upto(0) PROVE s = {}
    <3>1. s \in SUBSET U /\ Cardinality(s) <= 0
      OBVIOUS
    <3>2. Cardinality(s) \in Nat /\ (Cardinality(s) = 0 <=> s = {})
      BY <1>1, <3>1
    <3> QED
      BY <3>1, <3>2
  <2>3. Ok(0, it)
    BY <2>2
  <2> HIDE DEF it, Ok, Upto
  <2> QED
    BY <2>1, <2>3
<1>3. ASSUME NEW j \in Nat, j # 0, j \in P PROVE j + 1 \in P
  <2>1. PICK it \in [Upto(j - 1) -> V] : Ok(j - 1, it)
    BY <1>3
  <2> DEFINE nxt == [s \in Upto(j) |-> IF Cardinality(s) <= j - 1 THEN it[s] ELSE step[ch[s]][it[s \ {ch[s]}]]]
  <2>2. \A s \in Upto(j) : /\ s \subseteq U
                           /\ Cardinality(s) <= j - 1 => s \in Upto(j - 1)
                           /\ s # {} => ch[s] \in U /\ s \ {ch[s]} \in Upto(j - 1) /\ s \ {ch[s]} \in Upto(j)
                           /\ s = {} => Cardinality(s) <= j - 1
                           /\ Cardinality(s) \in Nat
    <3>1. ASSUME NEW s \in Upto(j), s # {}
          PROVE  ch[s] \in U /\ s \ {ch[s]} \in SUBSET U /\ Cardinality(s \ {ch[s]}) = Cardinality(s) - 1
      BY <1>1, <3>1
    <3>2. \A s \in Upto(j) : s \in SUBSET U /\ Cardinality(s) \in Nat /\ Cardinality(s) <= j
      BY <1>1
    <3>3. ASSUME NEW s \in Upto(j)
          PROVE /\ Cardinality(s) <= j - 1 => s \in Upto(j - 1)
                /\ s # {} => s \ {ch[s]} \in Upto(j - 1) /\ s \ {ch[s]} \in Upto(j)
      BY <1>3, <3>1, <3>2
    <3>4. \A s \in Upto(j) : s = {} => Cardinality(s) <= j - 1
      BY <1>3, FS_EmptySet
    <3> QED
      BY <3>1, <3>2, <3>3, <3>4
  <2>3. ASSUME NEW s \in Upto(j) PROVE nxt[s] \in V
    <3>1. CASE Cardinality(s) <= j - 1
      BY <2>1, <2>2, <3>1
    <3>2. CASE ~(Cardinality(s) <= j - 1)
      BY <2>1, <2>2, <3>2
    <3> QED
      BY <3>1, <3>2
  <2>4. nxt \in [Upto(j) -> V]
    <3> HIDE DEF Upto
    <3>1. \A s \in Upto(j) : nxt[s] \in V
      BY <2>3
    <3> QED
      BY <3>1
  <2>5. ASSUME NEW s \in Upto(j)
        PROVE  nxt[s] = IF s = {} THEN base ELSE step[ch[s]][nxt[s \ {ch[s]}]]
    <3>1. s # {} => nxt[s \ {ch[s]}] = it[s \ {ch[s]}]
      <4>1. ASSUME NEW r \in Upto(j - 1) PROVE r \in Upto(j) /\ Cardinality(r) <= j - 1
        <5>1. r \in SUBSET U /\ Cardinality(r) <= j - 1
          OBVIOUS
        <5>2. Cardinality(r) \in Nat
          BY <1>1, <5>1
        <5> QED
          BY <1>3, <5>1, <5>2
      <4> HIDE DEF Upto
      <4> QED
        BY <2>2, <4>1
    <3>2. CASE Cardinality(s) <= j - 1
      <4>1. s \in Upto(j - 1) /\ nxt[s] = it[s]
        BY <2>2, <3>2
      <4> HIDE DEF nxt, Upto
      <4> QED
        BY <2>1, <3>1, <4>1
    <3>3. CASE ~(Cardinality(s) <= j - 1)
      <4>1. s # {} /\ nxt[s] = step[ch[s]][it[s \ {ch[s]}]]
        BY <2>2, <3>3
      <4> HIDE DEF nxt, Upto
      <4> QED
        BY <3>1, <4>1
    <3> QED
      BY <3>2, <3>3
  <2>6. Ok(j, nxt)
    <3> HIDE DEF nxt
    <3> QED
      BY <2>5
  <2>7. (j + 1) - 1 = j
    BY <1>3
  <2> HIDE DEF nxt, Ok, Upto
  <2> QED
    BY <2>4, <2>6, <2>7
<1>4. N + 1 \in P
  <2> HIDE DEF P
  <2>1. ASSUME \E j \in 1..(N + 1) : j \notin P PROVE FALSE
    <3>1. PICK m \in 1..(N + 1) : m \notin P /\ \A j \in 1..(m - 1) : j \in P
      <4>1. N + 1 \in Nat
        BY <1>1
      <4> QED
        BY <2>1, <4>1, FirstMissing
    <3>2. m - 1 \in Nat /\ m - 1 # 0 /\ m - 1 \in P /\ (m - 1) + 1 = m
      BY <1>1, <1>2, <3>1
    <3> QED
      BY <1>3, <3>1, <3>2
  <2> QED
    BY <1>1, <2>1
<1>5. PICK it \in [Upto(N) -> V] : Ok(N, it)
  <2>1. (N + 1) - 1 = N
    BY <1>1
  <2> HIDE DEF Ok, Upto
  <2> QED
    BY <1>4, <2>1
<1>6. Upto(N) = SUBSET U
  BY <1>1
<1> QED
  BY <1>5, <1>6 DEF IsFold

(* The sets a fold from the left goes through.                             *)
LEMMA MaxOfFirst ==
  ASSUME NEW i \in Nat \ {0}
  PROVE  1..i # {} /\ Max(1..i) = i /\ (1..i) \ {Max(1..i)} = 1..(i - 1)
<1>1. \A x \in 1..i : (\A y \in 1..i : x >= y) => x = i
  OBVIOUS
<1>2. i \in 1..i /\ \A y \in 1..i : i >= y
  OBVIOUS
<1>3. Max(1..i) = i
  BY <1>1, <1>2 DEF Max
<1> QED
  BY <1>3

LEMMA MinOfLast ==
  ASSUME NEW m \in Nat, NEW i \in 1..m
  PROVE  i..m # {} /\ Min(i..m) = i /\ (i..m) \ {Min(i..m)} = (i + 1)..m
<1>1. \A x \in i..m : (\A y \in i..m : x <= y) => x = i
  OBVIOUS
<1>2. i \in i..m /\ \A y \in i..m : i <= y
  OBVIOUS
<1>3. Min(i..m) = i
  BY <1>1, <1>2 DEF Min
<1> QED
  BY <1>3

-----------------------------------------------------------------------------
(***************************************************************************)
(* Sequences.                                                              *)
(***************************************************************************)

LEMMA SameInterval ==
  ASSUME NEW m \in Nat, NEW k \in Nat, 1..m = 1..k
  PROVE  m = k
<1>1. ASSUME m < k PROVE FALSE
  <2>1. k \in 1..k /\ k \notin 1..m
    BY <1>1
  <2> QED
    BY <2>1
<1>2. ASSUME k < m PROVE FALSE
  <2>1. m \in 1..m /\ m \notin 1..k
    BY <1>2
  <2> QED
    BY <2>1
<1> QED
  BY <1>1, <1>2

LEMMA FunctionIsSeq ==
  ASSUME NEW S, NEW m \in Nat, NEW f \in [1..m -> S]
  PROVE  f \in Seq(S) /\ Len(f) = m
<1>1. f \in Seq(S)
  BY SeqDef
<1>2. Len(f) \in Nat /\ DOMAIN f = 1..Len(f) /\ DOMAIN f = 1..m
  BY <1>1, LenProperties
<1> QED
  BY <1>1, <1>2, SameInterval

LEMMA SeqInduction ==
  ASSUME NEW S, NEW Q, <<>> \in Q, \A s \in Seq(S) : \A e \in S : s \in Q => Append(s, e) \in Q
  PROVE  Seq(S) \subseteq Q
<1> DEFINE T == {j \in Nat : \A s \in Seq(S) : Len(s) = j - 1 => s \in Q}
<1>1. ASSUME NEW m \in Nat \ {0}, \A j \in 1..(m - 1) : j \in T PROVE m \in T
  <2> SUFFICES ASSUME NEW s \in Seq(S), Len(s) = m - 1 PROVE s \in Q
    OBVIOUS
  <2>1. CASE s = <<>>
    BY <2>1
  <2>2. CASE s # <<>>
    <3>1. PICK r \in Seq(S), e \in S : s = Append(r, e)
      BY <2>2, SequenceEmptyOrAppend
    <3>2. Len(s) = Len(r) + 1 /\ Len(r) \in Nat
      BY <3>1, AppendProperties, LenProperties
    <3>3. m - 1 \in T /\ Len(r) = (m - 1) - 1
      BY <1>1, <3>2
    <3> QED
      BY <3>1, <3>3
  <2> QED
    BY <2>1, <2>2
<1>2. ASSUME NEW s \in Seq(S), s \notin Q PROVE FALSE
  <2>1. Len(s) \in Nat /\ Len(s) + 1 \in Nat /\ Len(s) + 1 \in 1..(Len(s) + 1) /\ Len(s) + 1 \notin T
    BY <1>2, LenProperties
  <2>2. PICK m \in 1..(Len(s) + 1) : m \notin T /\ \A j \in 1..(m - 1) : j \in T
    <3> HIDE DEF T
    <3> QED
      BY <2>1, FirstMissing
  <2> HIDE DEF T
  <2> QED
    BY <1>1, <2>1, <2>2
<1> QED
  BY <1>2

-----------------------------------------------------------------------------
(***************************************************************************)
(* Orders, and sets listed in an order.                                    *)
(***************************************************************************)

(* The pairs R are a strict total order of B. *)
IsOrder(R, B) ==
  /\ \A x \in B : <<x, x>> \notin R
  /\ \A x, y, z \in B : <<x, y>> \in R /\ <<y, z>> \in R => <<x, z>> \in R
  /\ \A x, y \in B : x = y \/ <<x, y>> \in R \/ <<y, x>> \in R

(* s has the elements of A, in the order R. *)
IsListing(s, R, A) ==
  /\ s \in Seq(A) /\ \A x \in A : \E i \in 1..Len(s) : s[i] = x
  /\ \A i, j \in 1..Len(s) : i < j => <<s[i], s[j]>> \in R

(* How many come before x. *)
Rank(S, R, x) == Cardinality({y \in S : <<y, x>> \in R})

LEMMA RankGrows ==
  ASSUME NEW S, IsFiniteSet(S), NEW R, IsOrder(R, S)
  PROVE  /\ \A x \in S : Rank(S, R, x) \in 0..(Cardinality(S) - 1)
         /\ \A x, y \in S : <<x, y>> \in R => Rank(S, R, x) < Rank(S, R, y)
<1> DEFINE B(x) == {y \in S : <<y, x>> \in R}
<1>1. \A x \in S : IsFiniteSet(B(x)) /\ B(x) \subseteq S /\ x \notin B(x)
  BY FS_Subset DEF IsOrder
<1>2. ASSUME NEW x \in S PROVE Cardinality(B(x)) \in 0..(Cardinality(S) - 1)
  <2>1. B(x) \subseteq S /\ B(x) # S
    BY <1>1
  <2>2. Cardinality(B(x)) <= Cardinality(S) /\ Cardinality(B(x)) # Cardinality(S)
    <3> HIDE DEF B
    <3> QED
      BY <2>1, FS_Subset
  <2>3. Cardinality(B(x)) \in Nat /\ Cardinality(S) \in Nat
    BY <1>1, FS_CardinalityType
  <2> QED
    BY <2>2, <2>3
<1>3. ASSUME NEW x \in S, NEW y \in S, <<x, y>> \in R PROVE Cardinality(B(x)) < Cardinality(B(y))
  <2>1. B(x) \subseteq B(y) /\ x \in B(y) /\ x \notin B(x)
    BY <1>3 DEF IsOrder
  <2>2. Cardinality(B(x)) <= Cardinality(B(y)) /\ Cardinality(B(x)) # Cardinality(B(y))
    <3> HIDE DEF B
    <3> QED
      BY <1>1, <2>1, FS_Subset
  <2>3. Cardinality(B(x)) \in Nat /\ Cardinality(B(y)) \in Nat
    BY <1>1, FS_CardinalityType
  <2> QED
    BY <2>2, <2>3
<1> QED
  BY <1>2, <1>3 DEF Rank

(* Every number of predecessors occurs. *)
LEMMA RankReaches ==
  ASSUME NEW S, IsFiniteSet(S), NEW R, IsOrder(R, S), NEW k \in 0..(Cardinality(S) - 1)
  PROVE  \E x \in S : Rank(S, R, x) = k
<1> DEFINE N == 0..(Cardinality(S) - 1)
           Im == {Rank(S, R, x) : x \in S}
           f == [x \in S |-> Rank(S, R, x)]
<1>1. Cardinality(S) \in Nat
  BY FS_CardinalityType
<1>2. Im \subseteq N
  BY RankGrows
<1>3. \A x, y \in S : f[x] = f[y] => x = y
  <2> SUFFICES ASSUME NEW x \in S, NEW y \in S, f[x] = f[y] PROVE x = y
    OBVIOUS
  <2>1. Rank(S, R, x) = Rank(S, R, y) /\ Rank(S, R, x) \in N
    BY RankGrows
  <2>2. x = y \/ <<x, y>> \in R \/ <<y, x>> \in R
    BY DEF IsOrder
  <2>3. (<<x, y>> \in R => Rank(S, R, x) < Rank(S, R, y)) /\ (<<y, x>> \in R => Rank(S, R, y) < Rank(S, R, x))
    BY RankGrows
  <2> QED
    BY <2>1, <2>2, <2>3
<1>4. Im = {f[x] : x \in S}
  OBVIOUS
<1>5. Cardinality(Im) = Cardinality(S)
  <2>1. f \in Bijection(S, Im)
    <3> HIDE DEF Im
    <3>1. f \in [S -> Im]
      BY <1>4
    <3>2. \A t \in Im : \E s \in S : f[s] = t
      BY <1>4
    <3> HIDE DEF f
    <3> QED
      BY <1>3, <3>1, <3>2, Fun_IsBij
  <2>2. ExistsBijection(S, Im)
    <3> HIDE DEF f, Im
    <3> QED
      BY <2>1 DEF ExistsBijection
  <2> HIDE DEF f, Im
  <2> QED
    BY <2>2, FS_Bijection
<1>6. IsFiniteSet(N) /\ Cardinality(N) = Cardinality(S)
  <2>1. 0 \in Int /\ Cardinality(S) - 1 \in Int
    BY <1>1
  <2>2. /\ IsFiniteSet(0..(Cardinality(S) - 1))
        /\ Cardinality(0..(Cardinality(S) - 1)) =
             IF 0 > Cardinality(S) - 1 THEN 0 ELSE Cardinality(S) - 1 - 0 + 1
    BY <2>1, FS_Interval
  <2> QED
    BY <1>1, <2>2
<1>7. Im = N
  <2> HIDE DEF Im, N
  <2> QED
    BY <1>2, <1>5, <1>6, FS_Subset
<1> QED
  BY <1>7

LEMMA InOrderLists ==
  ASSUME NEW S, IsFiniteSet(S), NEW R, IsOrder(R, S), NEW s,
         s = [i \in 1..Cardinality(S) |-> s[i]],
         \A i \in 1..Cardinality(S) : s[i] \in S /\ Rank(S, R, s[i]) = i - 1
  PROVE  IsListing(s, R, S) /\ Len(s) = Cardinality(S)
<1> DEFINE m == Cardinality(S)
<1>1. m \in Nat
  BY FS_CardinalityType
<1>2. \A i \in 1..m : s[i] \in S /\ Rank(S, R, s[i]) = i - 1
  OBVIOUS
<1> HIDE DEF m
<1>3. s \in Seq(S) /\ Len(s) = m
  <2>1. s = [i \in 1..m |-> s[i]]
    BY DEF m
  <2>2. s \in [1..m -> S]
    BY <1>2, <2>1
  <2>3. \A f \in [1..m -> S] : f \in Seq(S) /\ Len(f) = m
    BY <1>1, FunctionIsSeq
  <2> QED
    BY <2>2, <2>3
<1>4. ASSUME NEW x \in S PROVE \E i \in 1..m : s[i] = x
  <2>1. Rank(S, R, x) \in 0..(m - 1)
    BY RankGrows DEF m
  <2> DEFINE i == Rank(S, R, x) + 1
  <2>2. i \in 1..m /\ i - 1 = Rank(S, R, x)
    BY <1>1, <2>1
  <2>3. s[i] \in S /\ Rank(S, R, s[i]) = Rank(S, R, x)
    BY <1>2, <2>2
  <2>4. s[i] = x \/ <<s[i], x>> \in R \/ <<x, s[i]>> \in R
    BY <2>3 DEF IsOrder
  <2>5. /\ <<s[i], x>> \in R => Rank(S, R, s[i]) < Rank(S, R, x)
        /\ <<x, s[i]>> \in R => Rank(S, R, x) < Rank(S, R, s[i])
    BY <2>3, RankGrows
  <2>6. s[i] = x
    <3> DEFINE k == Rank(S, R, x)
               l == Rank(S, R, s[i])
    <3>1. k \in Int /\ l = k /\ (<<s[i], x>> \in R => l < k) /\ (<<x, s[i]>> \in R => k < l)
      BY <2>1, <2>3, <2>5
    <3> HIDE DEF k, l, i
    <3> QED
      BY <2>4, <3>1
  <2> QED
    BY <2>2, <2>6
<1>5. ASSUME NEW i \in 1..m, NEW j \in 1..m, i < j PROVE <<s[i], s[j]>> \in R
  <2>1. s[i] \in S /\ s[j] \in S /\ Rank(S, R, s[i]) = i - 1 /\ Rank(S, R, s[j]) = j - 1
    BY <1>2
  <2>2. s[i] = s[j] \/ <<s[i], s[j]>> \in R \/ <<s[j], s[i]>> \in R
    BY <2>1 DEF IsOrder
  <2>3. <<s[j], s[i]>> \in R => Rank(S, R, s[j]) < Rank(S, R, s[i])
    BY <2>1, RankGrows
  <2> QED
    BY <1>5, <2>1, <2>2, <2>3
<1> QED
  BY <1>3, <1>4, <1>5 DEF IsListing, m

(* There is one such listing. *)
LEMMA ListingUnique ==
  ASSUME NEW A, NEW R, IsOrder(R, A), NEW s, NEW t, IsListing(s, R, A), IsListing(t, R, A)
  PROVE  s = t
<1>1. /\ s \in Seq(A) /\ Len(s) \in Nat /\ \A i \in 1..Len(s) : s[i] \in A
      /\ t \in Seq(A) /\ Len(t) \in Nat /\ \A i \in 1..Len(t) : t[i] \in A
  BY ElementOfSeq, LenProperties DEF IsListing
<1>2. \A u, v : IsListing(u, R, A) /\ IsListing(v, R, A) =>
        \A m \in 1..Len(u) : (\A j \in 1..(m - 1) : j \in 1..Len(v) /\ u[j] = v[j]) =>
          m \in 1..Len(v) /\ (u[m] = v[m] \/ <<v[m], u[m]>> \in R)
  <2> SUFFICES ASSUME NEW u, NEW v, IsListing(u, R, A), IsListing(v, R, A), NEW m \in 1..Len(u),
                      \A j \in 1..(m - 1) : j \in 1..Len(v) /\ u[j] = v[j]
               PROVE  m \in 1..Len(v) /\ (u[m] = v[m] \/ <<v[m], u[m]>> \in R)
    OBVIOUS
  <2>1. /\ Len(u) \in Nat /\ \A i \in 1..Len(u) : u[i] \in A
        /\ Len(v) \in Nat /\ \A i \in 1..Len(v) : v[i] \in A
    BY ElementOfSeq, LenProperties DEF IsListing
  <2>2. PICK k \in 1..Len(v) : v[k] = u[m]
    BY <2>1 DEF IsListing
  <2>3. ASSUME NEW j \in 1..(m - 1) PROVE u[j] # u[m]
    <3>1. j \in 1..Len(u) /\ j < m
      BY <2>1
    <3>2. <<u[j], u[m]>> \in R
      BY <3>1 DEF IsListing
    <3>3. <<u[m], u[m]>> \notin R
      BY <2>1 DEF IsOrder
    <3> QED
      BY <3>2, <3>3
  <2>4. k \notin 1..(m - 1)
    BY <2>2, <2>3
  <2>5. k = m \/ (m < k /\ m \in 1..Len(v))
    BY <2>1, <2>2, <2>4
  <2> QED
    BY <2>2, <2>5 DEF IsListing
<1> DEFINE T == {j \in Nat : j \in 1..Len(s) /\ j \in 1..Len(t) /\ s[j] = t[j]}
<1>3. ASSUME NEW m \in Nat \ {0}, m <= Len(s) \/ m <= Len(t), \A j \in 1..(m - 1) : j \in T PROVE m \in T
  <2>1. (m \in 1..Len(s) => m \in 1..Len(t) /\ (s[m] = t[m] \/ <<t[m], s[m]>> \in R))
        /\ (m \in 1..Len(t) => m \in 1..Len(s) /\ (t[m] = s[m] \/ <<s[m], t[m]>> \in R))
    BY <1>2, <1>3
  <2>2. m \in 1..Len(s) /\ m \in 1..Len(t)
    BY <1>1, <1>3, <2>1
  <2>3. ~(<<t[m], s[m]>> \in R /\ <<s[m], t[m]>> \in R)
    BY <1>1, <2>2 DEF IsOrder
  <2> QED
    BY <2>1, <2>2, <2>3
<1>4. ASSUME NEW l \in Nat, l = Len(s) \/ l = Len(t) PROVE \A j \in 1..l : j \in T
  <2>1. ASSUME \E j \in 1..l : j \notin T PROVE FALSE
    <3>1. PICK m \in 1..l : m \notin T /\ \A j \in 1..(m - 1) : j \in T
      <4> HIDE DEF T
      <4> QED
        BY <2>1, FirstMissing
    <3>2. m \in Nat \ {0} /\ (m <= Len(s) \/ m <= Len(t))
      BY <1>1, <1>4
    <3> HIDE DEF T
    <3> QED
      BY <1>3, <3>1, <3>2
  <2> QED
    BY <2>1
<1>5. (\A j \in 1..Len(s) : j \in 1..Len(t) /\ s[j] = t[j]) /\ \A j \in 1..Len(t) : j \in 1..Len(s)
  BY <1>1, <1>4
<1>6. Len(s) = Len(t)
  BY <1>1, <1>5
<1> QED
  BY <1>1, <1>5, <1>6, SeqEqual

(* One listing after the other. *)
LEMMA ListingConcat ==
  ASSUME NEW A, NEW B, NEW R, NEW s, NEW t, IsListing(s, R, A), IsListing(t, R, B),
         \A x \in A, y \in B : <<x, y>> \in R
  PROVE  IsListing(s \o t, R, A \cup B)
<1> DEFINE u == s \o t
<1>1. /\ s \in Seq(A) /\ Len(s) \in Nat /\ \A i \in 1..Len(s) : s[i] \in A
      /\ t \in Seq(B) /\ Len(t) \in Nat /\ \A i \in 1..Len(t) : t[i] \in B
  BY ElementOfSeq, LenProperties DEF IsListing
<1>2. s \in Seq(A \cup B) /\ t \in Seq(A \cup B)
  BY <1>1, SeqMonotonic
<1>3. /\ u \in Seq(A \cup B) /\ Len(u) = Len(s) + Len(t)
      /\ \A i \in 1..(Len(s) + Len(t)) : u[i] = IF i <= Len(s) THEN s[i] ELSE t[i - Len(s)]
  BY <1>2, ConcatProperties
<1> HIDE DEF u
<1>4. ASSUME NEW x \in A \cup B PROVE \E i \in 1..Len(u) : u[i] = x
  <2>1. CASE x \in A
    <3>1. PICK i \in 1..Len(s) : s[i] = x
      BY <2>1 DEF IsListing
    <3>2. i \in 1..Len(u) /\ i \in 1..(Len(s) + Len(t)) /\ i <= Len(s)
      BY <1>1, <1>3
    <3> QED
      BY <1>3, <3>1, <3>2
  <2>2. CASE x \in B
    <3>1. PICK i \in 1..Len(t) : t[i] = x
      BY <2>2 DEF IsListing
    <3>2. /\ Len(s) + i \in 1..Len(u) /\ Len(s) + i \in 1..(Len(s) + Len(t)) /\ ~(Len(s) + i <= Len(s))
          /\ (Len(s) + i) - Len(s) = i
      BY <1>1, <1>3
    <3>3. u[Len(s) + i] = x
      BY <1>3, <3>1, <3>2
    <3> QED
      BY <3>2, <3>3
  <2> QED
    BY <2>1, <2>2
<1>5. ASSUME NEW i \in 1..Len(u), NEW j \in 1..Len(u), i < j PROVE <<u[i], u[j]>> \in R
  <2>1. CASE j <= Len(s)
    <3>1. i \in 1..Len(s) /\ j \in 1..Len(s) /\ u[i] = s[i] /\ u[j] = s[j]
      BY <1>1, <1>3, <1>5, <2>1
    <3> QED
      BY <1>5, <3>1 DEF IsListing
  <2>2. CASE i <= Len(s) /\ ~(j <= Len(s))
    <3>1. i \in 1..Len(s) /\ j - Len(s) \in 1..Len(t) /\ u[i] = s[i] /\ u[j] = t[j - Len(s)]
      BY <1>1, <1>3, <1>5, <2>2
    <3> QED
      BY <1>1, <3>1
  <2>3. CASE ~(i <= Len(s))
    <3>1. /\ i - Len(s) \in 1..Len(t) /\ j - Len(s) \in 1..Len(t) /\ i - Len(s) < j - Len(s)
          /\ u[i] = t[i - Len(s)] /\ u[j] = t[j - Len(s)]
      BY <1>1, <1>3, <1>5, <2>3
    <3> QED
      BY <3>1 DEF IsListing
  <2> QED
    BY <1>1, <1>3, <1>5, <2>1, <2>2, <2>3
<1> QED
  BY <1>3, <1>4, <1>5 DEF IsListing, u

LEMMA ListingOfOne ==
  ASSUME NEW R, NEW x
  PROVE  IsListing(<<x>>, R, {x}) /\ IsListing(<<>>, R, {})
BY DEF IsListing

(* A set that is not empty has a first element. *)
LEMMA HasFirst ==
  ASSUME NEW S, IsFiniteSet(S), S # {}, NEW R, IsOrder(R, S)
  PROVE  \E x \in S : \A y \in S : y = x \/ <<x, y>> \in R
<1>1. Cardinality(S) \in Nat \ {0}
  BY FS_CardinalityType, FS_EmptySet
<1>2. 0 \in 0..(Cardinality(S) - 1)
  BY <1>1
<1>3. PICK x \in S : Rank(S, R, x) = 0
  BY <1>2, RankReaches
<1>4. \A y \in S : y = x \/ <<x, y>> \in R
  <2> SUFFICES ASSUME NEW y \in S, <<y, x>> \in R PROVE FALSE
    BY <1>3 DEF IsOrder
  <2>1. Rank(S, R, y) < Rank(S, R, x) /\ Rank(S, R, y) \in 0..(Cardinality(S) - 1)
    BY <1>3, RankGrows
  <2> QED
    BY <1>1, <1>3, <2>1
<1> QED
  BY <1>4

-----------------------------------------------------------------------------
(***************************************************************************)
(* What two sequences share, and the order of sequences that an order of   *)
(* their elements gives.                                                   *)
(***************************************************************************)

(* m is how much a and b have in common. *)
Agree(a, b, m) == m \in Nat /\ m <= Len(a) /\ m <= Len(b) /\ \A i \in 1..m : a[i] = b[i]

LEMMA FirstOfSeq ==
  ASSUME NEW S, NEW a \in Seq(S), NEW m \in 0..Len(a)
  PROVE  /\ SubSeq(a, 1, m) \in Seq(S) /\ Len(SubSeq(a, 1, m)) = m
         /\ \A i \in 1..m : SubSeq(a, 1, m)[i] = a[i]
<1>1. Len(a) \in Nat /\ m \in Int /\ \A i \in 1..m : a[i] \in S
  BY LenProperties, ElementOfSeq
<1> QED
  BY <1>1, SubSeqProperties

LEMMA AgreeIff ==
  ASSUME NEW S, NEW a \in Seq(S), NEW b \in Seq(S), NEW m \in Nat, m <= Len(a), m <= Len(b)
  PROVE  SubSeq(a, 1, m) = SubSeq(b, 1, m) <=> Agree(a, b, m)
<1>1. Len(a) \in Nat /\ Len(b) \in Nat /\ m \in 0..Len(a) /\ m \in 0..Len(b)
  BY LenProperties
<1>2. /\ SubSeq(a, 1, m) \in Seq(S) /\ Len(SubSeq(a, 1, m)) = m
      /\ \A i \in 1..m : SubSeq(a, 1, m)[i] = a[i]
  BY <1>1, FirstOfSeq
<1>3. /\ SubSeq(b, 1, m) \in Seq(S) /\ Len(SubSeq(b, 1, m)) = m
      /\ \A i \in 1..m : SubSeq(b, 1, m)[i] = b[i]
  BY <1>1, FirstOfSeq
<1>4. SubSeq(a, 1, m) = SubSeq(b, 1, m) => Agree(a, b, m)
  BY <1>2, <1>3 DEF Agree
<1>5. Agree(a, b, m) => SubSeq(a, 1, m) = SubSeq(b, 1, m)
  BY <1>2, <1>3, SeqEqual DEF Agree
<1> QED
  BY <1>4, <1>5

LEMMA SharedIs ==
  ASSUME NEW S, NEW a \in Seq(S), NEW b \in Seq(S)
  PROVE  /\ Agree(a, b, Shared(a, b))
         /\ Shared(a, b) < Len(a) /\ Shared(a, b) < Len(b) => a[Shared(a, b) + 1] # b[Shared(a, b) + 1]
<1> DEFINE M == Min({Len(a), Len(b)})
           T == {i \in 1..M : SubSeq(a, 1, i) = SubSeq(b, 1, i)}
           P == {i \in 1..M : Agree(a, b, i)}
<1>1. Len(a) \in Nat /\ Len(b) \in Nat
  BY LenProperties
<1>2. M \in Nat /\ M <= Len(a) /\ M <= Len(b) /\ (M = Len(a) \/ M = Len(b))
  <2>1. \E x \in {Len(a), Len(b)} : \A y \in {Len(a), Len(b)} : x <= y
    BY <1>1
  <2>2. M \in {Len(a), Len(b)} /\ \A y \in {Len(a), Len(b)} : M <= y
    BY <2>1 DEF Min
  <2> QED
    BY <1>1, <2>2
<1>3. Shared(a, b) = Cardinality(T)
  BY DEF Shared
<1> HIDE DEF M
<1>4. T = P
  BY <1>1, <1>2, AgreeIff
<1>5. PICK m \in 1..(M + 1) : m \notin P /\ \A j \in 1..(m - 1) : j \in P
  <2>1. M + 1 \in Nat /\ \E i \in 1..(M + 1) : i \notin P
    BY <1>2
  <2> HIDE DEF P
  <2> QED
    BY <2>1, FirstMissing
<1>6. P = 1..(m - 1)
  <2>1. \A i \in P : i < m
    <3> SUFFICES ASSUME NEW i \in P, m <= i PROVE FALSE
      BY <1>2
    <3>1. m \in 1..M /\ Agree(a, b, m)
      BY <1>2 DEF Agree
    <3> QED
      BY <1>5, <3>1
  <2>2. \A i \in P : i \in 1..(m - 1)
    BY <1>2, <2>1
  <2> QED
    BY <1>5, <2>2
<1>7. Cardinality(P) = m - 1
  <2>1. 1 \in Int /\ m - 1 \in Int
    OBVIOUS
  <2>2. Cardinality(1..(m - 1)) = IF 1 > m - 1 THEN 0 ELSE m - 1 - 1 + 1
    BY <2>1, FS_Interval
  <2> HIDE DEF P
  <2> QED
    BY <1>6, <2>2
<1>8. Shared(a, b) = m - 1
  BY <1>3, <1>4, <1>7
<1>9. Agree(a, b, m - 1)
  BY <1>1, <1>2, <1>5 DEF Agree
<1>10. m - 1 < Len(a) /\ m - 1 < Len(b) => a[(m - 1) + 1] # b[(m - 1) + 1]
  <2> SUFFICES ASSUME m - 1 < Len(a), m - 1 < Len(b), a[m] = b[m] PROVE FALSE
    OBVIOUS
  <2>1. m \in 1..M
    BY <1>1, <1>2
  <2>2. Agree(a, b, m)
    BY <1>1, <1>2, <1>9, <2>1 DEF Agree
  <2> QED
    BY <1>5, <2>1, <2>2
<1> QED
  BY <1>8, <1>9, <1>10

(* Nothing else is. *)
LEMMA SharedUnique ==
  ASSUME NEW S, NEW a \in Seq(S), NEW b \in Seq(S), NEW m, Agree(a, b, m),
         m < Len(a) /\ m < Len(b) => a[m + 1] # b[m + 1]
  PROVE  Shared(a, b) = m
<1> DEFINE k == Shared(a, b)
<1>1. Agree(a, b, k) /\ (k < Len(a) /\ k < Len(b) => a[k + 1] # b[k + 1])
  BY SharedIs
<1>2. Len(a) \in Nat /\ Len(b) \in Nat
  BY LenProperties
<1> HIDE DEF k
<1>3. ~(k < m)
  <2> SUFFICES ASSUME k < m PROVE FALSE
    OBVIOUS
  <2>1. k + 1 \in 1..m /\ k < Len(a) /\ k < Len(b)
    BY <1>1, <1>2 DEF Agree
  <2> QED
    BY <1>1, <2>1 DEF Agree
<1>4. ~(m < k)
  <2> SUFFICES ASSUME m < k PROVE FALSE
    OBVIOUS
  <2>1. m + 1 \in 1..k /\ m < Len(a) /\ m < Len(b)
    BY <1>1, <1>2 DEF Agree
  <2> QED
    BY <1>1, <2>1 DEF Agree
<1>5. k \in Nat /\ m \in Nat
  BY <1>1 DEF Agree
<1> QED
  BY <1>3, <1>4, <1>5 DEF k

(* a comes before b: where they first differ, or because it ends there. *)
LexAt(a, b, m, R) == Agree(a, b, m) /\ m < Len(b) /\ (m < Len(a) => <<a[m + 1], b[m + 1]>> \in R)

LexPairs(R, B) ==
  {x \in Seq(B) \X Seq(B) :
     LET i == Shared(x[1], x[2])
     IN i < Len(x[2]) /\ (i < Len(x[1]) => <<x[1][i + 1], x[2][i + 1]>> \in R)}

LEMMA LexIff ==
  ASSUME NEW B, NEW R, \A x \in B : <<x, x>> \notin R, NEW a \in Seq(B), NEW b \in Seq(B)
  PROVE  /\ <<a, b>> \in LexPairs(R, B) <=> LexAt(a, b, Shared(a, b), R)
         /\ \A m : LexAt(a, b, m, R) => m = Shared(a, b)
<1>1. Agree(a, b, Shared(a, b))
  BY SharedIs
<1>2. ASSUME NEW m, LexAt(a, b, m, R) PROVE m = Shared(a, b)
  <2>1. Len(a) \in Nat /\ Len(b) \in Nat /\ \A i \in 1..Len(b) : b[i] \in B
    BY LenProperties, ElementOfSeq
  <2>2. m < Len(a) /\ m < Len(b) => a[m + 1] # b[m + 1]
    <3>1. m \in Nat /\ m < Len(b)
      BY <1>2 DEF LexAt, Agree
    <3>2. b[m + 1] \in B
      BY <2>1, <3>1
    <3> QED
      BY <1>2, <3>2 DEF LexAt
  <2> QED
    BY <1>2, <2>2, SharedUnique DEF LexAt
<1>3. <<a, b>> \in LexPairs(R, B) <=> LexAt(a, b, Shared(a, b), R)
  BY <1>1 DEF LexPairs, LexAt
<1> QED
  BY <1>2, <1>3

LEMMA LexOrder ==
  ASSUME NEW B, NEW R, IsOrder(R, B)
  PROVE  IsOrder(LexPairs(R, B), Seq(B))
<1> DEFINE L == LexPairs(R, B)
<1>1. \A x \in B : <<x, x>> \notin R
  BY DEF IsOrder
<1>2. \A a, b \in Seq(B) : /\ <<a, b>> \in L <=> LexAt(a, b, Shared(a, b), R)
                           /\ \A m : LexAt(a, b, m, R) => m = Shared(a, b)
  BY <1>1, LexIff
<1>3. \A a \in Seq(B) : Len(a) \in Nat /\ \A i \in 1..Len(a) : a[i] \in B
  BY LenProperties, ElementOfSeq
<1> HIDE DEF L
<1>4. ASSUME NEW a \in Seq(B), <<a, a>> \in L PROVE FALSE
  <2> DEFINE m == Shared(a, a)
  <2>1. LexAt(a, a, m, R)
    BY <1>2, <1>4
  <2> HIDE DEF m
  <2>2. m \in Nat /\ m < Len(a) /\ <<a[m + 1], a[m + 1]>> \in R
    BY <2>1 DEF LexAt, Agree
  <2> QED
    BY <1>1, <1>3, <2>2
<1>5. ASSUME NEW a \in Seq(B), NEW b \in Seq(B), NEW c \in Seq(B), <<a, b>> \in L, <<b, c>> \in L
      PROVE  <<a, c>> \in L
  <2> DEFINE i == Shared(a, b)
             j == Shared(b, c)
  <2>1. LexAt(a, b, i, R) /\ LexAt(b, c, j, R)
    BY <1>2, <1>5
  <2> HIDE DEF i, j
  <2>2. i \in Nat /\ j \in Nat /\ Len(a) \in Nat /\ Len(b) \in Nat /\ Len(c) \in Nat
    BY <1>3, <2>1 DEF LexAt, Agree
  <2>3. CASE i < j
    <3>1. i + 1 \in 1..j /\ i < Len(c) /\ \A k \in 1..i : k \in 1..j
      BY <2>1, <2>2, <2>3 DEF LexAt, Agree
    <3>2. b[i + 1] = c[i + 1] /\ Agree(a, c, i)
      BY <2>1, <2>2, <3>1 DEF LexAt, Agree
    <3>3. LexAt(a, c, i, R)
      BY <2>1, <3>1, <3>2 DEF LexAt
    <3> QED
      BY <1>2, <3>3
  <2>4. CASE j < i
    <3>1. j + 1 \in 1..i /\ j < Len(c) /\ j < Len(a) /\ j < Len(b) /\ \A k \in 1..j : k \in 1..i
      BY <2>1, <2>2, <2>4 DEF LexAt, Agree
    <3>2. a[j + 1] = b[j + 1] /\ Agree(a, c, j)
      BY <2>1, <2>2, <3>1 DEF LexAt, Agree
    <3>3. LexAt(a, c, j, R)
      BY <2>1, <3>1, <3>2 DEF LexAt
    <3> QED
      BY <1>2, <3>3
  <2>5. CASE i = j
    <3>1. i < Len(c) /\ i < Len(b) /\ Agree(a, c, i)
      BY <2>1, <2>2, <2>5 DEF LexAt, Agree
    <3>2. i < Len(a) => <<a[i + 1], c[i + 1]>> \in R
      <4> SUFFICES ASSUME i < Len(a) PROVE <<a[i + 1], c[i + 1]>> \in R
        OBVIOUS
      <4>1. <<a[i + 1], b[i + 1]>> \in R /\ <<b[i + 1], c[i + 1]>> \in R
        BY <2>1, <2>5, <3>1 DEF LexAt
      <4>2. a[i + 1] \in B /\ b[i + 1] \in B /\ c[i + 1] \in B
        BY <1>3, <2>2, <3>1
      <4> QED
        BY <4>1, <4>2 DEF IsOrder
    <3>3. LexAt(a, c, i, R)
      BY <3>1, <3>2 DEF LexAt
    <3> QED
      BY <1>2, <3>3
  <2> QED
    BY <2>2, <2>3, <2>4, <2>5
<1>6. ASSUME NEW a \in Seq(B), NEW b \in Seq(B) PROVE a = b \/ <<a, b>> \in L \/ <<b, a>> \in L
  <2> DEFINE m == Shared(a, b)
  <2>1. Agree(a, b, m) /\ (m < Len(a) /\ m < Len(b) => a[m + 1] # b[m + 1])
    BY SharedIs
  <2> HIDE DEF m
  <2>2. m \in Nat /\ m <= Len(a) /\ m <= Len(b) /\ Len(a) \in Nat /\ Len(b) \in Nat /\ Agree(b, a, m)
    BY <1>3, <2>1 DEF Agree
  <2>3. CASE m = Len(a) /\ m = Len(b)
    BY <2>1, <2>3, SeqEqual DEF Agree
  <2>4. CASE m < Len(b) /\ m = Len(a)
    <3>1. LexAt(a, b, m, R)
      BY <2>1, <2>2, <2>4 DEF LexAt
    <3> QED
      BY <1>2, <3>1
  <2>5. CASE m < Len(a) /\ m = Len(b)
    <3>1. LexAt(b, a, m, R)
      BY <2>2, <2>5 DEF LexAt
    <3> QED
      BY <1>2, <3>1
  <2>6. CASE m < Len(a) /\ m < Len(b)
    <3>1. a[m + 1] \in B /\ b[m + 1] \in B /\ a[m + 1] # b[m + 1]
      BY <1>3, <2>1, <2>2, <2>6
    <3>2. <<a[m + 1], b[m + 1]>> \in R \/ <<b[m + 1], a[m + 1]>> \in R
      BY <3>1 DEF IsOrder
    <3>3. LexAt(a, b, m, R) \/ LexAt(b, a, m, R)
      BY <2>1, <2>2, <2>6, <3>2 DEF LexAt
    <3> QED
      BY <1>2, <3>3
  <2> QED
    BY <2>2, <2>3, <2>4, <2>5, <2>6
<1> QED
  BY <1>4, <1>5, <1>6 DEF IsOrder, L

-----------------------------------------------------------------------------
(***************************************************************************)
(* The orders of bytes, names, paths and keys.                             *)
(***************************************************************************)

Bytes == Nat \ {0}
Paths == Seq(Names)

ByteOrder == {x \in Nat \X Nat : x[1] < x[2]}
KeyCode(b) == IF b = Sep THEN 0 ELSE b
KeyByteOrder == {x \in Bytes \X Bytes : KeyCode(x[1]) < KeyCode(x[2])}

NameOrder == LexPairs(ByteOrder, Nat)
PathOrder == LexPairs(NameOrder, Names)
KeyOrder == LexPairs(KeyByteOrder, Bytes)

LEMMA OrderOfPart ==
  ASSUME NEW B, NEW R, IsOrder(R, B), NEW A \in SUBSET B
  PROVE  IsOrder(R, A)
BY DEF IsOrder

LEMMA NamesAreBytes ==
  /\ \A a \in Names : a \in Seq(Nat) /\ a \in Seq(Bytes) /\ a # <<>> /\ Len(a) \in Nat \ {0}
                      /\ \A i \in 1..Len(a) : a[i] \in Bytes /\ a[i] # Sep
  /\ Names \subseteq Seq(Nat) /\ Names \subseteq Seq(Bytes)
<1> SUFFICES ASSUME NEW a \in Names
             PROVE  /\ a \in Seq(Nat) /\ a \in Seq(Bytes) /\ a # <<>> /\ Len(a) \in Nat \ {0}
                    /\ \A i \in 1..Len(a) : a[i] \in Bytes /\ a[i] # Sep
  OBVIOUS
<1>1. a \in Seq(Nat \ {0, Sep}) /\ a # <<>>
  BY DEF Names
<1>2. Len(a) \in Nat \ {0} /\ \A i \in 1..Len(a) : a[i] \in Nat \ {0, Sep}
  BY <1>1, EmptySeq, ElementOfSeq
<1>3. a \in Seq(Nat) /\ a \in Seq(Bytes)
  BY <1>1, SeqMonotonic DEF Bytes
<1> QED
  BY <1>1, <1>2, <1>3 DEF Bytes

LEMMA NameOrderIs == IsOrder(NameOrder, Seq(Nat)) /\ IsOrder(NameOrder, Names)
<1>1. IsOrder(ByteOrder, Nat)
  BY DEF IsOrder, ByteOrder
<1>2. IsOrder(NameOrder, Seq(Nat))
  BY <1>1, LexOrder DEF NameOrder
<1> QED
  BY <1>2, NamesAreBytes, OrderOfPart

LEMMA PathOrderIs == IsOrder(PathOrder, Paths)
BY NameOrderIs, LexOrder DEF PathOrder, Paths

LEMMA KeyByteOrderIs == IsOrder(KeyByteOrder, Bytes)
<1>1. Sep \in Bytes
  BY DiffAssumption DEF Bytes
<1>2. \A x \in Bytes : KeyCode(x) \in Nat
  BY DEF Bytes, KeyCode
<1>3. \A x, y \in Bytes : KeyCode(x) = KeyCode(y) => x = y
  BY DEF Bytes, KeyCode
<1>4. \A x, y \in Bytes : <<x, y>> \in KeyByteOrder <=> KeyCode(x) < KeyCode(y)
  BY DEF KeyByteOrder
<1> QED
  BY <1>2, <1>3, <1>4 DEF IsOrder

LEMMA KeyOrderIs == IsOrder(KeyOrder, Seq(Bytes))
BY KeyByteOrderIs, LexOrder DEF KeyOrder

(* These are the comparisons of the specification. *)
LEMMA NameBeforeIs == \A a, b \in Seq(Nat) : NameBefore(a, b) <=> <<a, b>> \in NameOrder
<1> SUFFICES ASSUME NEW a \in Seq(Nat), NEW b \in Seq(Nat) PROVE NameBefore(a, b) <=> <<a, b>> \in NameOrder
  OBVIOUS
<1> DEFINE i == Shared(a, b)
<1>1. Agree(a, b, i)
  BY SharedIs
<1>2. NameBefore(a, b) <=> i < Len(b) /\ (i < Len(a) => a[i + 1] < b[i + 1])
  BY DEF NameBefore, Before
<1>3. <<a, b>> \in NameOrder <=> i < Len(b) /\ (i < Len(a) => <<a[i + 1], b[i + 1]>> \in ByteOrder)
  BY DEF NameOrder, LexPairs
<1>4. Len(a) \in Nat /\ Len(b) \in Nat /\ (\A k \in 1..Len(a) : a[k] \in Nat) /\ \A k \in 1..Len(b) : b[k] \in Nat
  BY LenProperties, ElementOfSeq
<1> HIDE DEF i
<1>5. i < Len(b) /\ i < Len(a) => a[i + 1] \in Nat /\ b[i + 1] \in Nat
  BY <1>1, <1>4 DEF Agree
<1>6. i < Len(b) /\ i < Len(a) => (a[i + 1] < b[i + 1] <=> <<a[i + 1], b[i + 1]>> \in ByteOrder)
  BY <1>5 DEF ByteOrder
<1> QED
  BY <1>2, <1>3, <1>6

LEMMA KeyBeforeIs == \A a, b \in Seq(Bytes) : KeyBefore(a, b) <=> <<a, b>> \in KeyOrder
<1> SUFFICES ASSUME NEW a \in Seq(Bytes), NEW b \in Seq(Bytes) PROVE KeyBefore(a, b) <=> <<a, b>> \in KeyOrder
  OBVIOUS
<1> DEFINE i == Shared(a, b)
<1>1. Agree(a, b, i)
  BY SharedIs
<1>2. KeyBefore(a, b) <=> i < Len(b) /\ (i < Len(a) => KeyCode(a[i + 1]) < KeyCode(b[i + 1]))
  BY DEF KeyBefore, Before, KeyCode
<1>3. <<a, b>> \in KeyOrder <=> i < Len(b) /\ (i < Len(a) => <<a[i + 1], b[i + 1]>> \in KeyByteOrder)
  BY DEF KeyOrder, LexPairs
<1>4. /\ Len(a) \in Nat /\ Len(b) \in Nat
      /\ (\A k \in 1..Len(a) : a[k] \in Bytes) /\ \A k \in 1..Len(b) : b[k] \in Bytes
  BY LenProperties, ElementOfSeq
<1> HIDE DEF i
<1>5. i < Len(b) /\ i < Len(a) => a[i + 1] \in Bytes /\ b[i + 1] \in Bytes
  BY <1>1, <1>4 DEF Agree
<1>6. i < Len(b) /\ i < Len(a) =>
        (KeyCode(a[i + 1]) < KeyCode(b[i + 1]) <=> <<a[i + 1], b[i + 1]>> \in KeyByteOrder)
  BY <1>5 DEF KeyByteOrder
<1> QED
  BY <1>2, <1>3, <1>6

LEMMA PathBeforeIs == \A p, q \in Paths : PathBefore(p, q) <=> <<p, q>> \in PathOrder
<1> SUFFICES ASSUME NEW p \in Paths, NEW q \in Paths PROVE PathBefore(p, q) <=> <<p, q>> \in PathOrder
  OBVIOUS
<1> DEFINE i == Shared(p, q)
<1>0. p \in Seq(Names) /\ q \in Seq(Names)
  BY DEF Paths
<1>1. Agree(p, q, i)
  BY <1>0, SharedIs
<1>2. PathBefore(p, q) <=> i < Len(q) /\ (i < Len(p) => NameBefore(p[i + 1], q[i + 1]))
  BY DEF PathBefore
<1>3. <<p, q>> \in PathOrder <=> i < Len(q) /\ (i < Len(p) => <<p[i + 1], q[i + 1]>> \in NameOrder)
  BY <1>0 DEF PathOrder, LexPairs
<1>4. /\ Len(p) \in Nat /\ Len(q) \in Nat
      /\ (\A k \in 1..Len(p) : p[k] \in Names) /\ \A k \in 1..Len(q) : q[k] \in Names
  BY <1>0, LenProperties, ElementOfSeq
<1> HIDE DEF i
<1>5. i < Len(q) /\ i < Len(p) => p[i + 1] \in Seq(Nat) /\ q[i + 1] \in Seq(Nat)
  BY <1>1, <1>4, NamesAreBytes DEF Agree
<1>6. i < Len(q) /\ i < Len(p) => (NameBefore(p[i + 1], q[i + 1]) <=> <<p[i + 1], q[i + 1]>> \in NameOrder)
  BY <1>5, NameBeforeIs
<1> QED
  BY <1>2, <1>3, <1>6

LEMMA MaxIsIn ==
  ASSUME NEW k \in Nat, NEW s \in SUBSET (1..k), s # {}
  PROVE  Max(s) \in s
<1>1. PICK m \in s : \A j \in s : j <= m
  BY DeepestLevel
<1>2. \A j \in s : m >= j
  BY <1>1
<1> QED
  BY <1>1, <1>2 DEF Max

LEMMA MinIsIn ==
  ASSUME NEW s \in SUBSET Nat, s # {}
  PROVE  Min(s) \in s
<1>1. PICK m \in s : \A j \in s : m <= j
  BY LeastNat
<1> QED
  BY <1>1 DEF Min

(* A fold from the left goes through the first elements. *)
LEMMA FirstsFold ==
  ASSUME NEW k \in Nat, NEW it, NEW run, it[{}] = run[0],
         \A i \in 1..k : it[1..(i - 1)] = run[i - 1] => it[1..i] = run[i]
  PROVE  it[1..k] = run[k]
<1> DEFINE T == {i \in Nat : it[1..(i - 1)] = run[i - 1]}
<1>1. 1 \in T
  <2>1. 1..(1 - 1) = {} /\ 1 - 1 = 0
    OBVIOUS
  <2> QED
    BY <2>1
<1>2. ASSUME k + 1 \notin T PROVE FALSE
  <2>1. k + 1 \in Nat /\ k + 1 \in 1..(k + 1)
    OBVIOUS
  <2>2. PICK m \in 1..(k + 1) : m \notin T /\ \A j \in 1..(m - 1) : j \in T
    <3> HIDE DEF T
    <3> QED
      BY <1>2, <2>1, FirstMissing
  <2>3. m # 1 /\ m - 1 \in 1..k /\ m - 1 \in 1..(m - 1)
    BY <1>1, <2>2
  <2>4. it[1..((m - 1) - 1)] = run[(m - 1) - 1]
    BY <2>2, <2>3
  <2>5. it[1..(m - 1)] = run[m - 1]
    BY <2>3, <2>4
  <2> QED
    BY <2>2, <2>5
<1>3. (k + 1) - 1 = k
  OBVIOUS
<1> QED
  BY <1>2, <1>3

(* What a fold from the left gathers, step by step. *)
IsRun(run, m, V, base, step) ==
  run \in [0..m -> V] /\ run[0] = base /\ \A i \in 1..m : run[i] = step[i][run[i - 1]]

LEMMA RunExists ==
  ASSUME NEW m \in Nat, NEW V, NEW base \in V, NEW step \in [1..m -> [V -> V]]
  PROVE  \E run : IsRun(run, m, V, base, step)
<1> DEFINE U == 1..m
           ch == [s \in SUBSET U |-> Max(s)]
<1>1. IsFiniteSet(U)
  <2>1. 1 \in Int /\ m \in Int
    OBVIOUS
  <2> QED
    BY <2>1, FS_Interval
<1>2. \A s \in SUBSET U : s # {} => ch[s] \in s
  BY MaxIsIn
<1>3. PICK it : IsFold(it, U, V, base, ch, step)
  <2> HIDE DEF U, ch
  <2>1. step \in [U -> [V -> V]]
    BY DEF U
  <2> QED
    BY <1>1, <1>2, <2>1, FoldExists
<1>7. /\ it \in [SUBSET U -> V]
      /\ \A s \in SUBSET U : it[s] = IF s = {} THEN base ELSE step[ch[s]][it[s \ {ch[s]}]]
  BY <1>3 DEF IsFold
<1> DEFINE run == [i \in 0..m |-> it[1..i]]
<1>4. run \in [0..m -> V]
  <2>1. \A i \in 0..m : 1..i \in SUBSET U
    OBVIOUS
  <2> HIDE DEF U
  <2> QED
    BY <1>7, <2>1
<1>5. run[0] = base
  <2>1. run[0] = it[1..0] /\ 1..0 = {}
    OBVIOUS
  <2> QED
    BY <1>7, <2>1
<1>6. ASSUME NEW i \in 1..m PROVE run[i] = step[i][run[i - 1]]
  <2>1. 1..i # {} /\ Max(1..i) = i /\ (1..i) \ {Max(1..i)} = 1..(i - 1)
    <3>1. i \in Nat \ {0}
      OBVIOUS
    <3> QED
      BY <3>1, MaxOfFirst
  <2>2. 1..i \in SUBSET U /\ ch[1..i] = i /\ run[i] = it[1..i] /\ run[i - 1] = it[1..(i - 1)]
    BY <2>1
  <2>3. it[1..i] = step[ch[1..i]][it[(1..i) \ {ch[1..i]}]]
    <3> HIDE DEF run, ch, U
    <3> QED
      BY <1>7, <2>1, <2>2
  <2>4. it[1..i] = step[i][it[1..(i - 1)]]
    <3> HIDE DEF run, ch, U
    <3> QED
      BY <2>1, <2>2, <2>3
  <2> HIDE DEF run, ch, U
  <2> QED
    BY <2>2, <2>4
<1> HIDE DEF run
<1> QED
  BY <1>4, <1>5, <1>6 DEF IsRun

-----------------------------------------------------------------------------
(***************************************************************************)
(* Keys.                                                                   *)
(***************************************************************************)

Join(key, name) == IF key = <<>> THEN name ELSE key \o <<Sep>> \o name

LEMMA JoinType ==
  \A key \in Seq(Bytes), name \in Seq(Bytes) : Join(key, name) \in Seq(Bytes)
<1> SUFFICES ASSUME NEW key \in Seq(Bytes), NEW name \in Seq(Bytes) PROVE Join(key, name) \in Seq(Bytes)
  OBVIOUS
<1>1. Sep \in Bytes
  BY DiffAssumption DEF Bytes
<1>2. <<Sep>> \in Seq(Bytes)
  BY <1>1
<1>3. key \o <<Sep>> \in Seq(Bytes)
  BY <1>2, ConcatProperties
<1>4. (key \o <<Sep>>) \o name \in Seq(Bytes)
  BY <1>3, ConcatProperties
<1> QED
  BY <1>4 DEF Join

LEMMA KeyOfRuns ==
  ASSUME NEW p \in Paths, NEW run \in [0..Len(p) -> Seq(Bytes)], run[0] = <<>>,
         \A i \in 1..Len(p) : run[i] = Join(run[i - 1], p[i])
  PROVE  KeyOf(p) = run[Len(p)]
<1> DEFINE m == Len(p)
           U == 1..m
           V == Seq(Bytes)
           ch == [s \in SUBSET U |-> Max(s)]
           step == [i \in U |-> [v \in V |-> Join(v, p[i])]]
           N(j) == j = [s \in SUBSET (DOMAIN p) |->
                          IF s = {} THEN <<>>
                          ELSE IF j[s \ {Max(s)}] = <<>> THEN p[Max(s)]
                               ELSE j[s \ {Max(s)}] \o <<Sep>> \o p[Max(s)]]
<1>1. /\ m \in Nat /\ DOMAIN p = U /\ \A i \in U : p[i] \in Seq(Bytes)
  BY LenProperties, ElementOfSeq, NamesAreBytes DEF Paths
<1>2. IsFiniteSet(U)
  <2>1. 1 \in Int /\ m \in Int
    BY <1>1
  <2> QED
    BY <2>1, FS_Interval
<1>3. \A s \in SUBSET U : s # {} => ch[s] \in s
  BY <1>1, MaxIsIn
<1>4. step \in [U -> [V -> V]] /\ <<>> \in V
  BY <1>1, JoinType, EmptySeq
<1>5. PICK it : IsFold(it, U, V, <<>>, ch, step)
  <2> HIDE DEF U, ch, step, V
  <2> QED
    BY <1>2, <1>3, <1>4, FoldExists
<1>12. /\ it \in [SUBSET U -> V]
       /\ \A s \in SUBSET U : it[s] = IF s = {} THEN <<>> ELSE step[ch[s]][it[s \ {ch[s]}]]
  BY <1>5 DEF IsFold
<1>6. N(it)
  <2>1. ASSUME NEW s \in SUBSET U, s # {}
        PROVE  it[s] = Join(it[s \ {Max(s)}], p[Max(s)])
    <3>1. ch[s] = Max(s) /\ Max(s) \in U /\ it[s \ {Max(s)}] \in V
      BY <1>3, <1>12, <2>1
    <3> HIDE DEF U, V, ch
    <3> QED
      BY <1>12, <2>1, <3>1
  <2>2. \A s \in SUBSET U : it[s] = IF s = {} THEN <<>>
                          ELSE IF it[s \ {Max(s)}] = <<>> THEN p[Max(s)]
                               ELSE it[s \ {Max(s)}] \o <<Sep>> \o p[Max(s)]
    BY <1>12, <2>1 DEF Join
  <2> HIDE DEF U, V
  <2> QED
    BY <1>1, <1>12, <2>2
<1>7. N(CHOOSE j : N(j))
  <2> HIDE DEF N
  <2> QED
    BY <1>6
<1>8. KeyOf(p) = (CHOOSE j : N(j))[DOMAIN p]
  BY Zenon DEF KeyOf, FoldLeft, MapThenFoldSet
<1> DEFINE g == CHOOSE j : N(j)
<1>9. /\ g[{}] = <<>>
      /\ \A s \in SUBSET U : s # {} => g[s] = Join(g[s \ {Max(s)}], p[Max(s)])
  <2> HIDE DEF g, U
  <2>1. N(g)
    BY <1>7 DEF g
  <2> QED
    BY <1>1, <2>1 DEF Join
<1> HIDE DEF g, N
<1>10. ASSUME NEW i \in 1..m, g[1..(i - 1)] = run[i - 1] PROVE g[1..i] = run[i]
  <2>1. 1..i # {} /\ Max(1..i) = i /\ (1..i) \ {Max(1..i)} = 1..(i - 1)
    <3>1. i \in Nat \ {0}
      BY <1>1
    <3> QED
      BY <3>1, MaxOfFirst
  <2>2. 1..i \in SUBSET U
    BY <1>1
  <2> HIDE DEF U
  <2> QED
    BY <1>9, <1>10, <2>1, <2>2
<1>11. g[1..m] = run[m]
  <2>1. g[{}] = run[0]
    BY <1>9
  <2> HIDE DEF m
  <2> QED
    BY ZenonT(40), <1>1, <2>1, <1>10, FirstsFold
<1> QED
  BY <1>1, <1>8, <1>11 DEF g

LEMMA KeyOfSteps ==
  /\ KeyOf(<<>>) = <<>>
  /\ \A p \in Paths : KeyOf(p) \in Seq(Bytes)
  /\ \A p \in Paths, e \in Names : KeyOf(Append(p, e)) = Join(KeyOf(p), e)
<1> DEFINE V == Seq(Bytes)
<1>1. ASSUME NEW p \in Paths
      PROVE  \E run \in [0..Len(p) -> V] :
               run[0] = <<>> /\ \A i \in 1..Len(p) : run[i] = Join(run[i - 1], p[i])
  <2> DEFINE m == Len(p)
             step == [i \in 1..m |-> [v \in V |-> Join(v, p[i])]]
  <2>1. m \in Nat /\ \A i \in 1..m : p[i] \in V
    BY LenProperties, ElementOfSeq, NamesAreBytes DEF Paths
  <2>2. step \in [1..m -> [V -> V]] /\ <<>> \in V
    BY <2>1, JoinType, EmptySeq
  <2>5. PICK run : IsRun(run, m, V, <<>>, step)
    <3> HIDE DEF m, step, V
    <3> QED
      BY <2>1, <2>2, RunExists
  <2>3. run \in [0..m -> V] /\ run[0] = <<>> /\ \A i \in 1..m : run[i] = step[i][run[i - 1]]
    BY <2>5 DEF IsRun
  <2>4. ASSUME NEW i \in 1..m PROVE run[i] = Join(run[i - 1], p[i])
    <3>1. i - 1 \in 0..m
      BY <2>1
    <3>2. run[i - 1] \in V
      BY <2>3, <3>1
    <3> HIDE DEF m, V
    <3> QED
      BY <2>3, <3>2
  <2> HIDE DEF m, step, V
  <2> QED
    BY <2>3, <2>4 DEF m
<1>2. <<>> \in Paths /\ Len(<<>>) = 0
  BY EmptySeq DEF Paths
<1>3. KeyOf(<<>>) = <<>>
  <2>1. PICK run \in [0..Len(<<>>) -> V] :
               run[0] = <<>> /\ \A i \in 1..Len(<<>>) : run[i] = Join(run[i - 1], <<>>[i])
    BY <1>1, <1>2
  <2>2. KeyOf(<<>>) = run[Len(<<>>)]
    BY <1>2, <2>1, KeyOfRuns
  <2> QED
    BY <1>2, <2>1, <2>2
<1>4. ASSUME NEW p \in Paths, NEW e \in Names
      PROVE  KeyOf(p) \in Seq(Bytes) /\ KeyOf(Append(p, e)) = Join(KeyOf(p), e)
  <2> DEFINE q == Append(p, e)
             m == Len(p)
  <2>1. /\ q \in Paths /\ Len(q) = m + 1 /\ m \in Nat /\ q[m + 1] = e
        /\ \A i \in 1..m : q[i] = p[i]
    BY AppendProperties, LenProperties DEF Paths
  <2> HIDE DEF q, m
  <2>2. PICK run \in [0..(m + 1) -> V] : run[0] = <<>> /\ \A i \in 1..(m + 1) : run[i] = Join(run[i - 1], q[i])
    BY <1>1, <2>1
  <2>3. KeyOf(q) = run[m + 1]
    BY <2>1, <2>2, KeyOfRuns
  <2> DEFINE first == [i \in 0..m |-> run[i]]
  <2>4. first \in [0..m -> V] /\ first[0] = <<>> /\ first[m] = run[m] /\ run[m] \in V
    BY <2>1, <2>2
  <2>5. ASSUME NEW i \in 1..m PROVE first[i] = Join(first[i - 1], p[i])
    <3>1. i \in 1..(m + 1) /\ i \in 0..m /\ i - 1 \in 0..m
      BY <2>1
    <3>2. first[i] = run[i] /\ first[i - 1] = run[i - 1]
      BY <3>1
    <3> HIDE DEF first
    <3> QED
      BY <2>1, <2>2, <3>1, <3>2
  <2>6. KeyOf(p) = first[m]
    <3> HIDE DEF first, V
    <3> QED
      BY <2>4, <2>5, KeyOfRuns DEF m, V
  <2>7. run[m + 1] = Join(run[m], e)
    <3>2. m \in Nat
      BY <2>1
    <3>1. m + 1 \in 1..(m + 1) /\ (m + 1) - 1 = m
      BY <3>2
    <3> QED
      BY <2>1, <2>2, <3>1
  <2> QED
    BY <2>3, <2>4, <2>6, <2>7 DEF q
<1>5. \A p \in Paths : KeyOf(p) \in Seq(Bytes)
  <2> SUFFICES ASSUME NEW p \in Paths PROVE KeyOf(p) \in Seq(Bytes)
    OBVIOUS
  <2>1. PICK run \in [0..Len(p) -> V] :
               run[0] = <<>> /\ \A i \in 1..Len(p) : run[i] = Join(run[i - 1], p[i])
    BY <1>1
  <2>2. KeyOf(p) = run[Len(p)] /\ Len(p) \in 0..Len(p)
    BY SMTT(30), <2>1, KeyOfRuns, LenProperties DEF Paths
  <2> QED
    BY <2>1, <2>2
<1> QED
  BY <1>3, <1>4, <1>5

LEMMA SepFacts == Sep \in Bytes /\ <<Sep>> \in Seq(Bytes) /\ Len(<<Sep>>) = 1 /\ <<Sep>>[1] = Sep
<1>1. Sep \in Bytes
  BY DiffAssumption DEF Bytes
<1> QED
  BY <1>1

(* Only the root has the key <<>>. *)
LEMMA KeyEmpty == \A p \in Paths : KeyOf(p) = <<>> <=> p = <<>>
<1> SUFFICES ASSUME NEW p \in Paths, p # <<>> PROVE KeyOf(p) # <<>>
  BY KeyOfSteps
<1>1. PICK q \in Paths, e \in Names : p = Append(q, e)
  BY SequenceEmptyOrAppend DEF Paths
<1>2. KeyOf(p) = Join(KeyOf(q), e) /\ KeyOf(q) \in Seq(Bytes) /\ e \in Seq(Bytes) /\ e # <<>>
  BY <1>1, KeyOfSteps, NamesAreBytes
<1>3. (KeyOf(q) \o <<Sep>>) \o e # <<>>
  <2>1. KeyOf(q) \o <<Sep>> \in Seq(Bytes)
    BY <1>2, SepFacts, ConcatProperties
  <2> QED
    BY <1>2, <2>1, ConcatEqualIffEmpty
<1> QED
  BY <1>2, <1>3 DEF Join

LEMMA KeyConcat ==
  ASSUME NEW p \in Paths, p # <<>>
  PROVE  \A q \in Paths : q # <<>> => KeyOf(p \o q) = (KeyOf(p) \o <<Sep>>) \o KeyOf(q)
<1> DEFINE Q == {q \in Paths : q # <<>> => KeyOf(p \o q) = (KeyOf(p) \o <<Sep>>) \o KeyOf(q)}
<1>1. <<>> \in Q
  BY EmptySeq DEF Paths
<1>2. ASSUME NEW q \in Seq(Names), NEW e \in Names, q \in Q PROVE Append(q, e) \in Q
  <2> DEFINE k == KeyOf(p) \o <<Sep>>
  <2>1. /\ KeyOf(p) \in Seq(Bytes) /\ KeyOf(p) # <<>> /\ k \in Seq(Bytes) /\ e \in Seq(Bytes)
        /\ KeyOf(q) \in Seq(Bytes)
    BY KeyOfSteps, KeyEmpty, SepFacts, ConcatProperties, NamesAreBytes DEF Paths
  <2>2. Append(q, e) \in Paths /\ KeyOf(Append(q, e)) = Join(KeyOf(q), e)
    BY KeyOfSteps, AppendProperties DEF Paths
  <2>3. p \o q \in Paths /\ p \o Append(q, e) = Append(p \o q, e)
    <3>1. p \o q \in Seq(Names) /\ <<e>> \in Seq(Names)
      BY ConcatProperties DEF Paths
    <3>2. Append(q, e) = q \o <<e>> /\ Append(p \o q, e) = (p \o q) \o <<e>>
      BY <3>1, AppendIsConcat
    <3>3. (p \o q) \o <<e>> = p \o (q \o <<e>>)
      BY <3>1, ConcatAssociative DEF Paths
    <3> QED
      BY <3>1, <3>2, <3>3 DEF Paths
  <2>4. KeyOf(p \o Append(q, e)) = Join(KeyOf(p \o q), e)
    BY <2>3, KeyOfSteps
  <2>5. CASE q = <<>>
    <3>1. p \o q = p /\ KeyOf(q) = <<>>
      BY <2>5, KeyOfSteps, ConcatEmptySeq DEF Paths
    <3> QED
      BY <2>1, <2>2, <2>4, <3>1 DEF Join
  <2>6. CASE q # <<>>
    <3>1. KeyOf(p \o q) = k \o KeyOf(q) /\ KeyOf(q) # <<>> /\ q \in Paths
      BY <1>2, <2>6, KeyEmpty DEF Paths
    <3>2. k \o KeyOf(q) # <<>> /\ k \o KeyOf(q) \in Seq(Bytes)
      BY <2>1, <3>1, ConcatEqualIffEmpty, ConcatProperties
    <3> HIDE DEF k
    <3>3. /\ KeyOf(p \o Append(q, e)) = ((k \o KeyOf(q)) \o <<Sep>>) \o e
          /\ KeyOf(Append(q, e)) = (KeyOf(q) \o <<Sep>>) \o e
      BY <2>2, <2>4, <3>1, <3>2 DEF Join
    <3>4. (k \o KeyOf(q)) \o <<Sep>> = k \o (KeyOf(q) \o <<Sep>>) /\ KeyOf(q) \o <<Sep>> \in Seq(Bytes)
      BY SMTT(30), <2>1, SepFacts, ConcatAssociative, ConcatProperties
    <3>5. (k \o (KeyOf(q) \o <<Sep>>)) \o e = k \o ((KeyOf(q) \o <<Sep>>) \o e)
      <4>1. k \in Seq(Bytes) /\ KeyOf(q) \o <<Sep>> \in Seq(Bytes) /\ e \in Seq(Bytes)
        BY <2>1, <3>4
      <4> QED
        BY <4>1, ConcatAssociative
    <3> QED
      BY <2>2, <3>3, <3>4, <3>5 DEF k
  <2> QED
    BY <2>5, <2>6
<1> HIDE DEF Q
<1>3. Seq(Names) \subseteq Q
  BY <1>1, <1>2, SeqInduction
<1> QED
  BY <1>3 DEF Q, Paths

-----------------------------------------------------------------------------
(* The path of a key.                                                      *)

Step(path, b) == IF b = Sep THEN Append(path, <<>>) ELSE Append(Front(path), Append(Last(path), b))
Parts == Seq(Seq(Bytes)) \ {<<>>}

LEMMA StepType == \A path \in Parts, b \in Bytes : Step(path, b) \in Parts
<1> SUFFICES ASSUME NEW path \in Parts, NEW b \in Bytes PROVE Step(path, b) \in Parts
  OBVIOUS
<1>1. path \in Seq(Seq(Bytes)) /\ path # <<>> /\ <<>> \in Seq(Bytes)
  BY EmptySeq DEF Parts
<1>2. Front(path) \in Seq(Seq(Bytes)) /\ Len(path) \in Nat \ {0}
  <2>1. Len(path) \in Nat \ {0} /\ \A i \in 1..(Len(path) - 1) : path[i] \in Seq(Bytes)
    BY <1>1, EmptySeq, ElementOfSeq
  <2>2. 1 \in Int /\ Len(path) - 1 \in Int
    BY <2>1
  <2> QED
    BY <2>1, <2>2, SubSeqProperties DEF Front
<1>3. Last(path) \in Seq(Bytes)
  BY <1>1, <1>2, ElementOfSeq DEF Last
<1>4. Append(Last(path), b) \in Seq(Bytes)
  BY <1>3, AppendProperties
<1>5. /\ Append(path, <<>>) \in Seq(Seq(Bytes)) /\ Append(path, <<>>) # <<>>
      /\ Append(Front(path), Append(Last(path), b)) \in Seq(Seq(Bytes))
      /\ Append(Front(path), Append(Last(path), b)) # <<>>
  <2>1. \A s \in Seq(Seq(Bytes)), x \in Seq(Bytes) : Append(s, x) \in Seq(Seq(Bytes)) /\ Append(s, x) # <<>>
    BY AppendProperties
  <2> QED
    BY <1>1, <1>2, <1>4, <2>1
<1> QED
  BY <1>5 DEF Step, Parts

LEMMA NamesOfRuns ==
  ASSUME NEW k \in Seq(Bytes), NEW run \in [0..Len(k) -> Parts], run[0] = <<<<>>>>,
         \A i \in 1..Len(k) : run[i] = Step(run[i - 1], k[i])
  PROVE  NamesOf(k) = run[Len(k)]
<1> DEFINE m == Len(k)
           U == 1..m
           ch == [s \in SUBSET U |-> Max(s)]
           step == [i \in U |-> [v \in Parts |-> Step(v, k[i])]]
           N(j) == j = [s \in SUBSET (DOMAIN k) |->
                          IF s = {} THEN <<<<>>>>
                          ELSE IF k[Max(s)] = Sep THEN Append(j[s \ {Max(s)}], <<>>)
                               ELSE Append(Front(j[s \ {Max(s)}]), Append(Last(j[s \ {Max(s)}]), k[Max(s)]))]
<1>1. /\ m \in Nat /\ DOMAIN k = U /\ \A i \in U : k[i] \in Bytes
  BY LenProperties, ElementOfSeq
<1>2. IsFiniteSet(U)
  <2>1. 1 \in Int /\ m \in Int
    BY <1>1
  <2> QED
    BY <2>1, FS_Interval
<1>3. \A s \in SUBSET U : s # {} => ch[s] \in s
  BY <1>1, MaxIsIn
<1>4. step \in [U -> [Parts -> Parts]]
  BY <1>1, StepType
<1>13. <<<<>>>> \in Parts
  <2>1. <<>> \in Seq(Bytes)
    BY EmptySeq
  <2> QED
    BY <2>1 DEF Parts
<1>5. PICK it : IsFold(it, U, Parts, <<<<>>>>, ch, step)
  <2> HIDE DEF U, ch, step
  <2> QED
    BY <1>2, <1>3, <1>4, <1>13, FoldExists
<1>12. /\ it \in [SUBSET U -> Parts]
       /\ \A s \in SUBSET U : it[s] = IF s = {} THEN <<<<>>>> ELSE step[ch[s]][it[s \ {ch[s]}]]
  BY <1>5 DEF IsFold
<1>6. N(it)
  <2>1. ASSUME NEW s \in SUBSET U, s # {}
        PROVE  it[s] = Step(it[s \ {Max(s)}], k[Max(s)])
    <3>1. ch[s] = Max(s) /\ Max(s) \in U /\ it[s \ {Max(s)}] \in Parts
      BY <1>3, <1>12, <2>1
    <3> HIDE DEF U, ch
    <3> QED
      BY <1>12, <2>1, <3>1
  <2>2. \A s \in SUBSET U : it[s] = IF s = {} THEN <<<<>>>>
                          ELSE IF k[Max(s)] = Sep THEN Append(it[s \ {Max(s)}], <<>>)
                               ELSE Append(Front(it[s \ {Max(s)}]), Append(Last(it[s \ {Max(s)}]), k[Max(s)]))
    BY <1>12, <2>1 DEF Step
  <2> HIDE DEF U
  <2> QED
    BY <1>1, <1>12, <2>2
<1>7. N(CHOOSE j : N(j))
  <2> HIDE DEF N
  <2> QED
    BY <1>6
<1>8. NamesOf(k) = (CHOOSE j : N(j))[DOMAIN k]
  BY Zenon DEF NamesOf, FoldLeft, MapThenFoldSet
<1> DEFINE g == CHOOSE j : N(j)
<1>9. /\ g[{}] = <<<<>>>>
      /\ \A s \in SUBSET U : s # {} => g[s] = Step(g[s \ {Max(s)}], k[Max(s)])
  <2> HIDE DEF g, U
  <2>1. N(g)
    BY <1>7 DEF g
  <2> QED
    BY <1>1, <2>1 DEF Step
<1> HIDE DEF g, N
<1>10. ASSUME NEW i \in 1..m, g[1..(i - 1)] = run[i - 1] PROVE g[1..i] = run[i]
  <2>1. 1..i # {} /\ Max(1..i) = i /\ (1..i) \ {Max(1..i)} = 1..(i - 1)
    <3>1. i \in Nat \ {0}
      BY <1>1
    <3> QED
      BY <3>1, MaxOfFirst
  <2>2. 1..i \in SUBSET U
    BY <1>1
  <2> HIDE DEF U
  <2> QED
    BY <1>9, <1>10, <2>1, <2>2
<1>11. g[1..m] = run[m]
  <2>1. g[{}] = run[0]
    BY <1>9
  <2> HIDE DEF m
  <2> QED
    BY ZenonT(40), <1>1, <2>1, <1>10, FirstsFold
<1> QED
  BY <1>1, <1>8, <1>11 DEF g

LEMMA NamesOfSteps ==
  /\ NamesOf(<<>>) = <<<<>>>>
  /\ \A k \in Seq(Bytes) : NamesOf(k) \in Parts
  /\ \A k \in Seq(Bytes), b \in Bytes : NamesOf(Append(k, b)) = Step(NamesOf(k), b)
<1>13. <<<<>>>> \in Parts
  <2>1. <<>> \in Seq(Bytes)
    BY EmptySeq
  <2> QED
    BY <2>1 DEF Parts
<1>1. ASSUME NEW k \in Seq(Bytes)
      PROVE  \E run \in [0..Len(k) -> Parts] :
               run[0] = <<<<>>>> /\ \A i \in 1..Len(k) : run[i] = Step(run[i - 1], k[i])
  <2> DEFINE m == Len(k)
             step == [i \in 1..m |-> [v \in Parts |-> Step(v, k[i])]]
  <2>1. m \in Nat /\ \A i \in 1..m : k[i] \in Bytes
    BY LenProperties, ElementOfSeq
  <2>2. step \in [1..m -> [Parts -> Parts]]
    BY <2>1, StepType
  <2>5. PICK run : IsRun(run, m, Parts, <<<<>>>>, step)
    <3> HIDE DEF m, step
    <3> QED
      BY <2>1, <2>2, <1>13, RunExists
  <2>3. run \in [0..m -> Parts] /\ run[0] = <<<<>>>> /\ \A i \in 1..m : run[i] = step[i][run[i - 1]]
    BY <2>5 DEF IsRun
  <2>4. ASSUME NEW i \in 1..m PROVE run[i] = Step(run[i - 1], k[i])
    <3>1. i - 1 \in 0..m
      BY <2>1
    <3>2. run[i - 1] \in Parts
      BY <2>3, <3>1
    <3> HIDE DEF m
    <3> QED
      BY <2>3, <3>2
  <2> HIDE DEF m, step
  <2> QED
    BY <2>3, <2>4 DEF m
<1>2. <<>> \in Seq(Bytes) /\ Len(<<>>) = 0
  BY EmptySeq
<1>3. NamesOf(<<>>) = <<<<>>>>
  <2>1. PICK run \in [0..Len(<<>>) -> Parts] :
               run[0] = <<<<>>>> /\ \A i \in 1..Len(<<>>) : run[i] = Step(run[i - 1], <<>>[i])
    BY <1>1, <1>2
  <2>2. NamesOf(<<>>) = run[Len(<<>>)]
    BY <1>2, <2>1, NamesOfRuns
  <2> QED
    BY <1>2, <2>1, <2>2
<1>4. ASSUME NEW k \in Seq(Bytes), NEW b \in Bytes
      PROVE  NamesOf(Append(k, b)) = Step(NamesOf(k), b)
  <2> DEFINE q == Append(k, b)
             m == Len(k)
  <2>1. /\ q \in Seq(Bytes) /\ Len(q) = m + 1 /\ m \in Nat /\ q[m + 1] = b
        /\ \A i \in 1..m : q[i] = k[i]
    BY AppendProperties, LenProperties
  <2> HIDE DEF q, m
  <2>2. PICK run \in [0..(m + 1) -> Parts] : run[0] = <<<<>>>> /\ \A i \in 1..(m + 1) : run[i] = Step(run[i - 1], q[i])
    BY SMTT(30), <1>1, <2>1
  <2>3. NamesOf(q) = run[m + 1]
    BY <2>1, <2>2, NamesOfRuns
  <2> DEFINE first == [i \in 0..m |-> run[i]]
  <2>4. first \in [0..m -> Parts] /\ first[0] = <<<<>>>> /\ first[m] = run[m]
    BY <2>1, <2>2
  <2>5. ASSUME NEW i \in 1..m PROVE first[i] = Step(first[i - 1], k[i])
    <3>1. i \in 1..(m + 1) /\ i \in 0..m /\ i - 1 \in 0..m
      BY <2>1
    <3>2. first[i] = run[i] /\ first[i - 1] = run[i - 1]
      BY <3>1
    <3> HIDE DEF first
    <3> QED
      BY <2>1, <2>2, <3>1, <3>2
  <2>6. NamesOf(k) = first[m]
    <3> HIDE DEF first
    <3> QED
      BY <2>4, <2>5, NamesOfRuns DEF m
  <2>7. run[m + 1] = Step(run[m], b)
    <3>2. m \in Nat
      BY <2>1
    <3>1. m + 1 \in 1..(m + 1) /\ (m + 1) - 1 = m
      BY <3>2
    <3> QED
      BY <2>1, <2>2, <3>1
  <2> QED
    BY <2>3, <2>4, <2>6, <2>7 DEF q
<1>5. \A k \in Seq(Bytes) : NamesOf(k) \in Parts
  <2> SUFFICES ASSUME NEW k \in Seq(Bytes) PROVE NamesOf(k) \in Parts
    OBVIOUS
  <2>1. PICK run \in [0..Len(k) -> Parts] :
               run[0] = <<<<>>>> /\ \A i \in 1..Len(k) : run[i] = Step(run[i - 1], k[i])
    BY <1>1
  <2>2. NamesOf(k) = run[Len(k)] /\ Len(k) \in 0..Len(k)
    BY <2>1, NamesOfRuns, LenProperties
  <2> QED
    BY <2>1, <2>2
<1> QED
  BY <1>3, <1>4, <1>5

LEMMA AppendFacts ==
  ASSUME NEW S, NEW s \in Seq(S), NEW e \in S
  PROVE  /\ Append(s, e) \in Seq(S) /\ Append(s, e) # <<>>
         /\ Front(Append(s, e)) = s /\ Last(Append(s, e)) = e
<1> DEFINE a == Append(s, e)
<1>1. /\ a \in Seq(S) /\ a # <<>> /\ Len(a) = Len(s) + 1 /\ Len(s) \in Nat
      /\ a[Len(s) + 1] = e /\ \A i \in 1..Len(s) : a[i] = s[i]
  BY AppendProperties, LenProperties
<1> HIDE DEF a
<1>2. Last(a) = e
  BY <1>1 DEF Last
<1>3. Front(a) = SubSeq(a, 1, Len(s))
  BY <1>1 DEF Front
<1>4. Len(s) \in 0..Len(a)
  BY <1>1
<1>5. /\ SubSeq(a, 1, Len(s)) \in Seq(S) /\ Len(SubSeq(a, 1, Len(s))) = Len(s)
      /\ \A i \in 1..Len(s) : SubSeq(a, 1, Len(s))[i] = a[i]
  BY <1>1, <1>4, FirstOfSeq
<1>6. SubSeq(a, 1, Len(s)) = s
  BY <1>1, <1>5, SeqEqual
<1> QED
  BY <1>1, <1>2, <1>3, <1>6 DEF a

LEMMA AppendConcat ==
  ASSUME NEW S, NEW s \in Seq(S), NEW t \in Seq(S), NEW e \in S
  PROVE  s \o Append(t, e) = Append(s \o t, e) /\ s \o t \in Seq(S) /\ Append(t, e) \in Seq(S)
<1>1. s \o t \in Seq(S) /\ <<e>> \in Seq(S) /\ Append(t, e) \in Seq(S)
  BY ConcatProperties, AppendProperties
<1>2. Append(t, e) = t \o <<e>> /\ Append(s \o t, e) = (s \o t) \o <<e>>
  BY <1>1, AppendIsConcat
<1>3. (s \o t) \o <<e>> = s \o (t \o <<e>>)
  BY <1>1, ConcatAssociative
<1> QED
  BY <1>1, <1>2, <1>3

LEMMA StepConcat ==
  ASSUME NEW p \in Parts, NEW q \in Parts, NEW b \in Bytes
  PROVE  Step(p \o q, b) = p \o Step(q, b)
<1> DEFINE S == Seq(Bytes)
<1>1. p \in Seq(S) /\ q \in Seq(S) /\ q # <<>> /\ <<>> \in S
  BY EmptySeq DEF Parts
<1>2. PICK r \in Seq(S), e \in S : q = Append(r, e)
  BY <1>1, SequenceEmptyOrAppend
<1>3. p \o q = Append(p \o r, e) /\ p \o r \in Seq(S)
  BY <1>1, <1>2, AppendConcat
<1>4. Append(e, b) \in S
  BY <1>2, AppendProperties
<1> HIDE DEF S
<1>5. Front(q) = r /\ Last(q) = e
  BY <1>2, AppendFacts
<1>6. Front(p \o q) = p \o r /\ Last(p \o q) = e
  <2>1. \A s \in Seq(S), x \in S : Front(Append(s, x)) = s /\ Last(Append(s, x)) = x
    BY AppendFacts
  <2> QED
    BY <1>2, <1>3, <2>1
<1>7. CASE b = Sep
  <2>1. p \o Append(q, <<>>) = Append(p \o q, <<>>)
    BY <1>1, AppendConcat
  <2> QED
    BY <1>7, <2>1 DEF Step
<1>8. CASE b # Sep
  <2>1. p \o Append(r, Append(e, b)) = Append(p \o r, Append(e, b))
    BY <1>1, <1>2, <1>4, AppendConcat
  <2> QED
    BY <1>5, <1>6, <1>8, <2>1 DEF Step
<1> QED
  BY <1>7, <1>8

LEMMA NamesOfConcat ==
  ASSUME NEW k \in Seq(Bytes)
  PROVE  \A r \in Seq(Bytes) : NamesOf((k \o <<Sep>>) \o r) = NamesOf(k) \o NamesOf(r)
<1> DEFINE h == k \o <<Sep>>
           Q == {r \in Seq(Bytes) : NamesOf(h \o r) = NamesOf(k) \o NamesOf(r)}
<1>1. h \in Seq(Bytes) /\ h = Append(k, Sep)
  BY SepFacts, AppendIsConcat, ConcatProperties
<1>2. NamesOf(k) \in Parts /\ NamesOf(k) \in Seq(Seq(Bytes)) /\ <<>> \in Seq(Bytes)
  BY NamesOfSteps, EmptySeq DEF Parts
<1>3. <<>> \in Q
  <2>1. h \o <<>> = h
    BY <1>1, ConcatEmptySeq
  <2>2. NamesOf(h) = Append(NamesOf(k), <<>>)
    BY <1>1, NamesOfSteps, SepFacts DEF Step
  <2>3. Append(NamesOf(k), <<>>) = NamesOf(k) \o <<<<>>>>
    BY <1>2, AppendIsConcat
  <2> QED
    BY <1>2, <2>1, <2>2, <2>3, NamesOfSteps
<1> HIDE DEF h
<1>4. ASSUME NEW r \in Seq(Bytes), NEW b \in Bytes, r \in Q PROVE Append(r, b) \in Q
  <2>1. h \o Append(r, b) = Append(h \o r, b) /\ h \o r \in Seq(Bytes) /\ Append(r, b) \in Seq(Bytes)
    BY <1>1, AppendConcat
  <2>2. /\ NamesOf(Append(h \o r, b)) = Step(NamesOf(h \o r), b)
        /\ NamesOf(Append(r, b)) = Step(NamesOf(r), b)
        /\ NamesOf(r) \in Parts
    BY <2>1, NamesOfSteps
  <2>3. Step(NamesOf(k) \o NamesOf(r), b) = NamesOf(k) \o Step(NamesOf(r), b)
    BY <1>2, <2>2, StepConcat
  <2> QED
    BY <1>4, <2>1, <2>2, <2>3
<1>5. Seq(Bytes) \subseteq Q
  <2> HIDE DEF Q
  <2> QED
    BY <1>3, <1>4, SeqInduction
<1> QED
  BY <1>5 DEF h

LEMMA PathOfName == \A m \in Names : NamesOf(m) = <<m>>
<1> DEFINE Z == Nat \ {0, Sep}
           Q == {m \in Seq(Z) : NamesOf(m) = <<m>>}
<1>1. <<>> \in Q
  BY NamesOfSteps, EmptySeq
<1>2. ASSUME NEW m \in Seq(Z), NEW b \in Z, m \in Q PROVE Append(m, b) \in Q
  <2>1. m \in Seq(Bytes) /\ b \in Bytes /\ b # Sep /\ Append(m, b) \in Seq(Z) /\ Append(m, b) \in Seq(Bytes)
    <3>1. Z \subseteq Bytes
      BY DEF Bytes
    <3> QED
      BY <3>1, SeqMonotonic, AppendProperties
  <2>2. NamesOf(Append(m, b)) = Append(Front(<<m>>), Append(Last(<<m>>), b))
    BY <1>2, <2>1, NamesOfSteps DEF Step
  <2>3. Front(<<m>>) = <<>> /\ Last(<<m>>) = m
    BY DEF Front, Last
  <2>4. Append(<<>>, Append(m, b)) = <<Append(m, b)>>
    OBVIOUS
  <2> QED
    BY <2>1, <2>2, <2>3, <2>4
<1>3. Seq(Z) \subseteq Q
  <2> HIDE DEF Q, Z
  <2> QED
    BY <1>1, <1>2, SeqInduction
<1> QED
  BY <1>3 DEF Names

(* path_of_key takes key_of back. *)
LEMMA NamesOfKey == \A p \in Paths : p # <<>> => NamesOf(KeyOf(p)) = p
<1> DEFINE Q == {p \in Paths : p # <<>> => NamesOf(KeyOf(p)) = p}
<1>1. <<>> \in Q
  BY EmptySeq DEF Paths
<1>2. ASSUME NEW p \in Seq(Names), NEW e \in Names, p \in Q PROVE Append(p, e) \in Q
  <2>1. /\ Append(p, e) \in Paths /\ p \in Paths /\ Append(p, e) = p \o <<e>>
        /\ e \in Seq(Bytes) /\ KeyOf(p) \in Seq(Bytes)
    BY AppendProperties, AppendIsConcat, NamesAreBytes, KeyOfSteps DEF Paths
  <2>2. KeyOf(Append(p, e)) = Join(KeyOf(p), e)
    BY <2>1, KeyOfSteps
  <2>3. CASE p = <<>>
    <3>1. KeyOf(p) = <<>> /\ Append(p, e) = <<e>>
      BY <2>3, KeyOfSteps
    <3> QED
      BY <2>1, <2>2, <3>1, PathOfName DEF Join
  <2>4. CASE p # <<>>
    <3>1. KeyOf(p) # <<>>
      BY <2>1, <2>4, KeyEmpty
    <3>2. KeyOf(Append(p, e)) = (KeyOf(p) \o <<Sep>>) \o e
      BY <2>2, <3>1 DEF Join
    <3>3. NamesOf((KeyOf(p) \o <<Sep>>) \o e) = NamesOf(KeyOf(p)) \o NamesOf(e)
      BY <2>1, NamesOfConcat
    <3> QED
      BY <1>2, <2>1, <2>4, <3>2, <3>3, PathOfName
  <2> QED
    BY <2>3, <2>4
<1>3. Seq(Names) \subseteq Q
  <2> HIDE DEF Q
  <2> QED
    BY <1>1, <1>2, SeqInduction
<1> QED
  BY <1>3 DEF Paths

(* The order of keys is the order of paths.                                *)

LEMMA KeyExtend ==
  ASSUME NEW a \in Seq(Bytes), NEW b \in Seq(Bytes), b # <<>>
  PROVE  <<a, a \o b>> \in KeyOrder
<1>1. /\ a \o b \in Seq(Bytes) /\ Len(a \o b) = Len(a) + Len(b)
      /\ \A i \in 1..(Len(a) + Len(b)) : (a \o b)[i] = IF i <= Len(a) THEN a[i] ELSE b[i - Len(a)]
  BY ConcatProperties
<1>2. Len(a) \in Nat /\ Len(b) \in Nat \ {0}
  BY EmptySeq, LenProperties
<1> DEFINE c == a \o b
<1> HIDE DEF c
<1>3. LexAt(a, c, Len(a), KeyByteOrder)
  BY <1>1, <1>2 DEF LexAt, Agree, c
<1>4. \A x \in Bytes : <<x, x>> \notin KeyByteOrder
  BY KeyByteOrderIs DEF IsOrder
<1>5. Len(a) = Shared(a, c)
  BY <1>1, <1>3, <1>4, LexIff DEF c
<1>6. <<a, c>> \in LexPairs(KeyByteOrder, Bytes)
  BY <1>1, <1>3, <1>4, <1>5, LexIff DEF c
<1> QED
  BY <1>6 DEF KeyOrder, c

LEMMA KeyAt ==
  ASSUME NEW a \in Seq(Bytes), NEW b \in Seq(Bytes)
  PROVE  <<a, b>> \in KeyOrder <=> \E m \in Nat : LexAt(a, b, m, KeyByteOrder)
<1>1. \A x \in Bytes : <<x, x>> \notin KeyByteOrder
  BY KeyByteOrderIs DEF IsOrder
<1>2. /\ <<a, b>> \in KeyOrder <=> LexAt(a, b, Shared(a, b), KeyByteOrder)
      /\ \A m : LexAt(a, b, m, KeyByteOrder) => m = Shared(a, b)
  BY <1>1, LexIff DEF KeyOrder
<1>3. Shared(a, b) \in Nat
  BY SharedIs DEF Agree
<1> QED
  BY <1>2, <1>3

LEMMA KeyCancel ==
  ASSUME NEW x \in Seq(Bytes), NEW a \in Seq(Bytes), NEW b \in Seq(Bytes), <<a, b>> \in KeyOrder
  PROVE  <<x \o a, x \o b>> \in KeyOrder
<1> DEFINE u == x \o a
           v == x \o b
           k == Len(x)
<1>1. /\ u \in Seq(Bytes) /\ Len(u) = k + Len(a)
      /\ \A i \in 1..(k + Len(a)) : u[i] = IF i <= k THEN x[i] ELSE a[i - k]
  BY ConcatProperties
<1>2. /\ v \in Seq(Bytes) /\ Len(v) = k + Len(b)
      /\ \A i \in 1..(k + Len(b)) : v[i] = IF i <= k THEN x[i] ELSE b[i - k]
  BY ConcatProperties
<1>3. k \in Nat /\ Len(a) \in Nat /\ Len(b) \in Nat
  BY LenProperties
<1>4. PICK m \in Nat : LexAt(a, b, m, KeyByteOrder)
  BY KeyAt
<1> HIDE DEF u, v, k
<1>5. LexAt(u, v, k + m, KeyByteOrder)
  <2>1. m <= Len(a) /\ m <= Len(b) /\ m < Len(b) /\ \A i \in 1..m : a[i] = b[i]
    BY <1>4 DEF LexAt, Agree
  <2>2. ASSUME NEW i \in 1..(k + m) PROVE u[i] = v[i]
    <3>1. i \in 1..(k + Len(a)) /\ i \in 1..(k + Len(b))
      BY <1>3, <2>1
    <3>2. CASE i <= k
      BY <1>1, <1>2, <3>1, <3>2
    <3>3. CASE ~(i <= k)
      <4>1. i - k \in 1..m
        BY <1>3, <3>3
      <4> QED
        BY <1>1, <1>2, <2>1, <3>1, <3>3, <4>1
    <3> QED
      BY <3>2, <3>3
  <2>3. Agree(u, v, k + m)
    BY <1>1, <1>2, <1>3, <2>1, <2>2 DEF Agree
  <2>4. k + m < Len(v)
    BY <1>2, <1>3, <2>1
  <2>5. ASSUME k + m < Len(u) PROVE <<u[k + m + 1], v[k + m + 1]>> \in KeyByteOrder
    <3>1. m < Len(a) /\ k + m + 1 \in 1..(k + Len(a)) /\ k + m + 1 \in 1..(k + Len(b))
          /\ ~(k + m + 1 <= k) /\ (k + m + 1) - k = m + 1
      BY <1>1, <1>3, <2>1, <2>5
    <3>2. u[k + m + 1] = a[m + 1] /\ v[k + m + 1] = b[m + 1]
      BY <1>1, <1>2, <3>1
    <3> QED
      BY <1>4, <3>1, <3>2 DEF LexAt
  <2> QED
    BY <2>3, <2>4, <2>5 DEF LexAt
<1>6. k + m \in Nat
  BY <1>3
<1>7. <<u, v>> \in KeyOrder
  BY <1>1, <1>2, <1>5, <1>6, KeyAt
<1> QED
  BY <1>7 DEF u, v

(* After a name comes the end, or a separator. *)
Sepped(u) == u \in Seq(Bytes) /\ (u # <<>> => u[1] = Sep)

LEMMA FirstName == \A p \in Paths : p # <<>> => \E u : Sepped(u) /\ KeyOf(p) = p[1] \o u
<1> DEFINE Q == {p \in Paths : p # <<>> => \E u : Sepped(u) /\ KeyOf(p) = p[1] \o u}
<1>1. <<>> \in Q
  BY EmptySeq DEF Paths
<1>2. ASSUME NEW p \in Seq(Names), NEW e \in Names, p \in Q PROVE Append(p, e) \in Q
  <2>1. /\ Append(p, e) \in Paths /\ p \in Paths /\ e \in Seq(Bytes) /\ KeyOf(p) \in Seq(Bytes)
        /\ Len(Append(p, e)) = Len(p) + 1 /\ Len(p) \in Nat /\ Append(p, e)[Len(p) + 1] = e
        /\ \A i \in 1..Len(p) : Append(p, e)[i] = p[i]
    BY AppendProperties, NamesAreBytes, KeyOfSteps, LenProperties DEF Paths
  <2>2. KeyOf(Append(p, e)) = Join(KeyOf(p), e)
    BY <2>1, KeyOfSteps
  <2>3. CASE p = <<>>
    <3>1. KeyOf(p) = <<>> /\ Len(p) = 0 /\ Append(p, e)[1] = e
      BY <2>1, <2>3, KeyOfSteps
    <3>2. KeyOf(Append(p, e)) = e \o <<>> /\ Sepped(<<>>)
      BY <2>1, <2>2, <3>1, ConcatEmptySeq, EmptySeq DEF Join, Sepped
    <3> QED
      BY <2>1, <3>1, <3>2
  <2>4. CASE p # <<>>
    <3>1. Len(p) # 0 /\ Append(p, e)[1] = p[1] /\ p[1] \in Seq(Bytes)
      <4>1. Len(p) # 0
        BY <2>4, EmptySeq
      <4>2. 1 \in 1..Len(p)
        BY <2>1, <4>1
      <4> QED
        BY <2>1, <4>1, <4>2, ElementOfSeq, NamesAreBytes
    <3>2. PICK u : Sepped(u) /\ KeyOf(p) = p[1] \o u
      BY <1>2, <2>4
    <3>3. KeyOf(Append(p, e)) = ((p[1] \o u) \o <<Sep>>) \o e
      BY <2>1, <2>2, <2>4, <3>2, KeyEmpty DEF Join
    <3>4. u \in Seq(Bytes)
      BY <3>2 DEF Sepped
    <3>9. \A a, b, c \in Seq(Bytes) : a \o b \in Seq(Bytes) /\ (a \o b) \o c = a \o (b \o c)
      BY ConcatProperties, ConcatAssociative
    <3>5. u \o <<Sep>> \in Seq(Bytes) /\ (p[1] \o u) \o <<Sep>> = p[1] \o (u \o <<Sep>>)
      BY <3>9, <3>1, <3>4, SepFacts
    <3>6. (u \o <<Sep>>) \o e \in Seq(Bytes) /\ (p[1] \o (u \o <<Sep>>)) \o e = p[1] \o ((u \o <<Sep>>) \o e)
      <4> DEFINE w == u \o <<Sep>>
      <4>1. w \in Seq(Bytes)
        BY <3>5
      <4> HIDE DEF w
      <4>2. w \o e \in Seq(Bytes) /\ (p[1] \o w) \o e = p[1] \o (w \o e)
        <5>1. p[1] \in Seq(Bytes) /\ e \in Seq(Bytes)
          BY <2>1, <3>1
        <5> QED
          BY <3>9, <4>1, <5>1, ZenonT(30)
      <4> QED
        BY <4>2 DEF w
    <3>7. ((u \o <<Sep>>) \o e)[1] = Sep
      <4>1. Len(u) \in Nat /\ Len(e) \in Nat /\ (u # <<>> => Len(u) # 0)
        BY <2>1, <3>4, EmptySeq, LenProperties
      <4>2. /\ Len(u \o <<Sep>>) = Len(u) + 1
            /\ \A i \in 1..(Len(u) + 1) : (u \o <<Sep>>)[i] = IF i <= Len(u) THEN u[i] ELSE <<Sep>>[i - Len(u)]
        BY <3>4, SepFacts, ConcatProperties
      <4>3. (u \o <<Sep>>)[1] = Sep
        <5>1. CASE u = <<>>
          <6>1. Len(u) = 0
            BY <5>1
          <6>2. 1 \in 1..(Len(u) + 1) /\ ~(1 <= Len(u)) /\ 1 - Len(u) = 1
            BY <6>1
          <6>3. (u \o <<Sep>>)[1] = <<Sep>>[1]
            BY <4>2, <6>2
          <6> QED
            BY <6>3
        <5>2. CASE u # <<>>
          <6>1. 1 \in 1..(Len(u) + 1) /\ 1 <= Len(u)
            BY <4>1, <5>2
          <6> QED
            BY <3>2, <4>2, <5>2, <6>1 DEF Sepped
        <5> QED
          BY <5>1, <5>2
      <4> DEFINE w == u \o <<Sep>>
      <4>4. w \in Seq(Bytes) /\ Len(w) = Len(u) + 1 /\ w[1] = Sep
        BY <3>5, <4>2, <4>3
      <4> HIDE DEF w
      <4>5. \A i \in 1..(Len(w) + Len(e)) : (w \o e)[i] = IF i <= Len(w) THEN w[i] ELSE e[i - Len(w)]
        BY <2>1, <4>4, ConcatProperties
      <4>6. 1 \in 1..(Len(w) + Len(e)) /\ 1 <= Len(w)
        BY <4>1, <4>4
      <4>7. (w \o e)[1] = Sep
        BY <4>4, <4>5, <4>6
      <4> QED
        BY <4>7 DEF w
    <3>8. Sepped((u \o <<Sep>>) \o e) /\ KeyOf(Append(p, e)) = Append(p, e)[1] \o ((u \o <<Sep>>) \o e)
      BY <3>1, <3>3, <3>5, <3>6, <3>7 DEF Sepped
    <3> QED
      BY <2>1, <3>8
  <2> QED
    BY <2>3, <2>4
<1>3. Seq(Names) \subseteq Q
  <2> HIDE DEF Q
  <2> QED
    BY <1>1, <1>2, SeqInduction
<1> QED
  BY <1>3 DEF Paths

(* Names in order keep their order whatever follows them. *)
LEMMA NamesInOrder ==
  ASSUME NEW m \in Names, NEW l \in Names, <<m, l>> \in NameOrder, NEW u, NEW v, Sepped(u), Sepped(v)
  PROVE  <<m \o u, l \o v>> \in KeyOrder
<1> DEFINE i == Shared(m, l)
           a == m \o u
           b == l \o v
<1>1. /\ m \in Seq(Nat) /\ l \in Seq(Nat) /\ m \in Seq(Bytes) /\ l \in Seq(Bytes)
      /\ u \in Seq(Bytes) /\ v \in Seq(Bytes)
  BY NamesAreBytes DEF Sepped
<1>2. /\ Len(m) \in Nat /\ Len(l) \in Nat /\ Len(u) \in Nat /\ Len(v) \in Nat
      /\ (\A k \in 1..Len(m) : m[k] \in Bytes /\ m[k] # Sep)
      /\ (\A k \in 1..Len(l) : l[k] \in Bytes /\ l[k] # Sep)
  BY <1>1, LenProperties, NamesAreBytes
<1>3. LexAt(m, l, i, ByteOrder)
  <2>1. \A x \in Nat : <<x, x>> \notin ByteOrder
    BY DEF ByteOrder
  <2> QED
    BY <1>1, <2>1, LexIff DEF NameOrder
<1>4. /\ a \in Seq(Bytes) /\ Len(a) = Len(m) + Len(u)
      /\ \A k \in 1..(Len(m) + Len(u)) : a[k] = IF k <= Len(m) THEN m[k] ELSE u[k - Len(m)]
  BY <1>1, ConcatProperties
<1>5. /\ b \in Seq(Bytes) /\ Len(b) = Len(l) + Len(v)
      /\ \A k \in 1..(Len(l) + Len(v)) : b[k] = IF k <= Len(l) THEN l[k] ELSE v[k - Len(l)]
  BY <1>1, ConcatProperties
<1> HIDE DEF i, a, b
<1>6. /\ i \in Nat /\ i <= Len(m) /\ i < Len(l) /\ \A k \in 1..i : m[k] = l[k]
      /\ (i < Len(m) => <<m[i + 1], l[i + 1]>> \in ByteOrder)
  BY <1>3 DEF LexAt, Agree
<1>7. \A k \in 1..i : a[k] = b[k]
  <2> SUFFICES ASSUME NEW k \in 1..i PROVE a[k] = b[k]
    OBVIOUS
  <2>1. k \in 1..(Len(m) + Len(u)) /\ k \in 1..(Len(l) + Len(v)) /\ k <= Len(m) /\ k <= Len(l)
    BY <1>2, <1>6
  <2> QED
    BY <1>4, <1>5, <1>6, <2>1
<1>8. b[i + 1] = l[i + 1] /\ l[i + 1] \in Bytes /\ l[i + 1] # Sep
  <2>1. i + 1 \in 1..Len(l) /\ i + 1 \in 1..(Len(l) + Len(v)) /\ i + 1 <= Len(l)
    BY <1>2, <1>6
  <2> QED
    BY <1>2, <1>5, <2>1
<1>9. ASSUME i < Len(a) PROVE <<a[i + 1], b[i + 1]>> \in KeyByteOrder
  <2>1. i + 1 \in 1..(Len(m) + Len(u))
    BY <1>2, <1>4, <1>6, <1>9
  <2>2. CASE i < Len(m)
    <3>1. i + 1 \in 1..Len(m) /\ i + 1 <= Len(m)
      BY <1>2, <1>6, <2>2
    <3>2. a[i + 1] = m[i + 1] /\ m[i + 1] \in Bytes /\ m[i + 1] # Sep
      BY <1>2, <1>4, <2>1, <3>1
    <3>3. m[i + 1] < l[i + 1]
      BY <1>6, <2>2 DEF ByteOrder
    <3> QED
      BY <1>8, <3>2, <3>3 DEF KeyByteOrder, KeyCode
  <2>3. CASE ~(i < Len(m))
    <3>1. i = Len(m) /\ ~(i + 1 <= Len(m)) /\ (i + 1) - Len(m) = 1
      BY <1>2, <1>6, <2>3
    <3>2. u # <<>>
      <4>1. Len(u) # 0
        BY <1>2, <2>1, <3>1
      <4> QED
        BY <4>1
    <3>3. a[i + 1] = Sep
      BY <1>4, <2>1, <3>1, <3>2 DEF Sepped
    <3>4. KeyCode(Sep) = 0 /\ KeyCode(b[i + 1]) > 0
      BY <1>8 DEF KeyCode, Bytes
    <3> QED
      BY <1>8, <3>3, <3>4, SepFacts DEF KeyByteOrder
  <2> QED
    BY <2>2, <2>3
<1>10. LexAt(a, b, i, KeyByteOrder)
  <2>1. i <= Len(a) /\ i <= Len(b) /\ i < Len(b)
    BY <1>2, <1>4, <1>5, <1>6
  <2> QED
    BY <1>6, <1>7, <1>9, <2>1 DEF LexAt, Agree
<1>11. <<a, b>> \in KeyOrder
  BY <1>4, <1>5, <1>6, <1>10, KeyAt
<1> QED
  BY <1>11 DEF a, b

(* A sequence is its first i elements and the rest. *)
LEMMA Cut ==
  ASSUME NEW S, NEW p \in Seq(S), NEW i \in 0..Len(p)
  PROVE  /\ SubSeq(p, 1, i) \in Seq(S) /\ SubSeq(p, i + 1, Len(p)) \in Seq(S)
         /\ Len(SubSeq(p, 1, i)) = i /\ Len(SubSeq(p, i + 1, Len(p))) = Len(p) - i
         /\ p = SubSeq(p, 1, i) \o SubSeq(p, i + 1, Len(p))
         /\ \A k \in 1..(Len(p) - i) : SubSeq(p, i + 1, Len(p))[k] = p[i + k]
<1>1. Len(p) \in Nat /\ i \in Nat /\ i <= Len(p)
  BY LenProperties
<1>2. SubSeq(p, 1, i) \in Seq(S) /\ Len(SubSeq(p, 1, i)) = i
  BY FirstOfSeq
<1>3. /\ SubSeq(p, i + 1, Len(p)) \in Seq(S)
      /\ Len(SubSeq(p, i + 1, Len(p))) = (IF i + 1 <= Len(p) THEN Len(p) - (i + 1) + 1 ELSE 0)
      /\ \A k \in 1..(Len(p) - (i + 1) + 1) : SubSeq(p, i + 1, Len(p))[k] = p[(i + 1) + k - 1]
  <2>1. i + 1 \in Int /\ Len(p) \in Int
    BY <1>1
  <2>2. \A k \in (i + 1)..Len(p) : p[k] \in S
    BY <1>1, ElementOfSeq
  <2> QED
    BY <2>1, <2>2, SubSeqProperties
<1>4. SubSeq(p, 1, i) \o SubSeq(p, i + 1, Len(p)) = SubSeq(p, 1, Len(p))
  <2>1. 1 \in 1..(Len(p) + 1) /\ i \in (1 - 1)..Len(p) /\ Len(p) \in i..Len(p)
    BY <1>1
  <2> QED
    BY <2>1, ConcatAdjacentSubSeq
<1>5. SubSeq(p, 1, Len(p)) = p
  BY SubSeqFull
<1>6. Len(SubSeq(p, i + 1, Len(p))) = Len(p) - i
  BY <1>1, <1>3
<1>7. \A k \in 1..(Len(p) - i) : SubSeq(p, i + 1, Len(p))[k] = p[i + k]
  BY <1>1, <1>3
<1> QED
  BY <1>2, <1>3, <1>4, <1>5, <1>6, <1>7

LEMMA SeqJoins == \A a, b, c \in Seq(Bytes) : a \o b \in Seq(Bytes) /\ (a \o b) \o c = a \o (b \o c)
BY ConcatProperties, ConcatAssociative

(* Paths that differ in their first name. *)
LEMMA KeysApart ==
  ASSUME NEW p \in Paths, NEW q \in Paths, q # <<>>, p = <<>> \/ <<p[1], q[1]>> \in NameOrder
  PROVE  <<KeyOf(p), KeyOf(q)>> \in KeyOrder
<1>1. KeyOf(q) \in Seq(Bytes) /\ KeyOf(q) # <<>>
  BY KeyOfSteps, KeyEmpty
<1>2. CASE p = <<>>
  <2>1. KeyOf(p) = <<>> /\ <<>> \in Seq(Bytes) /\ <<>> \o KeyOf(q) = KeyOf(q)
    BY <1>1, <1>2, KeyOfSteps, EmptySeq, ConcatEmptySeq
  <2>2. <<<<>>, <<>> \o KeyOf(q)>> \in KeyOrder
    BY <1>1, <2>1, KeyExtend
  <2> QED
    BY <2>1, <2>2
<1>3. CASE p # <<>>
  <2>1. p[1] \in Names /\ q[1] \in Names
    <3>1. Len(p) \in Nat \ {0} /\ Len(q) \in Nat \ {0}
      BY <1>3, EmptySeq DEF Paths
    <3>2. 1 \in 1..Len(p) /\ 1 \in 1..Len(q)
      BY <3>1
    <3> QED
      BY <3>2, ElementOfSeq DEF Paths
  <2>2. PICK u : Sepped(u) /\ KeyOf(p) = p[1] \o u
    BY <1>3, FirstName
  <2>3. PICK v : Sepped(v) /\ KeyOf(q) = q[1] \o v
    BY FirstName
  <2>4. <<p[1], q[1]>> \in NameOrder
    BY <1>3
  <2>5. <<p[1] \o u, q[1] \o v>> \in KeyOrder
    BY <2>1, <2>2, <2>3, <2>4, NamesInOrder
  <2> QED
    BY <2>2, <2>3, <2>5
<1> QED
  BY <1>2, <1>3

LEMMA KeyMonotone ==
  ASSUME NEW p \in Paths, NEW q \in Paths, <<p, q>> \in PathOrder
  PROVE  <<KeyOf(p), KeyOf(q)>> \in KeyOrder
<1> DEFINE i == Shared(p, q)
           c == SubSeq(p, 1, i)
           y == SubSeq(p, i + 1, Len(p))
           z == SubSeq(q, i + 1, Len(q))
<1>1. LexAt(p, q, i, NameOrder)
  <2>1. \A x \in Names : <<x, x>> \notin NameOrder
    BY NameOrderIs DEF IsOrder
  <2> QED
    BY <2>1, LexIff DEF PathOrder, Paths
<1>2. /\ i \in Nat /\ i <= Len(p) /\ i <= Len(q) /\ i < Len(q) /\ Agree(p, q, i)
      /\ (i < Len(p) => <<p[i + 1], q[i + 1]>> \in NameOrder)
  BY <1>1 DEF LexAt, Agree
<1>3. Len(p) \in Nat /\ Len(q) \in Nat /\ i \in 0..Len(p) /\ i \in 0..Len(q)
  BY <1>2, LenProperties DEF Paths
<1>4. c = SubSeq(q, 1, i)
  BY <1>2, AgreeIff DEF Paths
<1> HIDE DEF i
<1>5. /\ c \in Paths /\ y \in Paths /\ Len(y) = Len(p) - i /\ p = c \o y
      /\ \A k \in 1..(Len(p) - i) : y[k] = p[i + k]
  BY <1>3, Cut DEF Paths
<1>6. /\ z \in Paths /\ Len(z) = Len(q) - i /\ q = c \o z
      /\ \A k \in 1..(Len(q) - i) : z[k] = q[i + k]
  BY <1>3, <1>4, Cut DEF Paths
<1> HIDE DEF c, y, z
<1>7. z # <<>>
  <2>1. Len(z) # 0
    BY <1>2, <1>3, <1>6
  <2> QED
    BY <2>1
<1>8. y = <<>> \/ <<y[1], z[1]>> \in NameOrder
  <2>1. CASE i < Len(p)
    <3>1. 1 \in 1..(Len(p) - i) /\ 1 \in 1..(Len(q) - i)
      BY <1>2, <1>3, <2>1
    <3>2. y[1] = p[i + 1] /\ z[1] = q[i + 1]
      BY <1>5, <1>6, <3>1
    <3> QED
      BY <1>2, <2>1, <3>2
  <2>2. CASE ~(i < Len(p))
    <3>1. Len(y) = 0
      BY <1>2, <1>3, <1>5, <2>2
    <3> QED
      BY <1>5, <3>1, EmptySeq DEF Paths
  <2> QED
    BY <2>1, <2>2
<1>9. <<KeyOf(y), KeyOf(z)>> \in KeyOrder
  BY <1>5, <1>6, <1>7, <1>8, KeysApart
<1>10. CASE c = <<>>
  <2>1. p = y /\ q = z
    BY <1>5, <1>6, <1>10, ConcatEmptySeq DEF Paths
  <2> QED
    BY <1>9, <2>1
<1>11. CASE c # <<>>
  <2> DEFINE x == KeyOf(c) \o <<Sep>>
  <2>1. KeyOf(c) \in Seq(Bytes) /\ KeyOf(y) \in Seq(Bytes) /\ KeyOf(z) \in Seq(Bytes) /\ <<Sep>> \in Seq(Bytes)
    BY <1>5, <1>6, KeyOfSteps, SepFacts
  <2>2. KeyOf(q) = x \o KeyOf(z) /\ x \in Seq(Bytes)
    BY <1>5, <1>6, <1>7, <1>11, <2>1, KeyConcat, SeqJoins
  <2>3. CASE y = <<>>
    <3>1. p = c
      BY <1>5, <2>3, ConcatEmptySeq DEF Paths
    <3>2. KeyOf(q) = KeyOf(c) \o (<<Sep>> \o KeyOf(z)) /\ <<Sep>> \o KeyOf(z) \in Seq(Bytes)
      BY <2>1, <2>2, SeqJoins
    <3>3. <<Sep>> \o KeyOf(z) # <<>>
      BY <2>1, ConcatEqualIffEmpty
    <3>4. <<KeyOf(c), KeyOf(c) \o (<<Sep>> \o KeyOf(z))>> \in KeyOrder
      BY <2>1, <3>2, <3>3, KeyExtend
    <3> QED
      BY <3>1, <3>2, <3>4
  <2>4. CASE y # <<>>
    <3>1. KeyOf(p) = x \o KeyOf(y)
      BY <1>5, <1>11, <2>4, KeyConcat
    <3> HIDE DEF x
    <3>2. <<x \o KeyOf(y), x \o KeyOf(z)>> \in KeyOrder
      BY <1>9, <2>1, <2>2, KeyCancel
    <3> QED
      BY <2>2, <3>1, <3>2
  <2> QED
    BY <2>3, <2>4
<1> QED
  BY <1>10, <1>11

(* The order of the keys (cmp_key) is that of the paths, name by name.     *)
THEOREM KeysOrdered ==
  \A p, q \in Paths :
    /\ KeyBefore(KeyOf(p), KeyOf(q)) <=> <<p, q>> \in PathOrder
    /\ KeyOf(p) = KeyOf(q) => p = q
<1> SUFFICES ASSUME NEW p \in Paths, NEW q \in Paths
             PROVE  /\ KeyBefore(KeyOf(p), KeyOf(q)) <=> <<p, q>> \in PathOrder
                    /\ KeyOf(p) = KeyOf(q) => p = q
  OBVIOUS
<1>1. KeyOf(p) \in Seq(Bytes) /\ KeyOf(q) \in Seq(Bytes)
  BY KeyOfSteps
<1>2. KeyBefore(KeyOf(p), KeyOf(q)) <=> <<KeyOf(p), KeyOf(q)>> \in KeyOrder
  BY <1>1, KeyBeforeIs
<1>3. p = q \/ <<p, q>> \in PathOrder \/ <<q, p>> \in PathOrder
  BY PathOrderIs DEF IsOrder
<1>4. /\ <<KeyOf(p), KeyOf(p)>> \notin KeyOrder /\ <<KeyOf(q), KeyOf(q)>> \notin KeyOrder
      /\ <<KeyOf(p), KeyOf(q)>> \in KeyOrder /\ <<KeyOf(q), KeyOf(p)>> \in KeyOrder
           => <<KeyOf(p), KeyOf(p)>> \in KeyOrder
  BY <1>1, KeyOrderIs DEF IsOrder
<1>5. /\ <<p, q>> \in PathOrder => <<KeyOf(p), KeyOf(q)>> \in KeyOrder
      /\ <<q, p>> \in PathOrder => <<KeyOf(q), KeyOf(p)>> \in KeyOrder
  BY KeyMonotone
<1> QED
  BY <1>2, <1>3, <1>4, <1>5

-----------------------------------------------------------------------------
(***************************************************************************)
(* Paths as sequences.                                                     *)
(***************************************************************************)

LEMMA PrefixByElement ==
  ASSUME NEW S, NEW s \in Seq(S), NEW t \in Seq(S)
  PROVE  IsPrefix(s, t) <=> Len(s) <= Len(t) /\ \A i \in 1..Len(s) : s[i] = t[i]
<1>1. /\ Len(s) \in Nat /\ Len(t) \in Nat
      /\ \A i \in 1..Len(s) : s[i] \in S
      /\ \A i \in 1..Len(t) : t[i] \in S
  BY LenProperties, ElementOfSeq
<1>2. /\ SubSeq(s, 1, Len(s)) \in Seq(S) /\ Len(SubSeq(s, 1, Len(s))) = Len(s)
      /\ \A i \in 1..Len(s) : SubSeq(s, 1, Len(s))[i] = s[i]
  BY <1>1, SubSeqProperties
<1>3. ASSUME Len(s) <= Len(t)
      PROVE  /\ SubSeq(t, 1, Len(s)) \in Seq(S) /\ Len(SubSeq(t, 1, Len(s))) = Len(s)
             /\ \A i \in 1..Len(s) : SubSeq(t, 1, Len(s))[i] = t[i]
  BY <1>1, <1>3, SubSeqProperties
<1>4. ASSUME Len(s) <= Len(t), \A i \in 1..Len(s) : s[i] = t[i]
      PROVE  SubSeq(s, 1, Len(s)) = SubSeq(t, 1, Len(s))
  BY <1>2, <1>3, <1>4, SeqEqual
<1> QED
  BY <1>2, <1>3, <1>4 DEF IsPrefix

LEMMA FrontByElement ==
  ASSUME NEW S, NEW s \in Seq(S), s # <<>>
  PROVE  /\ Front(s) \in Seq(S) /\ Len(Front(s)) = Len(s) - 1 /\ Len(s) \in Nat \ {0}
         /\ \A i \in 1..(Len(s) - 1) : Front(s)[i] = s[i]
<1>1. Len(s) \in Nat \ {0} /\ \A i \in 1..Len(s) : s[i] \in S
  BY LenProperties, ElementOfSeq, EmptySeq
<1> DEFINE m == Len(s) - 1
<1>2. m \in Nat /\ 1 \in Int /\ m \in Int /\ \A i \in 1..m : s[i] \in S
  BY <1>1
<1>3. Front(s) = SubSeq(s, 1, m)
  BY DEF Front
<1> HIDE DEF m
<1>4. /\ SubSeq(s, 1, m) \in Seq(S)
      /\ Len(SubSeq(s, 1, m)) = IF 1 <= m THEN m - 1 + 1 ELSE 0
      /\ \A i \in 1..m - 1 + 1 : SubSeq(s, 1, m)[i] = s[1 + i - 1]
  BY <1>2, SubSeqProperties
<1>5. Len(SubSeq(s, 1, m)) = m /\ \A i \in 1..m : SubSeq(s, 1, m)[i] = s[i]
  BY <1>2, <1>4
<1> QED
  BY <1>1, <1>3, <1>4, <1>5 DEF m

LEMMA PrefixOrder ==
  ASSUME NEW S, NEW s \in Seq(S), NEW t \in Seq(S)
  PROVE  /\ IsPrefix(s, s)
         /\ IsPrefix(s, t) /\ IsPrefix(t, s) => s = t
         /\ \A u \in Seq(S) : IsPrefix(s, t) /\ IsPrefix(t, u) => IsPrefix(s, u)
<1>1. Len(s) \in Nat /\ Len(t) \in Nat
  BY LenProperties
<1>2. IsPrefix(s, t) /\ IsPrefix(t, s) => s = t
  BY <1>1, PrefixByElement, SeqEqual
<1>3. ASSUME NEW u \in Seq(S), IsPrefix(s, t), IsPrefix(t, u) PROVE IsPrefix(s, u)
  <2>1. Len(u) \in Nat
    BY LenProperties
  <2> QED
    BY <1>1, <1>3, <2>1, PrefixByElement
<1> QED
  BY <1>1, <1>2, <1>3, PrefixByElement

(* What is in an item is below it, and what is below it and is not it is   *)
(* in something that is below it.                                          *)
LEMMA PrefixOfFront ==
  ASSUME NEW S, NEW s \in Seq(S), NEW t \in Seq(S), t # <<>>
  PROVE  /\ IsPrefix(Front(t), t) /\ Front(t) # t
         /\ IsPrefix(s, Front(t)) => IsPrefix(s, t)
         /\ IsPrefix(s, t) /\ s # t => IsPrefix(s, Front(t))
<1>1. /\ Front(t) \in Seq(S) /\ Len(Front(t)) = Len(t) - 1 /\ Len(t) \in Nat \ {0}
      /\ \A i \in 1..(Len(t) - 1) : Front(t)[i] = t[i]
  BY FrontByElement
<1>2. Len(s) \in Nat
  BY LenProperties
<1>3. IsPrefix(Front(t), t) /\ Front(t) # t
  <2>1. Len(Front(t)) <= Len(t) /\ Len(Front(t)) # Len(t)
    BY <1>1
  <2>2. \A i \in 1..Len(Front(t)) : Front(t)[i] = t[i]
    BY <1>1
  <2> QED
    BY <1>1, <2>1, <2>2, PrefixByElement
<1>4. IsPrefix(s, Front(t)) => IsPrefix(s, t)
  BY <1>1, <1>3, PrefixOrder
<1>5. ASSUME IsPrefix(s, t), s # t PROVE IsPrefix(s, Front(t))
  <2>1. Len(s) <= Len(t) /\ \A i \in 1..Len(s) : s[i] = t[i]
    BY <1>5, PrefixByElement
  <2>2. Len(s) # Len(t)
    BY <1>1, <1>5, <2>1, SeqEqual
  <2>3. Len(s) <= Len(Front(t)) /\ \A i \in 1..Len(s) : i \in 1..(Len(t) - 1)
    BY <1>1, <1>2, <2>1, <2>2
  <2>4. \A i \in 1..Len(s) : s[i] = Front(t)[i]
    BY <1>1, <2>1, <2>3
  <2> QED
    BY <1>1, <2>3, <2>4, PrefixByElement
<1> QED
  BY <1>3, <1>4, <1>5

(* Of some paths one is a shortest, and of finitely many a longest. *)
LEMMA Shortest ==
  ASSUME NEW S, NEW T \in SUBSET Seq(S), T # {}
  PROVE  \E q \in T : \A x \in T : Len(q) <= Len(x)
<1> DEFINE L == {Len(q) : q \in T}
<1>1. L \in SUBSET Nat /\ L # {}
  <2>1. \A q \in T : Len(q) \in Nat
    BY LenProperties
  <2> QED
    BY <2>1
<1>2. PICK m \in L : \A x \in L : m <= x
  <2> HIDE DEF L
  <2> QED
    BY <1>1, LeastNat
<1> QED
  BY <1>2

LEMMA Longest ==
  ASSUME NEW S, NEW T \in SUBSET Seq(S), IsFiniteSet(T), T # {}
  PROVE  \E q \in T : \A x \in T : Len(x) <= Len(q)
<1> DEFINE P == {s \in SUBSET T : s = {} \/ \E q \in s : \A x \in s : Len(x) <= Len(q)}
<1>1. ASSUME \E s \in SUBSET T : s \notin P PROVE FALSE
  <2>1. PICK s \in SUBSET T : s \notin P /\ \A t \in SUBSET T : Cardinality(t) < Cardinality(s) => t \in P
    <3>1. \A Q : (\E s \in SUBSET T : s \notin Q) =>
                    \E s \in SUBSET T : /\ s \notin Q
                                        /\ \A t \in SUBSET T : Cardinality(t) < Cardinality(s) => t \in Q
      BY SmallestSet
    <3> HIDE DEF P
    <3> QED
      BY <1>1, <3>1
  <2>2. s # {} /\ IsFiniteSet(s)
    BY <2>1, FS_Subset
  <2> DEFINE y == Pick(s)
             r == s \ {y}
  <2>3. y \in s /\ r \in SUBSET T /\ Cardinality(r) < Cardinality(s)
    <3>1. /\ Pick(s) \in s /\ Cardinality(s) \in Nat
          /\ Cardinality(s \ {Pick(s)}) = Cardinality(s) - 1
      BY <2>2, PickFacts
    <3> QED
      BY <3>1
  <2>4. \A x \in s : Len(x) \in Nat
    BY LenProperties
  <2>5. r = {} \/ \E q \in r : \A x \in r : Len(x) <= Len(q)
    BY <2>1, <2>3
  <2> HIDE DEF y
  <2>6. \E q \in s : \A x \in s : Len(x) <= Len(q)
    <3>1. CASE r = {}
      BY <2>3, <2>4, <3>1
    <3>2. CASE \E q \in r : \A x \in r : Len(x) <= Len(q)
      <4>1. PICK q \in r : \A x \in r : Len(x) <= Len(q)
        BY <3>2
      <4>2. CASE Len(y) <= Len(q)
        BY <4>1, <4>2
      <4>3. CASE ~(Len(y) <= Len(q))
        <5>1. \A x \in r : Len(x) <= Len(y)
          BY <2>3, <2>4, <4>1, <4>3
        <5> QED
          BY <2>3, <2>4, <5>1
      <4> QED
        BY <4>2, <4>3
    <3> QED
      BY <2>5, <3>1, <3>2
  <2> QED
    BY <2>1, <2>6
<1> QED
  BY <1>1

(* A path below another is the other with a rest. *)
LEMMA BelowIs ==
  ASSUME NEW S, NEW s \in Seq(S), NEW r \in Seq(S), r # <<>>
  PROVE  /\ IsStrictPrefix(s, s \o r)
         /\ Front(s \o r) = s <=> Len(r) = 1
         /\ (s \o r)[Len(s) + 1] = r[1] /\ SubSeq(s \o r, Len(s) + 1, Len(s \o r)) = r
<1> DEFINE p == s \o r
<1>1. /\ p \in Seq(S) /\ Len(p) = Len(s) + Len(r) /\ Len(s) \in Nat /\ Len(r) \in Nat \ {0}
      /\ \A i \in 1..(Len(s) + Len(r)) : p[i] = IF i <= Len(s) THEN s[i] ELSE r[i - Len(s)]
  BY ConcatProperties, LenProperties, EmptySeq
<1> HIDE DEF p
<1>2. IsStrictPrefix(s, p)
  <2>1. Len(s) <= Len(p) /\ Len(s) # Len(p)
    BY <1>1
  <2>2. \A i \in 1..Len(s) : i \in 1..(Len(s) + Len(r)) /\ i <= Len(s)
    BY <1>1
  <2>3. \A i \in 1..Len(s) : s[i] = p[i]
    BY <1>1, <2>2
  <2> QED
    BY <1>1, <2>1, <2>3, PrefixByElement DEF IsStrictPrefix
<1>3. p[Len(s) + 1] = r[1]
  <2>1. Len(s) + 1 \in 1..(Len(s) + Len(r)) /\ ~(Len(s) + 1 <= Len(s)) /\ (Len(s) + 1) - Len(s) = 1
    BY <1>1
  <2> QED
    BY <1>1, <2>1
<1>4. SubSeq(p, Len(s) + 1, Len(p)) = r
  <2>1. /\ Len(s) \in 0..Len(p) /\ Len(p) - Len(s) = Len(r)
        /\ \A k \in 1..Len(r) : Len(s) + k \in 1..(Len(s) + Len(r)) /\ ~(Len(s) + k <= Len(s))
                                /\ (Len(s) + k) - Len(s) = k
    BY <1>1
  <2>2. /\ SubSeq(p, Len(s) + 1, Len(p)) \in Seq(S) /\ Len(SubSeq(p, Len(s) + 1, Len(p))) = Len(r)
        /\ \A k \in 1..Len(r) : SubSeq(p, Len(s) + 1, Len(p))[k] = p[Len(s) + k]
    <3>1. /\ SubSeq(p, Len(s) + 1, Len(p)) \in Seq(S) /\ Len(SubSeq(p, Len(s) + 1, Len(p))) = Len(p) - Len(s)
          /\ \A k \in 1..(Len(p) - Len(s)) : SubSeq(p, Len(s) + 1, Len(p))[k] = p[Len(s) + k]
      BY <1>1, <2>1, Cut
    <3> QED
      BY <2>1, <3>1
  <2>3. \A k \in 1..Len(r) : p[Len(s) + k] = r[k]
    BY <1>1, <2>1
  <2> QED
    BY <2>2, <2>3, SeqEqual
<1>5. Front(p) = s <=> Len(r) = 1
  <2>1. p # <<>>
    <3>1. Len(p) # 0
      BY <1>1
    <3> QED
      BY <3>1
  <2>2. Front(p) \in Seq(S) /\ Len(Front(p)) = Len(p) - 1 /\ \A i \in 1..(Len(p) - 1) : Front(p)[i] = p[i]
    BY <1>1, <2>1, FrontByElement
  <2>3. ASSUME Len(r) = 1 PROVE Front(p) = s
    <3>1. Len(Front(p)) = Len(s) /\ Len(p) - 1 = Len(s)
      BY <1>1, <2>2, <2>3
    <3>2. \A i \in 1..Len(s) : i \in 1..(Len(s) + Len(r)) /\ i <= Len(s)
      BY <1>1
    <3>3. \A i \in 1..Len(s) : Front(p)[i] = s[i]
      BY <1>1, <2>2, <3>1, <3>2
    <3> QED
      BY <2>2, <3>1, <3>3, SeqEqual
  <2>4. ASSUME Front(p) = s PROVE Len(r) = 1
    <3>1. Len(s) = Len(p) - 1
      BY <2>2, <2>4
    <3>2. p \in Seq(S) /\ Len(p) \in Nat /\ Len(s) \in Nat /\ Len(r) \in Nat /\ Len(p) = Len(s) + Len(r)
      BY <1>1
    <3>3. \A x, y, z \in Nat : x = z - 1 /\ z = x + y => y = 1
      OBVIOUS
    <3> QED
      BY <3>1, <3>2, <3>3
  <2> QED
    BY <2>3, <2>4
<1> QED
  BY <1>2, <1>3, <1>4, <1>5 DEF p

LEMMA BelowHasRest ==
  ASSUME NEW S, NEW s \in Seq(S), NEW p \in Seq(S), IsStrictPrefix(s, p)
  PROVE  \E r \in Seq(S) : r # <<>> /\ p = s \o r
<1>1. Len(s) <= Len(p) /\ s # p /\ \A i \in 1..Len(s) : s[i] = p[i]
  BY PrefixByElement DEF IsStrictPrefix
<1>2. Len(s) \in Nat /\ Len(p) \in Nat
  BY LenProperties
<1>3. Len(s) # Len(p)
  BY <1>1, SeqEqual
<1> DEFINE r == SubSeq(p, Len(s) + 1, Len(p))
<1>4. /\ SubSeq(p, 1, Len(s)) \in Seq(S) /\ Len(SubSeq(p, 1, Len(s))) = Len(s)
      /\ r \in Seq(S) /\ Len(r) = Len(p) - Len(s) /\ p = SubSeq(p, 1, Len(s)) \o r
  <2>1. Len(s) \in 0..Len(p)
    BY <1>1, <1>2
  <2> QED
    BY ZenonT(40), <2>1, Cut
<1>5. SubSeq(p, 1, Len(s)) = s
  BY SubSeqFull DEF IsStrictPrefix, IsPrefix
<1>6. r # <<>>
  <2> HIDE DEF r
  <2>1. Len(r) # 0
    BY <1>1, <1>2, <1>3, <1>4
  <2> QED
    BY <2>1
<1> QED
  BY <1>4, <1>5, <1>6

(* A key has a separator when the path has more than one name. *)
LEMMA KeyHasSep ==
  ASSUME NEW p \in Paths, p # <<>>
  PROVE  Sep \in Range(KeyOf(p)) <=> Len(p) # 1
<1>1. Len(p) \in Nat \ {0}
  BY EmptySeq DEF Paths
<1>2. PICK s \in Paths, e \in Names : p = Append(s, e)
  BY SequenceEmptyOrAppend DEF Paths
<1>3. Len(p) = Len(s) + 1 /\ Len(s) \in Nat /\ KeyOf(p) = Join(KeyOf(s), e) /\ e \in Seq(Bytes)
      /\ KeyOf(s) \in Seq(Bytes)
  BY <1>2, AppendProperties, LenProperties, KeyOfSteps, NamesAreBytes DEF Paths
<1>4. CASE s = <<>>
  <2>1. KeyOf(p) = e /\ Len(p) = 1
    BY <1>3, <1>4, KeyOfSteps DEF Join
  <2>2. \A i \in 1..Len(e) : e[i] # Sep
    BY <1>2, NamesAreBytes
  <2>3. DOMAIN e = 1..Len(e)
    BY <1>3, LenProperties
  <2> QED
    BY <2>1, <2>2, <2>3 DEF Range
<1>5. CASE s # <<>>
  <2>1. Len(s) # 0
    BY <1>5, EmptySeq DEF Paths
  <2> DEFINE h == KeyOf(s) \o <<Sep>>
  <2>2. KeyOf(p) = h \o e /\ h \in Seq(Bytes)
    BY <1>3, <1>5, KeyEmpty, SepFacts, ConcatProperties DEF Join
  <2>3. Range(KeyOf(s) \o <<Sep>>) = Range(KeyOf(s)) \cup Range(<<Sep>>)
    <3>1. \A a, b \in Seq(Bytes) : Range(a \o b) = Range(a) \cup Range(b)
      BY RangeConcatenation
    <3> QED
      BY <1>3, <3>1, SepFacts
  <2>4. Range(h \o e) = Range(h) \cup Range(e)
    <3> HIDE DEF h
    <3> QED
      BY <1>3, <2>2, RangeConcatenation
  <2>5. Sep \in Range(<<Sep>>)
    BY DEF Range
  <2>6. Len(p) # 1
    BY <1>3, <2>1
  <2> QED
    BY <2>2, <2>3, <2>4, <2>5, <2>6
<1> QED
  BY <1>4, <1>5

(* Acc::rel, by paths: at the folder, directly in it, below it, or not.    *)
LEMMA RelIs ==
  ASSUME at \in Paths, NEW p \in Paths, p # <<>>
  PROVE  /\ Rel(KeyOf(p)) = "at" <=> p = at
         /\ Rel(KeyOf(p)) = "child" <=> Front(p) = at
         /\ Rel(KeyOf(p)) \in {"child", "deeper"} <=> IsStrictPrefix(at, p)
<1> DEFINE a == KeyOf(at)
           key == KeyOf(p)
           rest == IF a = <<>> THEN key ELSE SubSeq(key, Len(a) + 2, Len(key))
           under == IsStrictPrefix(a, key) /\ key[Len(a) + 1] = Sep
<1>1. Rel(key) = IF a # <<>> /\ key = a THEN "at"
                 ELSE IF a # <<>> /\ ~under THEN "outside"
                 ELSE IF Sep \in Range(rest) THEN "deeper" ELSE "child"
  BY DEF Rel
<1>2. /\ a \in Seq(Bytes) /\ key \in Seq(Bytes) /\ (a = <<>> <=> at = <<>>) /\ key # <<>>
      /\ (key = a <=> p = at)
  BY KeyOfSteps, KeyEmpty, KeysOrdered
<1>3. ASSUME NEW r \in Paths, r # <<>>, p = at \o r
      PROVE  /\ (a # <<>> => under) /\ (Sep \in Range(rest) <=> Len(r) # 1) /\ p # at
             /\ IsStrictPrefix(at, p) /\ (Front(p) = at <=> Len(r) = 1)
  <2>1. IsStrictPrefix(at, p) /\ (Front(p) = at <=> Len(r) = 1)
    BY <1>3, BelowIs DEF Paths
  <2>2. Sep \in Range(KeyOf(r)) <=> Len(r) # 1
    BY <1>3, KeyHasSep
  <2>3. CASE a = <<>>
    <3>1. p = r
      BY <1>2, <1>3, <2>3, ConcatEmptySeq DEF Paths
    <3> QED
      BY <2>1, <2>2, <2>3, <3>1 DEF IsStrictPrefix
  <2>4. CASE a # <<>>
    <3> DEFINE h == a \o <<Sep>>
               u == KeyOf(r)
    <3>1. key = (a \o <<Sep>>) \o u /\ u \in Seq(Bytes)
      BY <1>2, <1>3, <2>4, KeyConcat, KeyOfSteps
    <3>2. u # <<>>
      BY <1>3, KeyEmpty
    <3>3. h \in Seq(Bytes) /\ Len(h) = Len(a) + 1 /\ Len(a) \in Nat
      BY <1>2, SepFacts, ConcatProperties, LenProperties
    <3> HIDE DEF u
    <3>4. SubSeq(key, Len(h) + 1, Len(key)) = u
      <4> HIDE DEF h
      <4>1. SubSeq(h \o u, Len(h) + 1, Len(h \o u)) = u
        BY <3>1, <3>2, <3>3, BelowIs
      <4>2. key = h \o u
        BY <3>1 DEF h
      <4> QED
        BY <4>1, <4>2
    <3>5. Len(h) + 1 = Len(a) + 2
      BY <3>3
    <3>6. rest = u
      BY <2>4, <3>4, <3>5
    <3> DEFINE w == <<Sep>> \o u
    <3>7. key = a \o w /\ w \in Seq(Bytes) /\ w # <<>> /\ w[1] = Sep
      <4>1. <<Sep>> \in Seq(Bytes) /\ \A x, y, z \in Seq(Bytes) : x \o y \in Seq(Bytes) /\ (x \o y) \o z = x \o (y \o z)
        BY SepFacts, SeqJoins
      <4>2. key = a \o w /\ w \in Seq(Bytes)
        BY <1>2, <3>1, <4>1, Zenon
      <4>3. /\ Len(w) = Len(<<Sep>>) + Len(u) /\ Len(<<Sep>>) = 1 /\ Len(u) \in Nat
            /\ \A i \in 1..(Len(<<Sep>>) + Len(u)) : w[i] = IF i <= Len(<<Sep>>) THEN <<Sep>>[i] ELSE u[i - Len(<<Sep>>)]
        BY <3>1, SepFacts, ConcatProperties, LenProperties
      <4> HIDE DEF w
      <4>4. 1 \in 1..(Len(<<Sep>>) + Len(u)) /\ 1 <= Len(<<Sep>>) /\ Len(w) # 0
        BY <4>3
      <4>5. w[1] = Sep
        BY <4>3, <4>4
      <4>6. w # <<>>
        BY <4>4
      <4> QED
        BY <4>2, <4>5, <4>6
    <3> HIDE DEF w
    <3>8. IsStrictPrefix(a, key) /\ key[Len(a) + 1] = Sep
      BY <1>2, <3>7, BelowIs
    <3> QED
      BY <2>1, <2>2, <3>6, <3>8 DEF u, IsStrictPrefix
  <2> QED
    BY <2>3, <2>4
<1>4. ASSUME a # <<>>, under PROVE IsStrictPrefix(at, p)
  <2>1. PICK w \in Seq(Bytes) : w # <<>> /\ key = a \o w
    BY SMTT(30), <1>2, <1>4, BelowHasRest
  <2>2. w[1] = Sep
    BY <1>2, <1>4, <2>1, BelowIs
  <2> DEFINE u == SubSeq(w, 1 + 1, Len(w))
  <2>3. u \in Seq(Bytes) /\ w = <<Sep>> \o u
    <3>1. Len(w) \in Nat \ {0}
      BY <2>1, EmptySeq
    <3>2. 1 \in 0..Len(w)
      BY <3>1
    <3>3. /\ SubSeq(w, 1, 1) \in Seq(Bytes) /\ Len(SubSeq(w, 1, 1)) = 1 /\ u \in Seq(Bytes)
          /\ w = SubSeq(w, 1, 1) \o u
      BY <3>2, Cut
    <3>4. SubSeq(w, 1, 1)[1] = w[1]
      <4>1. \A i \in 1..1 : SubSeq(w, 1, 1)[i] = w[i]
        BY <3>2, FirstOfSeq
      <4> QED
        BY <4>1
    <3>5. SubSeq(w, 1, 1) = <<Sep>>
      <4>1. \A i \in 1..Len(<<Sep>>) : i = 1
        OBVIOUS
      <4>2. \A i \in 1..Len(SubSeq(w, 1, 1)) : SubSeq(w, 1, 1)[i] = <<Sep>>[i]
        BY <2>2, <3>3, <3>4
      <4> QED
        BY <3>3, <4>2, SepFacts, SeqEqual
    <3> QED
      BY <3>3, <3>5
  <2> HIDE DEF u
  <2>4. key = (a \o <<Sep>>) \o u
    <3>1. <<Sep>> \in Seq(Bytes) /\ \A x, y, z \in Seq(Bytes) : (x \o y) \o z = x \o (y \o z)
      BY SepFacts, SeqJoins
    <3> QED
      BY <1>2, <2>1, <2>3, <3>1, Zenon
  <2>5. p = at \o NamesOf(u)
    <3>1. at # <<>>
      BY <1>2, <1>4
    <3>2. NamesOf(key) = NamesOf(a) \o NamesOf(u)
      BY <1>2, <2>3, <2>4, NamesOfConcat
    <3> QED
      BY <3>1, <3>2, NamesOfKey
  <2>6. NamesOf(u) \in Seq(Seq(Bytes)) /\ NamesOf(u) # <<>>
    BY <2>3, NamesOfSteps DEF Parts
  <2>7. at \in Seq(Seq(Bytes))
    <3>1. Names \subseteq Seq(Bytes)
      BY NamesAreBytes
    <3> QED
      BY <3>1, SeqMonotonic DEF Paths
  <2> QED
    BY <2>5, <2>6, <2>7, BelowIs
<1>5. ASSUME IsStrictPrefix(at, p) PROVE \E r \in Paths : r # <<>> /\ p = at \o r
  BY <1>5, BelowHasRest DEF Paths
<1> HIDE DEF a, key, rest, under
<1>6. CASE IsStrictPrefix(at, p)
  <2>1. PICK r \in Paths : r # <<>> /\ p = at \o r
    BY <1>5, <1>6
  <2> QED
    BY <1>1, <1>2, <1>3, <2>1 DEF key
<1>7. CASE ~IsStrictPrefix(at, p)
  <2>1. a # <<>> /\ ~under
    <3>1. at # <<>>
      <4>1. ASSUME at = <<>> PROVE FALSE
        <5>1. p = at \o p
          BY <4>1, ConcatEmptySeq DEF Paths
        <5> QED
          BY <1>3, <1>7, <5>1
      <4> QED
        BY <4>1
    <3> QED
      BY <1>2, <1>4, <1>7, <3>1
  <2>2. Front(p) # at
    <3>1. IsPrefix(Front(p), p) /\ Front(p) # p
      BY PrefixOfFront DEF Paths
    <3> QED
      BY <1>7, <3>1 DEF IsStrictPrefix
  <2> QED
    BY <1>1, <1>2, <1>7, <2>1, <2>2 DEF key
<1> QED
  BY <1>6, <1>7

LEMMA UnionApart ==
  ASSUME NEW S, NEW T, IsFiniteSet(S), IsFiniteSet(T), S \cap T = {}
  PROVE  Cardinality(S \cup T) = Cardinality(S) + Cardinality(T)
<1>1. Cardinality(S) \in Nat /\ Cardinality(T) \in Nat /\ Cardinality(S \cap T) = 0
  BY FS_CardinalityType, FS_EmptySet
<1>2. Cardinality(S \cup T) = Cardinality(S) + Cardinality(T) - Cardinality(S \cap T)
  BY FS_Union
<1> QED
  BY <1>1, <1>2

-----------------------------------------------------------------------------
(***************************************************************************)
(* Trees of paths.                                                         *)
(***************************************************************************)

(* The folders D and the items F that are no folders. *)
IsTree(D, F, S) ==
  /\ IsFiniteSet(D) /\ IsFiniteSet(F) /\ D \subseteq Seq(S) /\ F \subseteq Seq(S)
  /\ D \cap F = {} /\ <<>> \notin F
  /\ \A p \in (D \cup F) \ {<<>>} : Front(p) \in D

(* Only the root has no folder, and it is below nothing else. *)
LEMMA RootIsFirst ==
  ASSUME NEW S, NEW s \in Seq(S), IsPrefix(s, <<>>)
  PROVE  s = <<>>
<1>1. Len(s) \in Nat /\ Len(<<>>) = 0 /\ (s # <<>> => Len(s) # 0)
  BY EmptySeq, LenProperties
<1>2. Len(s) <= Len(<<>>)
  BY DEF IsPrefix
<1> QED
  BY <1>1, <1>2

(* The way down from an item to one below it. *)
LEMMA StepDown ==
  ASSUME NEW S, NEW D, NEW F, IsTree(D, F, S), NEW d \in D \cup F, NEW q \in D \cup F,
         IsPrefix(d, q), q # d
  PROVE  d \in D /\ \E k \in D \cup F : k # <<>> /\ Front(k) = d /\ IsPrefix(k, q)
<1> DEFINE T == {x \in D \cup F : IsPrefix(x, q) /\ IsPrefix(d, x) /\ x # d}
<1>1. D \cup F \subseteq Seq(S)
  BY DEF IsTree
<1>2. T \in SUBSET Seq(S) /\ q \in T
  BY <1>1, PrefixOrder
<1>3. PICK x \in T : \A y \in T : Len(x) <= Len(y)
  <2> HIDE DEF T
  <2> QED
    BY <1>2, Shortest
<1>4. x \in D \cup F /\ x \in Seq(S) /\ d \in Seq(S) /\ q \in Seq(S)
      /\ IsPrefix(x, q) /\ IsPrefix(d, x) /\ x # d
  BY <1>1, <1>3
<1>5. x # <<>>
  BY <1>4, RootIsFirst
<1>6. Front(x) \in D /\ Front(x) \in Seq(S) /\ Len(Front(x)) = Len(x) - 1 /\ Len(x) \in Nat
  BY <1>4, <1>5, FrontByElement DEF IsTree
<1>7. IsPrefix(d, Front(x)) /\ IsPrefix(Front(x), x)
  BY <1>4, <1>5, PrefixOfFront
<1>8. IsPrefix(Front(x), q)
  BY <1>4, <1>6, <1>7, PrefixOrder
<1>9. Front(x) \notin T
  BY <1>3, <1>6
<1>10. Front(x) = d
  BY <1>6, <1>7, <1>8, <1>9
<1> QED
  BY <1>4, <1>5, <1>6, <1>10

(* Of two items in a folder nothing is below both. *)
LEMMA SiblingsApart ==
  ASSUME NEW S, NEW j \in Seq(S), NEW k \in Seq(S), NEW q \in Seq(S), j # <<>>, k # <<>>,
         Front(j) = Front(k), IsPrefix(j, q), IsPrefix(k, q)
  PROVE  j = k
<1>1. Len(j) = Len(k) /\ Len(j) \in Nat
  <2>1. Len(Front(j)) = Len(j) - 1 /\ Len(j) \in Nat
    BY FrontByElement
  <2>2. Len(Front(k)) = Len(k) - 1 /\ Len(k) \in Nat
    BY FrontByElement
  <2> QED
    BY <2>1, <2>2
<1>2. \A i \in 1..Len(j) : j[i] = q[i]
  BY PrefixByElement
<1>3. \A i \in 1..Len(k) : k[i] = q[i]
  BY PrefixByElement
<1> QED
  BY <1>1, <1>2, <1>3, SeqEqual

(* What is below a folder is in it, or below a folder in it, one of them. *)
LEMMA BelowByKid ==
  ASSUME NEW S, NEW D, NEW F, IsTree(D, F, S), NEW d \in D
  PROVE  LET kids == In(D, d)
         IN /\ Within(D, d) = {d} \cup UNION {Within(D, k) : k \in kids}
            /\ d \notin UNION {Within(D, k) : k \in kids}
            /\ Within(F, d) = In(F, d) \cup UNION {Within(F, k) : k \in kids}
            /\ In(F, d) \cap UNION {Within(F, k) : k \in kids} = {}
            /\ \A j, k \in kids : j # k => /\ Within(D, j) \cap Within(D, k) = {}
                                           /\ Within(F, j) \cap Within(F, k) = {}
<1> DEFINE kids == In(D, d)
<1>1. D \subseteq Seq(S) /\ F \subseteq Seq(S) /\ d \in Seq(S)
  BY DEF IsTree
<1>2. \A k \in kids : k \in D /\ k \in Seq(S) /\ k # <<>> /\ Front(k) = d
  BY <1>1 DEF In
<1>3. ASSUME NEW k \in kids
      PROVE  /\ IsPrefix(d, k) /\ k # d /\ ~IsPrefix(k, d)
             /\ \A q \in Seq(S) : IsPrefix(k, q) => IsPrefix(d, q)
  <2>1. IsPrefix(d, k) /\ k # d
    BY <1>2, PrefixOfFront
  <2>2. ~IsPrefix(k, d)
    BY <1>1, <1>2, <2>1, PrefixOrder
  <2>3. \A q \in Seq(S) : IsPrefix(k, q) => IsPrefix(d, q)
    BY <1>1, <1>2, <2>1, PrefixOrder
  <2> QED
    BY <2>1, <2>2, <2>3
<1>4. \A j, k \in kids : \A q \in Seq(S) : IsPrefix(j, q) /\ IsPrefix(k, q) => j = k
  BY <1>2, SiblingsApart
<1>5. ASSUME NEW q \in D \cup F, IsPrefix(d, q), q # d
      PROVE  (q \in F /\ q \in In(F, d)) \/ \E k \in kids : IsPrefix(k, q)
  <2>1. PICK k \in D \cup F : k # <<>> /\ Front(k) = d /\ IsPrefix(k, q)
    BY <1>5, StepDown
  <2>2. CASE k \in D
    BY <2>1, <2>2 DEF In
  <2>3. CASE k \notin D
    <3>1. k = q
      BY <2>1, <2>3, StepDown
    <3> QED
      BY <2>1, <2>3, <3>1 DEF In
  <2> QED
    BY <2>2, <2>3
<1>6. \A q \in D : q # <<>> /\ Front(q) = d => q \in kids
  BY DEF In
<1>7. IsPrefix(d, d)
  BY <1>1, PrefixOrder
<1>8. \A q \in In(F, d) : q \in F /\ q \in Seq(S) /\ q # <<>> /\ Front(q) = d /\ q # d /\ IsPrefix(d, q) /\ q \notin D
  <2>1. \A q \in In(F, d) : q \in F /\ q \in Seq(S) /\ q # <<>> /\ Front(q) = d
    BY <1>1 DEF In
  <2>2. \A q \in In(F, d) : IsPrefix(d, q) /\ q # d
    BY <2>1, PrefixOfFront
  <2> QED
    BY <2>1, <2>2 DEF IsTree
<1>9. ASSUME NEW q \in In(F, d), NEW k \in kids, IsPrefix(k, q) PROVE FALSE
  <2>1. IsPrefix(q, q)
    BY <1>8, PrefixOrder
  <2>2. q = k
    BY <1>2, <1>8, <1>9, <2>1, SiblingsApart
  <2> QED
    BY <1>2, <1>8, <2>2
<1> HIDE DEF kids
<1>10. Within(D, d) = {d} \cup UNION {Within(D, k) : k \in kids}
  <2>1. ASSUME NEW q \in Within(D, d) PROVE q \in {d} \cup UNION {Within(D, k) : k \in kids}
    BY <1>5, <1>8, <2>1 DEF Within
  <2>2. ASSUME NEW k \in kids, NEW q \in Within(D, k) PROVE q \in Within(D, d)
    BY <1>1, <1>3, <2>2 DEF Within
  <2>3. d \in Within(D, d)
    BY <1>7 DEF Within
  <2> QED
    BY <2>1, <2>2, <2>3
<1>11. d \notin UNION {Within(D, k) : k \in kids}
  BY <1>3 DEF Within
<1>12. Within(F, d) = In(F, d) \cup UNION {Within(F, k) : k \in kids}
  <2>1. ASSUME NEW q \in Within(F, d) PROVE q \in In(F, d) \cup UNION {Within(F, k) : k \in kids}
    <3>1. q \in F /\ IsPrefix(d, q) /\ q # d
      BY DEF Within, IsTree
    <3> QED
      BY <1>5, <3>1 DEF Within
  <2>2. ASSUME NEW k \in kids, NEW q \in Within(F, k) PROVE q \in Within(F, d)
    BY <1>1, <1>3, <2>2 DEF Within
  <2>3. \A q \in In(F, d) : q \in Within(F, d)
    BY <1>8 DEF Within
  <2> QED
    BY <2>1, <2>2, <2>3
<1>13. In(F, d) \cap UNION {Within(F, k) : k \in kids} = {}
  BY <1>9 DEF Within
<1>14. ASSUME NEW j \in kids, NEW k \in kids, j # k
       PROVE  Within(D, j) \cap Within(D, k) = {} /\ Within(F, j) \cap Within(F, k) = {}
  BY <1>1, <1>4, <1>14 DEF Within
<1> QED
  BY <1>10, <1>11, <1>12, <1>13, <1>14 DEF kids

-----------------------------------------------------------------------------
(***************************************************************************)
(* The totals of a finished tree: what a folder has is what is below it.   *)
(***************************************************************************)

LEMMA SumsAgree == \A f, T : SumOver(f, T) = Sum(f, T)
BY DEF SumOver, Sum

IsScan(ls, fs, S) ==
  /\ IsTree(DOMAIN ls, DOMAIN fs, S)
  /\ ls \in [DOMAIN ls -> BOOLEAN]
  /\ \A f \in DOMAIN fs : fs[f] \in Nat

TotalsBelow(ls, fs, cut, d) ==
  [listed   |-> ls[d],
   complete |-> ~cut /\ \A e \in Within(DOMAIN ls, d) : ls[e],
   size     |-> Sum(fs, Within(DOMAIN fs, d)),
   files    |-> Cardinality(Within(DOMAIN fs, d)),
   dirs     |-> Cardinality(Within(DOMAIN ls, d)) - 1]

AllBelow(ls, fs, cut) == [d \in DOMAIN ls |-> TotalsBelow(ls, fs, cut, d)]

LEMMA BelowFields ==
  ASSUME NEW ls, NEW fs, NEW cut, NEW d
  PROVE  LET b == TotalsBelow(ls, fs, cut, d)
         IN /\ b.size = Sum(fs, Within(DOMAIN fs, d))
            /\ b.files = Cardinality(Within(DOMAIN fs, d))
            /\ b.dirs = Cardinality(Within(DOMAIN ls, d)) - 1
            /\ b.listed = ls[d]
            /\ b.complete <=> ~cut /\ \A e \in Within(DOMAIN ls, d) : ls[e]
BY DEF TotalsBelow

(* What is below a folder, as sums over the folders in it. *)
LEMMA BelowAddsUp ==
  ASSUME NEW S, NEW ls, NEW fs, NEW cut, IsScan(ls, fs, S), NEW d \in DOMAIN ls,
         NEW W, W = AllBelow(ls, fs, cut)
  PROVE  LET kids == In(DOMAIN ls, d)
             own  == In(DOMAIN fs, d)
         IN /\ W[d].size = Sum([k \in kids |-> W[k].size], kids) + Sum(fs, own)
            /\ W[d].files = Sum([k \in kids |-> W[k].files], kids) + Cardinality(own)
            /\ W[d].dirs = Sum([k \in kids |-> W[k].dirs + 1], kids)
            /\ W[d].complete <=> ls[d] /\ ~cut /\ \A k \in kids : W[k].complete
<1> DEFINE D == DOMAIN ls
           F == DOMAIN fs
           kids == In(D, d)
           own == In(F, d)
           dirsOf == [k \in kids |-> Within(D, k)]
           filesOf == [k \in kids |-> Within(F, k)]
           allD == AllOf(dirsOf, kids)
           allF == AllOf(filesOf, kids)
           one == [x \in D \cup F |-> 1]
<1>1. /\ IsFiniteSet(D) /\ IsFiniteSet(F) /\ kids \subseteq D /\ own \subseteq F
      /\ \A x : Within(D, x) \subseteq D /\ Within(F, x) \subseteq F
  BY DEF IsScan, IsTree, In, Within
<1>2. /\ IsFiniteSet(kids) /\ IsFiniteSet(own)
      /\ \A x : IsFiniteSet(Within(D, x)) /\ IsFiniteSet(Within(F, x))
  <2> HIDE DEF D, F, kids, own
  <2> QED
    BY <1>1, FS_Subset
<1>3. /\ Within(D, d) = {d} \cup allD /\ d \notin allD
      /\ Within(F, d) = own \cup allF /\ own \cap allF = {}
      /\ \A j, k \in kids : j # k => dirsOf[j] \cap dirsOf[k] = {}
      /\ \A j, k \in kids : j # k => filesOf[j] \cap filesOf[k] = {}
  <2>1. IsTree(D, F, S)
    BY DEF IsScan
  <2>2. /\ Within(D, d) = {d} \cup UNION {Within(D, k) : k \in kids}
        /\ d \notin UNION {Within(D, k) : k \in kids}
        /\ Within(F, d) = own \cup UNION {Within(F, k) : k \in kids}
        /\ own \cap UNION {Within(F, k) : k \in kids} = {}
        /\ \A j, k \in kids : j # k => /\ Within(D, j) \cap Within(D, k) = {}
                                       /\ Within(F, j) \cap Within(F, k) = {}
    <3> HIDE DEF D, F
    <3> QED
      BY <2>1, BelowByKid DEF D
  <2>3. allD = UNION {Within(D, k) : k \in kids} /\ allF = UNION {Within(F, k) : k \in kids}
    BY DEF AllOf
  <2> HIDE DEF D, F, kids, own, allD, allF
  <2> QED
    BY <2>2, <2>3
<1>4. \A x \in F : fs[x] \in Nat
  BY DEF IsScan
<1>5. \A x \in D : W[x] = TotalsBelow(ls, fs, cut, x)
  BY DEF AllBelow
<1>6. \A x \in D : /\ W[x].size = Sum(fs, Within(F, x))
                   /\ W[x].files = Cardinality(Within(F, x))
                   /\ W[x].dirs = Cardinality(Within(D, x)) - 1
  BY <1>5, BelowFields
<1>12. \A x \in D : W[x].complete <=> ~cut /\ \A e \in Within(D, x) : ls[e]
  BY <1>5, BelowFields
<1>7. /\ \A k \in kids : dirsOf[k] = Within(D, k) /\ filesOf[k] = Within(F, k)
      /\ allD \subseteq D /\ allF \subseteq F /\ d \in D
  <2>1. \A k \in kids : dirsOf[k] \subseteq D /\ filesOf[k] \subseteq F
    BY <1>1
  <2> QED
    BY <2>1 DEF AllOf
<1> HIDE DEF D, F, kids, own, dirsOf, filesOf, allD, allF, one
<1>13. Apart(filesOf, kids) /\ Apart(dirsOf, kids)
  BY <1>2, <1>3, <1>7 DEF Apart
<1>8. W[d].size = Sum([k \in kids |-> W[k].size], kids) + Sum(fs, own)
  <2> DEFINE g == [k \in kids |-> W[k].size]
  <2>1. \A k \in kids : g[k] = Sum(fs, filesOf[k]) /\ IsFiniteSet(filesOf[k]) /\ filesOf[k] \subseteq F
    BY <1>1, <1>2, <1>6, <1>7
  <2> HIDE DEF g
  <2>2. IsFiniteSet(allF) /\ Sum(g, kids) = Sum(fs, allF)
    <3>1. \A k \in kids : \A x \in filesOf[k] : fs[x] \in Nat
      BY <1>4, <2>1
    <3>2. SumsUp(g, fs, filesOf, kids)
      BY <2>1, <3>1 DEF SumsUp
    <3> QED
      BY <1>13, <3>2, SumOfSums DEF allF
  <2>3. Sum(fs, own \cup allF) = Sum(fs, own) + Sum(fs, allF)
    <3>1. \A x \in own \cup allF : fs[x] \in Nat
      BY <1>1, <1>4, <1>7
    <3> QED
      BY <1>2, <1>3, <2>2, <3>1, SumUnion
  <2>4. Sum(fs, own) \in Nat /\ Sum(fs, allF) \in Nat
    <3>1. \A x \in own \cup allF : fs[x] \in Nat
      BY <1>1, <1>4, <1>7
    <3> QED
      BY <1>2, <2>2, <3>1, SumNat
  <2>5. W[d].size = Sum(fs, own \cup allF)
    BY <1>3, <1>6, <1>7
  <2>6. W[d].size = Sum(g, kids) + Sum(fs, own)
    BY <2>2, <2>3, <2>4, <2>5
  <2> QED
    BY <2>6, Zenon DEF g
<1>9. W[d].files = Sum([k \in kids |-> W[k].files], kids) + Cardinality(own)
  <2> DEFINE g == [k \in kids |-> W[k].files]
  <2>1. \A k \in kids : /\ g[k] = Cardinality(filesOf[k]) /\ IsFiniteSet(filesOf[k])
                        /\ \A x \in filesOf[k] : one[x] = 1
    BY <1>1, <1>2, <1>6, <1>7 DEF one
  <2> HIDE DEF g
  <2>2. \A k \in kids : g[k] = Sum(one, filesOf[k]) /\ \A x \in filesOf[k] : one[x] \in Nat
    BY <2>1, SumOfOnes
  <2>3. IsFiniteSet(allF) /\ Sum(g, kids) = Sum(one, allF)
    <3>1. SumsUp(g, one, filesOf, kids)
      BY <2>2 DEF SumsUp
    <3> QED
      BY <1>13, <3>1, SumOfSums DEF allF
  <2>4. Sum(one, allF) = Cardinality(allF)
    <3>1. \A x \in allF : one[x] = 1
      BY <1>7 DEF one
    <3> QED
      BY <2>3, <3>1, SumOfOnes
  <2>5. Cardinality(own \cup allF) = Cardinality(own) + Cardinality(allF)
    BY <1>2, <1>3, <2>3, UnionApart
  <2>6. Cardinality(own) \in Nat /\ Cardinality(allF) \in Nat
    BY <1>2, <2>3, FS_CardinalityType
  <2>8. W[d].files = Cardinality(own \cup allF)
    BY <1>3, <1>6, <1>7
  <2>7. W[d].files = Sum(g, kids) + Cardinality(own)
    BY <2>3, <2>4, <2>5, <2>6, <2>8
  <2> QED
    BY <2>7, Zenon DEF g
<1>10. W[d].dirs = Sum([k \in kids |-> W[k].dirs + 1], kids)
  <2> DEFINE g == [k \in kids |-> W[k].dirs + 1]
  <2>1. \A k \in kids : /\ g[k] = Cardinality(dirsOf[k]) /\ IsFiniteSet(dirsOf[k])
                        /\ \A x \in dirsOf[k] : one[x] = 1
    <3>1. \A k \in kids : Cardinality(Within(D, k)) \in Nat
      BY <1>2, FS_CardinalityType
    <3> QED
      BY <1>1, <1>2, <1>6, <1>7, <3>1 DEF one
  <2> HIDE DEF g
  <2>2. \A k \in kids : g[k] = Sum(one, dirsOf[k]) /\ \A x \in dirsOf[k] : one[x] \in Nat
    BY <2>1, SumOfOnes
  <2>3. IsFiniteSet(allD) /\ Sum(g, kids) = Sum(one, allD)
    <3>1. SumsUp(g, one, dirsOf, kids)
      BY <2>2 DEF SumsUp
    <3> QED
      BY <1>13, <3>1, SumOfSums DEF allD
  <2>4. Sum(one, allD) = Cardinality(allD)
    <3>1. \A x \in allD : one[x] = 1
      BY <1>7 DEF one
    <3> QED
      BY <2>3, <3>1, SumOfOnes
  <2>5. Cardinality({d} \cup allD) = 1 + Cardinality(allD)
    <3>1. IsFiniteSet({d}) /\ Cardinality({d}) = 1 /\ {d} \cap allD = {}
      BY <1>3, FS_Singleton
    <3> QED
      BY <2>3, <3>1, UnionApart
  <2>6. Cardinality(allD) \in Nat
    BY <2>3, FS_CardinalityType
  <2>8. W[d].dirs = Cardinality({d} \cup allD) - 1
    BY <1>3, <1>6, <1>7
  <2>7. W[d].dirs = Sum(g, kids)
    BY <2>3, <2>4, <2>5, <2>6, <2>8
  <2> QED
    BY <2>7, Zenon DEF g
<1>11. W[d].complete <=> ls[d] /\ ~cut /\ \A k \in kids : W[k].complete
  <2>1. \A k \in kids : W[k].complete <=> ~cut /\ \A e \in dirsOf[k] : ls[e]
    BY <1>1, <1>12, <1>7
  <2>2. (\A e \in Within(D, d) : ls[e]) <=> ls[d] /\ \A k \in kids : \A e \in dirsOf[k] : ls[e]
    BY <1>3 DEF allD, AllOf
  <2> QED
    BY <1>12, <1>7, <2>1, <2>2
<1> QED
  BY <1>8, <1>9, <1>10, <1>11 DEF D, F, kids, own

LEMMA CompleteAddsUp ==
  \A S, ls, fs, cut, W :
    IsScan(ls, fs, S) /\ W = AllBelow(ls, fs, cut) =>
      \A d \in DOMAIN ls : W[d].complete <=> ls[d] /\ ~cut /\ \A k \in In(DOMAIN ls, d) : W[k].complete
<1> SUFFICES ASSUME NEW S, NEW ls, NEW fs, NEW cut, NEW W, IsScan(ls, fs, S), W = AllBelow(ls, fs, cut),
                    NEW d \in DOMAIN ls
             PROVE  W[d].complete <=> ls[d] /\ ~cut /\ \A k \in In(DOMAIN ls, d) : W[k].complete
  OBVIOUS
<1> DEFINE kids == In(DOMAIN ls, d)
           own == In(DOMAIN fs, d)
<1>1. /\ W[d].size = Sum([k \in kids |-> W[k].size], kids) + Sum(fs, own)
      /\ W[d].files = Sum([k \in kids |-> W[k].files], kids) + Cardinality(own)
      /\ W[d].dirs = Sum([k \in kids |-> W[k].dirs + 1], kids)
      /\ W[d].complete <=> ls[d] /\ ~cut /\ \A k \in kids : W[k].complete
  BY BelowAddsUp
<1> QED
  BY <1>1

(* The function that gives each folder what is below it is the only one    *)
(* that gives each its own and what the folders in it have.                *)
LEMMA BelowSolves ==
  ASSUME NEW S, NEW ls, NEW fs, NEW cut, IsScan(ls, fs, S), NEW W, W = AllBelow(ls, fs, cut)
  PROVE  \A d \in DOMAIN ls : W[d] = TotalsOf(W, ls, fs, cut, d)
<1> SUFFICES ASSUME NEW d \in DOMAIN ls PROVE W[d] = TotalsOf(W, ls, fs, cut, d)
  OBVIOUS
<1> DEFINE kids == In(DOMAIN ls, d)
           own == In(DOMAIN fs, d)
<1>1. /\ W[d].size = Sum([k \in kids |-> W[k].size], kids) + Sum(fs, own)
      /\ W[d].files = Sum([k \in kids |-> W[k].files], kids) + Cardinality(own)
      /\ W[d].dirs = Sum([k \in kids |-> W[k].dirs + 1], kids)
      /\ W[d].complete <=> ls[d] /\ ~cut /\ \A k \in kids : W[k].complete
  BY BelowAddsUp
<1>2. W[d] = TotalsBelow(ls, fs, cut, d)
  BY DEF AllBelow
<1>3. W[d] = [listed |-> ls[d], complete |-> W[d].complete, size |-> W[d].size, files |-> W[d].files,
              dirs |-> W[d].dirs]
  BY <1>2 DEF TotalsBelow
<1>4. W[d].complete = (ls[d] /\ ~cut /\ \A k \in kids : W[k].complete)
  <2>1. W[d].complete \in BOOLEAN
    BY <1>2 DEF TotalsBelow
  <2> QED
    BY <1>1, <2>1
<1>5. TotalsOf(W, ls, fs, cut, d) =
        [listed |-> ls[d], complete |-> ls[d] /\ ~cut /\ \A k \in kids : W[k].complete,
         size |-> Sum([k \in kids |-> W[k].size], kids) + Sum(fs, own),
         files |-> Sum([k \in kids |-> W[k].files], kids) + Cardinality(own),
         dirs |-> Sum([k \in kids |-> W[k].dirs + 1], kids)]
  BY SumsAgree, Zenon DEF TotalsOf
<1> HIDE DEF kids, own
<1> QED
  BY <1>1, <1>3, <1>4, <1>5

LEMMA OnlyBelowSolves ==
  ASSUME NEW S, NEW ls, NEW fs, NEW cut, IsScan(ls, fs, S),
         NEW g, g = [d \in DOMAIN ls |-> TotalsOf(g, ls, fs, cut, d)]
  PROVE  g = AllBelow(ls, fs, cut)
<1> DEFINE D == DOMAIN ls
           W == AllBelow(ls, fs, cut)
           B == {d \in D : g[d] # W[d]}
<1>1. IsFiniteSet(D) /\ D \subseteq Seq(S)
  BY DEF IsScan, IsTree
<1>2. \A d \in D : g[d] = TotalsOf(g, ls, fs, cut, d)
  OBVIOUS
<1>3. \A d \in D : W[d] = TotalsOf(W, ls, fs, cut, d)
  <2> HIDE DEF W
  <2> QED
    BY BelowSolves DEF W
<1>4. ASSUME B # {} PROVE FALSE
  <2>1. IsFiniteSet(B) /\ B \in SUBSET Seq(S)
    <3>1. B \subseteq D
      OBVIOUS
    <3> HIDE DEF B, D
    <3> QED
      BY <1>1, <3>1, FS_Subset
  <2>2. PICK b \in B : \A x \in B : Len(x) <= Len(b)
    <3> HIDE DEF B
    <3> QED
      BY <1>4, <2>1, Longest
  <2>3. b \in D /\ g[b] # W[b]
    OBVIOUS
  <2> DEFINE kids == In(D, b)
  <2>4. \A k \in kids : g[k] = W[k]
    <3> SUFFICES ASSUME NEW k \in kids PROVE g[k] = W[k]
      OBVIOUS
    <3>1. k \in D /\ k \in Seq(S) /\ k # <<>> /\ Front(k) = b
      BY <1>1 DEF In
    <3>2. Len(b) = Len(k) - 1 /\ Len(k) \in Nat
      BY <3>1, FrontByElement
    <3>3. k \notin B
      <4> HIDE DEF B
      <4> QED
        BY <2>2, <3>2
    <3> QED
      BY <3>1, <3>3
  <2>5. TotalsOf(g, ls, fs, cut, b) = TotalsOf(W, ls, fs, cut, b)
    <3> HIDE DEF W, B
    <3>1. /\ [k \in kids |-> g[k].size] = [k \in kids |-> W[k].size]
          /\ [k \in kids |-> g[k].files] = [k \in kids |-> W[k].files]
          /\ [k \in kids |-> g[k].dirs + 1] = [k \in kids |-> W[k].dirs + 1]
          /\ (\A k \in kids : g[k].complete) <=> (\A k \in kids : W[k].complete)
      BY <2>4
    <3> QED
      BY <3>1 DEF TotalsOf
  <2> HIDE DEF W, B
  <2> QED
    BY <1>2, <1>3, <2>3, <2>5
<1>5. \A d \in D : g[d] = W[d]
  BY <1>4
<1>6. W = [d \in D |-> W[d]] /\ g = [d \in D |-> g[d]]
  BY DEF AllBelow
<1> HIDE DEF W
<1> QED
  BY <1>5, <1>6 DEF W

LEMMA FinishedIs ==
  ASSUME NEW S, NEW ls, NEW fs, NEW cut, IsScan(ls, fs, S)
  PROVE  Finished(ls, fs, cut) = [dir |-> AllBelow(ls, fs, cut), file |-> fs, cancelled |-> cut]
<1> DEFINE W == AllBelow(ls, fs, cut)
           N(g) == g = [d \in DOMAIN ls |-> TotalsOf(g, ls, fs, cut, d)]
<1>1. \A d \in DOMAIN ls : W[d] = TotalsOf(W, ls, fs, cut, d)
  <2> HIDE DEF W
  <2> QED
    BY BelowSolves DEF W
<1>2. W = [d \in DOMAIN ls |-> W[d]]
  BY DEF AllBelow
<1>3. N(W)
  <2> HIDE DEF W
  <2> QED
    BY <1>1, <1>2
<1>4. N(CHOOSE g : N(g))
  <2> HIDE DEF N, W
  <2> QED
    BY <1>3
<1>5. (CHOOSE g : N(g)) = W
  <2> DEFINE g == CHOOSE h : N(h)
  <2>1. g = [d \in DOMAIN ls |-> TotalsOf(g, ls, fs, cut, d)]
    <3> HIDE DEF g
    <3> QED
      BY <1>4 DEF g
  <2> HIDE DEF g
  <2>2. g = W
    BY <2>1, OnlyBelowSolves
  <2> QED
    BY <2>2 DEF g
<1>6. Finished(ls, fs, cut) = [dir |-> (CHOOSE g : N(g)), file |-> fs, cancelled |-> cut]
  BY Zenon DEF Finished
<1> HIDE DEF N, W
<1> QED
  BY <1>5, <1>6 DEF W

-----------------------------------------------------------------------------
(***************************************************************************)
(* Paths in order.                                                         *)
(***************************************************************************)

ListOf(T) == CHOOSE s : IsListing(s, PathOrder, T)

LEMMA ListOfIs ==
  ASSUME NEW T \in SUBSET Paths, IsFiniteSet(T)
  PROVE  /\ IsListing(ListOf(T), PathOrder, T)
         /\ \A s : IsListing(s, PathOrder, T) => s = ListOf(T)
<1>1. IsOrder(PathOrder, T)
  BY PathOrderIs, OrderOfPart
<1>2. \E s : IsListing(s, PathOrder, T)
  <2> DEFINE s == [i \in 1..Cardinality(T) |-> CHOOSE x \in T : Rank(T, PathOrder, x) = i - 1]
  <2>1. Cardinality(T) \in Nat
    BY FS_CardinalityType
  <2>2. ASSUME NEW i \in 1..Cardinality(T) PROVE s[i] \in T /\ Rank(T, PathOrder, s[i]) = i - 1
    <3>1. i - 1 \in 0..(Cardinality(T) - 1)
      BY <2>1
    <3>2. \E x \in T : Rank(T, PathOrder, x) = i - 1
      BY <1>1, <3>1, RankReaches
    <3> QED
      BY <3>2
  <2>3. s = [i \in 1..Cardinality(T) |-> s[i]]
    OBVIOUS
  <2> HIDE DEF s
  <2> QED
    BY <1>1, <2>2, <2>3, InOrderLists
<1>3. IsListing(ListOf(T), PathOrder, T)
  BY <1>2 DEF ListOf
<1> QED
  BY <1>1, <1>3, ListingUnique

(* An item comes before what is below it, and what is below it goes with   *)
(* it where another item of its folder is.                                 *)
LEMMA FolderComesFirst ==
  ASSUME NEW p \in Paths, NEW q \in Paths, IsStrictPrefix(p, q)
  PROVE  <<p, q>> \in PathOrder
<1>1. Len(p) <= Len(q) /\ p # q /\ \A i \in 1..Len(p) : p[i] = q[i]
  BY PrefixByElement DEF IsStrictPrefix, Paths
<1>2. Len(p) \in Nat /\ Len(q) \in Nat
  BY LenProperties DEF Paths
<1>3. Len(p) # Len(q)
  BY <1>1, SeqEqual DEF Paths
<1>4. LexAt(p, q, Len(p), NameOrder)
  BY <1>1, <1>2, <1>3 DEF LexAt, Agree
<1>5. \A x \in Names : <<x, x>> \notin NameOrder
  BY NameOrderIs DEF IsOrder
<1> QED
  BY <1>4, <1>5, LexIff DEF PathOrder, Paths

LEMMA SiblingsInOrder ==
  ASSUME NEW p \in Paths, NEW q \in Paths, p # <<>>, q # <<>>, Front(p) = Front(q)
  PROVE  /\ <<p, q>> \in PathOrder <=> NameBefore(Last(p), Last(q))
         /\ \A x, y \in Paths : IsPrefix(p, x) /\ IsPrefix(q, y) /\ <<p, q>> \in PathOrder
                                  => <<x, y>> \in PathOrder
<1> DEFINE m == Len(p) - 1
<1>1. /\ Front(p) \in Paths /\ Len(Front(p)) = m /\ Len(p) \in Nat \ {0} /\ \A i \in 1..m : Front(p)[i] = p[i]
      /\ Len(Front(q)) = Len(q) - 1 /\ Len(q) \in Nat \ {0} /\ \A i \in 1..(Len(q) - 1) : Front(q)[i] = q[i]
  BY FrontByElement DEF Paths
<1>2. Len(q) = Len(p) /\ m \in Nat /\ m + 1 = Len(p)
  <2>1. m = Len(q) - 1
    BY <1>1
  <2> QED
    BY <1>1, <2>1
<1>3. Agree(p, q, m)
  BY <1>1, <1>2 DEF Agree
<1>4. Last(p) = p[m + 1] /\ Last(q) = q[m + 1] /\ Last(p) \in Names /\ Last(q) \in Names
  <2>1. Last(p) = p[Len(p)] /\ Last(q) = q[Len(p)]
    BY <1>2 DEF Last
  <2>2. Len(p) \in 1..Len(p) /\ Len(p) \in 1..Len(q)
    BY <1>1, <1>2
  <2>3. p[Len(p)] \in Names /\ q[Len(p)] \in Names
    BY <2>2, ElementOfSeq DEF Paths
  <2> QED
    BY <1>2, <2>1, <2>3
<1> HIDE DEF m
<1>5. \A x \in Names : <<x, x>> \notin NameOrder
  BY NameOrderIs DEF IsOrder
<1>6. <<p, q>> \in PathOrder <=> <<Last(p), Last(q)>> \in NameOrder
  <2>1. CASE Last(p) = Last(q)
    <3>1. p = q
      <4>1. \A i \in 1..Len(p) : p[i] = q[i]
        <5>1. \A i \in 1..Len(p) : i \in 1..m \/ i = m + 1
          BY <1>2
        <5> QED
          BY <1>3, <1>4, <2>1, <5>1 DEF Agree
      <4> QED
        BY <1>2, <4>1, SeqEqual DEF Paths
    <3>2. <<p, p>> \notin PathOrder
      BY PathOrderIs DEF IsOrder
    <3> QED
      BY <1>4, <1>5, <3>1, <3>2
  <2>2. CASE Last(p) # Last(q)
    <3>1. Shared(p, q) = m
      BY <1>3, <1>4, <2>2, SharedUnique DEF Paths
    <3>2. <<p, q>> \in PathOrder <=> LexAt(p, q, m, NameOrder)
      BY <1>5, <3>1, LexIff DEF PathOrder, Paths
    <3>3. m < Len(p) /\ m < Len(q)
      BY <1>2
    <3> QED
      BY <1>3, <1>4, <3>2, <3>3 DEF LexAt
  <2> QED
    BY <2>1, <2>2
<1>7. NameBefore(Last(p), Last(q)) <=> <<Last(p), Last(q)>> \in NameOrder
  BY <1>4, NamesAreBytes, NameBeforeIs
<1>8. ASSUME NEW x \in Paths, NEW y \in Paths, IsPrefix(p, x), IsPrefix(q, y), <<p, q>> \in PathOrder
      PROVE  <<x, y>> \in PathOrder
  <2>1. /\ Len(p) <= Len(x) /\ \A i \in 1..Len(p) : p[i] = x[i]
        /\ Len(q) <= Len(y) /\ \A i \in 1..Len(q) : q[i] = y[i]
    BY <1>8, PrefixByElement DEF Paths
  <2>2. Len(x) \in Nat /\ Len(y) \in Nat
    BY LenProperties DEF Paths
  <2>3. m < Len(x) /\ m < Len(y) /\ m + 1 \in 1..Len(p) /\ \A i \in 1..m : i \in 1..Len(p)
    BY <1>2, <2>1, <2>2
  <2>4. x[m + 1] = Last(p) /\ y[m + 1] = Last(q)
    BY <1>2, <1>4, <2>1, <2>3
  <2>5. \A i \in 1..m : x[i] = y[i]
    BY <1>2, <1>3, <2>1, <2>3 DEF Agree
  <2>6. LexAt(x, y, m, NameOrder)
    BY <1>2, <1>6, <1>8, <2>2, <2>3, <2>4, <2>5 DEF LexAt, Agree
  <2> QED
    BY <1>5, <2>6, LexIff DEF PathOrder, Paths
<1> QED
  BY <1>6, <1>7, <1>8

(* ByName lists items of one folder as the order of paths does. *)
LEMMA ByNameLists ==
  ASSUME NEW K \in SUBSET (Paths \ {<<>>}), IsFiniteSet(K), \A p, q \in K : Front(p) = Front(q)
  PROVE  ByName(K) = ListOf(K)
<1> DEFINE s == ByName(K)
           m == Cardinality(K)
           Ahead(x) == {y \in K : NameBefore(Last(y), Last(x))}
<1>1. m \in Nat
  BY FS_CardinalityType
<1>2. IsOrder(PathOrder, K)
  BY PathOrderIs, OrderOfPart
<1>3. \A x \in K : Ahead(x) = {y \in K : <<y, x>> \in PathOrder}
  BY SiblingsInOrder
<1>4. s = [i \in 1..m |-> CHOOSE x \in K : Cardinality(Ahead(x)) = i - 1]
  BY DEF ByName, InOrder
<1>5. ASSUME NEW i \in 1..m PROVE s[i] \in K /\ Rank(K, PathOrder, s[i]) = i - 1
  <2>1. i - 1 \in 0..(m - 1)
    BY <1>1
  <2>2. \E x \in K : Rank(K, PathOrder, x) = i - 1
    BY <1>2, <2>1, RankReaches
  <2>3. \A x \in K : Cardinality(Ahead(x)) = Rank(K, PathOrder, x)
    BY <1>3 DEF Rank
  <2> HIDE DEF Ahead
  <2>4. s[i] \in K /\ Cardinality(Ahead(s[i])) = i - 1
    <3> HIDE DEF s, m
    <3>1. s[i] = CHOOSE x \in K : Cardinality(Ahead(x)) = i - 1
      BY <1>4
    <3>2. \E x \in K : Cardinality(Ahead(x)) = i - 1
      BY <2>2, <2>3
    <3> QED
      BY <3>1, <3>2
  <2> QED
    BY <2>3, <2>4
<1>6. s = [i \in 1..m |-> s[i]]
  BY <1>4
<1>7. IsListing(s, PathOrder, K)
  <2> HIDE DEF s, Ahead
  <2> QED
    BY <1>2, <1>5, <1>6, InOrderLists
<1>8. K \in SUBSET Paths
  OBVIOUS
<1> QED
  BY <1>7, <1>8, ListOfIs

-----------------------------------------------------------------------------
(***************************************************************************)
(* What capture writes.                                                    *)
(***************************************************************************)

Items(t) == DOMAIN t.dir \cup DOMAIN t.file
Inside(t, d) == {p \in Items(t) : IsStrictPrefix(d, p)}
EntriesOf(t, s) == [i \in 1..Len(s) |-> EntryOf(t, s[i])]
Contents(t) == [d \in DOMAIN t.dir |-> EntriesOf(t, ListOf(Inside(t, d)))]
TreeOfPaths(t) == IsTree(DOMAIN t.dir, DOMAIN t.file, Names)

LEMMA EntriesConcat ==
  ASSUME NEW t, NEW S, NEW a \in Seq(S), NEW b \in Seq(S)
  PROVE  /\ EntriesOf(t, a \o b) = EntriesOf(t, a) \o EntriesOf(t, b)
         /\ EntriesOf(t, a) \in Seq({EntryOf(t, p) : p \in S}) /\ Len(EntriesOf(t, a)) = Len(a)
<1> DEFINE E == {EntryOf(t, p) : p \in S}
<1>1. \A s \in Seq(S) : EntriesOf(t, s) \in Seq(E) /\ Len(EntriesOf(t, s)) = Len(s)
                        /\ \A i \in 1..Len(s) : EntriesOf(t, s)[i] = EntryOf(t, s[i])
  <2> SUFFICES ASSUME NEW s \in Seq(S)
               PROVE  EntriesOf(t, s) \in Seq(E) /\ Len(EntriesOf(t, s)) = Len(s)
                      /\ \A i \in 1..Len(s) : EntriesOf(t, s)[i] = EntryOf(t, s[i])
    OBVIOUS
  <2>1. Len(s) \in Nat /\ \A i \in 1..Len(s) : s[i] \in S
    BY LenProperties, ElementOfSeq
  <2>2. EntriesOf(t, s) \in [1..Len(s) -> E]
    BY <2>1 DEF EntriesOf
  <2>3. \A f \in [1..Len(s) -> E] : f \in Seq(E) /\ Len(f) = Len(s)
    <3> HIDE DEF E
    <3> QED
      BY <2>1, FunctionIsSeq
  <2>4. \A i \in 1..Len(s) : EntriesOf(t, s)[i] = EntryOf(t, s[i])
    BY DEF EntriesOf
  <2> QED
    BY <2>2, <2>3, <2>4
<1> HIDE DEF E
<1> DEFINE u == EntriesOf(t, a)
           v == EntriesOf(t, b)
           w == EntriesOf(t, a \o b)
<1>2. /\ a \o b \in Seq(S) /\ Len(a \o b) = Len(a) + Len(b) /\ Len(a) \in Nat /\ Len(b) \in Nat
      /\ \A i \in 1..(Len(a) + Len(b)) : (a \o b)[i] = IF i <= Len(a) THEN a[i] ELSE b[i - Len(a)]
  BY ConcatProperties, LenProperties
<1>3. /\ u \in Seq(E) /\ Len(u) = Len(a) /\ \A i \in 1..Len(a) : u[i] = EntryOf(t, a[i])
      /\ v \in Seq(E) /\ Len(v) = Len(b) /\ \A i \in 1..Len(b) : v[i] = EntryOf(t, b[i])
      /\ w \in Seq(E) /\ Len(w) = Len(a) + Len(b)
      /\ \A i \in 1..(Len(a) + Len(b)) : w[i] = EntryOf(t, (a \o b)[i])
  BY <1>1, <1>2
<1> HIDE DEF u, v, w
<1>4. /\ u \o v \in Seq(E) /\ Len(u \o v) = Len(a) + Len(b)
      /\ \A i \in 1..(Len(a) + Len(b)) : (u \o v)[i] = IF i <= Len(a) THEN u[i] ELSE v[i - Len(a)]
  <2>1. /\ u \o v \in Seq(E) /\ Len(u \o v) = Len(u) + Len(v)
        /\ \A i \in 1..(Len(u) + Len(v)) : (u \o v)[i] = IF i <= Len(u) THEN u[i] ELSE v[i - Len(u)]
    <3>1. u \in Seq(E) /\ v \in Seq(E)
      BY <1>3
    <3> QED
      BY <3>1, ConcatProperties
  <2> QED
    BY <1>3, <2>1
<1>5. ASSUME NEW i \in 1..(Len(a) + Len(b)) PROVE w[i] = (u \o v)[i]
  <2>1. CASE i <= Len(a)
    <3>1. i \in 1..Len(a)
      BY <1>2, <2>1
    <3> QED
      BY <1>2, <1>3, <1>4, <2>1, <3>1
  <2>2. CASE ~(i <= Len(a))
    <3>1. i - Len(a) \in 1..Len(b)
      BY <1>2, <2>2
    <3> QED
      BY <1>2, <1>3, <1>4, <2>2, <3>1
  <2> QED
    BY <2>1, <2>2
<1>6. w = u \o v
  BY <1>3, <1>4, <1>5, SeqEqual
<1> QED
  BY <1>3, <1>6 DEF u, v, w, E

(* What is in a folder: its items in order, each with what is in it. *)
Upto(t, s, i) == UNION {Within(Items(t), s[j]) : j \in 1..i}

LEMMA ItemsFacts ==
  ASSUME NEW t, TreeOfPaths(t)
  PROVE  /\ IsFiniteSet(Items(t)) /\ Items(t) \subseteq Paths
         /\ \A d : /\ Inside(t, d) \in SUBSET Paths /\ IsFiniteSet(Inside(t, d))
                   /\ Within(Items(t), d) \in SUBSET Paths /\ IsFiniteSet(Within(Items(t), d))
                   /\ In(Items(t), d) \in SUBSET (Paths \ {<<>>}) /\ IsFiniteSet(In(Items(t), d))
<1>1. IsFiniteSet(Items(t)) /\ Items(t) \subseteq Paths
  BY FS_Union DEF TreeOfPaths, IsTree, Items, Paths
<1>2. \A T \in SUBSET Items(t) : T \in SUBSET Paths /\ IsFiniteSet(T)
  BY <1>1, FS_Subset
<1>3. \A d : Inside(t, d) \in SUBSET Items(t) /\ Within(Items(t), d) \in SUBSET Items(t)
             /\ In(Items(t), d) \in SUBSET Items(t) /\ <<>> \notin In(Items(t), d)
  BY DEF Inside, Within, In
<1> HIDE DEF Items
<1> QED
  BY <1>1, <1>2, <1>3

LEMMA InsideByItem ==
  ASSUME NEW t, TreeOfPaths(t), NEW d \in DOMAIN t.dir, NEW s, s = ListOf(In(Items(t), d))
  PROVE  /\ s \in Seq(Items(t)) /\ Len(s) \in Nat /\ \A i \in 1..Len(s) : s[i] \in In(Items(t), d)
         /\ Upto(t, s, 0) = {} /\ Upto(t, s, Len(s)) = Inside(t, d)
         /\ \A i \in 1..Len(s) :
              ListOf(Upto(t, s, i)) = (ListOf(Upto(t, s, i - 1)) \o <<s[i]>>) \o ListOf(Inside(t, s[i]))
<1> DEFINE K == In(Items(t), d)
<1>1. K \in SUBSET Paths /\ IsFiniteSet(K) /\ K \in SUBSET Items(t) /\ \A k \in K : k # <<>> /\ Front(k) = d
  BY ItemsFacts DEF In
<1>2. IsListing(s, PathOrder, K)
  BY <1>1, ListOfIs
<1>3. s \in Seq(K) /\ Len(s) \in Nat /\ \A i \in 1..Len(s) : s[i] \in K
  BY <1>2, LenProperties, ElementOfSeq DEF IsListing
<1> HIDE DEF K
<1>4. s \in Seq(Items(t))
  BY <1>1, <1>3, SeqMonotonic
<1>5. Upto(t, s, 0) = {}
  BY DEF Upto
<1>6. d \in Paths /\ d \in Items(t)
  BY ItemsFacts DEF Items
<1>7. Upto(t, s, Len(s)) = Inside(t, d)
  <2>1. ASSUME NEW q \in Upto(t, s, Len(s)) PROVE q \in Inside(t, d)
    <3>1. PICK j \in 1..Len(s) : q \in Within(Items(t), s[j])
      BY <2>1 DEF Upto
    <3>2. s[j] \in K /\ q \in Items(t) /\ IsPrefix(s[j], q)
      BY <1>3, <3>1 DEF Within
    <3>3. s[j] \in Paths /\ q \in Paths /\ s[j] # <<>> /\ Front(s[j]) = d
      BY <1>1, <3>2, ItemsFacts
    <3>4. IsPrefix(d, s[j]) /\ d # s[j]
      BY <3>3, PrefixOfFront DEF Paths
    <3>5. IsPrefix(d, q) /\ d # q
      BY <1>6, <3>2, <3>3, <3>4, PrefixOrder DEF Paths
    <3> QED
      BY <3>2, <3>5 DEF Inside, IsStrictPrefix
  <2>2. ASSUME NEW q \in Inside(t, d) PROVE q \in Upto(t, s, Len(s))
    <3>1. q \in Items(t) /\ IsPrefix(d, q) /\ q # d
      BY <2>2 DEF Inside, IsStrictPrefix
    <3>2. PICK k \in DOMAIN t.dir \cup DOMAIN t.file : k # <<>> /\ Front(k) = d /\ IsPrefix(k, q)
      BY <1>6, <3>1, StepDown DEF TreeOfPaths, Items
    <3>3. k \in K
      BY <3>2 DEF K, In, Items
    <3>4. PICK j \in 1..Len(s) : s[j] = k
      BY <1>2, <3>3 DEF IsListing
    <3> QED
      BY <3>1, <3>2, <3>4 DEF Upto, Within
  <2> QED
    BY <2>1, <2>2
<1>8. ASSUME NEW i \in 1..Len(s)
      PROVE  ListOf(Upto(t, s, i)) = (ListOf(Upto(t, s, i - 1)) \o <<s[i]>>) \o ListOf(Inside(t, s[i]))
  <2> DEFINE p == s[i]
             A == Upto(t, s, i - 1)
             B == Inside(t, p)
  <2>1. p \in K /\ p \in Paths /\ p \in Items(t) /\ i \in Nat
    BY <1>1, <1>3
  <2>2. \A j \in 0..Len(s) : Upto(t, s, j) \in SUBSET Items(t)
    BY DEF Upto, Within
  <2>3. \A T \in SUBSET Items(t) : T \in SUBSET Paths /\ IsFiniteSet(T)
    BY ItemsFacts, FS_Subset
  <2>4. A \in SUBSET Items(t) /\ B \in SUBSET Items(t) /\ Upto(t, s, i) \in SUBSET Items(t)
    BY <2>2 DEF Inside
  <2>5. Within(Items(t), p) = {p} \cup B
    <3>1. IsPrefix(p, p)
      BY <2>1, PrefixOrder DEF Paths
    <3> QED
      BY <2>1, <3>1 DEF Within, Inside, IsStrictPrefix
  <2>6. Upto(t, s, i) = (A \cup {p}) \cup B
    <3>1. 1..i = 1..(i - 1) \cup {i}
      BY <2>1
    <3>2. Upto(t, s, i) = A \cup Within(Items(t), p)
      BY <3>1 DEF Upto
    <3> QED
      BY <2>5, <3>2
  <2>7. ASSUME NEW x \in A, NEW y \in {p} \cup B PROVE <<x, y>> \in PathOrder
    <3>1. PICK j \in 1..(i - 1) : x \in Within(Items(t), s[j])
      BY <2>7 DEF Upto
    <3>2. j \in 1..Len(s) /\ j < i
      BY <1>3, <3>1
    <3>3. <<s[j], p>> \in PathOrder /\ s[j] \in K
      BY <1>2, <1>3, <3>2 DEF IsListing
    <3>4. IsPrefix(s[j], x) /\ IsPrefix(p, y) /\ x \in Paths /\ y \in Paths /\ s[j] \in Paths
      <4>1. y \in Within(Items(t), p)
        BY <2>5
      <4> QED
        BY <1>1, <3>1, <3>3, <4>1, ItemsFacts DEF Within
    <3>5. s[j] # <<>> /\ p # <<>> /\ Front(s[j]) = Front(p)
      BY <1>1, <2>1, <3>3
    <3> HIDE DEF p
    <3> QED
      BY <2>1, <3>3, <3>4, <3>5, SiblingsInOrder
  <2>8. ASSUME NEW y \in B PROVE <<p, y>> \in PathOrder
    <3>1. y \in Paths /\ IsStrictPrefix(p, y)
      BY <2>8, ItemsFacts DEF Inside
    <3> HIDE DEF p
    <3> QED
      BY <2>1, <3>1, FolderComesFirst
  <2>9. IsListing(ListOf(A), PathOrder, A) /\ IsListing(ListOf(B), PathOrder, B) /\ IsListing(<<p>>, PathOrder, {p})
    <3> HIDE DEF A, B, p
    <3> QED
      BY <2>3, <2>4, ListOfIs, ListingOfOne
  <2> HIDE DEF A, B, p
  <2>10. IsListing(ListOf(A) \o <<p>>, PathOrder, A \cup {p})
    BY <2>7, <2>9, ListingConcat
  <2>11. IsListing((ListOf(A) \o <<p>>) \o ListOf(B), PathOrder, (A \cup {p}) \cup B)
    BY <2>7, <2>8, <2>9, <2>10, ListingConcat
  <2>12. (ListOf(A) \o <<p>>) \o ListOf(B) = ListOf(Upto(t, s, i))
    BY <2>3, <2>4, <2>6, <2>11, ListOfIs
  <2> QED
    BY <2>12 DEF A, B, p
<1> QED
  BY <1>3, <1>4, <1>5, <1>7, <1>8 DEF K

(* capture_node writes what is in the folder, when this has been written   *)
(* of the folders in it.                                                   *)
Emitted(t, node, out, p) ==
  Append(out, EntryOf(t, p)) \o (IF p \in DOMAIN t.dir THEN node[p] ELSE <<>>)

KidsOf(t, d) == ByName(In(DOMAIN t.dir \cup DOMAIN t.file, d))

CaptureRun(t, node, d, m, E, run) ==
  LET s == KidsOf(t, d)
  IN /\ m \in Nat /\ DOMAIN s = 1..m /\ run[0] = <<>>
     /\ \A i \in 1..m : /\ EntryOf(t, s[i]) \in E
                        /\ s[i] \in DOMAIN t.dir => node[s[i]] \in Seq(E)
                        /\ run[i] = Emitted(t, node, run[i - 1], s[i])

LEMMA CaptureNodeRuns ==
  ASSUME NEW t, NEW node, NEW d, NEW m, NEW E, NEW run, CaptureRun(t, node, d, m, E, run)
  PROVE  CaptureNode(t, node, d) = run[m]
<1> DEFINE s == KidsOf(t, d)
<1>13. /\ m \in Nat /\ DOMAIN s = 1..m /\ run[0] = <<>>
       /\ \A i \in 1..m : /\ EntryOf(t, s[i]) \in E
                          /\ s[i] \in DOMAIN t.dir => node[s[i]] \in Seq(E)
                          /\ run[i] = Emitted(t, node, run[i - 1], s[i])
  BY DEF CaptureRun
<1> DEFINE U == 1..m
           V == Seq(E)
           ch == [r \in SUBSET U |-> Max(r)]
           step == [i \in U |-> [v \in V |-> Emitted(t, node, v, s[i])]]
           N(j) == j = [r \in SUBSET (DOMAIN s) |->
                          IF r = {} THEN <<>>
                          ELSE Append(j[r \ {Max(r)}], EntryOf(t, s[Max(r)]))
                                 \o (IF s[Max(r)] \in DOMAIN t.dir THEN node[s[Max(r)]] ELSE <<>>)]
<1>1. DOMAIN s = U
  BY <1>13
<1>2. IsFiniteSet(U)
  <2>1. 1 \in Int /\ m \in Int
    BY <1>13
  <2> QED
    BY <2>1, FS_Interval
<1>3. \A r \in SUBSET U : r # {} => ch[r] \in r
  BY <1>13, MaxIsIn
<1>4. step \in [U -> [V -> V]] /\ <<>> \in V
  <2>1. ASSUME NEW i \in U, NEW v \in V PROVE Emitted(t, node, v, s[i]) \in V
    <3>1. Append(v, EntryOf(t, s[i])) \in V
      BY <1>13, AppendProperties
    <3>2. (IF s[i] \in DOMAIN t.dir THEN node[s[i]] ELSE <<>>) \in V
      BY <1>13, EmptySeq
    <3>3. \A a, b \in V : a \o b \in V
      BY ConcatProperties
    <3> HIDE DEF V
    <3> QED
      BY <3>1, <3>2, <3>3 DEF Emitted
  <2>2. <<>> \in V
    BY EmptySeq
  <2> HIDE DEF V
  <2> QED
    BY <2>1, <2>2
<1>5. PICK it : IsFold(it, U, V, <<>>, ch, step)
  <2> HIDE DEF U, ch, step, V
  <2> QED
    BY <1>2, <1>3, <1>4, FoldExists
<1>12. /\ it \in [SUBSET U -> V]
       /\ \A r \in SUBSET U : it[r] = IF r = {} THEN <<>> ELSE step[ch[r]][it[r \ {ch[r]}]]
  BY <1>5 DEF IsFold
<1>6. N(it)
  <2>1. ASSUME NEW r \in SUBSET U, r # {}
        PROVE  it[r] = Emitted(t, node, it[r \ {Max(r)}], s[Max(r)])
    <3>1. ch[r] = Max(r) /\ Max(r) \in U /\ it[r \ {Max(r)}] \in V
      BY <1>3, <1>12, <2>1
    <3> HIDE DEF U, V, ch
    <3> QED
      BY <1>12, <2>1, <3>1
  <2>2. \A r \in SUBSET U : it[r] = IF r = {} THEN <<>>
                          ELSE Append(it[r \ {Max(r)}], EntryOf(t, s[Max(r)]))
                                 \o (IF s[Max(r)] \in DOMAIN t.dir THEN node[s[Max(r)]] ELSE <<>>)
    BY <1>12, <2>1 DEF Emitted
  <2> HIDE DEF U, V
  <2> QED
    BY <1>1, <1>12, <2>2
<1>7. N(CHOOSE j : N(j))
  <2> HIDE DEF N
  <2> QED
    BY <1>6
<1>8. CaptureNode(t, node, d) = (CHOOSE j : N(j))[DOMAIN s]
  BY Zenon DEF KidsOf, CaptureNode, FoldLeft, MapThenFoldSet
<1> DEFINE g == CHOOSE j : N(j)
<1>9. /\ g[{}] = <<>>
      /\ \A r \in SUBSET U : r # {} => g[r] = Emitted(t, node, g[r \ {Max(r)}], s[Max(r)])
  <2> HIDE DEF g, U
  <2>1. N(g)
    BY <1>7 DEF g
  <2> QED
    BY <1>1, <2>1 DEF Emitted
<1> HIDE DEF g, N, s
<1>10. ASSUME NEW i \in 1..m, g[1..(i - 1)] = run[i - 1] PROVE g[1..i] = run[i]
  <2>1. 1..i # {} /\ Max(1..i) = i /\ (1..i) \ {Max(1..i)} = 1..(i - 1)
    <3>1. i \in Nat \ {0}
      BY <1>13
    <3> QED
      BY <3>1, MaxOfFirst
  <2>2. 1..i \in SUBSET U
    BY <1>13
  <2> HIDE DEF U
  <2> QED
    BY <1>9, <1>10, <1>13, <2>1, <2>2
<1>11. g[1..m] = run[m]
  <2>1. g[{}] = run[0]
    BY <1>9, <1>13
  <2> QED
    BY <1>13, <2>1, <1>10, FirstsFold
<1> QED
  BY <1>1, <1>8, <1>11 DEF g

LEMMA CaptureNodeIs ==
  ASSUME NEW t, TreeOfPaths(t), NEW d \in DOMAIN t.dir, NEW node,
         \A k \in In(DOMAIN t.dir, d) : node[k] = Contents(t)[k]
  PROVE  CaptureNode(t, node, d) = Contents(t)[d]
<1> DEFINE K == In(Items(t), d)
           s == ListOf(K)
           m == Len(s)
           run == [i \in 0..m |-> EntriesOf(t, ListOf(Upto(t, s, i)))]
           E == {EntryOf(t, p) : p \in Items(t)}
<1>1. /\ K \in SUBSET (Paths \ {<<>>}) /\ IsFiniteSet(K) /\ \A p, q \in K : Front(p) = Front(q)
  <2>1. \A p \in K : Front(p) = d
    BY DEF In
  <2> QED
    BY <2>1, ItemsFacts
<1>2. s = ByName(K)
  <2> HIDE DEF K
  <2> QED
    BY <1>1, ByNameLists
<1>3. /\ s \in Seq(Items(t)) /\ m \in Nat /\ \A i \in 1..m : s[i] \in K
      /\ Upto(t, s, 0) = {} /\ Upto(t, s, m) = Inside(t, d)
      /\ \A i \in 1..m :
           ListOf(Upto(t, s, i)) = (ListOf(Upto(t, s, i - 1)) \o <<s[i]>>) \o ListOf(Inside(t, s[i]))
  BY InsideByItem
<1>4. DOMAIN s = 1..m
  <2> HIDE DEF s
  <2> QED
    BY <1>3, LenProperties
<1> HIDE DEF s, m, K
<1>5. \A T \in SUBSET Items(t) : ListOf(T) \in Seq(Items(t))
  <2>1. \A T \in SUBSET Items(t) : T \in SUBSET Paths /\ IsFiniteSet(T)
    BY ItemsFacts, FS_Subset
  <2>2. \A T \in SUBSET Items(t) : ListOf(T) \in Seq(T)
    BY <2>1, ListOfIs DEF IsListing
  <2> QED
    BY <2>2, SeqMonotonic
<1>6. ASSUME NEW p \in Items(t)
      PROVE  /\ EntryOf(t, p) \in E /\ EntriesOf(t, ListOf(Inside(t, p))) \in Seq(E)
             /\ EntriesOf(t, ListOf(Inside(t, p))) = IF p \in DOMAIN t.dir THEN Contents(t)[p] ELSE <<>>
  <2>1. Inside(t, p) \in SUBSET Items(t)
    BY DEF Inside
  <2>2. EntriesOf(t, ListOf(Inside(t, p))) \in Seq(E)
    BY <1>5, <2>1, EntriesConcat
  <2>3. ASSUME p \notin DOMAIN t.dir PROVE EntriesOf(t, ListOf(Inside(t, p))) = <<>>
    <3>1. Inside(t, p) = {}
      <4> SUFFICES ASSUME NEW q \in Inside(t, p) PROVE FALSE
        OBVIOUS
      <4>1. q \in Items(t) /\ IsPrefix(p, q) /\ q # p
        BY DEF Inside, IsStrictPrefix
      <4>2. p \in DOMAIN t.dir
        BY <4>1, StepDown DEF TreeOfPaths, Items
      <4> QED
        BY <2>3, <4>2
    <3>2. ListOf({}) = <<>>
      <4>1. {} \in SUBSET Paths /\ IsFiniteSet({}) /\ IsListing(<<>>, PathOrder, {})
        BY FS_EmptySet, ListingOfOne
      <4> QED
        BY <4>1, ListOfIs
    <3>3. EntriesOf(t, <<>>) \in Seq(E) /\ Len(EntriesOf(t, <<>>)) = 0
      <4>1. <<>> \in Seq(Items(t)) /\ Len(<<>>) = 0
        BY EmptySeq
      <4> QED
        BY <4>1, EntriesConcat
    <3> HIDE DEF E
    <3> QED
      BY <3>1, <3>2, <3>3, EmptySeq
  <2> QED
    BY <2>2, <2>3 DEF Contents
<1>7. \A i \in 1..m : s[i] \in Items(t) /\ s[i] \in K /\ (s[i] \in DOMAIN t.dir => s[i] \in In(DOMAIN t.dir, d))
  BY <1>3 DEF K, In
<1>8. ASSUME NEW i \in 1..m PROVE run[i] = Emitted(t, node, run[i - 1], s[i])
  <2> DEFINE A == ListOf(Upto(t, s, i - 1))
             B == ListOf(Inside(t, s[i]))
             p == s[i]
  <2>1. i \in 0..m /\ i - 1 \in 0..m
    BY <1>3
  <2>2. run[i] = EntriesOf(t, (A \o <<p>>) \o B) /\ run[i - 1] = EntriesOf(t, A)
    BY <1>3, <2>1
  <2>3. p \in Items(t) /\ A \in Seq(Items(t)) /\ B \in Seq(Items(t)) /\ <<p>> \in Seq(Items(t))
    <3>1. p \in Items(t)
      BY <1>7
    <3>2. Upto(t, s, i - 1) \in SUBSET Items(t) /\ Inside(t, p) \in SUBSET Items(t)
      BY DEF Upto, Within, Inside
    <3> QED
      BY <1>5, <3>1, <3>2
  <2>9. /\ EntriesOf(t, B) = IF p \in DOMAIN t.dir THEN Contents(t)[p] ELSE <<>>
        /\ p \in DOMAIN t.dir => node[p] = Contents(t)[p]
    BY <1>6, <1>7
  <2> HIDE DEF A, B, p, run
  <2>4. A \o <<p>> = Append(A, p) /\ A \o <<p>> \in Seq(Items(t))
    BY <2>3, AppendIsConcat, ConcatProperties
  <2>5. EntriesOf(t, (A \o <<p>>) \o B) = EntriesOf(t, A \o <<p>>) \o EntriesOf(t, B)
    BY <2>3, <2>4, EntriesConcat
  <2>6. EntriesOf(t, A \o <<p>>) = EntriesOf(t, A) \o EntriesOf(t, <<p>>) /\ EntriesOf(t, A) \in Seq(E)
    BY <2>3, EntriesConcat
  <2>7. EntriesOf(t, <<p>>) = <<EntryOf(t, p)>>
    BY DEF EntriesOf
  <2>8. EntriesOf(t, A) \o <<EntryOf(t, p)>> = Append(EntriesOf(t, A), EntryOf(t, p))
    <3>1. EntryOf(t, p) \in E
      BY <2>3
    <3> HIDE DEF E
    <3> QED
      BY <2>6, <3>1, AppendIsConcat
  <2> QED
    BY <2>2, <2>5, <2>6, <2>7, <2>8, <2>9 DEF Emitted, p
<1>9. run[0] = <<>>
  <2>1. 0 \in 0..m
    BY <1>3
  <2>2. ListOf({}) = <<>>
    <3>1. {} \in SUBSET Paths /\ IsFiniteSet({}) /\ IsListing(<<>>, PathOrder, {})
      BY FS_EmptySet, ListingOfOne
    <3> QED
      BY <3>1, ListOfIs
  <2>3. EntriesOf(t, <<>>) \in Seq(E) /\ Len(EntriesOf(t, <<>>)) = 0
    <3>1. <<>> \in Seq(Items(t)) /\ Len(<<>>) = 0
      BY EmptySeq
    <3> QED
      BY <3>1, EntriesConcat
  <2>4. run[0] = EntriesOf(t, <<>>)
    BY <1>3, <2>1, <2>2
  <2> HIDE DEF E, run
  <2> QED
    BY <2>3, <2>4, EmptySeq
<1>10. \A i \in 1..m : /\ EntryOf(t, s[i]) \in E
                       /\ s[i] \in DOMAIN t.dir => node[s[i]] \in Seq(E)
  <2> HIDE DEF E
  <2> QED
    BY <1>6, <1>7
<1>11. run[m] = Contents(t)[d]
  <2>1. m \in 0..m
    BY <1>3
  <2> QED
    BY <1>3, <2>1 DEF Contents
<1> HIDE DEF run, E
<1>12. s = KidsOf(t, d)
  BY <1>2 DEF K, Items, KidsOf
<1>13. CaptureRun(t, node, d, m, E, run)
  BY <1>3, <1>4, <1>8, <1>9, <1>10, <1>12 DEF CaptureRun
<1>14. CaptureNode(t, node, d) = run[m]
  BY <1>13, CaptureNodeRuns
<1> QED
  BY <1>11, <1>14

LEMMA CapturedIs ==
  ASSUME NEW t, TreeOfPaths(t), <<>> \in DOMAIN t.dir
  PROVE  Captured(t) = EntriesOf(t, ListOf(Inside(t, <<>>)))
<1> DEFINE D == DOMAIN t.dir
           W == Contents(t)
           N(g) == g = [d \in DOMAIN t.dir |-> CaptureNode(t, g, d)]
<1>1. \A d \in D : W[d] = CaptureNode(t, W, d)
  <2> HIDE DEF W
  <2>1. \A d \in D : \A k \in In(D, d) : W[k] = Contents(t)[k]
    BY DEF W
  <2> QED
    BY <2>1, CaptureNodeIs DEF W
<1>2. W = [d \in D |-> W[d]]
  BY DEF Contents
<1>3. N(W)
  <2> HIDE DEF W
  <2> QED
    BY <1>1, <1>2
<1>4. N(CHOOSE g : N(g))
  <2> HIDE DEF N, W
  <2> QED
    BY <1>3
<1> DEFINE g == CHOOSE h : N(h)
<1>5. \A d \in D : g[d] = CaptureNode(t, g, d)
  <2> HIDE DEF g
  <2>1. N(g)
    BY <1>4 DEF g
  <2>2. g = [d \in DOMAIN t.dir |-> CaptureNode(t, g, d)]
    BY <2>1
  <2> QED
    BY <2>2
<1>6. Captured(t) = g[<<>>]
  BY Zenon DEF Captured
<1> HIDE DEF g, N, W
<1> DEFINE B == {d \in D : g[d] # W[d]}
<1>7. ASSUME B # {} PROVE FALSE
  <2>1. IsFiniteSet(B) /\ B \in SUBSET Paths
    <3>1. IsFiniteSet(D) /\ D \subseteq Paths /\ B \subseteq D
      BY DEF TreeOfPaths, IsTree, Paths
    <3> HIDE DEF B, D
    <3> QED
      BY <3>1, FS_Subset
  <2>2. PICK b \in B : \A x \in B : Len(x) <= Len(b)
    <3> HIDE DEF B
    <3> QED
      BY <1>7, <2>1, Longest DEF Paths
  <2>3. b \in D /\ g[b] # W[b]
    OBVIOUS
  <2>4. \A k \in In(D, b) : g[k] = W[k]
    <3> SUFFICES ASSUME NEW k \in In(D, b) PROVE g[k] = W[k]
      OBVIOUS
    <3>1. k \in D /\ k \in Paths /\ k # <<>> /\ Front(k) = b
      BY DEF In, TreeOfPaths, IsTree, Paths
    <3>2. Len(b) = Len(k) - 1 /\ Len(k) \in Nat
      BY <3>1, FrontByElement DEF Paths
    <3>3. k \notin B
      <4> HIDE DEF B
      <4> QED
        BY <2>2, <3>2
    <3> QED
      BY <3>1, <3>3
  <2>5. CaptureNode(t, g, b) = W[b]
    BY <2>3, <2>4, CaptureNodeIs DEF W
  <2> QED
    BY <1>5, <2>3, <2>5
<1>8. g[<<>>] = W[<<>>]
  BY <1>7
<1> QED
  BY <1>6, <1>8 DEF W, Contents

(***************************************************************************)
(* The scans compared, and their snapshots.                                *)
(***************************************************************************)
LEMMA TreesAreScans ==
  ASSUME NEW scan \in Trees
  PROVE  /\ IsScan(scan.listed, scan.file, Names) /\ <<>> \in DOMAIN scan.listed
         /\ TreeOf(scan) = [dir |-> AllBelow(scan.listed, scan.file, scan.cancelled),
                            file |-> scan.file, cancelled |-> scan.cancelled]
<1> DEFINE D == DOMAIN scan.listed
           F == DOMAIN scan.file
<1>1. /\ IsFiniteSet(D) /\ IsFiniteSet(F) /\ D \cup F \subseteq Seq(Names)
      /\ <<>> \in D /\ D \cap F = {} /\ \A p \in (D \cup F) \ {<<>>} : Front(p) \in D
      /\ scan.listed \in [D -> BOOLEAN] /\ scan.file \in [F -> Nat]
  BY DiffAssumption
<1>2. IsTree(D, F, Names)
  BY <1>1 DEF IsTree
<1>3. IsScan(scan.listed, scan.file, Names)
  BY <1>1, <1>2 DEF IsScan
<1>4. Finished(scan.listed, scan.file, scan.cancelled)
        = [dir |-> AllBelow(scan.listed, scan.file, scan.cancelled), file |-> scan.file, cancelled |-> scan.cancelled]
  BY <1>3, FinishedIs
<1> QED
  BY <1>1, <1>3, <1>4 DEF TreeOf

(* The items a snapshot has entries of, and these. *)
ItemsIn(fmt, scan) ==
  (IF fmt = "dgs" THEN DOMAIN scan.listed \cup DOMAIN scan.file ELSE DOMAIN scan.listed) \ {<<>>}

ItemEntry(fmt, scan, p) ==
  [key   |-> KeyOf(p),
   kind  |-> IF p \in DOMAIN scan.file THEN "file"
             ELSE IF fmt = "dgs" /\ ~scan.listed[p] THEN "unread" ELSE "dir",
   size  |-> IF p \in DOMAIN scan.file THEN scan.file[p] ELSE Below(scan, p)[1],
   files |-> IF p \in DOMAIN scan.file THEN 0 ELSE Below(scan, p)[2]]

Stream(fmt, scan) == ListOf(ItemsIn(fmt, scan))
EntriesIn(fmt, scan) == [i \in 1..Len(Stream(fmt, scan)) |-> ItemEntry(fmt, scan, Stream(fmt, scan)[i])]

LEMMA TreeFields ==
  ASSUME NEW scan \in Trees, NEW t, t = TreeOf(scan)
  PROVE  /\ DOMAIN t.dir = DOMAIN scan.listed /\ t.file = scan.file /\ t.cancelled = scan.cancelled
         /\ TreeOfPaths(t) /\ <<>> \in DOMAIN t.dir
         /\ DOMAIN scan.listed \cap DOMAIN scan.file = {} /\ <<>> \notin DOMAIN scan.file
         /\ \A d \in DOMAIN scan.listed :
              /\ t.dir[d].listed = scan.listed[d] /\ <<t.dir[d].size, t.dir[d].files>> = Below(scan, d)
              /\ t.dir[d].complete <=> ~scan.cancelled /\ \A e \in Within(DOMAIN scan.listed, d) : scan.listed[e]
<1>1. /\ IsScan(scan.listed, scan.file, Names) /\ <<>> \in DOMAIN scan.listed
      /\ t = [dir |-> AllBelow(scan.listed, scan.file, scan.cancelled),
              file |-> scan.file, cancelled |-> scan.cancelled]
  BY TreesAreScans
<1>2. /\ t.dir = AllBelow(scan.listed, scan.file, scan.cancelled) /\ t.file = scan.file
      /\ t.cancelled = scan.cancelled
  BY <1>1
<1>3. DOMAIN t.dir = DOMAIN scan.listed
  BY <1>2 DEF AllBelow
<1>4. /\ IsTree(DOMAIN scan.listed, DOMAIN scan.file, Names)
      /\ DOMAIN scan.listed \cap DOMAIN scan.file = {} /\ <<>> \notin DOMAIN scan.file
  BY <1>1 DEF IsScan, IsTree
<1>5. ASSUME NEW d \in DOMAIN scan.listed
      PROVE  /\ t.dir[d].listed = scan.listed[d] /\ <<t.dir[d].size, t.dir[d].files>> = Below(scan, d)
             /\ t.dir[d].complete <=> ~scan.cancelled /\ \A e \in Within(DOMAIN scan.listed, d) : scan.listed[e]
  <2> DEFINE b == TotalsBelow(scan.listed, scan.file, scan.cancelled, d)
  <2>1. t.dir[d] = b
    BY <1>2 DEF AllBelow
  <2>2. /\ b.size = Sum(scan.file, Within(DOMAIN scan.file, d))
        /\ b.files = Cardinality(Within(DOMAIN scan.file, d))
        /\ b.listed = scan.listed[d]
        /\ b.complete <=> ~scan.cancelled /\ \A e \in Within(DOMAIN scan.listed, d) : scan.listed[e]
    BY BelowFields
  <2> HIDE DEF b
  <2>3. Sum(scan.file, Within(DOMAIN scan.file, d)) = SumOver(scan.file, Within(DOMAIN scan.file, d))
    BY SumsAgree
  <2> QED
    BY <2>1, <2>2, <2>3 DEF Below
<1> QED
  BY <1>1, <1>2, <1>3, <1>4, <1>5 DEF TreeOfPaths

LEMMA ItemsInFacts ==
  ASSUME NEW scan \in Trees, NEW fmt
  PROVE  /\ ItemsIn(fmt, scan) \in SUBSET Paths /\ IsFiniteSet(ItemsIn(fmt, scan)) /\ <<>> \notin ItemsIn(fmt, scan)
         /\ IsListing(Stream(fmt, scan), PathOrder, ItemsIn(fmt, scan))
<1>1. IsScan(scan.listed, scan.file, Names)
  BY TreesAreScans
<1>2. /\ IsFiniteSet(DOMAIN scan.listed \cup DOMAIN scan.file)
      /\ DOMAIN scan.listed \cup DOMAIN scan.file \subseteq Paths
  BY <1>1, FS_Union DEF IsScan, IsTree, Paths
<1>3. ItemsIn(fmt, scan) \subseteq DOMAIN scan.listed \cup DOMAIN scan.file /\ <<>> \notin ItemsIn(fmt, scan)
  BY DEF ItemsIn
<1>4. ItemsIn(fmt, scan) \in SUBSET Paths /\ IsFiniteSet(ItemsIn(fmt, scan))
  BY <1>2, <1>3, FS_Subset
<1> QED
  BY <1>3, <1>4, ListOfIs DEF Stream

LEMMA ImageFinite ==
  ASSUME NEW A, IsFiniteSet(A), NEW h
  PROVE  IsFiniteSet({h[x] : x \in A})
<1> DEFINE I == {h[x] : x \in A}
           g == [x \in A |-> h[x]]
<1>1. g \in Surjection(A, I)
  BY DEF Surjection
<1> HIDE DEF I, g
<1>2. IsFiniteSet(I)
  BY <1>1, FS_Surjection
<1> QED
  BY <1>2 DEF I

LEMMA CaptureIs ==
  ASSUME NEW scan \in Trees
  PROVE  Captured(TreeOf(scan)) = EntriesIn("dgs", scan)
<1> DEFINE t == TreeOf(scan)
           L == Stream("dgs", scan)
<1>1. /\ DOMAIN t.dir = DOMAIN scan.listed /\ t.file = scan.file
      /\ TreeOfPaths(t) /\ <<>> \in DOMAIN t.dir
      /\ DOMAIN scan.listed \cap DOMAIN scan.file = {} /\ <<>> \notin DOMAIN scan.file
      /\ \A d \in DOMAIN scan.listed :
           t.dir[d].listed = scan.listed[d] /\ <<t.dir[d].size, t.dir[d].files>> = Below(scan, d)
  BY TreeFields
<1> HIDE DEF t
<1>2. Captured(t) = EntriesOf(t, ListOf(Inside(t, <<>>)))
  BY <1>1, CapturedIs
<1>3. Inside(t, <<>>) = ItemsIn("dgs", scan)
  <2>1. \A p \in Items(t) : IsPrefix(<<>>, p)
    <3> SUFFICES ASSUME NEW p \in Items(t) PROVE IsPrefix(<<>>, p)
      OBVIOUS
    <3>1. p \in Paths /\ <<>> \in Paths /\ Len(<<>>) = 0
      BY <1>1, ItemsFacts, EmptySeq DEF Paths
    <3>2. Len(<<>>) <= Len(p) /\ \A i \in 1..Len(<<>>) : <<>>[i] = p[i]
      BY <3>1, LenProperties DEF Paths
    <3> QED
      BY <3>1, <3>2, PrefixByElement DEF Paths
  <2> QED
    BY <1>1, <2>1 DEF Inside, Items, ItemsIn, IsStrictPrefix
<1>4. EntriesOf(t, L) = [i \in 1..Len(L) |-> EntryOf(t, L[i])]
  BY DEF EntriesOf
<1>5. ASSUME NEW p \in ItemsIn("dgs", scan) PROVE EntryOf(t, p) = ItemEntry("dgs", scan, p)
  <2>1. CASE p \in DOMAIN scan.listed
    <3>1. p \notin DOMAIN scan.file
      BY <1>1, <2>1
    <3>2. t.dir[p].size = Below(scan, p)[1] /\ t.dir[p].files = Below(scan, p)[2] /\ t.dir[p].listed = scan.listed[p]
      <4>1. <<t.dir[p].size, t.dir[p].files>> = Below(scan, p)
        BY <1>1, <2>1
      <4> DEFINE x == t.dir[p].size
                 y == t.dir[p].files
      <4>2. <<x, y>> = Below(scan, p)
        BY <4>1
      <4> HIDE DEF x, y
      <4>3. x = Below(scan, p)[1] /\ y = Below(scan, p)[2]
        BY <4>2
      <4> QED
        BY <1>1, <2>1, <4>3 DEF x, y
    <3>3. p \in DOMAIN t.dir
      BY <1>1, <2>1
    <3> QED
      BY <3>1, <3>2, <3>3 DEF EntryOf, ItemEntry
  <2>2. CASE p \notin DOMAIN scan.listed
    <3>1. p \in DOMAIN scan.file /\ p \notin DOMAIN t.dir
      BY <1>1, <1>5, <2>2 DEF ItemsIn
    <3> QED
      BY <1>1, <3>1 DEF EntryOf, ItemEntry
  <2> QED
    BY <2>1, <2>2
<1>6. \A i \in 1..Len(L) : L[i] \in ItemsIn("dgs", scan)
  BY ItemsInFacts, ElementOfSeq DEF IsListing
<1>7. EntriesOf(t, L) = EntriesIn("dgs", scan)
  <2> HIDE DEF L
  <2> QED
    BY <1>4, <1>5, <1>6 DEF EntriesIn, L
<1> QED
  BY <1>2, <1>3, <1>7 DEF t, Stream

(* The entries of the older format, in the order of their keys. *)
LegacyDirs(t) ==
  {[key |-> KeyOf(d), kind |-> "dir", size |-> t.dir[d].size, files |-> t.dir[d].files] :
     d \in DOMAIN t.dir \ {<<>>}}
LegacyList(t) == InOrder(LegacyDirs(t), LAMBDA d, e : KeyBefore(d.key, e.key))

LEMMA LegacyIs ==
  ASSUME NEW scan \in Trees
  PROVE  LegacyList(TreeOf(scan)) = EntriesIn("json", scan)
<1> DEFINE t == TreeOf(scan)
           A == ItemsIn("json", scan)
           L == Stream("json", scan)
           m == EntriesIn("json", scan)
           S == LegacyDirs(t)
           R == {x \in S \X S : KeyBefore(x[1].key, x[2].key)}
           e == [p \in A |-> ItemEntry("json", scan, p)]
           s == LegacyList(t)
           k == Cardinality(S)
           Ahead(x) == {y \in S : KeyBefore(y.key, x.key)}
<1>1. /\ DOMAIN t.dir = DOMAIN scan.listed
      /\ DOMAIN scan.listed \cap DOMAIN scan.file = {}
      /\ \A d \in DOMAIN scan.listed : <<t.dir[d].size, t.dir[d].files>> = Below(scan, d)
  BY TreeFields
<1>2. /\ A \in SUBSET Paths /\ IsFiniteSet(A) /\ IsListing(L, PathOrder, A)
  BY ItemsInFacts
<1> HIDE DEF t, L
<1>3. \A p \in A : e[p] = [key |-> KeyOf(p), kind |-> "dir", size |-> t.dir[p].size, files |-> t.dir[p].files]
  <2> SUFFICES ASSUME NEW p \in A
               PROVE  ItemEntry("json", scan, p) = [key |-> KeyOf(p), kind |-> "dir", size |-> t.dir[p].size, files |-> t.dir[p].files]
    OBVIOUS
  <2>1. p \in DOMAIN scan.listed /\ p \notin DOMAIN scan.file
    BY <1>1 DEF ItemsIn
  <2> DEFINE x == t.dir[p].size
             y == t.dir[p].files
  <2>2. <<x, y>> = Below(scan, p)
    BY <1>1, <2>1
  <2> HIDE DEF x, y
  <2>3. x = Below(scan, p)[1] /\ y = Below(scan, p)[2]
    BY <2>2
  <2> QED
    BY <2>1, <2>3 DEF ItemEntry, x, y
<1>4. S = {e[p] : p \in A}
  <2>1. A = DOMAIN t.dir \ {<<>>}
    BY <1>1 DEF ItemsIn
  <2> HIDE DEF e, A
  <2> QED
    BY <1>3, <2>1 DEF LegacyDirs
<1>5. IsFiniteSet(S)
  <2> HIDE DEF S, e, A
  <2> QED
    BY <1>2, <1>4, ImageFinite
<1>6. \A p \in A : e[p].key = KeyOf(p)
  BY <1>3
<1> HIDE DEF A, S, e
<1>7. \A p, q \in A : /\ <<e[p], e[q]>> \in R <=> <<p, q>> \in PathOrder
                      /\ KeyOf(p) = KeyOf(q) => p = q
  <2> SUFFICES ASSUME NEW p \in A, NEW q \in A
               PROVE  /\ <<e[p], e[q]>> \in R <=> <<p, q>> \in PathOrder
                      /\ KeyOf(p) = KeyOf(q) => p = q
    OBVIOUS
  <2>1. p \in Paths /\ q \in Paths /\ e[p] \in S /\ e[q] \in S
    BY <1>2, <1>4
  <2>2. <<e[p], e[q]>> \in R <=> KeyBefore(e[p].key, e[q].key)
    BY <2>1
  <2> QED
    BY <1>6, <2>1, <2>2, KeysOrdered
<1>8. IsOrder(R, S)
  <2> HIDE DEF R
  <2>1. IsOrder(PathOrder, A)
    BY <1>2, PathOrderIs, OrderOfPart
  <2> QED
    BY <1>4, <1>7, <2>1 DEF IsOrder
<1>9. \A x \in S : Ahead(x) = {y \in S : <<y, x>> \in R}
  OBVIOUS
<1>10. k \in Nat
  BY <1>5, FS_CardinalityType
<1>11. s = [i \in 1..k |-> CHOOSE x \in S : Cardinality(Ahead(x)) = i - 1]
  BY DEF LegacyList, InOrder, S
<1>12. ASSUME NEW i \in 1..k PROVE s[i] \in S /\ Rank(S, R, s[i]) = i - 1
  <2>1. i - 1 \in 0..(k - 1)
    BY <1>10
  <2>2. \E x \in S : Rank(S, R, x) = i - 1
    <3> HIDE DEF R
    <3> QED
      BY <1>5, <1>8, <2>1, RankReaches
  <2>3. \A x \in S : Cardinality(Ahead(x)) = Rank(S, R, x)
    BY <1>9 DEF Rank
  <2> HIDE DEF Ahead, R
  <2>4. s[i] \in S /\ Cardinality(Ahead(s[i])) = i - 1
    <3> HIDE DEF s, k
    <3>1. s[i] = CHOOSE x \in S : Cardinality(Ahead(x)) = i - 1
      BY <1>11
    <3>2. \E x \in S : Cardinality(Ahead(x)) = i - 1
      BY <2>2, <2>3
    <3> QED
      BY <3>1, <3>2
  <2> QED
    BY <2>3, <2>4
<1>13. IsListing(s, R, S)
  <2>1. s = [i \in 1..k |-> s[i]]
    BY <1>11
  <2> HIDE DEF s, Ahead, R
  <2> QED
    BY <1>5, <1>8, <1>12, <2>1, InOrderLists
<1>14. IsListing(m, R, S)
  <2>1. /\ L \in Seq(A) /\ Len(L) \in Nat /\ \A i \in 1..Len(L) : L[i] \in A
    BY <1>2, LenProperties, ElementOfSeq DEF IsListing
  <2>2. m = [i \in 1..Len(L) |-> ItemEntry("json", scan, L[i])]
    BY DEF EntriesIn, L
  <2>3. m = [i \in 1..Len(L) |-> e[L[i]]]
    <3>1. \A i \in 1..Len(L) : e[L[i]] = ItemEntry("json", scan, L[i])
      BY <2>1 DEF e
    <3> HIDE DEF m
    <3> QED
      BY <2>2, <3>1
  <2>4. m \in [1..Len(L) -> S]
    <3> HIDE DEF m
    <3> QED
      BY <1>4, <2>1, <2>3
  <2>5. m \in Seq(S) /\ Len(m) = Len(L)
    <3> HIDE DEF m
    <3> QED
      BY <2>1, <2>4, FunctionIsSeq
  <2>6. \A i \in 1..Len(L) : m[i] = e[L[i]]
    <3> HIDE DEF m
    <3> QED
      BY <2>3
  <2> HIDE DEF m, R
  <2>7. \A x \in S : \E i \in 1..Len(m) : m[i] = x
    <3> SUFFICES ASSUME NEW x \in S PROVE \E i \in 1..Len(m) : m[i] = x
      OBVIOUS
    <3>1. PICK p \in A : x = e[p]
      BY <1>4
    <3>2. PICK i \in 1..Len(L) : L[i] = p
      BY <1>2 DEF IsListing
    <3> QED
      BY <2>5, <2>6, <3>1, <3>2
  <2>8. \A i, j \in 1..Len(m) : i < j => <<m[i], m[j]>> \in R
    <3> SUFFICES ASSUME NEW i \in 1..Len(m), NEW j \in 1..Len(m), i < j PROVE <<m[i], m[j]>> \in R
      OBVIOUS
    <3>1. <<L[i], L[j]>> \in PathOrder
      BY <1>2, <2>5 DEF IsListing
    <3> QED
      BY <1>7, <2>1, <2>5, <2>6, <3>1
  <2> QED
    BY <2>5, <2>7, <2>8 DEF IsListing
<1> HIDE DEF s, m, R
<1>15. s = m
  BY <1>8, <1>13, <1>14, ListingUnique
<1> QED
  BY <1>15 DEF s, m, t

LEMMA SnapIs ==
  ASSUME NEW scan \in Trees, NEW fmt \in {"dgs", "json"}
  PROVE  /\ Snap[fmt][scan].data = Encoded(EntriesIn(fmt, scan))
         /\ Snap[fmt][scan].hasFiles <=> fmt = "dgs"
         /\ Snap[fmt][scan].head.total = Below(scan, <<>>)
         /\ Snap[fmt][scan].head.complete <=> (fmt = "dgs" => Whole(scan))
<1> DEFINE t == TreeOf(scan)
<1>1. /\ DOMAIN t.dir = DOMAIN scan.listed /\ <<>> \in DOMAIN t.dir /\ TreeOfPaths(t)
      /\ <<t.dir[<<>>].size, t.dir[<<>>].files>> = Below(scan, <<>>)
      /\ t.dir[<<>>].complete <=> ~scan.cancelled /\ \A e \in Within(DOMAIN scan.listed, <<>>) : scan.listed[e]
  BY TreeFields
<1>2. Within(DOMAIN scan.listed, <<>>) = DOMAIN scan.listed
  <2>1. ASSUME NEW p \in DOMAIN scan.listed PROVE IsPrefix(<<>>, p)
    <3>1. p \in Paths /\ <<>> \in Paths /\ Len(<<>>) = 0
      BY <1>1, EmptySeq DEF Paths, TreeOfPaths, IsTree
    <3>2. Len(<<>>) <= Len(p) /\ \A i \in 1..Len(<<>>) : <<>>[i] = p[i]
      BY <3>1, LenProperties DEF Paths
    <3> QED
      BY <3>1, <3>2, PrefixByElement DEF Paths
  <2> QED
    BY <2>1 DEF Within
<1>3. t.dir[<<>>].complete <=> Whole(scan)
  BY <1>1, <1>2 DEF Whole
<1>4. Header(t).total = Below(scan, <<>>) /\ (Header(t).complete <=> Whole(scan))
  BY <1>1, <1>3 DEF Header
<1>5. Snap = [dgs |-> [z \in Trees |-> Capture(TreeOf(z))], json |-> [z \in Trees |-> FromLegacy(TreeOf(z))]]
  BY DEF Snap
<1>6. CASE fmt = "dgs"
  <2>1. Snap[fmt][scan] = Capture(t)
    BY <1>5, <1>6
  <2>2. Snap[fmt][scan] = [head |-> Header(t), hasFiles |-> TRUE, data |-> Encoded(EntriesIn("dgs", scan))]
    BY <2>1, CaptureIs DEF Capture
  <2> HIDE DEF t
  <2> QED
    BY <1>4, <1>6, <2>2
<1>7. CASE fmt = "json"
  <2>1. Snap[fmt][scan] = FromLegacy(t)
    BY <1>5, <1>7
  <2>2. FromLegacy(t) = [head |-> [Header(t) EXCEPT !.complete = TRUE], hasFiles |-> FALSE,
                         data |-> Encoded(LegacyList(t))]
    BY DEF FromLegacy, LegacyList, LegacyDirs
  <2>3. Snap[fmt][scan] = [head |-> [Header(t) EXCEPT !.complete = TRUE], hasFiles |-> FALSE,
                           data |-> Encoded(EntriesIn("json", scan))]
    BY <2>1, <2>2, LegacyIs
  <2>4. /\ [Header(t) EXCEPT !.complete = TRUE].total = Header(t).total
        /\ [Header(t) EXCEPT !.complete = TRUE].complete = TRUE
    BY DEF Header
  <2> DEFINE h == [Header(t) EXCEPT !.complete = TRUE]
  <2>5. h.total = Below(scan, <<>>) /\ h.complete
    BY <1>4, <2>4
  <2>6. Snap[fmt][scan] = [head |-> h, hasFiles |-> FALSE, data |-> Encoded(EntriesIn("json", scan))]
    BY <2>3
  <2> HIDE DEF t, h
  <2>7. Snap[fmt][scan].head = h /\ ~Snap[fmt][scan].hasFiles
        /\ Snap[fmt][scan].data = Encoded(EntriesIn("json", scan))
    BY <2>6
  <2> QED
    BY <1>7, <2>5, <2>7
<1> QED
  BY <1>6, <1>7

-----------------------------------------------------------------------------
(***************************************************************************)
(* Numbers in a snapshot.                                                  *)
(***************************************************************************)

Coded(g, v) == IF v < 128 THEN <<v>> ELSE <<(v % 128) + 128>> \o g[v \div 128]

LEMMA Shorter ==
  ASSUME NEW v \in Nat, ~(v < 128)
  PROVE  /\ v \div 128 \in 0..(v - 1) /\ v \div 128 \in Nat
         /\ v = (v \div 128) * 128 + (v % 128) /\ v % 128 \in 0..127
         /\ ((v % 128) + 128) % 128 = v % 128
OBVIOUS

(* Codes of the numbers up to k. *)
CodesTo(g, k) == g = [v \in 0..k |-> g[v]] /\ \A v \in 0..k : g[v] = Coded(g, v)

LEMMA CodesExist == \A k \in Nat : \E g : CodesTo(g, k)
<1> DEFINE Q == {k \in Nat : ~ \E g : CodesTo(g, k)}
<1>1. ASSUME Q # {} PROVE FALSE
  <2>1. PICK k \in Q : \A x \in Q : k <= x
    <3>1. Q \in SUBSET Nat
      OBVIOUS
    <3> HIDE DEF Q
    <3> QED
      BY <1>1, <3>1, LeastNat
  <2>2. k \in Nat /\ ~ \E g : CodesTo(g, k)
    OBVIOUS
  <2>3. CASE k = 0
    <3> DEFINE g == [v \in 0..0 |-> <<0>>]
    <3>1. g[0] = <<0>> /\ g = [v \in 0..0 |-> g[v]] /\ \A v \in 0..0 : v = 0
      OBVIOUS
    <3> HIDE DEF g
    <3>2. CodesTo(g, 0)
      BY <3>1 DEF CodesTo, Coded
    <3> QED
      BY <2>2, <2>3, <3>2
  <2>4. CASE k # 0
    <3>1. k - 1 \in Nat /\ ~(k <= k - 1)
      BY <2>2, <2>4
    <3>2. k - 1 \notin Q
      <4> HIDE DEF Q
      <4> QED
        BY <2>1, <3>1
    <3>3. PICK h : CodesTo(h, k - 1)
      BY <3>1, <3>2
    <3> DEFINE g == [v \in 0..k |-> IF v = k THEN Coded(h, k) ELSE h[v]]
    <3>4. g = [v \in 0..k |-> g[v]] /\ g[k] = Coded(h, k) /\ \A v \in 0..(k - 1) : g[v] = h[v]
      BY <2>2
    <3> HIDE DEF g, Q
    <3>5. ASSUME NEW v \in 0..k PROVE Coded(g, v) = Coded(h, v)
      <4>1. CASE v < 128
        BY <4>1 DEF Coded
      <4>2. CASE ~(v < 128)
        <5>1. v \in Nat
          BY <2>2
        <5>2. v \div 128 \in 0..(v - 1)
          BY <4>2, <5>1, Shorter
        <5>3. v \div 128 \in 0..(k - 1)
          BY <2>2, <5>1, <5>2
        <5> QED
          BY <3>4, <5>3 DEF Coded
      <4> QED
        BY <4>1, <4>2
    <3>6. ASSUME NEW v \in 0..k PROVE g[v] = Coded(g, v)
      <4>1. CASE v = k
        BY <3>4, <3>5, <4>1
      <4>2. CASE v # k
        <5>1. v \in 0..(k - 1)
          BY <2>2, <4>2
        <5>2. h[v] = Coded(h, v)
          BY <3>3, <5>1 DEF CodesTo
        <5> QED
          BY <3>4, <3>5, <5>1, <5>2
      <4> QED
        BY <4>1, <4>2
    <3>7. CodesTo(g, k)
      BY <3>4, <3>6 DEF CodesTo
    <3> QED
      BY <2>2, <3>7
  <2> QED
    BY <2>3, <2>4
<1> QED
  BY <1>1

LEMMA CodesAgree ==
  ASSUME NEW k \in Nat, NEW l \in Nat, NEW g, NEW h, CodesTo(g, k), CodesTo(h, l)
  PROVE  \A v \in Nat : v <= k /\ v <= l => g[v] = h[v]
<1> DEFINE Q == {v \in Nat : v <= k /\ v <= l /\ g[v] # h[v]}
<1>1. ASSUME Q # {} PROVE FALSE
  <2>1. PICK v \in Q : \A x \in Q : v <= x
    <3>1. Q \in SUBSET Nat
      OBVIOUS
    <3> HIDE DEF Q
    <3> QED
      BY <1>1, <3>1, LeastNat
  <2>2. v \in Nat /\ v <= k /\ v <= l /\ g[v] # h[v]
    OBVIOUS
  <2>3. g[v] = Coded(g, v) /\ h[v] = Coded(h, v)
    <3>1. v \in 0..k /\ v \in 0..l
      BY <2>2
    <3>2. (\A x \in 0..k : g[x] = Coded(g, x)) /\ (\A x \in 0..l : h[x] = Coded(h, x))
      BY DEF CodesTo
    <3> HIDE DEF Q
    <3> QED
      BY <3>1, <3>2
  <2>4. ~(v < 128)
    BY <2>2, <2>3 DEF Coded
  <2>5. v \div 128 \in Nat /\ v \div 128 < v
    <3>1. v \div 128 \in 0..(v - 1)
      BY <2>2, <2>4, Shorter
    <3> QED
      BY <2>2, <3>1
  <2>6. g[v \div 128] = h[v \div 128]
    <3>1. v \div 128 \notin Q
      <4> HIDE DEF Q
      <4> QED
        BY <2>1, <2>2, <2>5
    <3> QED
      BY <2>2, <2>5, <3>1
  <2> HIDE DEF Q
  <2> QED
    BY <2>2, <2>3, <2>4, <2>6 DEF Coded
<1> QED
  BY <1>1

LEMMA VarintIs == \A v \in Nat : Varint[v] = Coded(Varint, v)
<1> DEFINE c == [k \in Nat |-> CHOOSE g : CodesTo(g, k)]
           W == [v \in Nat |-> c[v][v]]
           N(f) == f = [v \in Nat |-> IF LastByte(v) THEN <<v>> ELSE <<(v % 128) + 128>> \o f[v \div 128]]
<1>1. \A k \in Nat : CodesTo(c[k], k)
  <2> SUFFICES ASSUME NEW k \in Nat PROVE CodesTo(c[k], k)
    OBVIOUS
  <2>1. \E g : CodesTo(g, k)
    BY CodesExist
  <2>2. CodesTo(CHOOSE g : CodesTo(g, k), k)
    BY <2>1
  <2> QED
    BY <2>2
<1> HIDE DEF c
<1>2. ASSUME NEW v \in Nat PROVE W[v] = Coded(W, v)
  <2>1. c[v][v] = Coded(c[v], v)
    <3>1. v \in 0..v
      OBVIOUS
    <3>2. \A x \in 0..v : c[v][x] = Coded(c[v], x)
      BY <1>1 DEF CodesTo
    <3> QED
      BY <3>1, <3>2
  <2>2. CASE v < 128
    BY <2>1, <2>2 DEF Coded
  <2>3. CASE ~(v < 128)
    <3>1. v \div 128 \in Nat /\ v \div 128 <= v
      <4>1. v \div 128 \in 0..(v - 1)
        BY <2>3, Shorter
      <4> QED
        BY <4>1
    <3>2. c[v][v \div 128] = c[v \div 128][v \div 128]
      <4> DEFINE u == v \div 128
      <4>1. u \in Nat /\ u <= v /\ u <= u /\ CodesTo(c[v], v) /\ CodesTo(c[u], u)
        BY <1>1, <3>1
      <4> HIDE DEF u
      <4>2. c[v][u] = c[u][u]
        BY <4>1, CodesAgree
      <4> QED
        BY <4>2 DEF u
    <3> QED
      BY <2>1, <2>3, <3>1, <3>2 DEF Coded
  <2> QED
    BY <2>2, <2>3
<1>3. N(W)
  <2>1. W = [v \in Nat |-> W[v]]
    OBVIOUS
  <2>2. \A v \in Nat : W[v] = IF LastByte(v) THEN <<v>> ELSE <<(v % 128) + 128>> \o W[v \div 128]
    <3> HIDE DEF W
    <3> QED
      BY <1>2 DEF Coded, LastByte
  <2> HIDE DEF W
  <2> QED
    BY <2>1, <2>2
<1>4. N(CHOOSE f : N(f))
  <2> HIDE DEF N, W
  <2> QED
    BY <1>3
<1>5. Varint = CHOOSE f : N(f)
  BY Zenon DEF Varint
<1> HIDE DEF W
<1>6. N(Varint)
  <2> HIDE DEF N
  <2> QED
    BY <1>4, <1>5
<1>7. \A v \in Nat : Varint[v] = IF LastByte(v) THEN <<v>> ELSE <<(v % 128) + 128>> \o Varint[v \div 128]
  BY <1>6
<1> QED
  BY <1>7 DEF Coded, LastByte

(* What get_varint has from the last byte on. *)
VarintRun(bytes, m, run) ==
  /\ m \in Nat /\ DOMAIN bytes = 1..m /\ \A i \in 1..m : bytes[i] \in Nat
  /\ run[m + 1] = 0 /\ \A i \in 1..m : run[i] = run[i + 1] * 128 + (bytes[i] % 128)

LEMMA GetVarintRuns ==
  ASSUME NEW bytes, NEW k, NEW run, VarintRun(bytes, k, run)
  PROVE  GetVarint(bytes) = run[1]
<1> DEFINE U == 1..k
           ch == [s \in SUBSET U |-> Min(s)]
           step == [i \in U |-> [v \in Nat |-> v * 128 + (bytes[i] % 128)]]
           N(j) == j = [s \in SUBSET (DOMAIN bytes) |->
                          IF s = {} THEN 0 ELSE j[s \ {Min(s)}] * 128 + (bytes[Min(s)] % 128)]
<1>1. /\ k \in Nat /\ DOMAIN bytes = U /\ (\A i \in U : bytes[i] \in Nat)
      /\ run[k + 1] = 0 /\ \A i \in 1..k : run[i] = run[i + 1] * 128 + (bytes[i] % 128)
  BY DEF VarintRun
<1>2. IsFiniteSet(U)
  <2>1. 1 \in Int /\ k \in Int
    BY <1>1
  <2> QED
    BY <2>1, FS_Interval
<1>3. \A s \in SUBSET U : s # {} => ch[s] \in s
  <2> SUFFICES ASSUME NEW s \in SUBSET U, s # {} PROVE Min(s) \in s
    OBVIOUS
  <2>1. s \in SUBSET Nat
    BY <1>1
  <2> QED
    BY <2>1, MinIsIn
<1>4. step \in [U -> [Nat -> Nat]] /\ 0 \in Nat
  <2>1. \A i \in U, v \in Nat : v * 128 + (bytes[i] % 128) \in Nat
    <3> SUFFICES ASSUME NEW i \in U, NEW v \in Nat PROVE v * 128 + (bytes[i] % 128) \in Nat
      OBVIOUS
    <3>1. \A b \in Nat : b % 128 \in Nat
      OBVIOUS
    <3>2. bytes[i] % 128 \in Nat
      BY <1>1, <3>1
    <3> QED
      BY <3>2
  <2> QED
    BY <2>1
<1>5. PICK it : IsFold(it, U, Nat, 0, ch, step)
  <2> HIDE DEF U, ch, step
  <2> QED
    BY <1>2, <1>3, <1>4, FoldExists
<1>6. /\ it \in [SUBSET U -> Nat]
      /\ \A s \in SUBSET U : it[s] = IF s = {} THEN 0 ELSE step[ch[s]][it[s \ {ch[s]}]]
  BY <1>5 DEF IsFold
<1>7. N(it)
  <2>1. ASSUME NEW s \in SUBSET U, s # {}
        PROVE  it[s] = it[s \ {Min(s)}] * 128 + (bytes[Min(s)] % 128)
    <3>1. ch[s] = Min(s) /\ Min(s) \in U /\ it[s \ {Min(s)}] \in Nat
      BY ZenonT(40), <1>3, <1>6, <2>1
    <3>2. it[s] = step[Min(s)][it[s \ {Min(s)}]]
      <4> HIDE DEF U, ch, step
      <4> QED
        BY <1>6, <2>1, <3>1
    <3> HIDE DEF U, ch
    <3> QED
      BY <3>1, <3>2
  <2>2. \A s \in SUBSET U : it[s] = IF s = {} THEN 0 ELSE it[s \ {Min(s)}] * 128 + (bytes[Min(s)] % 128)
    BY <1>6, <2>1
  <2> HIDE DEF U
  <2> QED
    BY <1>1, <1>6, <2>2
<1>8. N(CHOOSE j : N(j))
  <2> HIDE DEF N
  <2> QED
    BY <1>7
<1>9. GetVarint(bytes) = (CHOOSE j : N(j))[DOMAIN bytes]
  BY Zenon DEF GetVarint, FoldRight, MapThenFoldSet
<1> DEFINE g == CHOOSE j : N(j)
<1>10. /\ g[{}] = 0
       /\ \A s \in SUBSET U : s # {} => g[s] = g[s \ {Min(s)}] * 128 + (bytes[Min(s)] % 128)
  <2> HIDE DEF g, U
  <2>1. N(g)
    BY <1>8 DEF g
  <2> QED
    BY ZenonT(40), <1>1, <2>1
<1> HIDE DEF g, N
<1>11. ASSUME NEW i \in 1..k, g[(i + 1)..k] = run[i + 1] PROVE g[i..k] = run[i]
  <2>1. i..k # {} /\ Min(i..k) = i /\ (i..k) \ {Min(i..k)} = (i + 1)..k
    BY <1>1, MinOfLast
  <2>2. i..k \in SUBSET U
    BY <1>1
  <2> DEFINE m == Min(i..k)
             r == (i..k) \ {m}
  <2>3. g[i..k] = g[r] * 128 + (bytes[m] % 128)
    <3> HIDE DEF U
    <3> QED
      BY <1>10, <2>1, <2>2
  <2>4. m = i /\ r = (i + 1)..k
    BY <2>1
  <2> HIDE DEF m, r
  <2>5. g[i..k] = run[i + 1] * 128 + (bytes[i] % 128)
    BY <1>11, <2>3, <2>4
  <2>6. run[i] = run[i + 1] * 128 + (bytes[i] % 128)
    BY <1>1
  <2> QED
    BY <2>5, <2>6
<1> DEFINE S == {i \in 1..k : g[i..k] = run[i]}
<1>12. ASSUME NEW i \in 1..k, i \notin S PROVE FALSE
  <2>1. PICK m \in 1..k : m \notin S /\ \A j \in (m + 1)..k : j \in S
    <3> HIDE DEF S
    <3> QED
      BY <1>1, <1>12, LastMissing
  <2>2. g[m..k] # run[m]
    BY <2>1
  <2>3. CASE m = k
    <3>1. (m + 1)..k = {}
      BY <1>1, <2>3
    <3>2. run[m + 1] = 0
      BY <1>1, <2>3
    <3>3. g[(m + 1)..k] = run[m + 1]
      BY <1>10, <3>1, <3>2
    <3> QED
      BY <1>11, <2>2, <3>3
  <2>4. CASE m # k
    <3>1. m + 1 \in (m + 1)..k
      BY <1>1, <2>4
    <3>2. g[(m + 1)..k] = run[m + 1]
      BY <2>1, <3>1
    <3> QED
      BY <1>11, <2>2, <3>2
  <2> QED
    BY <2>3, <2>4
<1>13. g[1..k] = run[1]
  <2>1. CASE k = 0
    <3>1. 1..k = {} /\ k + 1 = 1
      BY <2>1
    <3> QED
      BY <1>1, <1>10, <3>1
  <2>2. CASE k # 0
    <3>1. 1 \in 1..k
      BY <1>1, <2>2
    <3>2. 1 \in S
      BY <1>12, <3>1
    <3> QED
      BY <3>2
  <2> QED
    BY <2>1, <2>2
<1> QED
  BY <1>1, <1>9, <1>13 DEF g

(* A number that put_varint writes is the number get_varint reads.         *)
THEOREM VarintReads == \A v \in Nat : GetVarint(Varint[v]) = v
<1> DEFINE Fails(v) == ~ \E m, run : VarintRun(Varint[v], m, run) /\ run[1] = v /\ Varint[v] \in Seq(Nat)
           Q == {v \in Nat : Fails(v)}
<1>1. ASSUME Q # {} PROVE FALSE
  <2>1. PICK v \in Q : \A x \in Q : v <= x
    <3>1. Q \in SUBSET Nat
      OBVIOUS
    <3> HIDE DEF Q
    <3> QED
      BY <1>1, <3>1, LeastNat
  <2>2. v \in Nat /\ Fails(v)
    OBVIOUS
  <2>3. Varint[v] = Coded(Varint, v)
    BY <2>2, VarintIs
  <2>4. CASE v < 128
    <3> DEFINE run == [i \in 1..2 |-> IF i = 1 THEN v ELSE 0]
               b == <<v>>
    <3>1. Varint[v] = b
      BY <2>3, <2>4 DEF Coded
    <3>2. run[1] = v /\ run[1 + 1] = 0 /\ \A i \in 1..1 : i = 1
      OBVIOUS
    <3>3. b[1] = v /\ DOMAIN b = 1..1 /\ b \in Seq(Nat)
      BY <2>2
    <3>4. v % 128 = v /\ v = 0 * 128 + v
      BY <2>2, <2>4
    <3> HIDE DEF run, b
    <3>5. VarintRun(b, 1, run)
      BY <2>2, <3>2, <3>3, <3>4 DEF VarintRun
    <3> QED
      BY <2>2, <3>1, <3>2, <3>3, <3>5
  <2>5. CASE ~(v < 128)
    <3> DEFINE u == v \div 128
               d == v % 128
               r == Varint[u]
    <3>1. /\ u \in Nat /\ u \in 0..(v - 1) /\ v = u * 128 + d /\ d \in 0..127 /\ (d + 128) % 128 = d
      BY <2>2, <2>5, Shorter
    <3>2. Varint[v] = <<d + 128>> \o r
      BY <2>3, <2>5 DEF Coded
    <3>3. u \notin Q
      <4> HIDE DEF Q, u
      <4> QED
        BY <2>1, <2>2, <3>1
    <3>4. ~Fails(u)
      BY <3>1, <3>3
    <3>5. PICK m, run : VarintRun(r, m, run) /\ run[1] = u /\ r \in Seq(Nat)
      BY <3>4
    <3> DEFINE w == Varint[v]
               new2 == [i \in 1..(m + 2) |-> IF i = 1 THEN v ELSE run[i - 1]]
    <3>6. /\ m \in Nat /\ DOMAIN r = 1..m /\ (\A i \in 1..m : r[i] \in Nat)
          /\ run[m + 1] = 0 /\ \A i \in 1..m : run[i] = run[i + 1] * 128 + (r[i] % 128)
      BY <3>5 DEF VarintRun
    <3> HIDE DEF u, d, r, Q
    <3>7. Len(r) = m
      <4>1. Len(r) \in Nat /\ DOMAIN r = 1..Len(r)
        BY <3>5, LenProperties
      <4> QED
        BY <3>6, <4>1, SameInterval
    <3>8. <<d + 128>> \in Seq(Nat) /\ Len(<<d + 128>>) = 1 /\ <<d + 128>>[1] = d + 128
      BY <3>1
    <3>9. /\ w \in Seq(Nat) /\ Len(w) = m + 1 /\ w[1] = d + 128
          /\ \A i \in 2..(m + 1) : w[i] = r[i - 1]
      <4> DEFINE a == <<d + 128>>
      <4>1. a \in Seq(Nat) /\ Len(a) = 1 /\ a[1] = d + 128 /\ w = a \o r
        BY <3>2, <3>8
      <4> HIDE DEF a, w
      <4>2. /\ a \o r \in Seq(Nat) /\ Len(a \o r) = Len(a) + Len(r)
            /\ \A i \in 1..(Len(a) + Len(r)) : (a \o r)[i] = IF i <= Len(a) THEN a[i] ELSE r[i - Len(a)]
        BY ZenonT(40), <3>5, <4>1, ConcatProperties
      <4>3. \A i \in 1..(1 + m) : w[i] = IF i <= 1 THEN a[i] ELSE r[i - 1]
        BY <3>7, <4>1, <4>2
      <4>4. Len(w) = m + 1
        BY <3>6, <3>7, <4>1, <4>2
      <4>5. w[1] = d + 128
        <5>1. 1 \in 1..(1 + m) /\ 1 <= 1
          BY <3>6
        <5> QED
          BY <4>1, <4>3, <5>1
      <4>6. ASSUME NEW i \in 2..(m + 1) PROVE w[i] = r[i - 1]
        <5>1. i \in 1..(1 + m) /\ ~(i <= 1)
          BY <3>6
        <5> QED
          BY <4>3, <5>1
      <4> QED
        BY <4>1, <4>2, <4>4, <4>5, <4>6
    <3>10. DOMAIN w = 1..(m + 1)
      <4> HIDE DEF w
      <4> QED
        BY <3>9, LenProperties
    <3>11. new2[1] = v /\ \A i \in 2..(m + 2) : new2[i] = run[i - 1]
      BY <3>6
    <3> HIDE DEF w, new2
    <3>12. new2[(m + 1) + 1] = 0
      <4>1. (m + 1) + 1 \in 2..(m + 2) /\ ((m + 1) + 1) - 1 = m + 1
        BY <3>6
      <4> QED
        BY <3>6, <3>11, <4>1
    <3>13. ASSUME NEW i \in 1..(m + 1) PROVE new2[i] = new2[i + 1] * 128 + (w[i] % 128)
      <4>1. CASE i = 1
        <5>1. 2 \in 2..(m + 2) /\ 2 - 1 = 1
          BY <3>6
        <5>2. new2[2] = u /\ new2[1] = v /\ w[1] % 128 = d
          BY <3>1, <3>5, <3>9, <3>11, <5>1
        <5>3. new2[2] * 128 = u * 128
          BY <5>2
        <5> QED
          BY <3>1, <4>1, <5>2, <5>3
      <4>2. CASE i # 1
        <5>1. i \in 2..(m + 1) /\ i \in 2..(m + 2) /\ i + 1 \in 2..(m + 2) /\ (i + 1) - 1 = i
              /\ i - 1 \in 1..m /\ (i - 1) + 1 = i
          BY <3>6, <4>2
        <5>2. new2[i] = run[i - 1] /\ new2[i + 1] = run[i] /\ w[i] = r[i - 1]
          BY <3>9, <3>11, <5>1
        <5>3. run[i - 1] = run[(i - 1) + 1] * 128 + (r[i - 1] % 128)
          BY <3>6, <5>1
        <5>4. run[i - 1] = run[i] * 128 + (r[i - 1] % 128)
          BY <5>1, <5>3
        <5> QED
          BY <5>2, <5>4
      <4> QED
        BY <4>1, <4>2
    <3>14. \A i \in 1..(m + 1) : w[i] \in Nat
      BY <3>9, ElementOfSeq
    <3>15. m + 1 \in Nat
      BY <3>6
    <3>16. VarintRun(w, m + 1, new2)
      BY <3>10, <3>12, <3>13, <3>14, <3>15 DEF VarintRun
    <3> QED
      BY <2>2, <3>9, <3>11, <3>16 DEF w
  <2> QED
    BY <2>4, <2>5
<1> SUFFICES ASSUME NEW v \in Nat PROVE GetVarint(Varint[v]) = v
  OBVIOUS
<1>2. ~Fails(v)
  BY <1>1
<1>3. PICK m, run : VarintRun(Varint[v], m, run) /\ run[1] = v
  BY <1>2
<1> QED
  BY <1>3, GetVarintRuns

-----------------------------------------------------------------------------
(***************************************************************************)
(* Reading a snapshot.                                                     *)
(***************************************************************************)

EntryType == [key : Seq(Bytes), kind : {"dir", "unread", "file"}, size : Nat, files : Nat]
IsEntries(E) == E \in Seq(EntryType) /\ \A i \in 1..Len(E) : E[i].kind = "file" => E[i].files = 0

(* A cursor on an entry, and past them all. *)
On(E, i) ==
  [left |-> SubSeq(Encoded(E), i + 1, Len(E)), key |-> E[i].key, kind |-> E[i].kind,
   size |-> E[i].size, files |-> E[i].files, done |-> FALSE]
CursorIs(c, E, i) == IF i <= Len(E) THEN c = On(E, i) ELSE c.done

KeyAbove(E, i) == IF i = 0 THEN <<>> ELSE E[i].key
Code(E, i) ==
  LET shared == Shared(KeyAbove(E, i - 1), E[i].key)
  IN [kind |-> E[i].kind, shared |-> Varint[shared], rest |-> SubSeq(E[i].key, shared + 1, Len(E[i].key)),
      size |-> Varint[E[i].size], files |-> IF E[i].kind = "file" THEN <<>> ELSE Varint[E[i].files]]

LEMMA EncodedIs ==
  ASSUME NEW E, IsEntries(E)
  PROVE  /\ Len(E) \in Nat /\ Encoded(E) \in Seq({Code(E, i) : i \in 1..Len(E)}) /\ Len(Encoded(E)) = Len(E)
         /\ \A i \in 1..Len(E) : Encoded(E)[i] = Code(E, i)
         /\ \A i \in 1..Len(E) : E[i] \in EntryType
<1> DEFINE m == Len(E)
           S == {Code(E, i) : i \in 1..m}
           c == Encoded(E)
<1>1. m \in Nat /\ DOMAIN E = 1..m /\ \A i \in 1..m : E[i] \in EntryType
  BY LenProperties, ElementOfSeq DEF IsEntries
<1>2. \A i \in 1..m : (IF i = 1 THEN <<>> ELSE E[i - 1].key) = KeyAbove(E, i - 1)
  <2> SUFFICES ASSUME NEW i \in 1..m PROVE (IF i = 1 THEN <<>> ELSE E[i - 1].key) = KeyAbove(E, i - 1)
    OBVIOUS
  <2>1. i = 1 <=> i - 1 = 0
    BY <1>1
  <2> QED
    BY <2>1 DEF KeyAbove
<1>3. c = [i \in 1..m |-> Code(E, i)]
  <2> HIDE DEF m
  <2> QED
    BY <1>1, <1>2 DEF Encoded, Code
<1>4. c \in [1..m -> S]
  <2> HIDE DEF c
  <2> QED
    BY <1>3
<1>5. c \in Seq(S) /\ Len(c) = m
  <2> HIDE DEF c, S, m
  <2> QED
    BY <1>1, <1>4, FunctionIsSeq
<1>6. \A i \in 1..m : c[i] = Code(E, i)
  <2> HIDE DEF c
  <2> QED
    BY <1>3
<1> QED
  BY <1>1, <1>5, <1>6

LEMMA AdvanceIs ==
  ASSUME NEW E, IsEntries(E), NEW i \in 0..Len(E), NEW c,
         c.left = SubSeq(Encoded(E), i + 1, Len(E)), c.key = KeyAbove(E, i), c = [c EXCEPT !.done = c.done]
  PROVE  /\ i < Len(E) => Advance(c) = On(E, i + 1)
         /\ i = Len(E) => Advance(c) = [c EXCEPT !.done = TRUE]
<1> DEFINE m == Len(E)
           code == Encoded(E)
           S == {Code(E, k) : k \in 1..m}
<1>1. /\ m \in Nat /\ code \in Seq(S) /\ Len(code) = m /\ (\A k \in 1..m : code[k] = Code(E, k))
      /\ \A k \in 1..m : E[k] \in EntryType
  BY EncodedIs
<1> HIDE DEF S, code
<1>2. CASE i = m
  <2>1. SubSeq(code, i + 1, m) = <<>>
    <3>1. i + 1 \in Int /\ m \in Int /\ m < i + 1
      BY <1>1, <1>2
    <3> QED
      BY <3>1, SubSeqEmpty
  <2>2. c.left = <<>>
    BY <2>1 DEF code
  <2> HIDE DEF m
  <2>3. Advance(c) = [c EXCEPT !.done = TRUE]
    BY <2>2 DEF Advance
  <2>4. ~(i < m)
    BY <1>1, <1>2
  <2> QED
    BY <2>3, <2>4 DEF m
<1>3. CASE i < m
  <2> DEFINE e == Code(E, i + 1)
             prev == KeyAbove(E, i)
             key == E[i + 1].key
             shared == Shared(prev, key)
  <2>1. i + 1 \in 1..m /\ (i + 1) - 1 = i /\ i \in Nat /\ i # m
    BY <1>1, <1>3
  <2>2. c.left # <<>> /\ Head(c.left) = e /\ Tail(c.left) = SubSeq(code, (i + 1) + 1, m)
    <3>1. i + 1 \in 1..Len(code) /\ m \in (i + 1)..Len(code)
      BY <1>1, <2>1
    <3>2. Head(SubSeq(code, i + 1, m)) = code[i + 1] /\ Tail(SubSeq(code, i + 1, m)) = SubSeq(code, (i + 1) + 1, m)
      BY <1>1, <3>1, HeadTailOfSubSeq
    <3>3. Len(SubSeq(code, i + 1, m)) # 0
      <4>1. i + 1 \in Int /\ m \in Int /\ i + 1 <= m /\ m - (i + 1) + 1 # 0
        BY <1>1, <2>1
      <4>2. \A k \in (i + 1)..m : code[k] \in S
        <5>1. \A k \in (i + 1)..m : k \in 1..Len(code)
          BY <1>1, <2>1
        <5> QED
          BY <1>1, <5>1, ElementOfSeq
      <4>3. Len(SubSeq(code, i + 1, m)) = IF i + 1 <= m THEN m - (i + 1) + 1 ELSE 0
        BY <4>1, <4>2, SubSeqProperties
      <4> QED
        BY <4>1, <4>3
    <3>4. c.left = SubSeq(code, i + 1, m)
      BY DEF code
    <3>5. SubSeq(code, i + 1, m) # <<>>
      <4> DEFINE x == SubSeq(code, i + 1, m)
      <4>1. Len(x) # 0
        BY <3>3
      <4> HIDE DEF x
      <4>2. x # <<>>
        BY <4>1
      <4> QED
        BY <4>2 DEF x
    <3> QED
      BY <1>1, <2>1, <3>2, <3>4, <3>5
  <2>3. prev \in Seq(Bytes) /\ key \in Seq(Bytes) /\ E[i + 1].size \in Nat /\ E[i + 1].files \in Nat
    <3>1. key \in Seq(Bytes) /\ E[i + 1].size \in Nat /\ E[i + 1].files \in Nat
      BY <1>1, <2>1 DEF EntryType
    <3>2. CASE i = 0
      BY <3>1, <3>2, EmptySeq DEF KeyAbove
    <3>3. CASE i # 0
      <4>1. i \in 1..m
        BY <1>1, <2>1, <3>3
      <4> QED
        BY <1>1, <3>1, <3>3, <4>1 DEF EntryType, KeyAbove
    <3> QED
      BY <3>2, <3>3
  <2>4. Agree(prev, key, shared)
    BY <2>3, SharedIs
  <2>5. shared \in Nat /\ shared <= Len(prev) /\ shared <= Len(key)
    BY <2>4 DEF Agree
  <2> DEFINE rest == SubSeq(key, shared + 1, Len(key))
  <2>6. e = [kind |-> E[i + 1].kind, shared |-> Varint[shared], rest |-> rest,
             size |-> Varint[E[i + 1].size],
             files |-> IF E[i + 1].kind = "file" THEN <<>> ELSE Varint[E[i + 1].files]]
    BY <2>1 DEF Code
  <2> HIDE DEF shared
  <2>7. SubSeq(prev, 1, shared) = SubSeq(key, 1, shared)
    <3> HIDE DEF prev, key
    <3>1. prev \in Seq(Bytes) /\ key \in Seq(Bytes)
      BY <2>3
    <3> QED
      BY <2>4, <2>5, <3>1, AgreeIff
  <2>8. key = SubSeq(prev, 1, shared) \o rest
    <3>1. shared \in 0..Len(key)
      BY <2>3, <2>5, LenProperties
    <3>2. key = SubSeq(key, 1, shared) \o SubSeq(key, shared + 1, Len(key))
      BY ZenonT(40), <2>3, <3>1, Cut
    <3> QED
      BY <2>7, <3>2
  <2>9. /\ GetVarint(Varint[shared]) = shared
        /\ GetVarint(Varint[E[i + 1].size]) = E[i + 1].size
        /\ GetVarint(Varint[E[i + 1].files]) = E[i + 1].files
    BY <2>3, <2>5, VarintReads
  <2>10. E[i + 1].kind = "file" => E[i + 1].files = 0
    BY <2>1 DEF IsEntries
  <2> HIDE DEF e, prev, key, rest, m
  <2>11. Advance(c) = [left |-> SubSeq(code, (i + 1) + 1, m),
                       key |-> SubSeq(c.key, 1, GetVarint(e.shared)) \o e.rest,
                       kind |-> e.kind, size |-> GetVarint(e.size),
                       files |-> IF e.kind = "file" THEN 0 ELSE GetVarint(e.files), done |-> FALSE]
    BY <2>2 DEF Advance
  <2>12. /\ e.kind = E[i + 1].kind /\ e.shared = Varint[shared] /\ e.rest = rest /\ e.size = Varint[E[i + 1].size]
         /\ e.kind # "file" => e.files = Varint[E[i + 1].files]
    BY <2>6
  <2>13. c.key = prev
    BY DEF prev
  <2>14. /\ SubSeq(c.key, 1, GetVarint(e.shared)) \o e.rest = key /\ GetVarint(e.size) = E[i + 1].size
         /\ (IF e.kind = "file" THEN 0 ELSE GetVarint(e.files)) = E[i + 1].files
    BY <2>8, <2>9, <2>10, <2>12, <2>13
  <2>15. Advance(c) = [left |-> SubSeq(code, (i + 1) + 1, m), key |-> key, kind |-> E[i + 1].kind,
                       size |-> E[i + 1].size, files |-> E[i + 1].files, done |-> FALSE]
    BY <2>11, <2>12, <2>14
  <2>16. Advance(c) = On(E, i + 1)
    BY <2>15 DEF On, code, key, m
  <2> QED
    BY <2>1, <2>16 DEF m
<1> QED
  BY <1>1, <1>2, <1>3

(* The first entry, and the next. *)
LEMMA CursorStarts ==
  ASSUME NEW E, IsEntries(E), NEW snap, snap.data = Encoded(E)
  PROVE  CursorIs(Advance(CursorOn(snap)), E, 1)
<1> DEFINE c == CursorOn(snap)
<1>1. /\ Len(E) \in Nat /\ Encoded(E) \in Seq({Code(E, i) : i \in 1..Len(E)}) /\ Len(Encoded(E)) = Len(E)
  BY EncodedIs
<1>2. SubSeq(Encoded(E), 0 + 1, Len(E)) = Encoded(E)
  BY <1>1, SubSeqFull
<1>3. c = [left |-> Encoded(E), key |-> <<>>, kind |-> "file", size |-> 0, files |-> 0, done |-> c.done]
  BY DEF CursorOn
<1> HIDE DEF c
<1>4. c.left = SubSeq(Encoded(E), 0 + 1, Len(E)) /\ c.key = KeyAbove(E, 0) /\ c = [c EXCEPT !.done = c.done]
      /\ [c EXCEPT !.done = TRUE].done
  BY <1>2, <1>3 DEF KeyAbove
<1>5. 0 \in 0..Len(E) /\ 0 + 1 = 1
  BY <1>1
<1>6. /\ 0 < Len(E) => Advance(c) = On(E, 0 + 1)
      /\ 0 = Len(E) => Advance(c) = [c EXCEPT !.done = TRUE]
  BY <1>4, <1>5, AdvanceIs
<1>7. (1 <= Len(E) <=> 0 < Len(E)) /\ (~(1 <= Len(E)) <=> 0 = Len(E))
  BY <1>1
<1> QED
  BY <1>4, <1>5, <1>6, <1>7 DEF CursorIs, c

LEMMA CursorMoves ==
  ASSUME NEW E, IsEntries(E), NEW i \in 1..Len(E), NEW c, CursorIs(c, E, i)
  PROVE  CursorIs(Advance(c), E, i + 1)
<1>1. Len(E) \in Nat
  BY EncodedIs
<1>2. i <= Len(E) /\ i \in 0..Len(E) /\ i # 0
  BY <1>1
<1>3. c = On(E, i)
  BY <1>2 DEF CursorIs
<1>4. c.left = SubSeq(Encoded(E), i + 1, Len(E)) /\ c.key = KeyAbove(E, i) /\ c = [c EXCEPT !.done = c.done]
      /\ [c EXCEPT !.done = TRUE].done
  BY <1>2, <1>3 DEF On, KeyAbove
<1>5. /\ i < Len(E) => Advance(c) = On(E, i + 1)
      /\ i = Len(E) => Advance(c) = [c EXCEPT !.done = TRUE]
  BY <1>2, <1>4, AdvanceIs
<1>6. (i + 1 <= Len(E) <=> i < Len(E)) /\ (~(i + 1 <= Len(E)) <=> i = Len(E))
  BY <1>1
<1> QED
  BY <1>4, <1>5, <1>6 DEF CursorIs

-----------------------------------------------------------------------------
LEMMA SumInt ==
  ASSUME NEW S, IsFiniteSet(S), NEW f, \A x \in S : f[x] \in Int
  PROVE  Sum(f, S) \in Int
<1> DEFINE P == {s \in SUBSET S : Sum(f, s) \in Int}
<1>1. ASSUME \E s \in SUBSET S : s \notin P PROVE FALSE
  <2>1. PICK s \in SUBSET S : s \notin P /\ \A t \in SUBSET S : Cardinality(t) < Cardinality(s) => t \in P
    <3>1. \A Q : (\E s \in SUBSET S : s \notin Q) =>
                    \E s \in SUBSET S : /\ s \notin Q
                                        /\ \A t \in SUBSET S : Cardinality(t) < Cardinality(s) => t \in Q
      BY SmallestSet
    <3> HIDE DEF P
    <3> QED
      BY <1>1, <3>1
  <2>2. IsFiniteSet(s)
    BY FS_Subset
  <2>3. s # {}
    <3>1. Sum(f, {}) = 0
      BY <2>2, SumUnfold, Zenon
    <3> QED
      BY <2>1, <3>1
  <2>4. Pick(s) \in s /\ Cardinality(s \ {Pick(s)}) < Cardinality(s)
    BY <2>2, <2>3, PickFacts
  <2>5. s \ {Pick(s)} \in P /\ f[Pick(s)] \in Int
    BY <2>1, <2>4
  <2>6. Sum(f, s) = f[Pick(s)] + Sum(f, s \ {Pick(s)}) /\ Sum(f, s \ {Pick(s)}) \in Int
    BY <2>2, <2>3, <2>5, SumUnfold
  <2> QED
    BY <2>1, <2>5, <2>6
<1> QED
  BY <1>1

LEMMA SumRemoveInt ==
  ASSUME NEW S, IsFiniteSet(S), NEW f, \A x \in S : f[x] \in Int, NEW x \in S
  PROVE  Sum(f, S) = f[x] + Sum(f, S \ {x})
<1> DEFINE P == {s \in SUBSET S : \A y \in s : Sum(f, s) = f[y] + Sum(f, s \ {y})}
<1>1. ASSUME \E s \in SUBSET S : s \notin P PROVE FALSE
  <2>1. PICK s \in SUBSET S : s \notin P /\ \A t \in SUBSET S : Cardinality(t) < Cardinality(s) => t \in P
    <3>1. \A Q : (\E s \in SUBSET S : s \notin Q) =>
                    \E s \in SUBSET S : /\ s \notin Q
                                        /\ \A t \in SUBSET S : Cardinality(t) < Cardinality(s) => t \in Q
      BY SmallestSet
    <3> HIDE DEF P
    <3> QED
      BY <1>1, <3>1
  <2>2. PICK y \in s : Sum(f, s) # f[y] + Sum(f, s \ {y})
    BY <2>1
  <2> DEFINE c == Pick(s)
             r == s \ {y, c}
  <2>3. IsFiniteSet(s) /\ s # {}
    BY FS_Subset
  <2>4. Sum(f, s) = f[c] + Sum(f, s \ {c}) /\ c \in s
    BY <2>3, SumUnfold, PickFacts
  <2>5. y # c
    BY <2>2, <2>4
  <2>6. \A z \in s : s \ {z} \in P
    <3> SUFFICES ASSUME NEW z \in s PROVE s \ {z} \in P
      OBVIOUS
    <3>1. Cardinality(s \ {z}) = Cardinality(s) - 1 /\ Cardinality(s) \in Nat
      BY <2>3, FS_RemoveElement, FS_CardinalityType
    <3> QED
      BY <2>1, <3>1
  <2>7. Sum(f, s \ {c}) = f[y] + Sum(f, r)
    <3>1. y \in s \ {c} /\ (s \ {c}) \ {y} = r
      BY <2>5
    <3> QED
      BY <2>4, <2>6, <3>1
  <2>8. Sum(f, s \ {y}) = f[c] + Sum(f, r)
    <3>1. c \in s \ {y} /\ (s \ {y}) \ {c} = r
      BY <2>4, <2>5
    <3> QED
      BY <2>6, <3>1
  <2>9. Sum(f, r) \in Int /\ f[c] \in Int /\ f[y] \in Int
    <3>1. r \in SUBSET S
      OBVIOUS
    <3> HIDE DEF r
    <3>2. IsFiniteSet(r) /\ \A z \in r : f[z] \in Int
      BY <3>1, FS_Subset
    <3> QED
      BY <2>4, <3>2, SumInt
  <2> HIDE DEF r, c
  <2> QED
    BY <2>2, <2>4, <2>7, <2>8, <2>9
<1> QED
  BY <1>1

LEMMA MinOfTwo ==
  ASSUME NEW a \in Nat, NEW b \in Nat
  PROVE  Min({a, b}) = IF a <= b THEN a ELSE b
<1> DEFINE m == IF a <= b THEN a ELSE b
<1>1. m \in {a, b} /\ \A y \in {a, b} : m <= y
  OBVIOUS
<1>2. \A x \in {a, b} : (\A y \in {a, b} : x <= y) => x = m
  OBVIOUS
<1> HIDE DEF m
<1>3. Min({a, b}) = m
  BY <1>1, <1>2 DEF Min
<1> QED
  BY <1>3 DEF m

-----------------------------------------------------------------------------
(***************************************************************************)
(* The list of the biggest changes.                                        *)
(***************************************************************************)
Magnitude(by, f) == Distance(by[f], 0)
ChangeOf(by, f) == [mag |-> Magnitude(by, f), key |-> KeyOf(f)]
ChangesOf(by, L) == {ChangeOf(by, f) : f \in L}

(* Of the changes of the files S the files L have the biggest, and as many *)
(* are listed as there may be.                                             *)
Biggest(L, S, by) ==
  /\ L \subseteq S /\ Cardinality(L) = Min({DiffFileLimit, Cardinality(S)})
  /\ \A f \in L, g \in S \ L : Magnitude(by, f) >= Magnitude(by, g)
FilesOf(S, by) == IsFiniteSet(S) /\ S \in SUBSET (Paths \ {<<>>}) /\ \A f \in S : by[f] \in Int

LEMMA CountsIs ==
  ASSUME NEW changes, NEW S, NEW by, FilesOf(S, by)
  PROVE  Counts(changes, S, by) <=>
           /\ changes.count = Cardinality(S) /\ changes.bytes = Sum(by, S)
           /\ \E L : Biggest(L, S, by) /\ changes.top = ChangesOf(by, L)
<1>1. ASSUME Counts(changes, S, by)
      PROVE  \E L : Biggest(L, S, by) /\ changes.top = ChangesOf(by, L)
  <2> DEFINE L == {NamesOf(c.key) : c \in changes.top}
  <2>1. Biggest(L, S, by)
    BY <1>1 DEF Counts, Biggest, Magnitude
  <2>2. changes.top = ChangesOf(by, L)
    BY <1>1 DEF Counts, ChangesOf, ChangeOf, Magnitude
  <2> HIDE DEF L
  <2> QED
    BY <2>1, <2>2
<1>2. ASSUME NEW L, Biggest(L, S, by), changes.top = ChangesOf(by, L),
             changes.count = Cardinality(S), changes.bytes = Sum(by, S)
      PROVE  Counts(changes, S, by)
  <2>1. {NamesOf(c.key) : c \in changes.top} = L
    <3>1. \A f \in L : f \in Paths /\ f # <<>>
      BY <1>2 DEF Biggest, FilesOf
    <3>2. \A f \in L : NamesOf(ChangeOf(by, f).key) = f
      BY <3>1, NamesOfKey DEF ChangeOf
    <3> QED
      BY <1>2, <3>2 DEF ChangesOf
  <2>2. changes.top = {[mag |-> Distance(by[f], 0), key |-> KeyOf(f)] : f \in L}
    BY <1>2 DEF ChangesOf, ChangeOf, Magnitude
  <2>3. L \subseteq S /\ Cardinality(L) = Min({DiffFileLimit, Cardinality(S)})
        /\ \A f \in L, g \in S \ L : Distance(by[f], 0) >= Distance(by[g], 0)
    BY <1>2 DEF Biggest, Magnitude
  <2>4. changes.bytes = SumOver(by, S)
    BY <1>2, SumsAgree
  <2> QED
    BY <1>2, <2>1, <2>2, <2>3, <2>4 DEF Counts
<1>3. Counts(changes, S, by) => changes.count = Cardinality(S) /\ changes.bytes = Sum(by, S)
  BY SumsAgree DEF Counts
<1> QED
  BY <1>1, <1>2, <1>3

-----------------------------------------------------------------------------
(* Files have different changes, as their keys are different. *)
LEMMA ChangesApart ==
  ASSUME NEW S, NEW by, FilesOf(S, by)
  PROVE  /\ \A f, g \in S : ChangeOf(by, f) = ChangeOf(by, g) => f = g
         /\ \A f \in S : ChangeOf(by, f).key = KeyOf(f) /\ ChangeOf(by, f).mag = Magnitude(by, f)
                         /\ Magnitude(by, f) \in Nat /\ KeyOf(f) \in Seq(Nat)
         /\ \A L \in SUBSET S : /\ IsFiniteSet(ChangesOf(by, L))
                                /\ Cardinality(ChangesOf(by, L)) = Cardinality(L)
<1>1. \A f \in S : f \in Paths /\ by[f] \in Int
  BY DEF FilesOf
<1>2. \A f \in S : KeyOf(f) \in Seq(Bytes) /\ KeyOf(f) \in Seq(Nat)
  <2>1. \A s \in Seq(Bytes) : s \in Seq(Nat)
    <3>1. \A s \in Seq(Bytes) : Len(s) \in Nat /\ s = [i \in 1..Len(s) |-> s[i]] /\ \A i \in 1..Len(s) : s[i] \in Nat
      BY SeqDef, LenProperties, ElementOfSeq DEF Bytes
    <3>2. \A s \in Seq(Bytes) : s \in [1..Len(s) -> Nat]
      BY <3>1
    <3> QED
      BY <3>1, <3>2, FunctionIsSeq
  <2> QED
    BY <1>1, <2>1, KeyOfSteps
<1>3. \A f \in S : ChangeOf(by, f).key = KeyOf(f) /\ ChangeOf(by, f).mag = Magnitude(by, f)
  BY DEF ChangeOf
<1>4. \A f \in S : Magnitude(by, f) \in Nat
  BY <1>1 DEF Magnitude, Distance
<1>5. \A f, g \in S : ChangeOf(by, f) = ChangeOf(by, g) => f = g
  <2>1. \A p, q \in Paths : KeyOf(p) = KeyOf(q) => p = q
    BY KeysOrdered
  <2>2. SUFFICES ASSUME NEW f \in S, NEW g \in S, ChangeOf(by, f) = ChangeOf(by, g) PROVE f = g
    OBVIOUS
  <2>3. f \in Paths /\ g \in Paths
    BY <1>1
  <2>4. ChangeOf(by, f).key = KeyOf(f) /\ ChangeOf(by, g).key = KeyOf(g)
    BY <1>3, Zenon
  <2>5. KeyOf(f) = KeyOf(g)
    BY <2>2, <2>4, Zenon
  <2> QED
    BY <2>1, <2>3, <2>5
<1>6. ASSUME NEW L \in SUBSET S
      PROVE  /\ IsFiniteSet(ChangesOf(by, L))
             /\ Cardinality(ChangesOf(by, L)) = Cardinality(L)
  <2> DEFINE T == {ChangeOf(by, f) : f \in L}
             h == [f \in L |-> ChangeOf(by, f)]
  <2>1. IsFiniteSet(L)
    BY FS_Subset DEF FilesOf
  <2>2. h \in [L -> T] /\ (\A t \in T : \E f \in L : h[f] = t) /\ \A f, g \in L : h[f] = h[g] => f = g
    BY <1>5
  <2> HIDE DEF h, T
  <2>3. h \in Surjection(L, T) /\ h \in Injection(L, T)
    BY <2>2 DEF Surjection, Injection, IsInjective
  <2>4. IsFiniteSet(T) /\ (Cardinality(T) = Cardinality(L) <=> h \in Injection(L, T))
    BY <2>1, <2>3, FS_Surjection
  <2> QED
    BY <2>3, <2>4 DEF T, ChangesOf
<1> QED
  BY <1>2, <1>3, <1>4, <1>5, <1>6

(* The least change of a list. *)
LeastOf(top) ==
  CHOOSE c \in top : \A d \in top \ {c} :
    c.mag < d.mag \/ (c.mag = d.mag /\ NameBefore(c.key, d.key))

LEMMA HasLeast ==
  ASSUME NEW S, NEW by, FilesOf(S, by), NEW L \in SUBSET S, L # {}
  PROVE  \E l \in L : /\ LeastOf(ChangesOf(by, L)) = ChangeOf(by, l)
                      /\ \A f \in L : Magnitude(by, l) <= Magnitude(by, f)
<1> DEFINE top == ChangesOf(by, L)
           R == {x \in top \X top : \/ x[1].mag < x[2].mag
                                    \/ x[1].mag = x[2].mag /\ <<x[1].key, x[2].key>> \in NameOrder}
<1>1. \A c \in top : \E f \in L : c = ChangeOf(by, f) /\ c.mag = Magnitude(by, f) /\ c.key = KeyOf(f)
                                  /\ c.mag \in Nat /\ c.key \in Seq(Nat)
  BY ChangesApart DEF ChangesOf
<1>2. \A c, d \in top : c.mag = d.mag /\ c.key = d.key => c = d
  <2> SUFFICES ASSUME NEW c \in top, NEW d \in top, c.mag = d.mag, c.key = d.key PROVE c = d
    OBVIOUS
  <2>1. \A p, q \in Paths : KeyOf(p) = KeyOf(q) => p = q
    BY KeysOrdered
  <2>2. PICK f \in L, g \in L : c = ChangeOf(by, f) /\ c.key = KeyOf(f) /\ d = ChangeOf(by, g) /\ d.key = KeyOf(g)
    BY <1>1
  <2>3. f \in Paths /\ g \in Paths
    BY DEF FilesOf
  <2> QED
    BY <2>1, <2>2, <2>3
<1>3. IsFiniteSet(top) /\ top # {}
  <2>1. top # {}
    BY DEF ChangesOf
  <2>2. IsFiniteSet(ChangesOf(by, L))
    BY ChangesApart
  <2> QED
    BY <2>1, <2>2
<1> HIDE DEF top
<1>4. \A c, d \in top : <<c, d>> \in R <=> \/ c.mag < d.mag
                                           \/ c.mag = d.mag /\ <<c.key, d.key>> \in NameOrder
  OBVIOUS
<1> HIDE DEF R
<1>5. /\ \A a \in Seq(Nat) : <<a, a>> \notin NameOrder
      /\ \A a, b, c \in Seq(Nat) : <<a, b>> \in NameOrder /\ <<b, c>> \in NameOrder => <<a, c>> \in NameOrder
      /\ \A a, b \in Seq(Nat) : a = b \/ <<a, b>> \in NameOrder \/ <<b, a>> \in NameOrder
  BY NameOrderIs DEF IsOrder
<1>6. \A c \in top : c.mag \in Nat /\ c.key \in Seq(Nat)
  BY <1>1
<1>7. IsOrder(R, top)
  <2>1. \A c \in top : <<c, c>> \notin R
    <3> SUFFICES ASSUME NEW c \in top PROVE <<c, c>> \notin R
      OBVIOUS
    <3>1. c.mag \in Nat /\ ~(c.mag < c.mag) /\ <<c.key, c.key>> \notin NameOrder
      BY <1>5, <1>6
    <3> QED
      BY <1>4, <3>1
  <2>2. \A c, d, e \in top : <<c, d>> \in R /\ <<d, e>> \in R => <<c, e>> \in R
    <3> SUFFICES ASSUME NEW c \in top, NEW d \in top, NEW e \in top, <<c, d>> \in R, <<d, e>> \in R
                 PROVE  <<c, e>> \in R
      OBVIOUS
    <3>1. /\ c.mag < d.mag \/ (c.mag = d.mag /\ <<c.key, d.key>> \in NameOrder)
          /\ d.mag < e.mag \/ (d.mag = e.mag /\ <<d.key, e.key>> \in NameOrder)
      BY <1>4
    <3>2. /\ c.mag \in Nat /\ d.mag \in Nat /\ e.mag \in Nat
          /\ c.key \in Seq(Nat) /\ d.key \in Seq(Nat) /\ e.key \in Seq(Nat)
      BY <1>6
    <3>3. c.mag < e.mag \/ (c.mag = e.mag /\ <<c.key, e.key>> \in NameOrder)
      BY <1>5, <3>1, <3>2
    <3> QED
      BY <1>4, <3>3
  <2>3. \A c, d \in top : c = d \/ <<c, d>> \in R \/ <<d, c>> \in R
    <3> SUFFICES ASSUME NEW c \in top, NEW d \in top PROVE c = d \/ <<c, d>> \in R \/ <<d, c>> \in R
      OBVIOUS
    <3>1. c.mag \in Nat /\ d.mag \in Nat /\ c.key \in Seq(Nat) /\ d.key \in Seq(Nat)
      BY <1>6
    <3>2. c.mag < d.mag \/ d.mag < c.mag \/ c.mag = d.mag
      BY <3>1
    <3> QED
      BY <1>2, <1>4, <1>5, <3>1, <3>2
  <2> QED
    BY <2>1, <2>2, <2>3 DEF IsOrder
<1>8. PICK m \in top : \A d \in top : d = m \/ <<m, d>> \in R
  BY <1>3, <1>7, HasFirst
<1> DEFINE Least2(c) == \A d \in top \ {c} : c.mag < d.mag \/ (c.mag = d.mag /\ NameBefore(c.key, d.key))
<1>9. Least2(m)
  BY <1>4, <1>6, <1>8, NameBeforeIs
<1>10. LeastOf(top) \in top /\ Least2(LeastOf(top))
  BY <1>9 DEF LeastOf
<1>11. PICK l \in L : LeastOf(top) = ChangeOf(by, l) /\ LeastOf(top).mag = Magnitude(by, l)
  BY <1>1, <1>10
<1>12. \A f \in L : ChangeOf(by, f) \in top
  BY DEF top, ChangesOf
<1>13. ASSUME NEW f \in L PROVE Magnitude(by, l) <= Magnitude(by, f)
  <2>1. ChangeOf(by, f).mag = Magnitude(by, f) /\ Magnitude(by, f) \in Nat /\ Magnitude(by, l) \in Nat
    BY ChangesApart
  <2> QED
    BY <1>10, <1>11, <1>12, <2>1
<1> QED
  BY <1>11, <1>13 DEF top

-----------------------------------------------------------------------------
(* One more file: its size was x and is y. *)
IsNext(S, by, f, x, y) ==
  f \notin S /\ FilesOf(S \cup {f}, by) /\ x \in Nat /\ y \in Nat /\ by[f] = y - x

Lists(top, S, by) == \E L : Biggest(L, S, by) /\ top = ChangesOf(by, L)

LEMMA PushLists ==
  ASSUME NEW S, NEW by, NEW f, NEW x, NEW y, IsNext(S, by, f, x, y), NEW list, Lists(list, S, by)
  PROVE  Lists(Push(list, KeyOf(f), x, y), S \cup {f}, by)
<1> SUFFICES ASSUME NEW L, Biggest(L, S, by), list = ChangesOf(by, L)
             PROVE  \E K : Biggest(K, S \cup {f}, by) /\ Push(ChangesOf(by, L), KeyOf(f), x, y) = ChangesOf(by, K)
  BY DEF Lists
<1> DEFINE A == S \cup {f}
           lim == DiffFileLimit
           top == ChangesOf(by, L)
           M(g) == Magnitude(by, g)
<1>0. f \notin S /\ FilesOf(A, by) /\ x \in Nat /\ y \in Nat /\ by[f] = y - x
  BY DEF IsNext
<1>1. IsFiniteSet(S) /\ Cardinality(S) \in Nat /\ IsFiniteSet(A) /\ Cardinality(A) = Cardinality(S) + 1
  <2>1. IsFiniteSet(A) /\ S \in SUBSET A
    BY <1>0 DEF FilesOf
  <2>2. IsFiniteSet(S)
    BY <2>1, FS_Subset
  <2> QED
    BY <1>0, <2>1, <2>2, FS_CardinalityType, FS_AddElement
<1>2. lim \in Nat /\ lim # 0
  BY DiffAssumption
<1>3. L \in SUBSET S /\ L \in SUBSET A /\ f \notin L
  BY <1>0 DEF Biggest
<1>4. IsFiniteSet(L) /\ Cardinality(L) \in Nat /\ Cardinality(L) <= Cardinality(S)
      /\ (Cardinality(L) = Cardinality(S) => L = S)
  BY <1>1, <1>3, FS_Subset, FS_CardinalityType
<1>5. Cardinality(L) = IF lim <= Cardinality(S) THEN lim ELSE Cardinality(S)
  BY <1>1, <1>2, MinOfTwo DEF Biggest
<1>6. \A g \in L, h \in S \ L : M(g) >= M(h)
  BY DEF Biggest
<1>7. Min({lim, Cardinality(A)}) = IF lim <= Cardinality(S) THEN lim ELSE Cardinality(S) + 1
  <2>1. Cardinality(A) \in Nat
    BY <1>1
  <2>2. Min({lim, Cardinality(A)}) = IF lim <= Cardinality(A) THEN lim ELSE Cardinality(A)
    BY <1>2, <2>1, MinOfTwo
  <2>3. \A a, b \in Nat : (IF b <= a + 1 THEN b ELSE a + 1) = IF b <= a THEN b ELSE a + 1
    OBVIOUS
  <2> QED
    BY <1>1, <1>2, <2>2, <2>3
<1>8. \A g \in A : M(g) \in Nat
  BY <1>0, ChangesApart
<1>9. [mag |-> Distance(x, y), key |-> KeyOf(f)] = ChangeOf(by, f)
  <2>1. Distance(x, y) = Distance(by[f], 0)
    BY <1>0 DEF Distance
  <2> QED
    BY <2>1 DEF ChangeOf, Magnitude
<1>10. Cardinality(top) = Cardinality(L)
  BY <1>0, <1>3, ChangesApart
<1>11. Push(top, KeyOf(f), x, y) =
         IF Cardinality(top) < lim THEN top \cup {ChangeOf(by, f)}
         ELSE IF ChangeOf(by, f).mag > LeastOf(top).mag THEN (top \ {LeastOf(top)}) \cup {ChangeOf(by, f)}
         ELSE top
  <2> HIDE DEF top, lim
  <2> QED
    BY <1>9 DEF Push, LeastOf, lim
<1>12. ChangeOf(by, f).mag = M(f)
  BY DEF ChangeOf
<1> HIDE DEF lim
<1>13. CASE Cardinality(L) < lim
  <2>1. L = S /\ ~(lim <= Cardinality(S))
    BY <1>1, <1>2, <1>4, <1>5, <1>13
  <2>2. top \cup {ChangeOf(by, f)} = ChangesOf(by, A)
    BY <2>1 DEF ChangesOf
  <2>3. Cardinality(A) = Min({lim, Cardinality(A)})
    BY <1>1, <1>7, <2>1
  <2>4. Biggest(A, A, by)
    BY <2>3 DEF Biggest, lim
  <2> QED
    BY <1>10, <1>11, <1>13, <2>2, <2>4
<1>14. CASE ~(Cardinality(L) < lim)
  <2>1. Cardinality(L) = lim /\ lim <= Cardinality(S) /\ L # {}
    <3>1. Cardinality(L) = lim /\ lim <= Cardinality(S)
      BY <1>1, <1>2, <1>4, <1>5, <1>14
    <3> QED
      BY <1>2, <3>1, FS_EmptySet
  <2>2. PICK l \in L : LeastOf(top) = ChangeOf(by, l) /\ \A g \in L : M(l) <= M(g)
    BY <1>0, <1>3, <2>1, HasLeast
  <2>3. LeastOf(top).mag = M(l)
    BY <2>2 DEF ChangeOf
  <2>4. Min({lim, Cardinality(A)}) = lim
    BY <1>7, <2>1
  <2>5. CASE M(f) > M(l)
    <3> DEFINE K == (L \ {l}) \cup {f}
    <3>1. Push(top, KeyOf(f), x, y) = (top \ {ChangeOf(by, l)}) \cup {ChangeOf(by, f)}
      BY <1>10, <1>11, <1>12, <1>14, <2>2, <2>3, <2>5
    <3>2. \A g \in L : ChangeOf(by, g) = ChangeOf(by, l) => g = l
      <4>1. \A g, h \in A : ChangeOf(by, g) = ChangeOf(by, h) => g = h
        BY <1>0, ChangesApart
      <4> QED
        BY <1>3, <4>1
    <3>3. (top \ {ChangeOf(by, l)}) \cup {ChangeOf(by, f)} = ChangesOf(by, K)
      BY <3>2 DEF ChangesOf
    <3>4. Cardinality(K) = lim
      <4>1. IsFiniteSet(L \ {l}) /\ Cardinality(L \ {l}) = Cardinality(L) - 1 /\ f \notin L \ {l}
        BY <1>3, <1>4, <2>2, FS_RemoveElement
      <4>2. Cardinality(K) = Cardinality(L \ {l}) + 1
        BY <4>1, FS_AddElement
      <4> QED
        BY <1>4, <2>1, <4>1, <4>2
    <3>5. ASSUME NEW g \in K, NEW h \in A \ K PROVE M(g) >= M(h)
      <4>1. M(g) \in Nat /\ M(h) \in Nat /\ M(l) \in Nat /\ M(f) \in Nat
        BY <1>3, <1>8
      <4>2. h = l \/ h \in S \ L
        OBVIOUS
      <4>3. M(l) >= M(h)
        BY <1>6, <4>1, <4>2
      <4>4. M(g) >= M(l)
        BY <2>2, <2>5, <4>1
      <4> QED
        BY <4>1, <4>3, <4>4
    <3>6. Biggest(K, A, by)
      BY <1>3, <2>4, <3>4, <3>5 DEF Biggest, lim
    <3> QED
      BY <3>1, <3>3, <3>6
  <2>6. CASE ~(M(f) > M(l))
    <3>1. Push(top, KeyOf(f), x, y) = top
      BY <1>10, <1>11, <1>12, <1>14, <2>3, <2>6
    <3>2. ASSUME NEW g \in L, NEW h \in A \ L PROVE M(g) >= M(h)
      <4>1. M(g) \in Nat /\ M(h) \in Nat /\ M(l) \in Nat /\ M(f) \in Nat
        BY <1>3, <1>8
      <4>2. h = f \/ h \in S \ L
        OBVIOUS
      <4> QED
        BY <1>6, <2>2, <2>6, <4>1, <4>2
    <3>3. Biggest(L, A, by)
      BY <1>3, <2>1, <2>4, <3>2 DEF Biggest, lim
    <3> QED
      BY <3>1, <3>3
  <2> QED
    BY <2>5, <2>6
<1> QED
  BY <1>13, <1>14

LEMMA GatherCounts ==
  ASSUME NEW S, NEW by, NEW f, NEW x, NEW y, IsNext(S, by, f, x, y), NEW changes, Counts(changes, S, by)
  PROVE  Counts(Gather(changes, KeyOf(f), x, y), S \cup {f}, by)
<1> DEFINE A == S \cup {f}
           c == Gather(changes, KeyOf(f), x, y)
<1>0. f \notin S /\ FilesOf(A, by) /\ x \in Nat /\ y \in Nat /\ by[f] = y - x
  BY DEF IsNext
<1>1. IsFiniteSet(S) /\ IsFiniteSet(A) /\ Cardinality(A) = Cardinality(S) + 1 /\ FilesOf(S, by)
  <2>1. IsFiniteSet(A) /\ S \in SUBSET A
    BY <1>0 DEF FilesOf
  <2>2. IsFiniteSet(S)
    BY <2>1, FS_Subset
  <2>3. Cardinality(A) = Cardinality(S) + 1
    BY <1>0, <2>2, FS_AddElement
  <2> QED
    BY <1>0, <2>1, <2>2, <2>3 DEF FilesOf
<1>2. changes.count = Cardinality(S) /\ changes.bytes = Sum(by, S) /\ Lists(changes.top, S, by)
  BY <1>1, CountsIs DEF Lists
<1>3. Lists(Push(changes.top, KeyOf(f), x, y), A, by)
  BY <1>2, PushLists
<1>5. Lists(c.top, A, by) /\ c.count = Cardinality(S) + 1 /\ c.bytes = Sum(by, S) + (y - x)
  BY <1>2, <1>3 DEF Gather
<1>6. Sum(by, A) = by[f] + Sum(by, S) /\ Sum(by, S) \in Int /\ by[f] \in Int
  <2>1. (\A g \in A : by[g] \in Int) /\ (\A g \in S : by[g] \in Int) /\ A \ {f} = S
    BY <1>0 DEF FilesOf
  <2>2. Sum(by, A) = by[f] + Sum(by, A \ {f})
    BY <1>0, <1>1, <2>1, SumRemoveInt
  <2>3. Sum(by, S) \in Int
    BY <1>1, <2>1, SumInt
  <2> QED
    BY <1>0, <2>1, <2>2, <2>3
<1>7. c.bytes = Sum(by, A)
  <2>1. \A s \in Int, a, b \in Nat : s + (a - b) = (a - b) + s
    OBVIOUS
  <2> QED
    BY <1>0, <1>5, <1>6, <2>1
<1> HIDE DEF c, A
<1>8. Counts(c, A, by)
  <2>1. FilesOf(A, by)
    BY <1>0 DEF A
  <2>2. c.count = Cardinality(A)
    BY <1>1, <1>5
  <2> QED
    BY <1>5, <1>7, <2>1, <2>2, CountsIs DEF Lists
<1> QED
  BY <1>8 DEF c, A

(* At first there is nothing. *)
LEMMA NothingCounts ==
  ASSUME NEW by
  PROVE  Counts(NoChanges, {}, by)
<1>1. FilesOf({}, by) /\ Cardinality({}) = 0 /\ IsFiniteSet({})
  BY FS_EmptySet DEF FilesOf
<1>2. Sum(by, {}) = 0
  BY <1>1, SumUnfold, Zenon
<1>3. Min({DiffFileLimit, 0}) = 0
  <2>1. DiffFileLimit \in Nat /\ DiffFileLimit # 0
    BY DiffAssumption
  <2> QED
    BY <2>1, MinOfTwo
<1>4. Biggest({}, {}, by) /\ NoChanges.top = ChangesOf(by, {})
  BY <1>1, <1>3 DEF Biggest, NoChanges, ChangesOf
<1>5. NoChanges.count = 0 /\ NoChanges.bytes = 0
  BY DEF NoChanges
<1> QED
  BY <1>1, <1>2, <1>4, <1>5, CountsIs

-----------------------------------------------------------------------------
(***************************************************************************)
(* The items of a scan as the comparison goes through them.                *)
(***************************************************************************)

LEMMA BelowIsPair ==
  ASSUME NEW scan \in Trees, NEW d
  PROVE  /\ Below(scan, d)[1] = Sum(scan.file, Within(DOMAIN scan.file, d))
         /\ Below(scan, d) = <<Below(scan, d)[1], Below(scan, d)[2]>> /\ Below(scan, d) # <<>>
         /\ Below(scan, d)[1] \in Nat /\ Below(scan, d)[2] \in Nat
<1> DEFINE T == Within(DOMAIN scan.file, d)
           a == SumOver(scan.file, T)
           b == Cardinality(T)
<1>1. IsFiniteSet(DOMAIN scan.file) /\ \A f \in DOMAIN scan.file : scan.file[f] \in Nat
  BY DiffAssumption
<1>2. T \in SUBSET DOMAIN scan.file
  BY DEF Within
<1> HIDE DEF T
<1>3. IsFiniteSet(T) /\ \A f \in T : scan.file[f] \in Nat
  BY <1>1, <1>2, FS_Subset
<1>4. a \in Nat /\ a = Sum(scan.file, T)
  BY <1>3, SumsAgree, SumNat
<1>5. b \in Nat
  BY <1>3, FS_CardinalityType
<1>6. Below(scan, d) = <<a, b>>
  BY DEF Below, T
<1> HIDE DEF a, b
<1>7. <<a, b>> # <<>> /\ <<a, b>>[1] = a /\ <<a, b>>[2] = b
  <2>1. Len(<<a, b>>) = 2 /\ Len(<<>>) = 0
    OBVIOUS
  <2> QED
    BY <2>1
<1> QED
  BY <1>4, <1>5, <1>6, <1>7 DEF T

LEMMA EntriesAre ==
  ASSUME NEW scan \in Trees, NEW fmt \in {"dgs", "json"}
  PROVE  /\ IsEntries(EntriesIn(fmt, scan))
         /\ Len(EntriesIn(fmt, scan)) = Len(Stream(fmt, scan)) /\ Len(Stream(fmt, scan)) \in Nat
         /\ \A i \in 1..Len(Stream(fmt, scan)) :
              /\ Stream(fmt, scan)[i] \in ItemsIn(fmt, scan)
              /\ EntriesIn(fmt, scan)[i] = ItemEntry(fmt, scan, Stream(fmt, scan)[i])
<1> DEFINE s == Stream(fmt, scan)
           k == Len(s)
           E == EntriesIn(fmt, scan)
           I == ItemsIn(fmt, scan)
<1>1. I \in SUBSET Paths /\ IsListing(s, PathOrder, I)
  BY ItemsInFacts
<1>2. s \in Seq(I) /\ k \in Nat /\ \A i \in 1..k : s[i] \in I
  BY <1>1, LenProperties, ElementOfSeq DEF IsListing
<1>3. \A p \in I : /\ ItemEntry(fmt, scan, p) \in EntryType
                   /\ ItemEntry(fmt, scan, p).kind = "file" => ItemEntry(fmt, scan, p).files = 0
  <2> SUFFICES ASSUME NEW p \in I
               PROVE  /\ ItemEntry(fmt, scan, p) \in EntryType
                      /\ ItemEntry(fmt, scan, p).kind = "file" => ItemEntry(fmt, scan, p).files = 0
    OBVIOUS
  <2>1. KeyOf(p) \in Seq(Bytes)
    BY <1>1, KeyOfSteps
  <2>2. Below(scan, p)[1] \in Nat /\ Below(scan, p)[2] \in Nat
    BY BelowIsPair
  <2>3. p \in DOMAIN scan.file => scan.file[p] \in Nat
    BY DiffAssumption
  <2> QED
    BY <2>1, <2>2, <2>3 DEF ItemEntry, EntryType
<1>4. E = [i \in 1..k |-> ItemEntry(fmt, scan, s[i])]
  BY DEF EntriesIn
<1> HIDE DEF E, s, k, I
<1>5. E \in [1..k -> EntryType]
  BY <1>2, <1>3, <1>4
<1>6. E \in Seq(EntryType) /\ Len(E) = k
  BY <1>2, <1>5, FunctionIsSeq
<1>7. \A i \in 1..k : E[i] = ItemEntry(fmt, scan, s[i])
  BY <1>4
<1>8. IsEntries(E)
  <2>1. \A i \in 1..k : E[i].kind = "file" => E[i].files = 0
    BY <1>2, <1>3, <1>7
  <2> QED
    BY <1>6, <2>1 DEF IsEntries
<1> QED
  BY <1>2, <1>6, <1>7, <1>8 DEF E, s, k, I

(* A folder and a file of one path are two items. *)
Item(scan, p) == <<p, p \in DOMAIN scan.listed>>
ItemsOf(fmt, scan) == {Item(scan, p) : p \in ItemsIn(fmt, scan)}

(* The cursor has gone through the items W. *)
Reads(c, fmt, scan, W) ==
  \E i \in 1..(Len(Stream(fmt, scan)) + 1) :
    /\ CursorIs(c, EntriesIn(fmt, scan), i)
    /\ W \cap ItemsOf(fmt, scan) = {Item(scan, Stream(fmt, scan)[k]) : k \in 1..(i - 1)}

(* And is at the item of path p. *)
IsAt(c, fmt, scan, W, p) ==
  LET e == ItemEntry(fmt, scan, p)
  IN /\ p \in ItemsIn(fmt, scan) /\ Item(scan, p) \notin W
     /\ c.key = e.key /\ c.kind = e.kind /\ c.size = e.size /\ c.files = e.files
     /\ \A q \in ItemsIn(fmt, scan) : Item(scan, q) \in W \/ q = p \/ <<p, q>> \in PathOrder

LEMMA ReadsStart ==
  ASSUME NEW scan \in Trees, NEW fmt \in {"dgs", "json"}, NEW snap, snap.data = Encoded(EntriesIn(fmt, scan))
  PROVE  Reads(Advance(CursorOn(snap)), fmt, scan, {})
<1>1. IsEntries(EntriesIn(fmt, scan)) /\ Len(Stream(fmt, scan)) \in Nat
  BY EntriesAre
<1>2. CursorIs(Advance(CursorOn(snap)), EntriesIn(fmt, scan), 1)
  BY <1>1, CursorStarts
<1>3. 1 \in 1..(Len(Stream(fmt, scan)) + 1) /\ 1..(1 - 1) = {}
  BY <1>1
<1> QED
  BY <1>2, <1>3 DEF Reads

LEMMA ReadsAll ==
  ASSUME NEW scan \in Trees, NEW fmt \in {"dgs", "json"}, NEW c, NEW W, Reads(c, fmt, scan, W), c.done
  PROVE  ItemsOf(fmt, scan) \subseteq W
<1> DEFINE s == Stream(fmt, scan)
<1>1. Len(EntriesIn(fmt, scan)) = Len(s) /\ Len(s) \in Nat
  BY EntriesAre
<1>2. PICK i \in 1..(Len(s) + 1) :
        /\ CursorIs(c, EntriesIn(fmt, scan), i)
        /\ W \cap ItemsOf(fmt, scan) = {Item(scan, s[k]) : k \in 1..(i - 1)}
  BY DEF Reads
<1>3. ~(i <= Len(s))
  BY <1>1, <1>2 DEF CursorIs, On
<1>4. i - 1 = Len(s)
  BY <1>1, <1>3
<1>5. \A p \in ItemsIn(fmt, scan) : \E k \in 1..Len(s) : s[k] = p
  BY ItemsInFacts DEF IsListing
<1> HIDE DEF s
<1> QED
  BY <1>2, <1>4, <1>5 DEF ItemsOf

LEMMA ReadsNext ==
  ASSUME NEW scan \in Trees, NEW fmt \in {"dgs", "json"}, NEW c, NEW W, Reads(c, fmt, scan, W), ~c.done
  PROVE  \E p : /\ IsAt(c, fmt, scan, W, p)
                /\ \A V : V \cap ItemsOf(fmt, scan) = (W \cap ItemsOf(fmt, scan)) \cup {Item(scan, p)}
                            => Reads(Advance(c), fmt, scan, V)
<1> DEFINE s == Stream(fmt, scan)
           E == EntriesIn(fmt, scan)
           I == ItemsIn(fmt, scan)
           A == ItemsOf(fmt, scan)
<1>1. /\ IsEntries(E) /\ Len(E) = Len(s) /\ Len(s) \in Nat
      /\ \A i \in 1..Len(s) : s[i] \in I /\ E[i] = ItemEntry(fmt, scan, s[i])
  BY EntriesAre
<1>2. PICK i \in 1..(Len(s) + 1) : CursorIs(c, E, i) /\ W \cap A = {Item(scan, s[k]) : k \in 1..(i - 1)}
  BY DEF Reads
<1>3. I \in SUBSET Paths /\ IsListing(s, PathOrder, I)
  BY ItemsInFacts
<1>4. /\ \A p \in I : \E k \in 1..Len(s) : s[k] = p
      /\ \A j, k \in 1..Len(s) : j < k => <<s[j], s[k]>> \in PathOrder
  BY <1>3 DEF IsListing
<1>5. \A p \in Paths : <<p, p>> \notin PathOrder
  BY PathOrderIs DEF IsOrder
<1> HIDE DEF s, E, I
<1>6. i <= Len(s) /\ c = On(E, i)
  <2>1. ~(i <= Len(s)) => c.done
    BY <1>1, <1>2 DEF CursorIs
  <2> QED
    BY <1>1, <1>2, <2>1 DEF CursorIs
<1>7. i \in 1..Len(s) /\ i - 1 \in Nat /\ i \in Nat
  BY <1>1, <1>6
<1> DEFINE p == s[i]
<1>8. p \in I /\ p \in Paths
  BY <1>1, <1>3, <1>7
<1>9. \A q, r \in I : Item(scan, q) = Item(scan, r) => q = r
  BY DEF Item
<1>10. \A k \in 1..(i - 1) : k \in 1..Len(s) /\ k < i
  BY <1>1, <1>6
<1>11. \A q \in I : Item(scan, q) \in A
  BY DEF ItemsOf, I
<1>12. Item(scan, p) \notin W
  <2> SUFFICES ASSUME Item(scan, p) \in W PROVE FALSE
    OBVIOUS
  <2>1. PICK k \in 1..(i - 1) : Item(scan, p) = Item(scan, s[k])
    BY <1>2, <1>8, <1>11
  <2>2. s[k] \in I /\ <<s[k], p>> \in PathOrder
    BY <1>1, <1>4, <1>7, <1>10
  <2> QED
    BY <1>5, <1>8, <1>9, <2>1, <2>2
<1>13. \A q \in I : Item(scan, q) \in W \/ q = p \/ <<p, q>> \in PathOrder
  <2> SUFFICES ASSUME NEW q \in I PROVE Item(scan, q) \in W \/ q = p \/ <<p, q>> \in PathOrder
    OBVIOUS
  <2>1. PICK k \in 1..Len(s) : s[k] = q
    BY <1>4
  <2>2. CASE k < i
    <3>1. k \in 1..(i - 1)
      BY <1>7, <2>2
    <3> QED
      BY <1>2, <2>1, <3>1
  <2>3. CASE k = i
    BY <2>1, <2>3
  <2>4. CASE i < k
    BY <1>4, <1>7, <2>1, <2>4
  <2> QED
    BY <1>7, <2>2, <2>3, <2>4
<1>14. c.key = E[i].key /\ c.kind = E[i].kind /\ c.size = E[i].size /\ c.files = E[i].files
  BY <1>6 DEF On
<1>15. E[i] = ItemEntry(fmt, scan, p)
  BY <1>1, <1>7
<1>16. IsAt(c, fmt, scan, W, p)
  <2> HIDE DEF p
  <2> QED
    BY <1>8, <1>12, <1>13, <1>14, <1>15 DEF IsAt, I
<1>17. ASSUME NEW V, V \cap A = (W \cap A) \cup {Item(scan, p)} PROVE Reads(Advance(c), fmt, scan, V)
  <2>1. i \in 1..Len(E)
    BY <1>1, <1>7
  <2>2. CursorIs(Advance(c), E, i + 1)
    BY <1>1, <1>2, <2>1, CursorMoves
  <2>3. i + 1 \in 1..(Len(s) + 1) /\ (i + 1) - 1 = i /\ 1..i = 1..(i - 1) \cup {i}
    BY <1>1, <1>7
  <2>4. V \cap A = {Item(scan, s[k]) : k \in 1..((i + 1) - 1)}
    BY <1>2, <1>17, <2>3
  <2> QED
    BY <2>2, <2>3, <2>4 DEF Reads, s, E
<1> HIDE DEF p
<1> QED
  BY <1>16, <1>17

-----------------------------------------------------------------------------
(***************************************************************************)
(* What one step of the comparison does with what was gathered.            *)
(***************************************************************************)
AccOf(ot, nt, fs, gr, sh, ad, re, nf, gf, cf) ==
  [oldTot |-> ot, newTot |-> nt, files |-> fs, grown |-> gr, shrunk |-> sh,
   added |-> ad, removed |-> re, newFiles |-> nf, goneFiles |-> gf, changedFiles |-> cf]
IsAcc(a) ==
  a = AccOf(a.oldTot, a.newTot, a.files, a.grown, a.shrunk, a.added, a.removed,
            a.newFiles, a.goneFiles, a.changedFiles)

LEMMA AccWith ==
  ASSUME NEW a, IsAcc(a)
  PROVE
    /\ \A v : [a EXCEPT !.newTot = v] =
         AccOf(a.oldTot, v, a.files, a.grown, a.shrunk, a.added, a.removed, a.newFiles, a.goneFiles, a.changedFiles)
    /\ \A v : [a EXCEPT !.oldTot = v] =
         AccOf(v, a.newTot, a.files, a.grown, a.shrunk, a.added, a.removed, a.newFiles, a.goneFiles, a.changedFiles)
    /\ \A v : [a EXCEPT !.added = v] =
         AccOf(a.oldTot, a.newTot, a.files, a.grown, a.shrunk, v, a.removed, a.newFiles, a.goneFiles, a.changedFiles)
    /\ \A v : [a EXCEPT !.removed = v] =
         AccOf(a.oldTot, a.newTot, a.files, a.grown, a.shrunk, a.added, v, a.newFiles, a.goneFiles, a.changedFiles)
    /\ \A v : [a EXCEPT !.newFiles = v] =
         AccOf(a.oldTot, a.newTot, a.files, a.grown, a.shrunk, a.added, a.removed, v, a.goneFiles, a.changedFiles)
    /\ \A v : [a EXCEPT !.goneFiles = v] =
         AccOf(a.oldTot, a.newTot, a.files, a.grown, a.shrunk, a.added, a.removed, a.newFiles, v, a.changedFiles)
    /\ \A v : [a EXCEPT !.grown = v] =
         AccOf(a.oldTot, a.newTot, a.files, v, a.shrunk, a.added, a.removed, a.newFiles, a.goneFiles, a.changedFiles)
    /\ \A v : [a EXCEPT !.shrunk = v] =
         AccOf(a.oldTot, a.newTot, a.files, a.grown, v, a.added, a.removed, a.newFiles, a.goneFiles, a.changedFiles)
    /\ \A v : [a EXCEPT !.changedFiles = v] =
         AccOf(a.oldTot, a.newTot, a.files, a.grown, a.shrunk, a.added, a.removed, a.newFiles, a.goneFiles, v)
    /\ \A v, w : [a EXCEPT !.oldTot = v, !.newTot = w] =
         AccOf(v, w, a.files, a.grown, a.shrunk, a.added, a.removed, a.newFiles, a.goneFiles, a.changedFiles)
<1> DEFINE x0 == a.oldTot
           x1 == a.newTot
           x2 == a.files
           x3 == a.grown
           x4 == a.shrunk
           x5 == a.added
           x6 == a.removed
           x7 == a.newFiles
           x8 == a.goneFiles
           x9 == a.changedFiles
<1>1. a = AccOf(x0, x1, x2, x3, x4, x5, x6, x7, x8, x9)
  BY DEF IsAcc
<1> HIDE DEF x0, x1, x2, x3, x4, x5, x6, x7, x8, x9
<1>2. \A v : [a EXCEPT !.newTot = v] = AccOf(x0, v, x2, x3, x4, x5, x6, x7, x8, x9)
  BY <1>1 DEF AccOf
<1>3. \A v : [a EXCEPT !.oldTot = v] = AccOf(v, x1, x2, x3, x4, x5, x6, x7, x8, x9)
  BY <1>1 DEF AccOf
<1>4. \A v : [a EXCEPT !.added = v] = AccOf(x0, x1, x2, x3, x4, v, x6, x7, x8, x9)
  BY <1>1 DEF AccOf
<1>5. \A v : [a EXCEPT !.removed = v] = AccOf(x0, x1, x2, x3, x4, x5, v, x7, x8, x9)
  BY <1>1 DEF AccOf
<1>6. \A v : [a EXCEPT !.newFiles = v] = AccOf(x0, x1, x2, x3, x4, x5, x6, v, x8, x9)
  BY <1>1 DEF AccOf
<1>7. \A v : [a EXCEPT !.goneFiles = v] = AccOf(x0, x1, x2, x3, x4, x5, x6, x7, v, x9)
  BY <1>1 DEF AccOf
<1>8. \A v : [a EXCEPT !.grown = v] = AccOf(x0, x1, x2, v, x4, x5, x6, x7, x8, x9)
  BY <1>1 DEF AccOf
<1>9. \A v : [a EXCEPT !.shrunk = v] = AccOf(x0, x1, x2, x3, v, x5, x6, x7, x8, x9)
  BY <1>1 DEF AccOf
<1>10. \A v : [a EXCEPT !.changedFiles = v] = AccOf(x0, x1, x2, x3, x4, x5, x6, x7, x8, v)
  BY <1>1 DEF AccOf
<1>11. \A v, w : [a EXCEPT !.oldTot = v, !.newTot = w] = AccOf(v, w, x2, x3, x4, x5, x6, x7, x8, x9)
  <2> SUFFICES ASSUME NEW v, NEW w
               PROVE  [a EXCEPT !.oldTot = v, !.newTot = w] = AccOf(v, w, x2, x3, x4, x5, x6, x7, x8, x9)
    OBVIOUS
  <2>1. [a EXCEPT !.oldTot = v, !.newTot = w] = [[a EXCEPT !.oldTot = v] EXCEPT !.newTot = w]
    BY <1>1 DEF AccOf
  <2>2. [AccOf(v, x1, x2, x3, x4, x5, x6, x7, x8, x9) EXCEPT !.newTot = w]
          = AccOf(v, w, x2, x3, x4, x5, x6, x7, x8, x9)
    BY DEF AccOf
  <2> QED
    BY <1>3, <2>1, <2>2
<1> QED
  BY <1>2, <1>3, <1>4, <1>5, <1>6, <1>7, <1>8, <1>9, <1>10, <1>11 DEF x0, x1, x2, x3, x4, x5, x6, x7, x8, x9

LEMMA RelCases ==
  ASSUME at \in Paths, NEW p \in Paths, p # <<>>
  PROVE  /\ p = at => Rel(KeyOf(p)) = "at" /\ Front(p) # at /\ ~IsStrictPrefix(at, p)
         /\ Front(p) = at => Rel(KeyOf(p)) = "child" /\ IsStrictPrefix(at, p)
         /\ p # at /\ Front(p) # at => Rel(KeyOf(p)) \notin {"at", "child"}
         /\ Rel(KeyOf(p)) \in {"child", "deeper"} <=> IsStrictPrefix(at, p)
<1> DEFINE r == Rel(KeyOf(p))
<1>1. (r = "at" <=> p = at) /\ (r = "child" <=> Front(p) = at) /\ (r \in {"child", "deeper"} <=> IsStrictPrefix(at, p))
  BY RelIs
<1> HIDE DEF r
<1>2. "at" # "child" /\ "at" # "deeper"
  OBVIOUS
<1>3. /\ p = at => r = "at" /\ Front(p) # at /\ ~IsStrictPrefix(at, p)
      /\ Front(p) = at => r = "child" /\ IsStrictPrefix(at, p)
      /\ p # at /\ Front(p) # at => r \notin {"at", "child"}
      /\ r \in {"child", "deeper"} <=> IsStrictPrefix(at, p)
  BY <1>1, <1>2
<1> QED
  BY <1>3 DEF r

(* With c an entry of path p. *)
Goes(c, p) == p \in Paths /\ p # <<>> /\ c.key = KeyOf(p)

OneSideTo(a, c, isNew, p) ==
  LET dir == c.kind # "file"
      tot == <<c.size, c.files>>
      in  == Front(p) = at /\ dir
      below == IsStrictPrefix(at, p) /\ ~dir /\ a.files
  IN AccOf(IF p = at /\ dir /\ ~isNew THEN tot ELSE a.oldTot,
           IF p = at /\ dir /\ isNew THEN tot ELSE a.newTot,
           a.files, a.grown, a.shrunk,
           IF in /\ isNew THEN a.added \cup {[path |-> Shown(p), was |-> <<>>, is |-> tot]} ELSE a.added,
           IF in /\ ~isNew THEN a.removed \cup {[path |-> Shown(p), was |-> tot, is |-> <<>>]} ELSE a.removed,
           IF below /\ isNew THEN Gather(a.newFiles, KeyOf(p), 0, c.size) ELSE a.newFiles,
           IF below /\ ~isNew THEN Gather(a.goneFiles, KeyOf(p), 0, c.size) ELSE a.goneFiles,
           a.changedFiles)

BothSidesTo(a, c, d, p) ==
  LET dir == d.kind # "file"
      in  == Front(p) = at /\ dir
      delta == [path |-> Shown(p), was |-> <<c.size, c.files>>, is |-> <<d.size, d.files>>]
  IN AccOf(IF p = at /\ dir THEN <<c.size, c.files>> ELSE a.oldTot,
           IF p = at /\ dir THEN <<d.size, d.files>> ELSE a.newTot,
           a.files,
           IF in /\ d.size > c.size THEN a.grown \cup {delta} ELSE a.grown,
           IF in /\ ~(d.size > c.size) /\ d.size < c.size THEN a.shrunk \cup {delta} ELSE a.shrunk,
           a.added, a.removed, a.newFiles, a.goneFiles,
           IF IsStrictPrefix(at, p) /\ ~dir /\ a.files /\ c.size # d.size
             THEN Gather(a.changedFiles, KeyOf(p), c.size, d.size) ELSE a.changedFiles)

LEMMA OneSideIs ==
  ASSUME at \in Paths, NEW a, IsAcc(a), NEW c, NEW isNew \in BOOLEAN, NEW p, Goes(c, p)
  PROVE  OneSide(a, c, isNew) = OneSideTo(a, c, isNew, p)
<1>0. p \in Paths /\ p # <<>> /\ c.key = KeyOf(p)
  BY DEF Goes
<1> DEFINE dir == c.kind # "file"
           tot == <<c.size, c.files>>
<1>1. /\ p = at => Rel(c.key) = "at" /\ Front(p) # at /\ ~IsStrictPrefix(at, p)
      /\ Front(p) = at => Rel(c.key) = "child" /\ IsStrictPrefix(at, p)
      /\ p # at /\ Front(p) # at => Rel(c.key) \notin {"at", "child"}
      /\ Rel(c.key) \in {"child", "deeper"} <=> IsStrictPrefix(at, p)
  BY <1>0, RelCases
<1>2. PathOfKey(c.key) = Shown(p)
  BY <1>0, NamesOfKey DEF PathOfKey
<1> HIDE DEF dir, tot
<1>3. CASE Rel(c.key) = "at" /\ dir
  <2>1. OneSide(a, c, isNew) = IF isNew THEN [a EXCEPT !.newTot = tot]
              ELSE [a EXCEPT !.oldTot = tot]
    BY <1>2, <1>3 DEF OneSide, Delta, dir, tot
  <2>2. [a EXCEPT !.newTot = tot] = AccOf(a.oldTot, tot, a.files, a.grown, a.shrunk, a.added, a.removed, a.newFiles, a.goneFiles, a.changedFiles)
    BY AccWith
  <2>3. [a EXCEPT !.oldTot = tot] = AccOf(tot, a.newTot, a.files, a.grown, a.shrunk, a.added, a.removed, a.newFiles, a.goneFiles, a.changedFiles)
    BY AccWith
  <2>4. OneSide(a, c, isNew) = IF isNew THEN AccOf(a.oldTot, tot, a.files, a.grown, a.shrunk, a.added, a.removed, a.newFiles, a.goneFiles, a.changedFiles)
              ELSE AccOf(tot, a.newTot, a.files, a.grown, a.shrunk, a.added, a.removed, a.newFiles, a.goneFiles, a.changedFiles)
    BY <2>1, <2>2, <2>3
  <2> QED
    BY <1>0, <1>1, <1>3, <2>4 DEF dir, tot, OneSideTo
<1>4. CASE Rel(c.key) = "child" /\ dir
  <2>1. OneSide(a, c, isNew) = IF isNew THEN [a EXCEPT !.added = a.added \cup {[path |-> Shown(p), was |-> <<>>, is |-> tot]}]
              ELSE [a EXCEPT !.removed = a.removed \cup {[path |-> Shown(p), was |-> tot, is |-> <<>>]}]
    BY <1>2, <1>4 DEF OneSide, Delta, dir, tot
  <2>2. [a EXCEPT !.added = a.added \cup {[path |-> Shown(p), was |-> <<>>, is |-> tot]}] = AccOf(a.oldTot, a.newTot, a.files, a.grown, a.shrunk, a.added \cup {[path |-> Shown(p), was |-> <<>>, is |-> tot]}, a.removed, a.newFiles, a.goneFiles, a.changedFiles)
    BY AccWith
  <2>3. [a EXCEPT !.removed = a.removed \cup {[path |-> Shown(p), was |-> tot, is |-> <<>>]}] = AccOf(a.oldTot, a.newTot, a.files, a.grown, a.shrunk, a.added, a.removed \cup {[path |-> Shown(p), was |-> tot, is |-> <<>>]}, a.newFiles, a.goneFiles, a.changedFiles)
    BY AccWith
  <2>4. OneSide(a, c, isNew) = IF isNew THEN AccOf(a.oldTot, a.newTot, a.files, a.grown, a.shrunk, a.added \cup {[path |-> Shown(p), was |-> <<>>, is |-> tot]}, a.removed, a.newFiles, a.goneFiles, a.changedFiles)
              ELSE AccOf(a.oldTot, a.newTot, a.files, a.grown, a.shrunk, a.added, a.removed \cup {[path |-> Shown(p), was |-> tot, is |-> <<>>]}, a.newFiles, a.goneFiles, a.changedFiles)
    BY <2>1, <2>2, <2>3
  <2> QED
    BY <1>0, <1>1, <1>4, <2>4 DEF dir, tot, OneSideTo
<1>5. CASE Rel(c.key) \in {"child", "deeper"} /\ ~dir /\ a.files
  <2>1. OneSide(a, c, isNew) = IF isNew THEN [a EXCEPT !.newFiles = Gather(a.newFiles, c.key, 0, c.size)]
              ELSE [a EXCEPT !.goneFiles = Gather(a.goneFiles, c.key, 0, c.size)]
    BY <1>2, <1>5 DEF OneSide, Delta, dir, tot
  <2>2. [a EXCEPT !.newFiles = Gather(a.newFiles, c.key, 0, c.size)] = AccOf(a.oldTot, a.newTot, a.files, a.grown, a.shrunk, a.added, a.removed, Gather(a.newFiles, c.key, 0, c.size), a.goneFiles, a.changedFiles)
    BY AccWith
  <2>3. [a EXCEPT !.goneFiles = Gather(a.goneFiles, c.key, 0, c.size)] = AccOf(a.oldTot, a.newTot, a.files, a.grown, a.shrunk, a.added, a.removed, a.newFiles, Gather(a.goneFiles, c.key, 0, c.size), a.changedFiles)
    BY AccWith
  <2>4. OneSide(a, c, isNew) = IF isNew THEN AccOf(a.oldTot, a.newTot, a.files, a.grown, a.shrunk, a.added, a.removed, Gather(a.newFiles, c.key, 0, c.size), a.goneFiles, a.changedFiles)
              ELSE AccOf(a.oldTot, a.newTot, a.files, a.grown, a.shrunk, a.added, a.removed, a.newFiles, Gather(a.goneFiles, c.key, 0, c.size), a.changedFiles)
    BY <2>1, <2>2, <2>3
  <2> QED
    BY <1>0, <1>1, <1>5, <2>4 DEF dir, tot, OneSideTo
<1>6. CASE ~(Rel(c.key) = "at" /\ dir) /\ ~(Rel(c.key) = "child" /\ dir)
           /\ ~(Rel(c.key) \in {"child", "deeper"} /\ ~dir /\ a.files)
  <2>1. OneSide(a, c, isNew) = AccOf(a.oldTot, a.newTot, a.files, a.grown, a.shrunk, a.added, a.removed, a.newFiles, a.goneFiles, a.changedFiles)
    BY <1>6 DEF OneSide, IsAcc, dir
  <2> QED
    BY <1>0, <1>1, <1>6, <2>1 DEF dir, tot, OneSideTo
<1> QED
  BY <1>3, <1>4, <1>5, <1>6

LEMMA BothSidesIs ==
  ASSUME at \in Paths, NEW a, IsAcc(a), NEW c, NEW d, NEW p, Goes(d, p)
  PROVE  BothSides(a, c, d) = BothSidesTo(a, c, d, p)
<1>0. p \in Paths /\ p # <<>> /\ d.key = KeyOf(p)
  BY DEF Goes
<1> DEFINE dir == d.kind # "file"
           delta == [path |-> Shown(p), was |-> <<c.size, c.files>>, is |-> <<d.size, d.files>>]
<1>1. /\ p = at => Rel(d.key) = "at" /\ Front(p) # at /\ ~IsStrictPrefix(at, p)
      /\ Front(p) = at => Rel(d.key) = "child" /\ IsStrictPrefix(at, p)
      /\ p # at /\ Front(p) # at => Rel(d.key) \notin {"at", "child"}
      /\ Rel(d.key) \in {"child", "deeper"} <=> IsStrictPrefix(at, p)
  BY <1>0, RelCases
<1>2. PathOfKey(d.key) = Shown(p)
  BY <1>0, NamesOfKey DEF PathOfKey
<1> HIDE DEF dir, delta
<1>3. CASE Rel(d.key) = "at" /\ dir
  <2>1. BothSides(a, c, d) = [a EXCEPT !.oldTot = <<c.size, c.files>>, !.newTot = <<d.size, d.files>>]
    BY <1>2, <1>3 DEF BothSides, Delta, dir, delta
  <2>2. [a EXCEPT !.oldTot = <<c.size, c.files>>, !.newTot = <<d.size, d.files>>] = AccOf(<<c.size, c.files>>, <<d.size, d.files>>, a.files, a.grown, a.shrunk, a.added, a.removed, a.newFiles, a.goneFiles, a.changedFiles)
    <3>1. \A v, w : [a EXCEPT !.oldTot = v, !.newTot = w] = AccOf(v, w, a.files, a.grown, a.shrunk, a.added, a.removed, a.newFiles, a.goneFiles, a.changedFiles)
      BY AccWith
    <3> QED
      BY <3>1
  <2>3. BothSides(a, c, d) = AccOf(<<c.size, c.files>>, <<d.size, d.files>>, a.files, a.grown, a.shrunk, a.added, a.removed, a.newFiles, a.goneFiles, a.changedFiles)
    BY <2>1, <2>2
  <2> QED
    BY <1>0, <1>1, <1>3, <2>3 DEF dir, delta, BothSidesTo
<1>4. CASE Rel(d.key) = "child" /\ dir /\ d.size > c.size
  <2>1. BothSides(a, c, d) = [a EXCEPT !.grown = a.grown \cup {delta}]
    BY <1>2, <1>4 DEF BothSides, Delta, dir, delta
  <2>2. [a EXCEPT !.grown = a.grown \cup {delta}] = AccOf(a.oldTot, a.newTot, a.files, a.grown \cup {delta}, a.shrunk, a.added, a.removed, a.newFiles, a.goneFiles, a.changedFiles)
    BY AccWith
  <2>3. BothSides(a, c, d) = AccOf(a.oldTot, a.newTot, a.files, a.grown \cup {delta}, a.shrunk, a.added, a.removed, a.newFiles, a.goneFiles, a.changedFiles)
    BY <2>1, <2>2
  <2> QED
    BY <1>0, <1>1, <1>4, <2>3 DEF dir, delta, BothSidesTo
<1>5. CASE Rel(d.key) = "child" /\ dir /\ ~(d.size > c.size) /\ d.size < c.size
  <2>1. BothSides(a, c, d) = [a EXCEPT !.shrunk = a.shrunk \cup {delta}]
    BY <1>2, <1>5 DEF BothSides, Delta, dir, delta
  <2>2. [a EXCEPT !.shrunk = a.shrunk \cup {delta}] = AccOf(a.oldTot, a.newTot, a.files, a.grown, a.shrunk \cup {delta}, a.added, a.removed, a.newFiles, a.goneFiles, a.changedFiles)
    BY AccWith
  <2>3. BothSides(a, c, d) = AccOf(a.oldTot, a.newTot, a.files, a.grown, a.shrunk \cup {delta}, a.added, a.removed, a.newFiles, a.goneFiles, a.changedFiles)
    BY <2>1, <2>2
  <2> QED
    BY <1>0, <1>1, <1>5, <2>3 DEF dir, delta, BothSidesTo
<1>6. CASE Rel(d.key) \in {"child", "deeper"} /\ ~dir /\ a.files /\ c.size # d.size
  <2>1. BothSides(a, c, d) = [a EXCEPT !.changedFiles = Gather(a.changedFiles, d.key, c.size, d.size)]
    BY <1>2, <1>6 DEF BothSides, Delta, dir, delta
  <2>2. [a EXCEPT !.changedFiles = Gather(a.changedFiles, d.key, c.size, d.size)] = AccOf(a.oldTot, a.newTot, a.files, a.grown, a.shrunk, a.added, a.removed, a.newFiles, a.goneFiles, Gather(a.changedFiles, d.key, c.size, d.size))
    <3>1. \A v : [a EXCEPT !.changedFiles = v] = AccOf(a.oldTot, a.newTot, a.files, a.grown, a.shrunk, a.added, a.removed, a.newFiles, a.goneFiles, v)
      BY AccWith
    <3> QED
      BY <3>1
  <2>3. BothSides(a, c, d) = AccOf(a.oldTot, a.newTot, a.files, a.grown, a.shrunk, a.added, a.removed, a.newFiles, a.goneFiles, Gather(a.changedFiles, d.key, c.size, d.size))
    BY <2>1, <2>2
  <2> QED
    BY <1>0, <1>1, <1>6, <2>3 DEF dir, delta, BothSidesTo
<1>7. CASE /\ ~(Rel(d.key) = "at" /\ dir)
           /\ ~(Rel(d.key) = "child" /\ dir /\ d.size > c.size)
           /\ ~(Rel(d.key) = "child" /\ dir /\ ~(d.size > c.size) /\ d.size < c.size)
           /\ ~(Rel(d.key) \in {"child", "deeper"} /\ ~dir /\ a.files /\ c.size # d.size)
  <2>1. BothSides(a, c, d) = AccOf(a.oldTot, a.newTot, a.files, a.grown, a.shrunk, a.added, a.removed, a.newFiles, a.goneFiles, a.changedFiles)
    BY <1>7 DEF BothSides, IsAcc, dir
  <2> QED
    BY <1>0, <1>1, <1>7, <2>1 DEF dir, delta, BothSidesTo
<1> QED
  BY <1>3, <1>4, <1>5, <1>6, <1>7

-----------------------------------------------------------------------------
(***************************************************************************)
(* What has been gathered when the items W of both scans have been read.   *)
(***************************************************************************)
AllItems == ItemsOf(format, old) \cup ItemsOf("dgs", new)
Compared == old \in Trees /\ new \in Trees /\ format \in Formats /\ at \in Ats

Kids(W) == {p \in Paths \ {<<>>} : Front(p) = at /\ <<p, TRUE>> \in W}
FilesIn(W) == {f \in Paths \ {<<>>} : IsStrictPrefix(at, f) /\ <<f, FALSE>> \in W}

TotalOf(scan, p) == IF p \in DOMAIN scan.listed THEN Below(scan, p) ELSE <<>>
ChangeAt(p) == [path |-> Shown(p), was |-> TotalOf(old, p), is |-> TotalOf(new, p)]
ChangesAt(K) == {ChangeAt(p) : p \in K}
AddedIn(W) == {p \in Kids(W) : p \notin DOMAIN old.listed}
RemovedIn(W) == {p \in Kids(W) : p \notin DOMAIN new.listed}
GrownIn(W) == {p \in Kids(W) : /\ p \in DOMAIN old.listed /\ p \in DOMAIN new.listed
                               /\ Below(old, p)[1] < Below(new, p)[1]}
ShrunkIn(W) == {p \in Kids(W) : /\ p \in DOMAIN old.listed /\ p \in DOMAIN new.listed
                                /\ Below(old, p)[1] > Below(new, p)[1]}

TotalIn(scan, W) == IF at = <<>> \/ <<at, TRUE>> \in W THEN TotalOf(scan, at) ELSE <<>>

FoldersGathered(a, W) ==
  /\ a.oldTot = TotalIn(old, W) /\ a.newTot = TotalIn(new, W)
  /\ a.added = ChangesAt(AddedIn(W)) /\ a.removed = ChangesAt(RemovedIn(W))
  /\ a.grown = ChangesAt(GrownIn(W)) /\ a.shrunk = ChangesAt(ShrunkIn(W))

Came(W) == {f \in FilesIn(W) : f \notin DOMAIN old.file}
Went(W) == {f \in FilesIn(W) : f \notin DOMAIN new.file}
Resized(W) == {f \in FilesIn(W) : /\ f \in DOMAIN old.file /\ f \in DOMAIN new.file
                                  /\ old.file[f] # new.file[f]}
Growth == [f \in FilesBelow(old) \cap FilesBelow(new) |-> new.file[f] - old.file[f]]

FilesGathered(a, W) ==
  /\ a.files <=> format = "dgs"
  /\ ~a.files => a.newFiles = NoChanges /\ a.goneFiles = NoChanges /\ a.changedFiles = NoChanges
  /\ a.files => /\ Counts(a.newFiles, Came(W), new.file) /\ Counts(a.goneFiles, Went(W), old.file)
                /\ Counts(a.changedFiles, Resized(W), Growth)

LEMMA ComparedFacts ==
  ASSUME Compared
  PROVE  at \in Paths /\ format \in {"dgs", "json"}
BY DiffAssumption DEF Compared, Paths

(* The entry a cursor is at. *)
LEMMA AtEntry ==
  ASSUME NEW scan \in Trees, NEW fmt, NEW c, NEW W, NEW p, IsAt(c, fmt, scan, W, p)
  PROVE  /\ p \in Paths /\ p # <<>> /\ c.key = KeyOf(p)
         /\ c.kind # "file" <=> p \in DOMAIN scan.listed
         /\ <<p, p \in DOMAIN scan.listed>> \notin W /\ Item(scan, p) = <<p, p \in DOMAIN scan.listed>>
         /\ p \in DOMAIN scan.listed => <<c.size, c.files>> = Below(scan, p) /\ c.size = Below(scan, p)[1]
                                        /\ p \notin DOMAIN scan.file
         /\ p \notin DOMAIN scan.listed => p \in DOMAIN scan.file /\ c.size = scan.file[p] /\ fmt = "dgs"
                                           /\ c.size \in Nat
<1>1. p \in ItemsIn(fmt, scan) /\ Item(scan, p) \notin W
      /\ c.key = ItemEntry(fmt, scan, p).key /\ c.kind = ItemEntry(fmt, scan, p).kind
      /\ c.size = ItemEntry(fmt, scan, p).size /\ c.files = ItemEntry(fmt, scan, p).files
  BY DEF IsAt
<1>2. p \in Paths /\ p # <<>>
  BY <1>1, ItemsInFacts
<1>3. /\ p \in DOMAIN scan.listed \/ p \in DOMAIN scan.file
      /\ p \notin DOMAIN scan.listed => fmt = "dgs"
  BY <1>1 DEF ItemsIn
<1>4. ~(p \in DOMAIN scan.listed /\ p \in DOMAIN scan.file) /\ (p \in DOMAIN scan.file => scan.file[p] \in Nat)
  BY DiffAssumption
<1>5. Below(scan, p) = <<Below(scan, p)[1], Below(scan, p)[2]>>
  BY BelowIsPair
<1>6. /\ c.key = KeyOf(p)
      /\ c.kind = (IF p \in DOMAIN scan.file THEN "file"
                   ELSE IF fmt = "dgs" /\ ~scan.listed[p] THEN "unread" ELSE "dir")
      /\ c.size = (IF p \in DOMAIN scan.file THEN scan.file[p] ELSE Below(scan, p)[1])
      /\ c.files = (IF p \in DOMAIN scan.file THEN 0 ELSE Below(scan, p)[2])
  BY <1>1 DEF ItemEntry
<1>7. c.kind # "file" <=> p \in DOMAIN scan.listed
  BY <1>3, <1>4, <1>6
<1>8. p \in DOMAIN scan.listed => <<c.size, c.files>> = Below(scan, p) /\ c.size = Below(scan, p)[1]
  BY <1>4, <1>5, <1>6
<1>9. p \notin DOMAIN scan.listed => c.size = scan.file[p] /\ c.size \in Nat
  BY <1>3, <1>4, <1>6
<1>10. Item(scan, p) = <<p, p \in DOMAIN scan.listed>>
  BY DEF Item
<1> QED
  BY <1>1, <1>2, <1>3, <1>4, <1>6, <1>7, <1>8, <1>9, <1>10

(* What an item says of the scans. *)
LEMMA ItemsSay ==
  ASSUME NEW scan \in Trees, NEW fmt
  PROVE  /\ \A p, d : <<p, d>> \in ItemsOf(fmt, scan) =>
              /\ p \in Paths /\ p # <<>> /\ d \in BOOLEAN
              /\ d = (p \in DOMAIN scan.listed) /\ (d \/ (p \in DOMAIN scan.file /\ fmt = "dgs"))
         /\ \A p \in DOMAIN scan.listed : p # <<>> => <<p, TRUE>> \in ItemsOf(fmt, scan)
         /\ \A p \in DOMAIN scan.file : p # <<>> /\ fmt = "dgs" => <<p, FALSE>> \in ItemsOf(fmt, scan)
         /\ \A p : ~(p \in DOMAIN scan.listed /\ p \in DOMAIN scan.file)
<1>1. \A p \in ItemsIn(fmt, scan) :
        /\ p \in Paths /\ p # <<>>
        /\ p \in DOMAIN scan.listed \/ (p \in DOMAIN scan.file /\ fmt = "dgs")
  <2>1. \A p \in ItemsIn(fmt, scan) : p \in Paths /\ p # <<>>
    BY ItemsInFacts
  <2> QED
    BY <2>1 DEF ItemsIn
<1>2. \A p : ~(p \in DOMAIN scan.listed /\ p \in DOMAIN scan.file)
  BY DiffAssumption
<1>3. ASSUME NEW p, NEW d, <<p, d>> \in ItemsOf(fmt, scan)
      PROVE  /\ p \in Paths /\ p # <<>> /\ d \in BOOLEAN
             /\ d = (p \in DOMAIN scan.listed) /\ (d \/ (p \in DOMAIN scan.file /\ fmt = "dgs"))
  <2>1. PICK q \in ItemsIn(fmt, scan) : <<p, d>> = <<q, q \in DOMAIN scan.listed>>
    BY <1>3 DEF ItemsOf, Item
  <2>2. p = q /\ d = (q \in DOMAIN scan.listed)
    BY <2>1
  <2>3. d = (p \in DOMAIN scan.listed)
    BY <2>2
  <2>4. d \in BOOLEAN
    BY <2>2
  <2>5. p \in Paths /\ p # <<>> /\ (p \in DOMAIN scan.listed \/ (p \in DOMAIN scan.file /\ fmt = "dgs"))
    BY <1>1, <2>2
  <2>6. d \/ (p \in DOMAIN scan.file /\ fmt = "dgs")
    BY <2>3, <2>5, Zenon
  <2> QED
    BY <2>3, <2>4, <2>5, <2>6, Zenon
<1>4. ASSUME NEW p \in DOMAIN scan.listed, p # <<>> PROVE <<p, TRUE>> \in ItemsOf(fmt, scan)
  <2>1. p \in ItemsIn(fmt, scan)
    BY <1>4 DEF ItemsIn
  <2>2. (p \in DOMAIN scan.listed) = TRUE
    OBVIOUS
  <2>3. Item(scan, p) = <<p, TRUE>>
    BY <2>2 DEF Item
  <2>4. Item(scan, p) \in ItemsOf(fmt, scan)
    BY <2>1 DEF ItemsOf
  <2> QED
    BY <2>3, <2>4
<1>5. ASSUME NEW p \in DOMAIN scan.file, p # <<>>, fmt = "dgs" PROVE <<p, FALSE>> \in ItemsOf(fmt, scan)
  <2>1. p \in ItemsIn(fmt, scan)
    BY <1>5 DEF ItemsIn
  <2>2. (p \in DOMAIN scan.listed) = FALSE
    BY <1>2
  <2>3. Item(scan, p) = <<p, FALSE>>
    BY <2>2 DEF Item
  <2>4. Item(scan, p) \in ItemsOf(fmt, scan)
    BY <2>1 DEF ItemsOf
  <2> QED
    BY <2>3, <2>4
<1> QED
  BY <1>2, <1>3, <1>4, <1>5

(* One more item. *)
LEMMA OneMore ==
  ASSUME NEW W, NEW p \in Paths, p # <<>>
  PROVE  /\ \A V : V = W \cup {<<p, TRUE>>} =>
              /\ Kids(V) = IF Front(p) = at THEN Kids(W) \cup {p} ELSE Kids(W)
              /\ FilesIn(V) = FilesIn(W)
              /\ <<at, TRUE>> \in V <=> <<at, TRUE>> \in W \/ p = at
         /\ \A V : V = W \cup {<<p, FALSE>>} =>
              /\ Kids(V) = Kids(W)
              /\ FilesIn(V) = IF IsStrictPrefix(at, p) THEN FilesIn(W) \cup {p} ELSE FilesIn(W)
              /\ <<at, TRUE>> \in V <=> <<at, TRUE>> \in W
<1>1. \A q : <<q, TRUE>> # <<p, FALSE>> /\ <<q, FALSE>> # <<p, TRUE>>
  OBVIOUS
<1>2. ASSUME NEW V, V = W \cup {<<p, TRUE>>}
      PROVE  /\ Kids(V) = IF Front(p) = at THEN Kids(W) \cup {p} ELSE Kids(W)
             /\ FilesIn(V) = FilesIn(W)
             /\ <<at, TRUE>> \in V <=> <<at, TRUE>> \in W \/ p = at
  <2>1. \A q : (<<q, TRUE>> \in V <=> <<q, TRUE>> \in W \/ q = p) /\ (<<q, FALSE>> \in V <=> <<q, FALSE>> \in W)
    BY <1>1, <1>2
  <2> QED
    BY <2>1 DEF Kids, FilesIn
<1>3. ASSUME NEW V, V = W \cup {<<p, FALSE>>}
      PROVE  /\ Kids(V) = Kids(W)
             /\ FilesIn(V) = IF IsStrictPrefix(at, p) THEN FilesIn(W) \cup {p} ELSE FilesIn(W)
             /\ <<at, TRUE>> \in V <=> <<at, TRUE>> \in W
  <2>1. \A q : (<<q, FALSE>> \in V <=> <<q, FALSE>> \in W \/ q = p) /\ (<<q, TRUE>> \in V <=> <<q, TRUE>> \in W)
    BY <1>1, <1>3
  <2> QED
    BY <2>1 DEF Kids, FilesIn
<1> QED
  BY <1>2, <1>3

-----------------------------------------------------------------------------
(* The files counted have sizes, in the scans they are counted for. *)
LEMMA FilesFacts ==
  ASSUME Compared, NEW W \in SUBSET AllItems
  PROVE  FilesOf(Came(W), new.file) /\ FilesOf(Went(W), old.file) /\ FilesOf(Resized(W), Growth)
<1>0. old \in Trees /\ new \in Trees
  BY DEF Compared
<1>1. /\ IsFiniteSet(DOMAIN old.file) /\ (\A f \in DOMAIN old.file : old.file[f] \in Nat)
      /\ IsFiniteSet(DOMAIN new.file) /\ (\A f \in DOMAIN new.file : new.file[f] \in Nat)
  BY <1>0, DiffAssumption
<1>2. \A f \in FilesIn(W) : f \in DOMAIN old.file \/ f \in DOMAIN new.file
  <2> SUFFICES ASSUME NEW f \in FilesIn(W) PROVE f \in DOMAIN old.file \/ f \in DOMAIN new.file
    OBVIOUS
  <2>1. <<f, FALSE>> \in ItemsOf(format, old) \/ <<f, FALSE>> \in ItemsOf("dgs", new)
    BY DEF FilesIn, AllItems
  <2> QED
    BY <1>0, <2>1, ItemsSay
<1>3. FilesIn(W) \in SUBSET (Paths \ {<<>>}) /\ \A f \in FilesIn(W) : IsStrictPrefix(at, f)
  BY DEF FilesIn
<1>4. Came(W) \in SUBSET DOMAIN new.file /\ Went(W) \in SUBSET DOMAIN old.file /\ Resized(W) \in SUBSET DOMAIN old.file
  BY <1>2 DEF Came, Went, Resized
<1>5. IsFiniteSet(Came(W)) /\ IsFiniteSet(Went(W)) /\ IsFiniteSet(Resized(W))
  BY <1>1, <1>4, FS_Subset
<1>6. FilesOf(Came(W), new.file)
  <2>1. Came(W) \in SUBSET (Paths \ {<<>>}) /\ \A f \in Came(W) : new.file[f] \in Int
    BY <1>1, <1>3, <1>4 DEF Came
  <2> QED
    BY <1>5, <2>1 DEF FilesOf
<1>7. FilesOf(Went(W), old.file)
  <2>1. Went(W) \in SUBSET (Paths \ {<<>>}) /\ \A f \in Went(W) : old.file[f] \in Int
    BY <1>1, <1>3, <1>4 DEF Went
  <2> QED
    BY <1>5, <2>1 DEF FilesOf
<1>8. FilesOf(Resized(W), Growth)
  <2>1. Resized(W) \in SUBSET (Paths \ {<<>>})
    BY <1>3 DEF Resized
  <2>2. \A f \in Resized(W) : f \in FilesBelow(old) \cap FilesBelow(new)
    BY <1>3 DEF Resized, FilesBelow
  <2>3. \A f \in Resized(W) : Growth[f] = new.file[f] - old.file[f] /\ new.file[f] \in Nat /\ old.file[f] \in Nat
    BY <1>1, <2>2 DEF Growth, Resized
  <2>4. \A f \in Resized(W) : Growth[f] \in Int
    BY <2>3
  <2> QED
    BY <1>5, <2>1, <2>4 DEF FilesOf
<1> QED
  BY <1>6, <1>7, <1>8

LEMMA OnlyOldGathers ==
  ASSUME Compared, NEW W \in SUBSET AllItems, NEW a, IsAcc(a), FoldersGathered(a, W), FilesGathered(a, W),
         NEW p, IsAt(o, format, old, W, p), Item(old, p) \notin ItemsOf("dgs", new),
         NEW V, V = W \cup {Item(old, p)}
  PROVE  /\ IsAcc(OneSide(a, o, FALSE)) /\ V \in SUBSET AllItems
         /\ FoldersGathered(OneSide(a, o, FALSE), V) /\ FilesGathered(OneSide(a, o, FALSE), V)
<1> DEFINE d == p \in DOMAIN old.listed
           tot == <<o.size, o.files>>
           b == OneSide(a, o, FALSE)
<1>0. at \in Paths /\ format \in {"dgs", "json"} /\ old \in Trees /\ new \in Trees
  BY ComparedFacts DEF Compared
<1>1. /\ p \in Paths /\ p # <<>> /\ o.key = KeyOf(p)
      /\ o.kind # "file" <=> d
      /\ <<p, d>> \notin W /\ Item(old, p) = <<p, d>>
      /\ d => tot = Below(old, p) /\ o.size = Below(old, p)[1] /\ p \notin DOMAIN old.file
      /\ ~d => p \in DOMAIN old.file /\ o.size = old.file[p] /\ format = "dgs" /\ o.size \in Nat
  BY <1>0, AtEntry
<1>2. d \in BOOLEAN
  OBVIOUS
<1>3. V = W \cup {<<p, d>>}
  BY <1>1
<1>4. d => p \notin DOMAIN new.listed
  <2> SUFFICES ASSUME d, p \in DOMAIN new.listed PROVE FALSE
    OBVIOUS
  <2>1. <<p, TRUE>> \in ItemsOf("dgs", new)
    BY <1>0, <1>1, ItemsSay
  <2>2. d = TRUE
    OBVIOUS
  <2>3. Item(old, p) = <<p, TRUE>>
    BY <1>1, <2>2
  <2> QED
    BY <2>1, <2>3
<1>5. ~d /\ format = "dgs" => p \notin DOMAIN new.file
  <2> SUFFICES ASSUME ~d, format = "dgs", p \in DOMAIN new.file PROVE FALSE
    OBVIOUS
  <2>1. <<p, FALSE>> \in ItemsOf("dgs", new)
    BY <1>0, <1>1, ItemsSay
  <2>2. d = FALSE
    OBVIOUS
  <2>3. Item(old, p) = <<p, FALSE>>
    BY <1>1, <2>2
  <2> QED
    BY <2>1, <2>3
<1>6. V \in SUBSET AllItems
  <2>1. Item(old, p) \in ItemsOf(format, old)
    BY DEF IsAt, ItemsOf
  <2> QED
    BY <2>1 DEF AllItems
<1>7. /\ Kids(V) = IF d /\ Front(p) = at THEN Kids(W) \cup {p} ELSE Kids(W)
      /\ FilesIn(V) = IF ~d /\ IsStrictPrefix(at, p) THEN FilesIn(W) \cup {p} ELSE FilesIn(W)
      /\ <<at, TRUE>> \in V <=> <<at, TRUE>> \in W \/ (d /\ p = at)
  <2>1. CASE d
    <3>1. d = TRUE
      BY <2>1
    <3>2. V = W \cup {<<p, TRUE>>}
      BY <1>3, <3>1
    <3>3. /\ Kids(V) = IF Front(p) = at THEN Kids(W) \cup {p} ELSE Kids(W)
          /\ FilesIn(V) = FilesIn(W)
          /\ <<at, TRUE>> \in V <=> <<at, TRUE>> \in W \/ p = at
      BY <1>1, <3>2, OneMore
    <3> HIDE DEF d
    <3> QED
      BY <2>1, <3>3
  <2>2. CASE ~d
    <3>1. d = FALSE
      BY <2>2
    <3>2. V = W \cup {<<p, FALSE>>}
      BY <1>3, <3>1
    <3> QED
      BY <1>1, <2>2, <3>2, OneMore
  <2> QED
    BY <2>1, <2>2
<1>8. b = AccOf(IF p = at /\ d THEN tot ELSE a.oldTot,
                a.newTot,
                a.files, a.grown, a.shrunk,
                a.added,
                IF Front(p) = at /\ d THEN a.removed \cup {[path |-> Shown(p), was |-> tot, is |-> <<>>]} ELSE a.removed,
                a.newFiles,
                IF IsStrictPrefix(at, p) /\ ~d /\ a.files THEN Gather(a.goneFiles, KeyOf(p), 0, o.size) ELSE a.goneFiles,
                a.changedFiles)
  <2>1. FALSE \in BOOLEAN /\ Goes(o, p)
    BY <1>1 DEF Goes
  <2>2. OneSide(a, o, FALSE) = OneSideTo(a, o, FALSE, p)
    BY <1>0, <2>1, OneSideIs
  <2> HIDE DEF d
  <2> QED
    BY <1>1, <2>2 DEF OneSideTo
<1> HIDE DEF b
<1>9. /\ b.oldTot = (IF p = at /\ d THEN tot ELSE a.oldTot) /\ b.newTot = a.newTot
      /\ b.files = a.files /\ b.grown = a.grown /\ b.shrunk = a.shrunk /\ b.added = a.added
      /\ b.removed = (IF Front(p) = at /\ d THEN a.removed \cup {[path |-> Shown(p), was |-> tot, is |-> <<>>]} ELSE a.removed)
      /\ b.newFiles = a.newFiles /\ b.changedFiles = a.changedFiles
      /\ b.goneFiles = (IF IsStrictPrefix(at, p) /\ ~d /\ a.files
                       THEN Gather(a.goneFiles, KeyOf(p), 0, o.size) ELSE a.goneFiles)
  BY <1>8 DEF AccOf
<1>10. IsAcc(b)
  <2> DEFINE x0 == b.oldTot
             x1 == b.newTot
             x5 == b.added
             x6 == b.removed
             x7 == b.newFiles
             x8 == b.goneFiles
  <2> HIDE DEF d, tot
  <2>1. b = AccOf(x0, x1, b.files, b.grown, b.shrunk, x5, x6, x7, x8, b.changedFiles)
    BY <1>8, <1>9
  <2> QED
    BY <2>1 DEF IsAcc
<1> HIDE DEF tot
<1>11. FoldersGathered(b, V)
  <2>1. RemovedIn(V) = IF Front(p) = at /\ d THEN RemovedIn(W) \cup {p} ELSE RemovedIn(W)
    BY <1>4, <1>7 DEF RemovedIn
  <2>2. AddedIn(V) = AddedIn(W) /\ GrownIn(V) = GrownIn(W) /\ ShrunkIn(V) = ShrunkIn(W)
    BY <1>4, <1>7 DEF AddedIn, GrownIn, ShrunkIn
  <2>3. d => ChangeAt(p) = [path |-> Shown(p), was |-> tot, is |-> <<>>]
    BY <1>1, <1>4 DEF ChangeAt, TotalOf
  <2>4. b.removed = ChangesAt(RemovedIn(V))
    <3>1. a.removed = ChangesAt(RemovedIn(W))
      BY DEF FoldersGathered
    <3> HIDE DEF d
    <3>2. CASE Front(p) = at /\ d
      <4>1. b.removed = ChangesAt(RemovedIn(W)) \cup {ChangeAt(p)} /\ RemovedIn(V) = RemovedIn(W) \cup {p}
        BY <1>9, <2>1, <2>3, <3>1, <3>2
      <4> QED
        BY <4>1 DEF ChangesAt
    <3>3. CASE ~(Front(p) = at /\ d)
      BY <1>9, <2>1, <3>1, <3>3
    <3> QED
      BY <3>2, <3>3
  <2>5. b.added = ChangesAt(AddedIn(V)) /\ b.grown = ChangesAt(GrownIn(V)) /\ b.shrunk = ChangesAt(ShrunkIn(V))
    BY <1>9, <2>2 DEF FoldersGathered
  <2>6. b.oldTot = TotalIn(old, V)
    <3>1. a.oldTot = TotalIn(old, W)
      BY DEF FoldersGathered
    <3>2. CASE p = at /\ d
      <4>1. TotalIn(old, V) = Below(old, at)
        BY <1>7, <3>2 DEF TotalIn, TotalOf
      <4> QED
        BY <1>1, <1>9, <3>2, <4>1
    <3>3. CASE ~(p = at /\ d)
      <4> HIDE DEF d
      <4>1. TotalIn(old, V) = TotalIn(old, W)
        BY <1>7, <3>3 DEF TotalIn
      <4> QED
        BY <1>9, <3>1, <3>3, <4>1
    <3> QED
      BY <3>2, <3>3
  <2>7. b.newTot = TotalIn(new, V)
    <3>1. a.newTot = TotalIn(new, W)
      BY DEF FoldersGathered
    <3>2. TotalIn(new, V) = TotalIn(new, W)
      <4>1. p = at /\ d => TotalOf(new, at) = <<>>
        BY <1>4 DEF TotalOf
      <4> HIDE DEF d
      <4> QED
        BY <1>7, <4>1 DEF TotalIn
    <3> QED
      BY <1>9, <3>1, <3>2
  <2> QED
    BY <2>4, <2>5, <2>6, <2>7 DEF FoldersGathered
<1>12. FilesGathered(b, V)
  <2>1. (a.files <=> format = "dgs")
        /\ (~a.files => a.newFiles = NoChanges /\ a.goneFiles = NoChanges /\ a.changedFiles = NoChanges)
        /\ (a.files => Counts(a.goneFiles, Went(W), old.file) /\ Counts(a.newFiles, Came(W), new.file)
                       /\ Counts(a.changedFiles, Resized(W), Growth))
    BY DEF FilesGathered
  <2>2. CASE ~a.files
    <3>1. b.newFiles = a.newFiles /\ b.goneFiles = a.goneFiles /\ b.changedFiles = a.changedFiles /\ b.files = a.files
      BY <1>9, <2>2
    <3> QED
      BY <2>1, <2>2, <3>1 DEF FilesGathered
  <2>3. CASE a.files /\ ~(~d /\ IsStrictPrefix(at, p))
    <3>1. Came(V) = Came(W) /\ Went(V) = Went(W) /\ Resized(V) = Resized(W)
      BY <1>7, <2>3 DEF Came, Went, Resized
    <3>2. b.goneFiles = a.goneFiles /\ b.newFiles = a.newFiles /\ b.changedFiles = a.changedFiles /\ b.files = a.files
      BY <1>9, <2>3
    <3> QED
      BY <2>1, <2>3, <3>1, <3>2 DEF FilesGathered
  <2>4. CASE a.files /\ ~d /\ IsStrictPrefix(at, p)
    <3>1. p \in DOMAIN old.file /\ p \notin DOMAIN new.file /\ o.size = old.file[p] /\ o.size \in Nat
      BY <1>1, <1>5, <2>1, <2>4
    <3>2. Went(V) = Went(W) \cup {p} /\ Came(V) = Came(W) /\ Resized(V) = Resized(W)
      BY <1>7, <2>4, <3>1 DEF Came, Went, Resized
    <3>3. p \notin Went(W)
      <4>1. d = FALSE
        BY <2>4
      <4> QED
        BY <1>1, <4>1 DEF Went, FilesIn
    <3>4. FilesOf(Went(V), old.file)
      BY <1>6, FilesFacts
    <3>5. IsNext(Went(W), old.file, p, 0, o.size)
      <4>1. old.file[p] = o.size - 0 /\ 0 \in Nat
        BY <3>1
      <4> QED
        BY <3>1, <3>2, <3>3, <3>4, <4>1 DEF IsNext
    <3>6. Counts(Gather(a.goneFiles, KeyOf(p), 0, o.size), Went(W) \cup {p}, old.file)
      BY <2>1, <2>4, <3>5, GatherCounts
    <3>7. b.goneFiles = Gather(a.goneFiles, KeyOf(p), 0, o.size) /\ b.newFiles = a.newFiles /\ b.changedFiles = a.changedFiles
          /\ b.files = a.files
      BY <1>9, <2>4
    <3>8. Counts(b.goneFiles, Went(V), old.file) /\ Counts(b.newFiles, Came(V), new.file)
          /\ Counts(b.changedFiles, Resized(V), Growth)
      BY <2>1, <2>4, <3>2, <3>6, <3>7
    <3> QED
      BY <2>1, <2>4, <3>7, <3>8 DEF FilesGathered
  <2> QED
    BY <2>2, <2>3, <2>4
<1> QED
  BY <1>6, <1>10, <1>11, <1>12 DEF b

LEMMA OnlyNewGathers ==
  ASSUME Compared, NEW W \in SUBSET AllItems, NEW a, IsAcc(a), FoldersGathered(a, W), FilesGathered(a, W),
         NEW p, IsAt(n, "dgs", new, W, p), Item(new, p) \notin ItemsOf(format, old),
         NEW V, V = W \cup {Item(new, p)}
  PROVE  /\ IsAcc(OneSide(a, n, TRUE)) /\ V \in SUBSET AllItems
         /\ FoldersGathered(OneSide(a, n, TRUE), V) /\ FilesGathered(OneSide(a, n, TRUE), V)
<1> DEFINE d == p \in DOMAIN new.listed
           tot == <<n.size, n.files>>
           b == OneSide(a, n, TRUE)
<1>0. at \in Paths /\ format \in {"dgs", "json"} /\ old \in Trees /\ new \in Trees
  BY ComparedFacts DEF Compared
<1>1. /\ p \in Paths /\ p # <<>> /\ n.key = KeyOf(p)
      /\ n.kind # "file" <=> d
      /\ <<p, d>> \notin W /\ Item(new, p) = <<p, d>>
      /\ d => tot = Below(new, p) /\ n.size = Below(new, p)[1] /\ p \notin DOMAIN new.file
      /\ ~d => p \in DOMAIN new.file /\ n.size = new.file[p] /\ "dgs" = "dgs" /\ n.size \in Nat
  BY <1>0, AtEntry
<1>2. d \in BOOLEAN
  OBVIOUS
<1>3. V = W \cup {<<p, d>>}
  BY <1>1
<1>4. d => p \notin DOMAIN old.listed
  <2> SUFFICES ASSUME d, p \in DOMAIN old.listed PROVE FALSE
    OBVIOUS
  <2>1. <<p, TRUE>> \in ItemsOf(format, old)
    BY <1>0, <1>1, ItemsSay
  <2>2. d = TRUE
    OBVIOUS
  <2>3. Item(new, p) = <<p, TRUE>>
    BY <1>1, <2>2
  <2> QED
    BY <2>1, <2>3
<1>5. ~d /\ format = "dgs" => p \notin DOMAIN old.file
  <2> SUFFICES ASSUME ~d, format = "dgs", p \in DOMAIN old.file PROVE FALSE
    OBVIOUS
  <2>1. <<p, FALSE>> \in ItemsOf(format, old)
    BY <1>0, <1>1, ItemsSay
  <2>2. d = FALSE
    OBVIOUS
  <2>3. Item(new, p) = <<p, FALSE>>
    BY <1>1, <2>2
  <2> QED
    BY <2>1, <2>3
<1>6. V \in SUBSET AllItems
  <2>1. Item(new, p) \in ItemsOf("dgs", new)
    BY DEF IsAt, ItemsOf
  <2> QED
    BY <2>1 DEF AllItems
<1>7. /\ Kids(V) = IF d /\ Front(p) = at THEN Kids(W) \cup {p} ELSE Kids(W)
      /\ FilesIn(V) = IF ~d /\ IsStrictPrefix(at, p) THEN FilesIn(W) \cup {p} ELSE FilesIn(W)
      /\ <<at, TRUE>> \in V <=> <<at, TRUE>> \in W \/ (d /\ p = at)
  <2>1. CASE d
    <3>1. d = TRUE
      BY <2>1
    <3>2. V = W \cup {<<p, TRUE>>}
      BY <1>3, <3>1
    <3>3. /\ Kids(V) = IF Front(p) = at THEN Kids(W) \cup {p} ELSE Kids(W)
          /\ FilesIn(V) = FilesIn(W)
          /\ <<at, TRUE>> \in V <=> <<at, TRUE>> \in W \/ p = at
      BY <1>1, <3>2, OneMore
    <3> HIDE DEF d
    <3> QED
      BY <2>1, <3>3
  <2>2. CASE ~d
    <3>1. d = FALSE
      BY <2>2
    <3>2. V = W \cup {<<p, FALSE>>}
      BY <1>3, <3>1
    <3> QED
      BY <1>1, <2>2, <3>2, OneMore
  <2> QED
    BY <2>1, <2>2
<1>8. b = AccOf(a.oldTot,
                IF p = at /\ d THEN tot ELSE a.newTot,
                a.files, a.grown, a.shrunk,
                IF Front(p) = at /\ d THEN a.added \cup {[path |-> Shown(p), was |-> <<>>, is |-> tot]} ELSE a.added,
                a.removed,
                IF IsStrictPrefix(at, p) /\ ~d /\ a.files THEN Gather(a.newFiles, KeyOf(p), 0, n.size) ELSE a.newFiles,
                a.goneFiles,
                a.changedFiles)
  <2>1. TRUE \in BOOLEAN /\ Goes(n, p)
    BY <1>1 DEF Goes
  <2>2. OneSide(a, n, TRUE) = OneSideTo(a, n, TRUE, p)
    BY <1>0, <2>1, OneSideIs
  <2> HIDE DEF d
  <2> QED
    BY <1>1, <2>2 DEF OneSideTo
<1> HIDE DEF b
<1>9. /\ b.newTot = (IF p = at /\ d THEN tot ELSE a.newTot) /\ b.oldTot = a.oldTot
      /\ b.files = a.files /\ b.grown = a.grown /\ b.shrunk = a.shrunk /\ b.removed = a.removed
      /\ b.added = (IF Front(p) = at /\ d THEN a.added \cup {[path |-> Shown(p), was |-> <<>>, is |-> tot]} ELSE a.added)
      /\ b.goneFiles = a.goneFiles /\ b.changedFiles = a.changedFiles
      /\ b.newFiles = (IF IsStrictPrefix(at, p) /\ ~d /\ a.files
                       THEN Gather(a.newFiles, KeyOf(p), 0, n.size) ELSE a.newFiles)
  BY <1>8 DEF AccOf
<1>10. IsAcc(b)
  <2> DEFINE x0 == b.oldTot
             x1 == b.newTot
             x5 == b.added
             x6 == b.removed
             x7 == b.newFiles
             x8 == b.goneFiles
  <2> HIDE DEF d, tot
  <2>1. b = AccOf(x0, x1, b.files, b.grown, b.shrunk, x5, x6, x7, x8, b.changedFiles)
    BY <1>8, <1>9
  <2> QED
    BY <2>1 DEF IsAcc
<1> HIDE DEF tot
<1>11. FoldersGathered(b, V)
  <2>1. AddedIn(V) = IF Front(p) = at /\ d THEN AddedIn(W) \cup {p} ELSE AddedIn(W)
    BY <1>4, <1>7 DEF AddedIn
  <2>2. RemovedIn(V) = RemovedIn(W) /\ GrownIn(V) = GrownIn(W) /\ ShrunkIn(V) = ShrunkIn(W)
    BY <1>4, <1>7 DEF RemovedIn, GrownIn, ShrunkIn
  <2>3. d => ChangeAt(p) = [path |-> Shown(p), was |-> <<>>, is |-> tot]
    BY <1>1, <1>4 DEF ChangeAt, TotalOf
  <2>4. b.added = ChangesAt(AddedIn(V))
    <3>1. a.added = ChangesAt(AddedIn(W))
      BY DEF FoldersGathered
    <3> HIDE DEF d
    <3>2. CASE Front(p) = at /\ d
      <4>1. b.added = ChangesAt(AddedIn(W)) \cup {ChangeAt(p)} /\ AddedIn(V) = AddedIn(W) \cup {p}
        BY <1>9, <2>1, <2>3, <3>1, <3>2
      <4> QED
        BY <4>1 DEF ChangesAt
    <3>3. CASE ~(Front(p) = at /\ d)
      BY <1>9, <2>1, <3>1, <3>3
    <3> QED
      BY <3>2, <3>3
  <2>5. b.removed = ChangesAt(RemovedIn(V)) /\ b.grown = ChangesAt(GrownIn(V)) /\ b.shrunk = ChangesAt(ShrunkIn(V))
    BY <1>9, <2>2 DEF FoldersGathered
  <2>6. b.newTot = TotalIn(new, V)
    <3>1. a.newTot = TotalIn(new, W)
      BY DEF FoldersGathered
    <3>2. CASE p = at /\ d
      <4>1. TotalIn(new, V) = Below(new, at)
        BY <1>7, <3>2 DEF TotalIn, TotalOf
      <4> QED
        BY <1>1, <1>9, <3>2, <4>1
    <3>3. CASE ~(p = at /\ d)
      <4> HIDE DEF d
      <4>1. TotalIn(new, V) = TotalIn(new, W)
        BY <1>7, <3>3 DEF TotalIn
      <4> QED
        BY <1>9, <3>1, <3>3, <4>1
    <3> QED
      BY <3>2, <3>3
  <2>7. b.oldTot = TotalIn(old, V)
    <3>1. a.oldTot = TotalIn(old, W)
      BY DEF FoldersGathered
    <3>2. TotalIn(old, V) = TotalIn(old, W)
      <4>1. p = at /\ d => TotalOf(old, at) = <<>>
        BY <1>4 DEF TotalOf
      <4> HIDE DEF d
      <4> QED
        BY <1>7, <4>1 DEF TotalIn
    <3> QED
      BY <1>9, <3>1, <3>2
  <2> QED
    BY <2>4, <2>5, <2>6, <2>7 DEF FoldersGathered
<1>12. FilesGathered(b, V)
  <2>1. (a.files <=> format = "dgs")
        /\ (~a.files => a.newFiles = NoChanges /\ a.goneFiles = NoChanges /\ a.changedFiles = NoChanges)
        /\ (a.files => Counts(a.newFiles, Came(W), new.file) /\ Counts(a.goneFiles, Went(W), old.file)
                       /\ Counts(a.changedFiles, Resized(W), Growth))
    BY DEF FilesGathered
  <2>2. CASE ~a.files
    <3>1. b.newFiles = a.newFiles /\ b.goneFiles = a.goneFiles /\ b.changedFiles = a.changedFiles /\ b.files = a.files
      BY <1>9, <2>2
    <3> QED
      BY <2>1, <2>2, <3>1 DEF FilesGathered
  <2>3. CASE a.files /\ ~(~d /\ IsStrictPrefix(at, p))
    <3>1. Came(V) = Came(W) /\ Went(V) = Went(W) /\ Resized(V) = Resized(W)
      BY <1>7, <2>3 DEF Came, Went, Resized
    <3>2. b.newFiles = a.newFiles /\ b.goneFiles = a.goneFiles /\ b.changedFiles = a.changedFiles /\ b.files = a.files
      BY <1>9, <2>3
    <3> QED
      BY <2>1, <2>3, <3>1, <3>2 DEF FilesGathered
  <2>4. CASE a.files /\ ~d /\ IsStrictPrefix(at, p)
    <3>1. p \in DOMAIN new.file /\ p \notin DOMAIN old.file /\ n.size = new.file[p] /\ n.size \in Nat
      BY <1>1, <1>5, <2>1, <2>4
    <3>2. Came(V) = Came(W) \cup {p} /\ Went(V) = Went(W) /\ Resized(V) = Resized(W)
      BY <1>7, <2>4, <3>1 DEF Came, Went, Resized
    <3>3. p \notin Came(W)
      <4>1. d = FALSE
        BY <2>4
      <4> QED
        BY <1>1, <4>1 DEF Came, FilesIn
    <3>4. FilesOf(Came(V), new.file)
      BY <1>6, FilesFacts
    <3>5. IsNext(Came(W), new.file, p, 0, n.size)
      <4>1. new.file[p] = n.size - 0 /\ 0 \in Nat
        BY <3>1
      <4> QED
        BY <3>1, <3>2, <3>3, <3>4, <4>1 DEF IsNext
    <3>6. Counts(Gather(a.newFiles, KeyOf(p), 0, n.size), Came(W) \cup {p}, new.file)
      BY <2>1, <2>4, <3>5, GatherCounts
    <3>7. b.newFiles = Gather(a.newFiles, KeyOf(p), 0, n.size) /\ b.goneFiles = a.goneFiles /\ b.changedFiles = a.changedFiles
          /\ b.files = a.files
      BY <1>9, <2>4
    <3>8. Counts(b.newFiles, Came(V), new.file) /\ Counts(b.goneFiles, Went(V), old.file)
          /\ Counts(b.changedFiles, Resized(V), Growth)
      BY <2>1, <2>4, <3>2, <3>6, <3>7
    <3> QED
      BY <2>1, <2>4, <3>7, <3>8 DEF FilesGathered
  <2> QED
    BY <2>2, <2>3, <2>4
<1> QED
  BY <1>6, <1>10, <1>11, <1>12 DEF b

LEMMA BothGather ==
  ASSUME Compared, NEW W \in SUBSET AllItems, NEW a, IsAcc(a), FoldersGathered(a, W), FilesGathered(a, W),
         NEW p, IsAt(o, format, old, W, p), IsAt(n, "dgs", new, W, p), Item(old, p) = Item(new, p),
         NEW V, V = W \cup {Item(old, p)}
  PROVE  /\ IsAcc(BothSides(a, o, n)) /\ V \in SUBSET AllItems
         /\ FoldersGathered(BothSides(a, o, n), V) /\ FilesGathered(BothSides(a, o, n), V)
<1> DEFINE d == p \in DOMAIN old.listed
           was == <<o.size, o.files>>
           is == <<n.size, n.files>>
           b == BothSides(a, o, n)
           delta == [path |-> Shown(p), was |-> was, is |-> is]
<1>0. at \in Paths /\ format \in {"dgs", "json"} /\ old \in Trees /\ new \in Trees
  BY ComparedFacts DEF Compared
<1>1. /\ p \in Paths /\ p # <<>>
      /\ <<p, d>> \notin W /\ Item(old, p) = <<p, d>>
      /\ d => was = Below(old, p) /\ o.size = Below(old, p)[1] /\ p \notin DOMAIN old.file
      /\ ~d => p \in DOMAIN old.file /\ o.size = old.file[p] /\ o.size \in Nat
  BY <1>0, AtEntry
<1>2. /\ n.key = KeyOf(p)
      /\ n.kind # "file" <=> p \in DOMAIN new.listed
      /\ Item(new, p) = <<p, p \in DOMAIN new.listed>>
      /\ p \in DOMAIN new.listed => is = Below(new, p) /\ n.size = Below(new, p)[1] /\ p \notin DOMAIN new.file
      /\ p \notin DOMAIN new.listed => p \in DOMAIN new.file /\ n.size = new.file[p] /\ n.size \in Nat
  <2>1. IsAt(n, "dgs", new, W, p) /\ new \in Trees
    BY <1>0
  <2> DEFINE e == p \in DOMAIN new.listed
  <2>2. /\ p \in Paths /\ p # <<>> /\ n.key = KeyOf(p)
        /\ n.kind # "file" <=> e
        /\ <<p, e>> \notin W /\ Item(new, p) = <<p, e>>
        /\ e => is = Below(new, p) /\ n.size = Below(new, p)[1] /\ p \notin DOMAIN new.file
        /\ ~e => p \in DOMAIN new.file /\ n.size = new.file[p] /\ "dgs" = "dgs" /\ n.size \in Nat
    BY <2>1, AtEntry
  <2> QED
    BY <2>2
<1>3. d <=> p \in DOMAIN new.listed
  <2>1. <<p, d>> = <<p, p \in DOMAIN new.listed>>
    BY <1>1, <1>2
  <2> QED
    BY <2>1
<1>4. d \in BOOLEAN
  OBVIOUS
<1>5. V = W \cup {<<p, d>>}
  BY <1>1
<1>6. V \in SUBSET AllItems
  <2>1. Item(old, p) \in ItemsOf(format, old)
    BY DEF IsAt, ItemsOf
  <2> QED
    BY <2>1 DEF AllItems
<1>7. /\ Kids(V) = IF d /\ Front(p) = at THEN Kids(W) \cup {p} ELSE Kids(W)
      /\ FilesIn(V) = IF ~d /\ IsStrictPrefix(at, p) THEN FilesIn(W) \cup {p} ELSE FilesIn(W)
      /\ <<at, TRUE>> \in V <=> <<at, TRUE>> \in W \/ (d /\ p = at)
  <2>1. CASE d
    <3>1. d = TRUE
      BY <2>1
    <3>2. V = W \cup {<<p, TRUE>>}
      BY <1>5, <3>1
    <3>3. /\ Kids(V) = IF Front(p) = at THEN Kids(W) \cup {p} ELSE Kids(W)
          /\ FilesIn(V) = FilesIn(W)
          /\ <<at, TRUE>> \in V <=> <<at, TRUE>> \in W \/ p = at
      BY <1>1, <3>2, OneMore
    <3> HIDE DEF d
    <3> QED
      BY <2>1, <3>3
  <2>2. CASE ~d
    <3>1. d = FALSE
      BY <2>2
    <3>2. V = W \cup {<<p, FALSE>>}
      BY <1>5, <3>1
    <3> QED
      BY <1>1, <2>2, <3>2, OneMore
  <2> QED
    BY <2>1, <2>2
<1>8. b = AccOf(IF p = at /\ d THEN was ELSE a.oldTot, IF p = at /\ d THEN is ELSE a.newTot, a.files,
                IF Front(p) = at /\ d /\ n.size > o.size THEN a.grown \cup {delta} ELSE a.grown,
                IF Front(p) = at /\ d /\ ~(n.size > o.size) /\ n.size < o.size
                  THEN a.shrunk \cup {delta} ELSE a.shrunk,
                a.added, a.removed, a.newFiles, a.goneFiles,
                IF IsStrictPrefix(at, p) /\ ~d /\ a.files /\ o.size # n.size
                  THEN Gather(a.changedFiles, KeyOf(p), o.size, n.size) ELSE a.changedFiles)
  <2>1. Goes(n, p)
    BY <1>1, <1>2 DEF Goes
  <2>2. BothSides(a, o, n) = BothSidesTo(a, o, n, p)
    BY <1>0, <2>1, BothSidesIs
  <2>3. n.kind # "file" <=> d
    BY <1>2, <1>3
  <2> HIDE DEF d
  <2> QED
    BY <2>2, <2>3 DEF BothSidesTo
<1> HIDE DEF b
<1>9. /\ b.oldTot = (IF p = at /\ d THEN was ELSE a.oldTot) /\ b.newTot = (IF p = at /\ d THEN is ELSE a.newTot)
      /\ b.files = a.files /\ b.added = a.added /\ b.removed = a.removed
      /\ b.newFiles = a.newFiles /\ b.goneFiles = a.goneFiles
      /\ b.grown = (IF Front(p) = at /\ d /\ n.size > o.size THEN a.grown \cup {delta} ELSE a.grown)
      /\ b.shrunk = (IF Front(p) = at /\ d /\ ~(n.size > o.size) /\ n.size < o.size
                       THEN a.shrunk \cup {delta} ELSE a.shrunk)
      /\ b.changedFiles = (IF IsStrictPrefix(at, p) /\ ~d /\ a.files /\ o.size # n.size
                             THEN Gather(a.changedFiles, KeyOf(p), o.size, n.size) ELSE a.changedFiles)
  <2> HIDE DEF delta, was, is, d
  <2> QED
    BY <1>8 DEF AccOf
<1>10. IsAcc(b)
  <2> DEFINE x0 == b.oldTot
             x1 == b.newTot
             x3 == b.grown
             x4 == b.shrunk
             x9 == b.changedFiles
  <2> HIDE DEF d, was, is, delta
  <2>1. b = AccOf(x0, x1, b.files, x3, x4, b.added, b.removed, b.newFiles, b.goneFiles, x9)
    BY SMTT(30), <1>8, <1>9
  <2> QED
    BY <2>1 DEF IsAcc
<1> HIDE DEF was, is
<1>11. FoldersGathered(b, V)
  <2>1. AddedIn(V) = AddedIn(W) /\ RemovedIn(V) = RemovedIn(W)
    BY <1>3, <1>7 DEF AddedIn, RemovedIn
  <2>2. d => /\ ChangeAt(p) = delta /\ o.size = Below(old, p)[1] /\ n.size = Below(new, p)[1]
             /\ Below(old, p)[1] \in Nat /\ Below(new, p)[1] \in Nat
    <3>1. d => p \in DOMAIN old.listed /\ p \in DOMAIN new.listed
      BY <1>3
    <3>2. Below(old, p)[1] \in Nat /\ Below(new, p)[1] \in Nat
      BY <1>0, BelowIsPair
    <3> QED
      BY <1>1, <1>2, <3>1, <3>2 DEF ChangeAt, TotalOf
  <2>3. GrownIn(V) = IF Front(p) = at /\ d /\ n.size > o.size THEN GrownIn(W) \cup {p} ELSE GrownIn(W)
    <3>1. CASE d
      <4>1. (Below(old, p)[1] < Below(new, p)[1] <=> n.size > o.size) /\ p \in DOMAIN old.listed /\ p \in DOMAIN new.listed
        BY <1>3, <2>2, <3>1
      <4>2. Kids(V) = IF Front(p) = at THEN Kids(W) \cup {p} ELSE Kids(W)
        BY <1>7, <3>1
      <4> HIDE DEF d
      <4>3. CASE Front(p) = at
        <5>1. GrownIn(V) = GrownIn(W) \cup {q \in {p} : Below(old, q)[1] < Below(new, q)[1]}
          BY <4>1, <4>2, <4>3 DEF GrownIn
        <5> QED
          BY <3>1, <4>1, <4>3, <5>1
      <4>4. CASE Front(p) # at
        BY <4>2, <4>4 DEF GrownIn
      <4> QED
        BY <4>3, <4>4
    <3>2. CASE ~d
      <4>1. Kids(V) = Kids(W)
        BY <1>7, <3>2
      <4> QED
        BY <3>2, <4>1 DEF GrownIn
    <3> QED
      BY <3>1, <3>2
  <2>4. ShrunkIn(V) = IF Front(p) = at /\ d /\ ~(n.size > o.size) /\ n.size < o.size
                        THEN ShrunkIn(W) \cup {p} ELSE ShrunkIn(W)
    <3>1. CASE d
      <4>1. /\ Below(old, p)[1] > Below(new, p)[1] <=> ~(n.size > o.size) /\ n.size < o.size
            /\ p \in DOMAIN old.listed /\ p \in DOMAIN new.listed
        BY <1>3, <2>2, <3>1
      <4>2. Kids(V) = IF Front(p) = at THEN Kids(W) \cup {p} ELSE Kids(W)
        BY <1>7, <3>1
      <4> HIDE DEF d
      <4>3. CASE Front(p) = at
        <5>1. ShrunkIn(V) = ShrunkIn(W) \cup {q \in {p} : Below(old, q)[1] > Below(new, q)[1]}
          BY <4>1, <4>2, <4>3 DEF ShrunkIn
        <5> QED
          BY <3>1, <4>1, <4>3, <5>1
      <4>4. CASE Front(p) # at
        BY <4>2, <4>4 DEF ShrunkIn
      <4> QED
        BY <4>3, <4>4
    <3>2. CASE ~d
      <4>1. Kids(V) = Kids(W)
        BY <1>7, <3>2
      <4> QED
        BY <3>2, <4>1 DEF ShrunkIn
    <3> QED
      BY <3>1, <3>2
  <2>5. \A K : ChangesAt(K \cup {p}) = ChangesAt(K) \cup {ChangeAt(p)}
    BY DEF ChangesAt
  <2>6. b.grown = ChangesAt(GrownIn(V))
    <3>1. a.grown = ChangesAt(GrownIn(W))
      BY DEF FoldersGathered
    <3> HIDE DEF d, delta
    <3>2. CASE Front(p) = at /\ d /\ n.size > o.size
      BY <1>9, <2>2, <2>3, <2>5, <3>1, <3>2
    <3>3. CASE ~(Front(p) = at /\ d /\ n.size > o.size)
      BY <1>9, <2>3, <3>1, <3>3
    <3> QED
      BY <3>2, <3>3
  <2>7. b.shrunk = ChangesAt(ShrunkIn(V))
    <3> DEFINE C == Front(p) = at /\ d /\ ~(n.size > o.size) /\ n.size < o.size
    <3>1. a.shrunk = ChangesAt(ShrunkIn(W))
      BY DEF FoldersGathered
    <3>2. /\ b.shrunk = IF C THEN a.shrunk \cup {delta} ELSE a.shrunk
          /\ ShrunkIn(V) = IF C THEN ShrunkIn(W) \cup {p} ELSE ShrunkIn(W)
          /\ C => ChangeAt(p) = delta
      BY <1>9, <2>2, <2>4
    <3> HIDE DEF C, delta
    <3> QED
      BY <2>5, <3>1, <3>2
  <2>8. b.oldTot = TotalIn(old, V) /\ b.newTot = TotalIn(new, V)
    <3>1. a.oldTot = TotalIn(old, W) /\ a.newTot = TotalIn(new, W)
      BY DEF FoldersGathered
    <3>2. CASE p = at /\ d
      <4>1. TotalIn(old, V) = Below(old, at) /\ TotalIn(new, V) = Below(new, at)
        BY <1>3, <1>7, <3>2 DEF TotalIn, TotalOf
      <4> QED
        BY <1>1, <1>2, <1>3, <1>9, <3>2, <4>1
    <3>3. CASE ~(p = at /\ d)
      <4> HIDE DEF d
      <4>1. TotalIn(old, V) = TotalIn(old, W) /\ TotalIn(new, V) = TotalIn(new, W)
        BY <1>7, <3>3 DEF TotalIn
      <4> QED
        BY <1>9, <3>1, <3>3, <4>1
    <3> QED
      BY <3>2, <3>3
  <2> QED
    BY <1>9, <2>1, <2>6, <2>7, <2>8 DEF FoldersGathered
<1>12. FilesGathered(b, V)
  <2>1. (a.files <=> format = "dgs")
        /\ (~a.files => a.newFiles = NoChanges /\ a.goneFiles = NoChanges /\ a.changedFiles = NoChanges)
        /\ (a.files => Counts(a.newFiles, Came(W), new.file) /\ Counts(a.goneFiles, Went(W), old.file)
                       /\ Counts(a.changedFiles, Resized(W), Growth))
    BY DEF FilesGathered
  <2>2. CASE ~a.files
    <3>1. b.newFiles = a.newFiles /\ b.goneFiles = a.goneFiles /\ b.changedFiles = a.changedFiles /\ b.files = a.files
      BY <1>9, <2>2
    <3> QED
      BY <2>1, <2>2, <3>1 DEF FilesGathered
  <2>3. CASE a.files /\ ~(~d /\ IsStrictPrefix(at, p) /\ o.size # n.size)
    <3>1. Came(V) = Came(W) /\ Went(V) = Went(W) /\ Resized(V) = Resized(W)
      BY <1>1, <1>2, <1>3, <1>7, <2>3 DEF Came, Went, Resized
    <3>2. b.newFiles = a.newFiles /\ b.goneFiles = a.goneFiles /\ b.changedFiles = a.changedFiles /\ b.files = a.files
      BY <1>9, <2>3
    <3> QED
      BY <2>1, <2>3, <3>1, <3>2 DEF FilesGathered
  <2>4. CASE a.files /\ ~d /\ IsStrictPrefix(at, p) /\ o.size # n.size
    <3>1. /\ p \in DOMAIN old.file /\ p \in DOMAIN new.file /\ o.size = old.file[p] /\ n.size = new.file[p]
          /\ o.size \in Nat /\ n.size \in Nat
      BY <1>1, <1>2, <1>3, <2>4
    <3>2. Resized(V) = Resized(W) \cup {p} /\ Came(V) = Came(W) /\ Went(V) = Went(W)
      BY <1>7, <2>4, <3>1 DEF Came, Went, Resized
    <3>3. p \notin Resized(W)
      <4>1. d = FALSE
        BY <2>4
      <4> QED
        BY <1>1, <4>1 DEF Resized, FilesIn
    <3>4. FilesOf(Resized(V), Growth)
      BY <1>6, FilesFacts
    <3>5. IsNext(Resized(W), Growth, p, o.size, n.size)
      <4>1. p \in FilesBelow(old) \cap FilesBelow(new)
        BY <2>4, <3>1 DEF FilesBelow
      <4>2. Growth[p] = n.size - o.size
        BY <3>1, <4>1 DEF Growth
      <4> QED
        BY <3>1, <3>2, <3>3, <3>4, <4>2 DEF IsNext
    <3>6. Counts(Gather(a.changedFiles, KeyOf(p), o.size, n.size), Resized(W) \cup {p}, Growth)
      BY <2>1, <2>4, <3>5, GatherCounts
    <3>7. /\ b.changedFiles = Gather(a.changedFiles, KeyOf(p), o.size, n.size)
          /\ b.newFiles = a.newFiles /\ b.goneFiles = a.goneFiles /\ b.files = a.files
      BY <1>9, <2>4
    <3>8. Counts(b.newFiles, Came(V), new.file) /\ Counts(b.goneFiles, Went(V), old.file)
          /\ Counts(b.changedFiles, Resized(V), Growth)
      BY <2>1, <2>4, <3>2, <3>6, <3>7
    <3> QED
      BY <2>1, <2>4, <3>7, <3>8 DEF FilesGathered
  <2> QED
    BY <2>2, <2>3, <2>4
<1> QED
  BY <1>6, <1>10, <1>11, <1>12 DEF b

-----------------------------------------------------------------------------
(***************************************************************************)
(* Two cursors side by side.                                               *)
(***************************************************************************)
(* An item of another scan does not move a cursor. *)
LEMMA ReadsSame ==
  ASSUME NEW scan, NEW fmt, NEW c, NEW W, NEW V, Reads(c, fmt, scan, W),
         V \cap ItemsOf(fmt, scan) = W \cap ItemsOf(fmt, scan)
  PROVE  Reads(c, fmt, scan, V)
BY DEF Reads

LEMMA EntryGoes ==
  ASSUME NEW scan \in Trees, NEW fmt, NEW c, NEW W, NEW p, IsAt(c, fmt, scan, W, p)
  PROVE  /\ Goes(c, p) /\ Item(scan, p) \notin W
         /\ c.kind # "file" <=> p \in DOMAIN scan.listed
<1>1. /\ p \in Paths /\ p # <<>> /\ c.key = KeyOf(p)
      /\ c.kind # "file" <=> p \in DOMAIN scan.listed
      /\ <<p, p \in DOMAIN scan.listed>> \notin W /\ Item(scan, p) = <<p, p \in DOMAIN scan.listed>>
      /\ p \in DOMAIN scan.listed => <<c.size, c.files>> = Below(scan, p) /\ c.size = Below(scan, p)[1]
                                     /\ p \notin DOMAIN scan.file
      /\ p \notin DOMAIN scan.listed => p \in DOMAIN scan.file /\ c.size = scan.file[p] /\ fmt = "dgs"
                                        /\ c.size \in Nat
  BY AtEntry
<1> QED
  BY <1>1 DEF Goes

(* c comes before d, or d is at its end. *)
ComesFirst(c, d) == d.done \/ KeyBefore(c.key, d.key) \/ (c.key = d.key /\ FolderFirst(c, d))

(* What comes first in one scan is not in the other. *)
LEMMA NotInOther ==
  ASSUME NEW one \in Trees, NEW f1 \in {"dgs", "json"}, NEW two \in Trees, NEW f2 \in {"dgs", "json"},
         NEW W, NEW c, NEW d, NEW p, IsAt(c, f1, one, W, p), Reads(d, f2, two, W), ComesFirst(c, d)
  PROVE  Item(one, p) \notin ItemsOf(f2, two)
<1> SUFFICES ASSUME Item(one, p) \in ItemsOf(f2, two) PROVE FALSE
  OBVIOUS
<1>1. /\ p \in Paths /\ p # <<>> /\ c.key = KeyOf(p)
      /\ c.kind # "file" <=> p \in DOMAIN one.listed
      /\ Item(one, p) \notin W
  BY EntryGoes DEF Goes
<1>2. p \in ItemsIn(f2, two) /\ Item(two, p) = Item(one, p)
  BY DEF ItemsOf, Item
<1>3. CASE d.done
  <2>1. ItemsOf(f2, two) \subseteq W
    BY <1>3, ReadsAll
  <2> QED
    BY <2>1, <1>1
<1>4. CASE ~d.done
  <2>1. PICK q : IsAt(d, f2, two, W, q)
    BY <1>4, ReadsNext
  <2>2. /\ q \in Paths /\ q # <<>> /\ d.key = KeyOf(q)
        /\ d.kind # "file" <=> q \in DOMAIN two.listed
    BY <2>1, EntryGoes DEF Goes
  <2>3. q = p \/ <<q, p>> \in PathOrder
    BY <2>1, <1>1, <1>2 DEF IsAt
  <2>4. /\ <<p, q>> \in PathOrder => <<q, p>> \notin PathOrder /\ q # p
    BY <1>1, <2>2, PathOrderIs DEF IsOrder
  <2>5. KeyBefore(c.key, d.key) => <<p, q>> \in PathOrder
    BY <1>1, <2>2, KeysOrdered
  <2>6. c.key = d.key => p = q
    BY <1>1, <2>2, KeysOrdered
  <2>7. p = q => (p \in DOMAIN one.listed <=> q \in DOMAIN two.listed)
    <3>1. p \in DOMAIN one.listed <=> p \in DOMAIN two.listed
      <4>1. <<p, p \in DOMAIN one.listed>> = <<p, p \in DOMAIN two.listed>>
        BY <1>2 DEF Item
      <4> QED
        BY <4>1
    <3> QED
      BY <3>1
  <2>8. ~FolderFirst(c, d) \/ p # q
    BY <1>1, <2>2, <2>7 DEF FolderFirst
  <2> QED
    BY <1>4, <2>3, <2>4, <2>5, <2>6, <2>8 DEF ComesFirst
<1> QED
  BY <1>3, <1>4

(* When neither comes first they are at one item. *)
LEMMA AtOneItem ==
  ASSUME NEW one, NEW two, one \in Trees, two \in Trees, NEW f1, NEW f2, NEW W, NEW c, NEW d, NEW p, NEW q,
         IsAt(c, f1, one, W, p), IsAt(d, f2, two, W, q), ~ComesFirst(c, d), ~ComesFirst(d, c)
  PROVE  p = q /\ Item(one, p) = Item(two, p)
<1>1. /\ p \in Paths /\ p # <<>> /\ c.key = KeyOf(p)
      /\ c.kind # "file" <=> p \in DOMAIN one.listed
  BY EntryGoes DEF Goes
<1>2. /\ q \in Paths /\ q # <<>> /\ d.key = KeyOf(q)
      /\ d.kind # "file" <=> q \in DOMAIN two.listed
  BY EntryGoes DEF Goes
<1>3. p = q
  <2>1. <<p, q>> \notin PathOrder /\ <<q, p>> \notin PathOrder
    BY <1>1, <1>2, KeysOrdered DEF ComesFirst
  <2> QED
    BY <2>1, <1>1, <1>2, PathOrderIs DEF IsOrder
<1>4. p \in DOMAIN one.listed <=> p \in DOMAIN two.listed
  BY <1>1, <1>2, <1>3 DEF ComesFirst, FolderFirst
<1> QED
  BY <1>3, <1>4 DEF Item

(***************************************************************************)
(* The comparison, up to where both cursors are: all of the items W, of    *)
(* either scan, and no others have been read and gathered.                 *)
(***************************************************************************)
Gathered(a, W) == IsAcc(a) /\ FoldersGathered(a, W) /\ FilesGathered(a, W)
ReadUpTo(c, d, W) == Reads(c, format, old, W) /\ Reads(d, "dgs", new, W)

LEMMA OldReads ==
  ASSUME Compared, NEW W \in SUBSET AllItems, ReadUpTo(o, n, W), Gathered(acc, W), OldFirst
  PROVE  \E V \in SUBSET AllItems : ReadUpTo(Advance(o), n, V) /\ Gathered(OneSide(acc, o, FALSE), V)
<1>1. old \in Trees /\ new \in Trees /\ format \in {"dgs", "json"}
  BY ComparedFacts DEF Compared
<1>2. Reads(o, format, old, W) /\ Reads(n, "dgs", new, W) /\ ~o.done
  BY DEF ReadUpTo, OldFirst
<1>3. PICK p : /\ IsAt(o, format, old, W, p)
               /\ \A V : V \cap ItemsOf(format, old) = (W \cap ItemsOf(format, old)) \cup {Item(old, p)}
                           => Reads(Advance(o), format, old, V)
  BY <1>1, <1>2, ReadsNext
<1>4. Item(old, p) \in ItemsOf(format, old)
  BY <1>3 DEF IsAt, ItemsOf
<1>5. Item(old, p) \notin ItemsOf("dgs", new)
  <2>1. ComesFirst(o, n)
    BY DEF OldFirst, ComesFirst
  <2>2. "dgs" \in {"dgs", "json"}
    OBVIOUS
  <2> QED
    BY <1>1, <1>2, <1>3, <2>1, <2>2, NotInOther
<1> DEFINE V == W \cup {Item(old, p)}
<1>6. Reads(Advance(o), format, old, V)
  <2>1. V \cap ItemsOf(format, old) = (W \cap ItemsOf(format, old)) \cup {Item(old, p)}
    BY <1>4
  <2> QED
    BY <2>1, <1>3
<1>7. Reads(n, "dgs", new, V)
  <2>1. V \cap ItemsOf("dgs", new) = W \cap ItemsOf("dgs", new)
    BY <1>5
  <2> QED
    BY <2>1, <1>2, ReadsSame
<1> HIDE DEF V
<1>8. /\ IsAcc(OneSide(acc, o, FALSE)) /\ V \in SUBSET AllItems
      /\ FoldersGathered(OneSide(acc, o, FALSE), V) /\ FilesGathered(OneSide(acc, o, FALSE), V)
  <2>1. V = W \cup {Item(old, p)}
    BY DEF V
  <2>2. IsAcc(acc) /\ FoldersGathered(acc, W) /\ FilesGathered(acc, W)
    BY DEF Gathered
  <2> QED
    BY ZenonT(40), <1>3, <1>5, <2>1, <2>2, OnlyOldGathers
<1> QED
  BY <1>6, <1>7, <1>8 DEF ReadUpTo, Gathered

LEMMA NewReads ==
  ASSUME Compared, NEW W \in SUBSET AllItems, ReadUpTo(o, n, W), Gathered(acc, W), NewFirst
  PROVE  \E V \in SUBSET AllItems : ReadUpTo(o, Advance(n), V) /\ Gathered(OneSide(acc, n, TRUE), V)
<1>1. old \in Trees /\ new \in Trees /\ format \in {"dgs", "json"} /\ "dgs" \in {"dgs", "json"}
  BY ComparedFacts DEF Compared
<1>2. Reads(o, format, old, W) /\ Reads(n, "dgs", new, W) /\ ~n.done
  BY DEF ReadUpTo, NewFirst
<1>3. PICK p : /\ IsAt(n, "dgs", new, W, p)
               /\ \A V : V \cap ItemsOf("dgs", new) = (W \cap ItemsOf("dgs", new)) \cup {Item(new, p)}
                           => Reads(Advance(n), "dgs", new, V)
  BY <1>1, <1>2, ReadsNext
<1>4. Item(new, p) \in ItemsOf("dgs", new)
  BY <1>3 DEF IsAt, ItemsOf
<1>5. Item(new, p) \notin ItemsOf(format, old)
  <2>1. ComesFirst(n, o)
    BY DEF NewFirst, ComesFirst
  <2> QED
    BY <1>1, <1>2, <1>3, <2>1, NotInOther
<1> DEFINE V == W \cup {Item(new, p)}
<1>6. Reads(Advance(n), "dgs", new, V)
  <2>1. V \cap ItemsOf("dgs", new) = (W \cap ItemsOf("dgs", new)) \cup {Item(new, p)}
    BY <1>4
  <2> QED
    BY <2>1, <1>3
<1>7. Reads(o, format, old, V)
  <2>1. V \cap ItemsOf(format, old) = W \cap ItemsOf(format, old)
    BY <1>5
  <2> QED
    BY <2>1, <1>2, ReadsSame
<1> HIDE DEF V
<1>8. /\ IsAcc(OneSide(acc, n, TRUE)) /\ V \in SUBSET AllItems
      /\ FoldersGathered(OneSide(acc, n, TRUE), V) /\ FilesGathered(OneSide(acc, n, TRUE), V)
  <2>1. V = W \cup {Item(new, p)}
    BY DEF V
  <2>2. IsAcc(acc) /\ FoldersGathered(acc, W) /\ FilesGathered(acc, W)
    BY DEF Gathered
  <2> QED
    BY ZenonT(40), <1>3, <1>5, <2>1, <2>2, OnlyNewGathers
<1> QED
  BY <1>6, <1>7, <1>8 DEF ReadUpTo, Gathered

LEMMA BothRead ==
  ASSUME Compared, NEW W \in SUBSET AllItems, ReadUpTo(o, n, W), Gathered(acc, W),
         ~OldFirst, ~NewFirst, ~(o.done /\ n.done)
  PROVE  \E V \in SUBSET AllItems :
           ReadUpTo(Advance(o), Advance(n), V) /\ Gathered(BothSides(acc, o, n), V)
<1>1. old \in Trees /\ new \in Trees /\ format \in {"dgs", "json"} /\ "dgs" \in {"dgs", "json"}
  BY ComparedFacts DEF Compared
<1>2. Reads(o, format, old, W) /\ Reads(n, "dgs", new, W)
  BY DEF ReadUpTo
<1>3. ~n.done /\ ~o.done /\ ~ComesFirst(o, n) /\ ~ComesFirst(n, o)
  BY DEF OldFirst, NewFirst, ComesFirst
<1>4. PICK p : /\ IsAt(o, format, old, W, p)
               /\ \A V : V \cap ItemsOf(format, old) = (W \cap ItemsOf(format, old)) \cup {Item(old, p)}
                           => Reads(Advance(o), format, old, V)
  BY <1>1, <1>2, <1>3, ReadsNext
<1>5. PICK q : /\ IsAt(n, "dgs", new, W, q)
               /\ \A V : V \cap ItemsOf("dgs", new) = (W \cap ItemsOf("dgs", new)) \cup {Item(new, q)}
                           => Reads(Advance(n), "dgs", new, V)
  BY <1>1, <1>2, <1>3, ReadsNext
<1>6. q = p /\ Item(old, p) = Item(new, p)
  BY <1>1, <1>3, <1>4, <1>5, AtOneItem
<1>7. Item(old, p) \in ItemsOf(format, old) /\ Item(old, p) \in ItemsOf("dgs", new)
  <2>1. Item(new, q) \in ItemsOf("dgs", new)
    BY <1>5 DEF IsAt, ItemsOf
  <2>2. Item(old, p) \in ItemsOf(format, old)
    BY <1>4 DEF IsAt, ItemsOf
  <2> QED
    BY <2>1, <2>2, <1>6
<1> DEFINE V == W \cup {Item(old, p)}
<1>8. Reads(Advance(o), format, old, V)
  <2>1. V \cap ItemsOf(format, old) = (W \cap ItemsOf(format, old)) \cup {Item(old, p)}
    BY <1>7
  <2> QED
    BY <2>1, <1>4
<1>9. Reads(Advance(n), "dgs", new, V)
  <2>1. V \cap ItemsOf("dgs", new) = (W \cap ItemsOf("dgs", new)) \cup {Item(new, q)}
    BY <1>6, <1>7
  <2> QED
    BY <2>1, <1>5
<1> HIDE DEF V
<1>10. /\ IsAcc(BothSides(acc, o, n)) /\ V \in SUBSET AllItems
       /\ FoldersGathered(BothSides(acc, o, n), V) /\ FilesGathered(BothSides(acc, o, n), V)
  <2>1. V = W \cup {Item(old, p)}
    BY DEF V
  <2>2. IsAcc(acc) /\ FoldersGathered(acc, W) /\ FilesGathered(acc, W)
    BY DEF Gathered
  <2>3. IsAt(n, "dgs", new, W, p)
    BY <1>5, <1>6
  <2> QED
    BY <1>4, <1>6, <2>1, <2>2, <2>3, BothGather
<1> QED
  BY <1>8, <1>9, <1>10 DEF ReadUpTo, Gathered

(* Nothing has been read yet. *)
LEMMA NothingIn ==
  /\ Kids({}) = {} /\ FilesIn({}) = {}
  /\ AddedIn({}) = {} /\ RemovedIn({}) = {} /\ GrownIn({}) = {} /\ ShrunkIn({}) = {}
  /\ Came({}) = {} /\ Went({}) = {} /\ Resized({}) = {} /\ ChangesAt({}) = {}
<1>1. Kids({}) = {} /\ FilesIn({}) = {} /\ ChangesAt({}) = {}
  BY DEF Kids, FilesIn, ChangesAt
<1> QED
  BY <1>1 DEF AddedIn, RemovedIn, GrownIn, ShrunkIn, Came, Went, Resized

StartAcc(x, y, h) == [NoAcc EXCEPT !.files = h, !.oldTot = x, !.newTot = y]

StartFields(a, x, y, h) ==
  /\ a.oldTot = x /\ a.newTot = y /\ a.files = h
  /\ a.grown = {} /\ a.shrunk = {} /\ a.added = {} /\ a.removed = {}
  /\ a.newFiles = NoChanges /\ a.goneFiles = NoChanges /\ a.changedFiles = NoChanges

LEMMA StartAccIs ==
  ASSUME NEW x, NEW y, NEW h, NEW a, a = StartAcc(x, y, h)
  PROVE  StartFields(a, x, y, h) /\ IsAcc(a)
<1>1. a = AccOf(x, y, h, {}, {}, {}, {}, NoChanges, NoChanges, NoChanges)
  BY DEF AccOf, NoAcc, StartAcc
<1>2. /\ a.oldTot = x /\ a.newTot = y /\ a.files = h
      /\ a.grown = {} /\ a.shrunk = {} /\ a.added = {} /\ a.removed = {}
      /\ a.newFiles = NoChanges /\ a.goneFiles = NoChanges /\ a.changedFiles = NoChanges
  BY <1>1 DEF AccOf
<1> QED
  BY <1>1, <1>2 DEF IsAcc, StartFields

LEMMA StartReads ==
  ASSUME Compared, NEW s, s = Snap[format][old], NEW t, t = Snap.dgs[new],
         NEW a, a = [NoAcc EXCEPT !.files = s.hasFiles,
                       !.oldTot = IF at = <<>> THEN s.head.total ELSE <<>>,
                       !.newTot = IF at = <<>> THEN t.head.total ELSE <<>>]
  PROVE  ReadUpTo(Advance(CursorOn(s)), Advance(CursorOn(t)), {}) /\ Gathered(a, {})
<1>1. old \in Trees /\ new \in Trees /\ format \in {"dgs", "json"} /\ "dgs" \in {"dgs", "json"}
  BY ComparedFacts DEF Compared
<1>2. /\ s.data = Encoded(EntriesIn(format, old))
      /\ s.hasFiles <=> format = "dgs"
      /\ s.head.total = Below(old, <<>>)
  BY <1>1, SnapIs
<1>3. t.data = Encoded(EntriesIn("dgs", new)) /\ t.head.total = Below(new, <<>>)
  <2>1. t = Snap["dgs"][new]
    OBVIOUS
  <2> QED
    BY <2>1, <1>1, SnapIs
<1>4. <<>> \in DOMAIN old.listed /\ <<>> \in DOMAIN new.listed
  BY <1>1, TreesAreScans
<1>5. ReadUpTo(Advance(CursorOn(s)), Advance(CursorOn(t)), {})
  <2>1. Reads(Advance(CursorOn(s)), format, old, {})
    <3>1. s.data = Encoded(EntriesIn(format, old)) /\ old \in Trees /\ format \in {"dgs", "json"}
      BY <1>1, <1>2
    <3> QED
      BY <3>1, ReadsStart
  <2>2. Reads(Advance(CursorOn(t)), "dgs", new, {})
    BY <1>1, <1>3, ReadsStart
  <2> QED
    BY <2>1, <2>2 DEF ReadUpTo
<1> DEFINE was == IF at = <<>> THEN s.head.total ELSE <<>>
           is  == IF at = <<>> THEN t.head.total ELSE <<>>
           withFiles == s.hasFiles
<1>6. a = StartAcc(was, is, withFiles)
  BY DEF StartAcc
<1> HIDE DEF was, is, withFiles
<1>7. StartFields(a, was, is, withFiles)
  BY <1>6, StartAccIs
<1>8. IsAcc(a)
  BY <1>6, StartAccIs
<1>9. FoldersGathered(a, {})
  <2>1. a.oldTot = TotalIn(old, {}) /\ a.newTot = TotalIn(new, {})
    BY <1>2, <1>3, <1>4, <1>7 DEF TotalIn, TotalOf, was, is, StartFields
  <2> QED
    BY <2>1, <1>7, NothingIn DEF FoldersGathered, StartFields
<1>10. FilesGathered(a, {})
  <2>1. /\ Counts(NoChanges, {}, new.file) /\ Counts(NoChanges, {}, old.file)
        /\ Counts(NoChanges, {}, Growth)
    BY NothingCounts
  <2>2. a.files <=> format = "dgs"
    BY <1>2, <1>7 DEF withFiles, StartFields
  <2>3. Came({}) = {} /\ Went({}) = {} /\ Resized({}) = {}
    BY NothingIn
  <2> QED
    BY <2>1, <2>2, <2>3, <1>7 DEF FilesGathered, StartFields
<1> QED
  BY <1>5, <1>8, <1>9, <1>10 DEF Gathered

(***************************************************************************)
(* The invariant of the comparison.                                        *)
(***************************************************************************)
MergeInv ==
  /\ Compared
  /\ report.st \in {"none", "partial", "reading", "not in snapshot", "ok"}
  /\ report.st = "partial" => ~Whole(new) \/ (format = "dgs" /\ ~Whole(old))
  /\ report.st \in {"reading", "not in snapshot", "ok"} => Whole(new) /\ (format = "dgs" => Whole(old))
  /\ report.st = "reading" => \E W \in SUBSET AllItems : ReadUpTo(o, n, W) /\ Gathered(acc, W)
  /\ report.st \in {"not in snapshot", "ok"} => Gathered(acc, AllItems)
  /\ report.st = "not in snapshot" => acc.newTot = <<>>
  /\ report.st = "ok" =>
       LET was == IF acc.oldTot = <<>> THEN <<0, 0>> ELSE acc.oldTot
       IN acc.newTot # <<>> /\ report = [st |-> "ok", was |-> was, is |-> acc.newTot,
                                         unchanged |-> IsUnchanged(acc, was, acc.newTot)]

(* What is compared does not change meanwhile. *)
LEMMA Framed ==
  ASSUME UNCHANGED <<old, new, format, at>>
  PROVE  /\ Compared' <=> Compared
         /\ AllItems' = AllItems
         /\ \A a, W : Gathered(a, W)' <=> Gathered(a, W)
         /\ \A c, d, W : ReadUpTo(c, d, W)' <=> ReadUpTo(c, d, W)
<1>1. old' = old /\ new' = new /\ format' = format /\ at' = at
  OBVIOUS
<1>2. AllItems' = AllItems
  BY <1>1 DEF AllItems
<1>3. \A W : Kids(W)' = Kids(W) /\ FilesIn(W)' = FilesIn(W)
  BY <1>1 DEF Kids, FilesIn
<1>4. \A W : /\ AddedIn(W)' = AddedIn(W) /\ RemovedIn(W)' = RemovedIn(W)
             /\ GrownIn(W)' = GrownIn(W) /\ ShrunkIn(W)' = ShrunkIn(W)
  BY <1>1, <1>3 DEF AddedIn, RemovedIn, GrownIn, ShrunkIn
<1>5. \A K : ChangesAt(K)' = ChangesAt(K)
  BY <1>1 DEF ChangesAt, ChangeAt
<1>6. \A W : TotalIn(old, W)' = TotalIn(old, W) /\ TotalIn(new, W)' = TotalIn(new, W)
  BY <1>1 DEF TotalIn
<1>7. \A a, W : FoldersGathered(a, W)' <=> FoldersGathered(a, W)
  BY <1>4, <1>5, <1>6 DEF FoldersGathered
<1>8. \A W : Came(W)' = Came(W) /\ Went(W)' = Went(W) /\ Resized(W)' = Resized(W)
  BY <1>1, <1>3 DEF Came, Went, Resized
<1>9. Growth' = Growth
  BY <1>1 DEF Growth, FilesBelow
<1>10. \A a, W : FilesGathered(a, W)' <=> FilesGathered(a, W)
  BY <1>1, <1>8, <1>9 DEF FilesGathered
<1> QED
  BY <1>1, <1>2, <1>7, <1>10 DEF Compared, Gathered, ReadUpTo

LEMMA InitMerge == Init => MergeInv
BY DEF Init, MergeInv, Compared

(* The merge has read an item more. *)
LEMMA StillReading ==
  ASSUME MergeInv, UNCHANGED <<old, new, format, at, report>>, report.st = "reading",
         NEW V \in SUBSET AllItems, ReadUpTo(o', n', V), Gathered(acc', V)
  PROVE  MergeInv'
<1>1. UNCHANGED <<old, new, format, at>> /\ report' = report
  OBVIOUS
<1>2. /\ Compared' <=> Compared
      /\ AllItems' = AllItems
      /\ \A a, W : Gathered(a, W)' <=> Gathered(a, W)
      /\ \A c, d, W : ReadUpTo(c, d, W)' <=> ReadUpTo(c, d, W)
  BY <1>1, Framed
<1>3. \E W \in SUBSET AllItems' : ReadUpTo(o, n, W)' /\ Gathered(acc, W)'
  BY <1>2
<1>4. Whole(new) /\ (format = "dgs" => Whole(old)) /\ Compared
  BY DEF MergeInv
<1>5. Whole(new)' /\ (format = "dgs" => Whole(old))' /\ Compared'
  BY <1>1, <1>2, <1>4
<1> QED
  BY <1>1, <1>3, <1>5 DEF MergeInv

LEMMA StartMerges == MergeInv /\ Start => MergeInv'
<1> SUFFICES ASSUME MergeInv, Start PROVE MergeInv'
  OBVIOUS
<1> DEFINE s == Snap[format][old]
           t == Snap.dgs[new]
<1>1. UNCHANGED <<old, new, format, at>> /\ Compared
  BY DEF Start, MergeInv
<1>2. /\ s.head.complete <=> (format = "dgs" => Whole(old))
      /\ t.head.complete <=> Whole(new)
  <2>1. old \in Trees /\ new \in Trees /\ format \in {"dgs", "json"} /\ "dgs" \in {"dgs", "json"}
    BY <1>1, ComparedFacts DEF Compared
  <2>2. s.head.complete <=> (format = "dgs" => Whole(old))
    BY <2>1, SnapIs
  <2>3. Snap["dgs"][new].head.complete <=> ("dgs" = "dgs" => Whole(new))
    BY <2>1, SnapIs
  <2> QED
    BY <2>2, <2>3
<1>3. Compared' /\ AllItems' = AllItems
  BY <1>1, Framed
<1>4. CASE ~s.head.complete \/ ~t.head.complete
  <2>1. report' = [st |-> "partial"]
    BY <1>4 DEF Start
  <2>2. ~Whole(new)' \/ (format = "dgs" /\ ~Whole(old))'
    BY <1>1, <1>2, <1>4
  <2> QED
    BY <2>1, <2>2, <1>3 DEF MergeInv
<1>5. CASE ~(~s.head.complete \/ ~t.head.complete)
  <2> DEFINE a == [NoAcc EXCEPT !.files = s.hasFiles,
                     !.oldTot = IF at = <<>> THEN s.head.total ELSE <<>>,
                     !.newTot = IF at = <<>> THEN t.head.total ELSE <<>>]
  <2>1. report' = [st |-> "reading"] /\ o' = Advance(CursorOn(s)) /\ n' = Advance(CursorOn(t)) /\ acc' = a
    BY <1>5 DEF Start
  <2>2. ReadUpTo(Advance(CursorOn(s)), Advance(CursorOn(t)), {}) /\ Gathered(a, {})
    BY <1>1, StartReads
  <2>3. Whole(new)' /\ (format = "dgs" => Whole(old))'
    BY <1>1, <1>2, <1>5
  <2> HIDE DEF a, s, t
  <2>4. ReadUpTo(o', n', {}) /\ Gathered(acc', {})
    BY <2>1, <2>2
  <2>5. ReadUpTo(o, n, {})' /\ Gathered(acc, {})'
    <3>1. /\ \A b, W : Gathered(b, W)' <=> Gathered(b, W)
          /\ \A c, d, W : ReadUpTo(c, d, W)' <=> ReadUpTo(c, d, W)
      BY <1>1, Framed
    <3> QED
      BY <2>4, <3>1
  <2>6. \E W \in SUBSET AllItems' : ReadUpTo(o, n, W)' /\ Gathered(acc, W)'
    BY <2>5
  <2> QED
    BY <1>3, <2>1, <2>3, <2>6 DEF MergeInv
<1> QED
  BY <1>4, <1>5

LEMMA FinishMerges == MergeInv /\ Finish => MergeInv'
<1> SUFFICES ASSUME MergeInv, Finish PROVE MergeInv'
  OBVIOUS
<1>1. /\ UNCHANGED <<old, new, format, at>> /\ UNCHANGED <<o, n, acc>>
      /\ report.st = "reading" /\ o.done /\ n.done
  BY DEF Finish
<1>2. PICK W \in SUBSET AllItems : ReadUpTo(o, n, W) /\ Gathered(acc, W)
  BY <1>1 DEF MergeInv
<1>3. Compared
  BY DEF MergeInv
<1>4. W = AllItems
  <2>1. old \in Trees /\ new \in Trees /\ format \in {"dgs", "json"} /\ "dgs" \in {"dgs", "json"}
    BY <1>3, ComparedFacts DEF Compared
  <2>2. Reads(o, format, old, W) /\ Reads(n, "dgs", new, W)
    BY <1>2 DEF ReadUpTo
  <2>3. ItemsOf(format, old) \subseteq W
    BY <1>1, <2>1, <2>2, ReadsAll
  <2>4. ItemsOf("dgs", new) \subseteq W
    BY <1>1, <2>1, <2>2, ReadsAll
  <2> QED
    BY <2>3, <2>4 DEF AllItems
<1>5. Gathered(acc, AllItems)' /\ Compared'
  <2>1. Gathered(acc, AllItems)
    BY <1>2, <1>4
  <2>2. AllItems' = AllItems /\ \A b, X : Gathered(b, X)' <=> Gathered(b, X)
    BY <1>1, Framed
  <2>3. Compared'
    BY <1>1, <1>3, Framed
  <2> QED
    BY <1>1, <2>1, <2>2, <2>3
<1>6. Whole(new)' /\ (format = "dgs" => Whole(old))'
  BY <1>1 DEF MergeInv
<1> DEFINE was == IF acc.oldTot = <<>> THEN <<0, 0>> ELSE acc.oldTot
<1>7. report' = IF acc.newTot = <<>> THEN [st |-> "not in snapshot"]
                ELSE [st |-> "ok", was |-> was, is |-> acc.newTot,
                      unchanged |-> IsUnchanged(acc, was, acc.newTot)]
  BY DEF Finish
<1>8. acc' = acc
  BY <1>1
<1>9. \A x, y : IsUnchanged(acc, x, y)' <=> IsUnchanged(acc, x, y)
  BY <1>8 DEF IsUnchanged
<1>10. CASE acc.newTot = <<>>
  BY <1>5, <1>6, <1>7, <1>8, <1>10 DEF MergeInv
<1>11. CASE acc.newTot # <<>>
  <2>1. report' = [st |-> "ok", was |-> was, is |-> acc.newTot,
                   unchanged |-> IsUnchanged(acc, was, acc.newTot)]
    BY <1>7, <1>11
  <2>2. report'.st = "ok"
    BY <2>1
  <2>3. (LET w == IF acc.oldTot = <<>> THEN <<0, 0>> ELSE acc.oldTot
         IN acc.newTot # <<>> /\ report = [st |-> "ok", was |-> w, is |-> acc.newTot,
                                           unchanged |-> IsUnchanged(acc, w, acc.newTot)])'
    BY <1>8, <1>11, <2>1
  <2> QED
    BY <1>5, <1>6, <2>2, <2>3 DEF MergeInv
<1> QED
  BY <1>10, <1>11

LEMMA NextMerge == MergeInv /\ [Next]_vars => MergeInv'
<1> SUFFICES ASSUME MergeInv, [Next]_vars PROVE MergeInv'
  OBVIOUS
<1>1. CASE Start
  BY <1>1, StartMerges
<1>2. CASE OnlyOld
  <2>1. report.st = "reading" /\ OldFirst /\ UNCHANGED <<old, new, format, at, report>>
        /\ n' = n /\ o' = Advance(o) /\ acc' = OneSide(acc, o, FALSE)
    BY <1>2 DEF OnlyOld, Reading
  <2>2. PICK W \in SUBSET AllItems : ReadUpTo(o, n, W) /\ Gathered(acc, W)
    BY <2>1 DEF MergeInv
  <2>3. Compared
    BY DEF MergeInv
  <2>4. PICK V \in SUBSET AllItems : ReadUpTo(Advance(o), n, V) /\ Gathered(OneSide(acc, o, FALSE), V)
    BY <2>1, <2>2, <2>3, OldReads
  <2>5. ReadUpTo(o', n', V) /\ Gathered(acc', V)
    BY <2>1, <2>4
  <2> QED
    BY <2>1, <2>5, StillReading
<1>3. CASE OnlyNew
  <2>1. report.st = "reading" /\ NewFirst /\ UNCHANGED <<old, new, format, at, report>>
        /\ o' = o /\ n' = Advance(n) /\ acc' = OneSide(acc, n, TRUE)
    BY <1>3 DEF OnlyNew, Reading
  <2>2. PICK W \in SUBSET AllItems : ReadUpTo(o, n, W) /\ Gathered(acc, W)
    BY <2>1 DEF MergeInv
  <2>3. Compared
    BY DEF MergeInv
  <2>4. PICK V \in SUBSET AllItems : ReadUpTo(o, Advance(n), V) /\ Gathered(OneSide(acc, n, TRUE), V)
    BY <2>1, <2>2, <2>3, NewReads
  <2>5. ReadUpTo(o', n', V) /\ Gathered(acc', V)
    BY <2>1, <2>4
  <2> QED
    BY <2>1, <2>5, StillReading
<1>4. CASE InBoth
  <2>1. report.st = "reading" /\ ~OldFirst /\ ~NewFirst /\ ~(o.done /\ n.done)
        /\ UNCHANGED <<old, new, format, at, report>>
        /\ o' = Advance(o) /\ n' = Advance(n) /\ acc' = BothSides(acc, o, n)
    BY <1>4 DEF InBoth, Reading
  <2>2. PICK W \in SUBSET AllItems : ReadUpTo(o, n, W) /\ Gathered(acc, W)
    BY <2>1 DEF MergeInv
  <2>3. Compared
    BY DEF MergeInv
  <2>4. PICK V \in SUBSET AllItems :
          ReadUpTo(Advance(o), Advance(n), V) /\ Gathered(BothSides(acc, o, n), V)
    BY <2>1, <2>2, <2>3, BothRead
  <2>5. ReadUpTo(o', n', V) /\ Gathered(acc', V)
    BY <2>1, <2>4
  <2> QED
    BY <2>1, <2>5, StillReading
<1>5. CASE Finish
  BY <1>5, FinishMerges
<1>6. CASE UNCHANGED vars
  <2>1. /\ UNCHANGED <<old, new, format, at>> /\ UNCHANGED <<o, n, acc>> /\ report' = report
    BY <1>6 DEF vars
  <2>2. /\ Compared' <=> Compared
        /\ AllItems' = AllItems
        /\ \A a, W : Gathered(a, W)' <=> Gathered(a, W)
        /\ \A c, d, W : ReadUpTo(c, d, W)' <=> ReadUpTo(c, d, W)
    BY <2>1, Framed
  <2>3. \A x, y : IsUnchanged(acc, x, y)' <=> IsUnchanged(acc, x, y)
    BY <2>1 DEF IsUnchanged
  <2> QED
    BY <2>1, <2>2, <2>3 DEF MergeInv
<1> QED
  BY <1>1, <1>2, <1>3, <1>4, <1>5, <1>6 DEF Next

(***************************************************************************)
(* What has been gathered when everything has been read.                   *)
(***************************************************************************)
AllKids == In(DOMAIN old.listed \cup DOMAIN new.listed, at)

LEMMA ScanPaths ==
  ASSUME NEW scan \in Trees
  PROVE  /\ DOMAIN scan.listed \subseteq Paths /\ DOMAIN scan.file \subseteq Paths
         /\ <<>> \in DOMAIN scan.listed /\ <<>> \notin DOMAIN scan.file
         /\ scan.file \in [DOMAIN scan.file -> Nat]
BY DiffAssumption DEF Paths

LEMMA TotalOfFacts ==
  ASSUME NEW scan \in Trees, NEW p
  PROVE  /\ TotalOf(scan, p) = <<>> <=> p \notin DOMAIN scan.listed
         /\ p \in DOMAIN scan.listed => TotalOf(scan, p) = Below(scan, p)
BY BelowIsPair DEF TotalOf

LEMMA ItemsInAll ==
  ASSUME Compared
  PROVE  \A p \in Paths \ {<<>>} :
           /\ <<p, TRUE>> \in AllItems <=> p \in DOMAIN old.listed \cup DOMAIN new.listed
           /\ <<p, FALSE>> \in AllItems <=> (p \in DOMAIN old.file /\ format = "dgs") \/ p \in DOMAIN new.file
<1>0. old \in Trees /\ new \in Trees
  BY DEF Compared
<1>1. /\ \A p, d : <<p, d>> \in ItemsOf(format, old) =>
              /\ p \in Paths /\ p # <<>> /\ d \in BOOLEAN
              /\ d = (p \in DOMAIN old.listed) /\ (d \/ (p \in DOMAIN old.file /\ format = "dgs"))
      /\ \A p \in DOMAIN old.listed : p # <<>> => <<p, TRUE>> \in ItemsOf(format, old)
      /\ \A p \in DOMAIN old.file : p # <<>> /\ format = "dgs" => <<p, FALSE>> \in ItemsOf(format, old)
      /\ \A p : ~(p \in DOMAIN old.listed /\ p \in DOMAIN old.file)
  BY <1>0, ItemsSay
<1>2. /\ \A p, d : <<p, d>> \in ItemsOf("dgs", new) =>
              /\ p \in Paths /\ p # <<>> /\ d \in BOOLEAN
              /\ d = (p \in DOMAIN new.listed) /\ (d \/ (p \in DOMAIN new.file /\ "dgs" = "dgs"))
      /\ \A p \in DOMAIN new.listed : p # <<>> => <<p, TRUE>> \in ItemsOf("dgs", new)
      /\ \A p \in DOMAIN new.file : p # <<>> /\ "dgs" = "dgs" => <<p, FALSE>> \in ItemsOf("dgs", new)
      /\ \A p : ~(p \in DOMAIN new.listed /\ p \in DOMAIN new.file)
  BY <1>0, ItemsSay
<1> TAKE p \in Paths \ {<<>>}
<1>3. <<p, TRUE>> \in AllItems <=> p \in DOMAIN old.listed \cup DOMAIN new.listed
  <2>1. ASSUME <<p, TRUE>> \in ItemsOf(format, old) PROVE p \in DOMAIN old.listed
    BY <1>1, <2>1
  <2>2. ASSUME <<p, TRUE>> \in ItemsOf("dgs", new) PROVE p \in DOMAIN new.listed
    BY <1>2, <2>2
  <2>3. p # <<>>
    OBVIOUS
  <2>4. p \in DOMAIN old.listed => <<p, TRUE>> \in ItemsOf(format, old)
    BY <1>1, <2>3
  <2>5. p \in DOMAIN new.listed => <<p, TRUE>> \in ItemsOf("dgs", new)
    BY <1>2, <2>3
  <2> QED
    BY <2>1, <2>2, <2>4, <2>5 DEF AllItems
<1>4. <<p, FALSE>> \in AllItems <=> (p \in DOMAIN old.file /\ format = "dgs") \/ p \in DOMAIN new.file
  <2>1. ASSUME <<p, FALSE>> \in ItemsOf(format, old) PROVE p \in DOMAIN old.file /\ format = "dgs"
    BY <1>1, <2>1
  <2>2. ASSUME <<p, FALSE>> \in ItemsOf("dgs", new) PROVE p \in DOMAIN new.file
    BY <1>2, <2>2
  <2>3. p # <<>>
    OBVIOUS
  <2>4. p \in DOMAIN old.file /\ format = "dgs" => <<p, FALSE>> \in ItemsOf(format, old)
    BY <1>1, <2>3
  <2>5. p \in DOMAIN new.file => <<p, FALSE>> \in ItemsOf("dgs", new)
    BY <1>2, <2>3
  <2> QED
    BY <2>1, <2>2, <2>4, <2>5 DEF AllItems
<1> QED
  BY <1>3, <1>4

LEMMA AllFolders ==
  ASSUME Compared
  PROVE  /\ Kids(AllItems) = AllKids
         /\ TotalIn(old, AllItems) = TotalOf(old, at) /\ TotalIn(new, AllItems) = TotalOf(new, at)
<1>0. old \in Trees /\ new \in Trees /\ at \in Paths
  BY ComparedFacts DEF Compared
<1>1. DOMAIN old.listed \subseteq Paths /\ DOMAIN new.listed \subseteq Paths
  BY <1>0, ScanPaths
<1>2. \A p \in Paths \ {<<>>} : <<p, TRUE>> \in AllItems <=> p \in DOMAIN old.listed \cup DOMAIN new.listed
  BY ItemsInAll
<1>3. Kids(AllItems) = AllKids
  BY <1>1, <1>2 DEF Kids, AllKids, In
<1>4. at = <<>> \/ <<at, TRUE>> \in AllItems \/ at \notin DOMAIN old.listed \cup DOMAIN new.listed
  BY <1>0, <1>2
<1> QED
  BY <1>3, <1>4 DEF TotalIn, TotalOf

LEMMA AllFiles ==
  ASSUME Compared, format = "dgs"
  PROVE  /\ Came(AllItems) = FilesBelow(new) \ FilesBelow(old)
         /\ Went(AllItems) = FilesBelow(old) \ FilesBelow(new)
         /\ Resized(AllItems) = {f \in FilesBelow(old) \cap FilesBelow(new) : Growth[f] # 0}
<1>0. old \in Trees /\ new \in Trees
  BY DEF Compared
<1>1. /\ DOMAIN old.file \subseteq Paths /\ DOMAIN new.file \subseteq Paths
      /\ <<>> \notin DOMAIN old.file /\ <<>> \notin DOMAIN new.file
      /\ \A f \in DOMAIN old.file : old.file[f] \in Nat
      /\ \A f \in DOMAIN new.file : new.file[f] \in Nat
  BY <1>0, ScanPaths
<1>2. \A p \in Paths \ {<<>>} : <<p, FALSE>> \in AllItems <=> p \in DOMAIN old.file \/ p \in DOMAIN new.file
  BY ItemsInAll
<1>3. FilesIn(AllItems) = FilesBelow(old) \cup FilesBelow(new)
  BY <1>1, <1>2 DEF FilesIn, FilesBelow
<1>4. \A f : /\ f \in FilesBelow(old) => f \in DOMAIN old.file
             /\ f \in FilesBelow(new) => f \in DOMAIN new.file
             /\ f \in FilesIn(AllItems) /\ f \in DOMAIN old.file => f \in FilesBelow(old)
             /\ f \in FilesIn(AllItems) /\ f \in DOMAIN new.file => f \in FilesBelow(new)
  BY <1>3 DEF FilesBelow
<1>5. \A f \in FilesBelow(old) \cap FilesBelow(new) : Growth[f] # 0 <=> old.file[f] # new.file[f]
  <2> SUFFICES ASSUME NEW f \in FilesBelow(old) \cap FilesBelow(new)
               PROVE  Growth[f] # 0 <=> old.file[f] # new.file[f]
    OBVIOUS
  <2>1. Growth[f] = new.file[f] - old.file[f]
    BY DEF Growth
  <2>2. new.file[f] \in Nat /\ old.file[f] \in Nat
    BY <1>1, <1>4
  <2> QED
    BY <2>1, <2>2
<1> QED
  BY <1>3, <1>4, <1>5 DEF Came, Went, Resized

(* What the change lists have in them. *)
LEMMA AllChanges ==
  ASSUME Compared, Gathered(acc, AllItems)
  PROVE  /\ acc.added = FolderChanges(LAMBDA x, y : x = <<>>)
         /\ acc.removed = FolderChanges(LAMBDA x, y : y = <<>>)
         /\ acc.grown = FolderChanges(LAMBDA x, y : x # <<>> /\ y # <<>> /\ x[1] < y[1])
         /\ acc.shrunk = FolderChanges(LAMBDA x, y : x # <<>> /\ y # <<>> /\ x[1] > y[1])
<1>0. old \in Trees /\ new \in Trees
  BY DEF Compared
<1>1. /\ acc.added = ChangesAt(AddedIn(AllItems)) /\ acc.removed = ChangesAt(RemovedIn(AllItems))
      /\ acc.grown = ChangesAt(GrownIn(AllItems)) /\ acc.shrunk = ChangesAt(ShrunkIn(AllItems))
  BY DEF Gathered, FoldersGathered
<1>2. \A p : /\ TotalOf(old, p) = <<>> <=> p \notin DOMAIN old.listed
             /\ TotalOf(new, p) = <<>> <=> p \notin DOMAIN new.listed
             /\ p \in DOMAIN old.listed => TotalOf(old, p) = Below(old, p)
             /\ p \in DOMAIN new.listed => TotalOf(new, p) = Below(new, p)
  BY <1>0, TotalOfFacts
<1>3. Kids(AllItems) = AllKids
  BY AllFolders
<1>4. /\ AddedIn(AllItems) = {k \in AllKids : TotalOf(old, k) = <<>>}
      /\ RemovedIn(AllItems) = {k \in AllKids : TotalOf(new, k) = <<>>}
  BY <1>2, <1>3 DEF AddedIn, RemovedIn
<1>5. GrownIn(AllItems) = {k \in AllKids : /\ TotalOf(old, k) # <<>> /\ TotalOf(new, k) # <<>>
                                           /\ TotalOf(old, k)[1] < TotalOf(new, k)[1]}
  BY <1>2, <1>3 DEF GrownIn
<1>6. ShrunkIn(AllItems) = {k \in AllKids : /\ TotalOf(old, k) # <<>> /\ TotalOf(new, k) # <<>>
                                            /\ TotalOf(old, k)[1] > TotalOf(new, k)[1]}
  BY <1>2, <1>3 DEF ShrunkIn
<1>7. acc.added = FolderChanges(LAMBDA x, y : x = <<>>)
  BY <1>1, <1>4 DEF FolderChanges, ChangesAt, ChangeAt, AllKids, TotalOf
<1>8. acc.removed = FolderChanges(LAMBDA x, y : y = <<>>)
  BY <1>1, <1>4 DEF FolderChanges, ChangesAt, ChangeAt, AllKids, TotalOf
<1>9. acc.grown = FolderChanges(LAMBDA x, y : x # <<>> /\ y # <<>> /\ x[1] < y[1])
  BY <1>1, <1>5 DEF FolderChanges, ChangesAt, ChangeAt, AllKids, TotalOf
<1>10. acc.shrunk = FolderChanges(LAMBDA x, y : x # <<>> /\ y # <<>> /\ x[1] > y[1])
  BY <1>1, <1>6 DEF FolderChanges, ChangesAt, ChangeAt, AllKids, TotalOf
<1> QED
  BY <1>7, <1>8, <1>9, <1>10

LEMMA OkFacts ==
  ASSUME MergeInv, report.st = "ok"
  PROVE  LET was == IF acc.oldTot = <<>> THEN <<0, 0>> ELSE acc.oldTot
         IN /\ Compared /\ Gathered(acc, AllItems) /\ acc.newTot # <<>>
            /\ Whole(new) /\ (format = "dgs" => Whole(old))
            /\ report.was = was /\ report.is = acc.newTot
            /\ report.unchanged <=> IsUnchanged(acc, was, acc.newTot)
BY DEF MergeInv

LEMMA ExactByMerge == MergeInv => DiffIsExact
<1> SUFFICES ASSUME MergeInv PROVE DiffIsExact
  OBVIOUS
<1>1. ASSUME report.st = "not in snapshot" PROVE at \notin DOMAIN new.listed
  <2>1. Compared /\ Gathered(acc, AllItems) /\ acc.newTot = <<>>
    BY <1>1 DEF MergeInv
  <2>2. acc.newTot = TotalOf(new, at) /\ new \in Trees
    BY <2>1, AllFolders DEF Gathered, FoldersGathered, Compared
  <2> QED
    BY <2>1, <2>2, TotalOfFacts
<1>2. ASSUME report.st = "ok"
      PROVE  /\ Whole(new) /\ (format = "dgs" => Whole(old))
             /\ at \in DOMAIN new.listed /\ report.is = Below(new, at)
             /\ report.was = IF at \in DOMAIN old.listed THEN Below(old, at) ELSE <<0, 0>>
  <2>1. /\ Compared /\ Gathered(acc, AllItems) /\ acc.newTot # <<>>
        /\ Whole(new) /\ (format = "dgs" => Whole(old))
        /\ report.was = IF acc.oldTot = <<>> THEN <<0, 0>> ELSE acc.oldTot
        /\ report.is = acc.newTot
    BY <1>2, OkFacts
  <2>2. acc.newTot = TotalOf(new, at) /\ acc.oldTot = TotalOf(old, at) /\ new \in Trees /\ old \in Trees
    BY <2>1, AllFolders DEF Gathered, FoldersGathered, Compared
  <2>3. /\ TotalOf(old, at) = <<>> <=> at \notin DOMAIN old.listed
        /\ TotalOf(new, at) = <<>> <=> at \notin DOMAIN new.listed
        /\ at \in DOMAIN old.listed => TotalOf(old, at) = Below(old, at)
        /\ at \in DOMAIN new.listed => TotalOf(new, at) = Below(new, at)
    BY <2>2, TotalOfFacts
  <2> QED
    BY <2>1, <2>2, <2>3
<1>3. ASSUME report.st = "ok", format = "json"
      PROVE  {acc.newFiles, acc.goneFiles, acc.changedFiles} = {NoChanges}
  <2>1. FilesGathered(acc, AllItems)
    BY <1>3, OkFacts DEF Gathered
  <2>2. acc.newFiles = NoChanges /\ acc.goneFiles = NoChanges /\ acc.changedFiles = NoChanges
    BY <2>1, <1>3 DEF FilesGathered
  <2> QED
    BY <2>2
<1>4. ASSUME report.st = "ok", format # "json"
      PROVE  /\ Counts(acc.newFiles, FilesBelow(new) \ FilesBelow(old), new.file)
             /\ Counts(acc.goneFiles, FilesBelow(old) \ FilesBelow(new), old.file)
             /\ Counts(acc.changedFiles, {f \in FilesBelow(old) \cap FilesBelow(new) : Growth[f] # 0}, Growth)
  <2>1. FilesGathered(acc, AllItems) /\ Compared
    BY <1>4, OkFacts DEF Gathered
  <2>2. format = "dgs"
    BY <1>4, <2>1, ComparedFacts
  <2>3. /\ Counts(acc.newFiles, Came(AllItems), new.file) /\ Counts(acc.goneFiles, Went(AllItems), old.file)
        /\ Counts(acc.changedFiles, Resized(AllItems), Growth)
    BY <2>1, <2>2 DEF FilesGathered
  <2> QED
    BY <2>1, <2>2, <2>3, AllFiles
<1>5. ASSUME report.st = "ok"
      PROVE  /\ acc.added = FolderChanges(LAMBDA x, y : x = <<>>)
             /\ acc.removed = FolderChanges(LAMBDA x, y : y = <<>>)
             /\ acc.grown = FolderChanges(LAMBDA x, y : x # <<>> /\ y # <<>> /\ x[1] < y[1])
             /\ acc.shrunk = FolderChanges(LAMBDA x, y : x # <<>> /\ y # <<>> /\ x[1] > y[1])
  BY <1>5, OkFacts, AllChanges
<1>6. report.st = "partial" => ~Whole(new) \/ (format = "dgs" /\ ~Whole(old))
  BY DEF MergeInv
<1> QED
  BY <1>1, <1>2, <1>3, <1>4, <1>5, <1>6 DEF DiffIsExact, Growth

LEMMA SameByMerge == MergeInv => UnchangedMeansSame
<1> SUFFICES ASSUME MergeInv, report.st = "ok", report.unchanged
             PROVE  /\ In(DOMAIN old.listed, at) = In(DOMAIN new.listed, at)
                    /\ format = "dgs" =>
                         \A f \in FilesBelow(old) \cup FilesBelow(new) :
                           f \in FilesBelow(old) \cap FilesBelow(new) /\ old.file[f] = new.file[f]
  BY DEF UnchangedMeansSame
<1> DEFINE was == IF acc.oldTot = <<>> THEN <<0, 0>> ELSE acc.oldTot
<1>1. Compared /\ Gathered(acc, AllItems) /\ IsUnchanged(acc, was, acc.newTot)
  BY OkFacts
<1>2. old \in Trees /\ new \in Trees
  BY <1>1 DEF Compared
<1>3. acc.added = {} /\ acc.removed = {}
  BY <1>1 DEF IsUnchanged
<1>4. acc.newFiles.count = 0 /\ acc.goneFiles.count = 0 /\ acc.changedFiles.count = 0
  BY <1>1 DEF IsUnchanged
<1>5. In(DOMAIN old.listed, at) = In(DOMAIN new.listed, at)
  <2>1. AddedIn(AllItems) = {} /\ RemovedIn(AllItems) = {}
    BY <1>1, <1>3 DEF Gathered, FoldersGathered, ChangesAt
  <2>2. \A p \in AllKids : p \in DOMAIN old.listed /\ p \in DOMAIN new.listed
    BY <2>1, <1>1, AllFolders DEF AddedIn, RemovedIn
  <2> QED
    BY <2>2 DEF AllKids, In
<1>6. ASSUME format = "dgs", NEW f \in FilesBelow(old) \cup FilesBelow(new)
      PROVE  f \in FilesBelow(old) \cap FilesBelow(new) /\ old.file[f] = new.file[f]
  <2> DEFINE both == FilesBelow(old) \cap FilesBelow(new)
             grew == {g \in both : Growth[g] # 0}
  <2>1. /\ acc.newFiles.count = Cardinality(FilesBelow(new) \ FilesBelow(old))
        /\ acc.goneFiles.count = Cardinality(FilesBelow(old) \ FilesBelow(new))
        /\ acc.changedFiles.count = Cardinality(grew)
    <3>1. /\ Counts(acc.newFiles, Came(AllItems), new.file) /\ Counts(acc.goneFiles, Went(AllItems), old.file)
          /\ Counts(acc.changedFiles, Resized(AllItems), Growth)
      BY <1>1, <1>6 DEF Gathered, FilesGathered
    <3>2. /\ acc.newFiles.count = Cardinality(Came(AllItems))
          /\ acc.goneFiles.count = Cardinality(Went(AllItems))
          /\ acc.changedFiles.count = Cardinality(Resized(AllItems))
      BY <3>1 DEF Counts
    <3> QED
      BY <3>2, <1>1, <1>6, AllFiles
  <2>2. IsFiniteSet(FilesBelow(old)) /\ IsFiniteSet(FilesBelow(new))
    <3>1. IsFiniteSet(DOMAIN old.file) /\ IsFiniteSet(DOMAIN new.file)
      BY <1>2, DiffAssumption
    <3>2. FilesBelow(old) \subseteq DOMAIN old.file /\ FilesBelow(new) \subseteq DOMAIN new.file
      BY DEF FilesBelow
    <3> QED
      BY <3>1, <3>2, FS_Subset
  <2>3. FilesBelow(new) \ FilesBelow(old) = {} /\ FilesBelow(old) \ FilesBelow(new) = {} /\ grew = {}
    <3>1. /\ IsFiniteSet(FilesBelow(new) \ FilesBelow(old)) /\ IsFiniteSet(FilesBelow(old) \ FilesBelow(new))
          /\ IsFiniteSet(grew)
      BY <2>2, FS_Subset
    <3>2. \A T : IsFiniteSet(T) /\ Cardinality(T) = 0 => T = {}
      BY FS_EmptySet
    <3> QED
      BY <1>4, <2>1, <3>1, <3>2
  <2>4. f \in both
    BY <2>3
  <2>5. Growth[f] = 0 /\ Growth[f] = new.file[f] - old.file[f]
    BY <2>3, <2>4 DEF Growth
  <2>6. new.file[f] \in Nat /\ old.file[f] \in Nat
    BY <2>4, <1>2, ScanPaths DEF FilesBelow
  <2> QED
    BY <2>4, <2>5, <2>6
<1> QED
  BY <1>5, <1>6

(* At every step of diff (diff_readers), the cursors and what was gathered *)
(* are as the two trees and one set of items read so far say.              *)
THEOREM DiffMerges == Spec => []MergeInv
BY InitMerge, NextMerge, PTL DEF Spec

(* Whatever directory, format and trees: when diff reports, each folder    *)
(* added, removed, grown or shrunk, each total and each count and list of  *)
(* files is that of the two trees; and it refuses exactly the directories  *)
(* that are not in the newer one.                                          *)
THEOREM DiffExact == Spec => []DiffIsExact
BY DiffMerges, ExactByMerge, PTL

(* When diff says that nothing changed (is_unchanged), the same folders    *)
(* are in the directory in both trees, and with a whole snapshot of the    *)
(* older one the same files, of the same sizes, are below it.              *)
THEOREM UnchangedSame == Spec => []UnchangedMeansSame
BY DiffMerges, SameByMerge, PTL

-----------------------------------------------------------------------------
(***************************************************************************)
(* A snapshot made a tree again.                                           *)
(***************************************************************************)
LEMMA DecodedIs ==
  ASSUME NEW E, IsEntries(E), NEW snap, snap.data = Encoded(E)
  PROVE  Decoded(snap) = [i \in 1..Len(E) |-> On(E, i)]
<1> DEFINE K == Len(snap.data)
           W == [i \in 0..K |-> IF i = 0 THEN CursorOn(snap) ELSE On(E, i)]
           N(g) == g = [i \in 0..Len(snap.data) |-> IF i = 0 THEN CursorOn(snap) ELSE Advance(g[i - 1])]
<1>1. K = Len(E) /\ K \in Nat /\ DOMAIN snap.data = 1..K
  <2>1. Len(E) \in Nat /\ Len(snap.data) = Len(E) /\ snap.data \in Seq({Code(E, i) : i \in 1..Len(E)})
    BY EncodedIs
  <2> QED
    BY <2>1, LenProperties
<1>2. ASSUME NEW i \in 1..K PROVE On(E, i) = Advance(IF i - 1 = 0 THEN CursorOn(snap) ELSE On(E, i - 1))
  <2>1. CASE i = 1
    <3>1. CursorIs(Advance(CursorOn(snap)), E, 1)
      BY CursorStarts
    <3> QED
      BY <1>1, <2>1, <3>1 DEF CursorIs
  <2>2. CASE i # 1
    <3>1. i - 1 \in 1..Len(E) /\ i - 1 <= Len(E) /\ (i - 1) + 1 = i /\ i <= Len(E) /\ i - 1 # 0
      BY <1>1, <2>2
    <3>2. CursorIs(On(E, i - 1), E, i - 1)
      BY <3>1 DEF CursorIs
    <3>3. CursorIs(Advance(On(E, i - 1)), E, (i - 1) + 1)
      BY <3>1, <3>2, CursorMoves
    <3>4. CursorIs(Advance(On(E, i - 1)), E, i)
      BY <3>1, <3>3
    <3> QED
      BY <3>1, <3>4 DEF CursorIs
  <2> QED
    BY <2>1, <2>2
<1> HIDE DEF K
<1>3. N(W)
  <2>1. \A i \in 0..K : W[i] = IF i = 0 THEN CursorOn(snap) ELSE Advance(W[i - 1])
    <3> SUFFICES ASSUME NEW i \in 0..K, i # 0 PROVE W[i] = Advance(W[i - 1])
      OBVIOUS
    <3>1. i \in 1..K /\ i - 1 \in 0..K
      BY <1>1
    <3>2. W[i] = On(E, i) /\ W[i - 1] = IF i - 1 = 0 THEN CursorOn(snap) ELSE On(E, i - 1)
      BY <3>1
    <3> HIDE DEF W
    <3> QED
      BY <1>2, <3>1, <3>2
  <2>2. W = [i \in 0..K |-> W[i]]
    OBVIOUS
  <2> HIDE DEF W
  <2>3. W = [i \in 0..K |-> IF i = 0 THEN CursorOn(snap) ELSE Advance(W[i - 1])]
    BY <2>1, <2>2
  <2> QED
    BY <2>3 DEF K
<1>4. N(CHOOSE g : N(g))
  <2> HIDE DEF N, W
  <2> QED
    BY <1>3
<1> DEFINE g == CHOOSE h : N(h)
<1>5. Decoded(snap) = [i \in DOMAIN snap.data |-> g[i]]
  BY Zenon DEF Decoded
<1>6. \A i \in 0..K : g[i] = IF i = 0 THEN CursorOn(snap) ELSE Advance(g[i - 1])
  <2> HIDE DEF g
  <2>1. N(g)
    BY <1>4 DEF g
  <2>2. g = [i \in 0..K |-> IF i = 0 THEN CursorOn(snap) ELSE Advance(g[i - 1])]
    BY <2>1 DEF K
  <2> QED
    BY <2>2
<1> HIDE DEF g, N
<1> DEFINE T == {i \in Nat : g[i] = W[i]}
<1>7. ASSUME NEW i \in 1..K PROVE g[i] = On(E, i)
  <2>1. CASE i \in T
    BY <2>1
  <2>2. CASE i \notin T
    <3>1. PICK m \in 1..i : m \notin T /\ \A j \in 1..(m - 1) : j \in T
      <4>1. i \in Nat /\ i \in 1..i
        BY <1>1
      <4> HIDE DEF T
      <4> QED
        BY <2>2, <4>1, FirstMissing
    <3>2. m \in 1..K /\ m \in Nat /\ m # 0 /\ m \in 0..K /\ m - 1 \in 0..K /\ (m - 1 # 0 => m - 1 \in 1..(m - 1))
      BY <1>1, <3>1
    <3>3. g[m - 1] = W[m - 1]
      <4>1. CASE m - 1 = 0
        <5>1. 0 \in 0..K
          BY <1>1
        <5>2. g[0] = CursorOn(snap) /\ W[0] = CursorOn(snap)
          BY <5>1, <1>6
        <5> QED
          BY <4>1, <5>2
      <4>2. CASE m - 1 # 0
        BY <3>1, <3>2, <4>2
      <4> QED
        BY <4>1, <4>2
    <3>4. W[m - 1] = IF m - 1 = 0 THEN CursorOn(snap) ELSE On(E, m - 1)
      BY <3>2
    <3>5. W[m] = On(E, m)
      BY <3>2
    <3>6. g[m] = Advance(g[m - 1])
      BY <1>6, <3>2
    <3>7. On(E, m) = Advance(IF m - 1 = 0 THEN CursorOn(snap) ELSE On(E, m - 1))
      BY <1>2, <3>2
    <3>8. g[m] = W[m]
      BY <3>3, <3>4, <3>5, <3>6, <3>7
    <3> QED
      BY <3>1, <3>2, <3>8
  <2> QED
    BY <2>1, <2>2
<1> HIDE DEF T, W
<1>8. DOMAIN snap.data = 1..Len(E) /\ \A i \in 1..Len(E) : g[i] = On(E, i)
  BY <1>1, <1>7
<1>9. Decoded(snap) = [i \in 1..Len(E) |-> g[i]]
  BY <1>5, <1>8
<1> QED
  BY <1>8, <1>9

(* What from_entries has made of the entries so far. *)
Placed == [open : Seq(Paths) \ {<<>>}, listed : UNION {[D -> BOOLEAN] : D \in SUBSET Paths},
           file : UNION {[D -> Nat] : D \in SUBSET Paths}]
PlaceEntry == [path : Paths \ {<<>>}, kind : {"dir", "unread", "file"}, size : Nat]
Nothing == [open |-> <<<<>>>>, listed |-> [d \in {<<>>} |-> TRUE], file |-> <<>>]
With(f, x, v) == [y \in DOMAIN f \cup {x} |-> IF y = x THEN v ELSE f[y]]

PlacedOf(u, v, w) == [open |-> u, listed |-> v, file |-> w]

FileIn(b, x, y) == [b EXCEPT !.open = x, !.file = y]
FolderIn(b, x, y) == [b EXCEPT !.open = x, !.listed = y]

LEMMA PlacedWith ==
  ASSUME NEW b, b = PlacedOf(b.open, b.listed, b.file), NEW x, NEW y
  PROVE  FileIn(b, x, y) = PlacedOf(x, b.listed, y) /\ FolderIn(b, x, y) = PlacedOf(x, y, b.file)
<1> DEFINE u == b.open
           v == b.listed
           w == b.file
<1>1. b = PlacedOf(u, v, w)
  OBVIOUS
<1> HIDE DEF u, v, w
<1>2. /\ [b EXCEPT !.open = x, !.file = y] = [[b EXCEPT !.open = x] EXCEPT !.file = y]
      /\ [b EXCEPT !.open = x, !.listed = y] = [[b EXCEPT !.open = x] EXCEPT !.listed = y]
  BY <1>1 DEF PlacedOf
<1>3. [b EXCEPT !.open = x] = PlacedOf(x, v, w)
  BY <1>1 DEF PlacedOf
<1>4. /\ [PlacedOf(x, v, w) EXCEPT !.file = y] = PlacedOf(x, v, y)
      /\ [PlacedOf(x, v, w) EXCEPT !.listed = y] = PlacedOf(x, y, w)
  BY DEF PlacedOf
<1> QED
  BY <1>2, <1>3, <1>4 DEF FileIn, FolderIn, v, w

(* One entry, below the folders left open. *)
PlacedAt(b, e, open) ==
  LET p == Append(Last(open), Last(e.path))
  IN IF e.kind = "file" THEN PlacedOf(open, b.listed, With(b.file, p, e.size))
     ELSE PlacedOf(Append(open, p), With(b.listed, p, e.kind = "dir"), b.file)

LEMMA PlaceIs ==
  ASSUME NEW b, b = PlacedOf(b.open, b.listed, b.file), NEW e,
         NEW open, open = SubSeq(b.open, 1, Min({Len(e.path), Len(b.open)}))
  PROVE  PutIn(b, e) = PlacedAt(b, e, open)
<1> DEFINE p == Append(Last(open), Last(e.path))
<1>1. b = PlacedOf(b.open, b.listed, b.file)
  OBVIOUS
<1>2. PutIn(b, e) = IF e.kind = "file" THEN FileIn(b, open, With(b.file, p, e.size))
                    ELSE FolderIn(b, Append(open, p), With(b.listed, p, e.kind = "dir"))
  BY Zenon DEF PutIn, With, FileIn, FolderIn
<1> HIDE DEF p
<1>3. FileIn(b, open, With(b.file, p, e.size)) = PlacedOf(open, b.listed, With(b.file, p, e.size))
  BY <1>1, PlacedWith
<1>4. FolderIn(b, Append(open, p), With(b.listed, p, e.kind = "dir"))
        = PlacedOf(Append(open, p), With(b.listed, p, e.kind = "dir"), b.file)
  <2> DEFINE v == With(b.listed, p, e.kind = "dir")
  <2> HIDE DEF v
  <2>1. FolderIn(b, Append(open, p), v) = PlacedOf(Append(open, p), v, b.file)
    BY <1>1, PlacedWith
  <2> QED
    BY <2>1 DEF v
<1> QED
  BY <1>2, <1>3, <1>4 DEF PlacedAt, p

LEMMA WithType ==
  ASSUME NEW V, NEW f \in UNION {[D -> V] : D \in SUBSET Paths}, NEW p \in Paths, NEW v \in V
  PROVE  With(f, p, v) \in UNION {[D -> V] : D \in SUBSET Paths}
<1>1. PICK D \in SUBSET Paths : f \in [D -> V]
  OBVIOUS
<1>2. With(f, p, v) \in [D \cup {p} -> V]
  BY <1>1 DEF With
<1>3. D \cup {p} \in SUBSET Paths
  OBVIOUS
<1> QED
  BY <1>2, <1>3

LEMMA PlaceType ==
  ASSUME NEW b \in Placed, NEW e \in PlaceEntry
  PROVE  PutIn(b, e) \in Placed
<1> DEFINE k == Min({Len(e.path), Len(b.open)})
           open == SubSeq(b.open, 1, k)
           p == Append(Last(open), Last(e.path))
<1>1. /\ e.path \in Paths /\ e.path # <<>> /\ e.size \in Nat
      /\ b.open \in Seq(Paths) /\ b.open # <<>>
      /\ b.listed \in UNION {[D -> BOOLEAN] : D \in SUBSET Paths}
      /\ b.file \in UNION {[D -> Nat] : D \in SUBSET Paths}
  BY DEF Placed, PlaceEntry
<1>2. Len(e.path) \in Nat \ {0} /\ Len(b.open) \in Nat \ {0}
  BY <1>1, FrontByElement DEF Paths
<1>3. k \in 1..Len(b.open)
  <2>1. k \in {Len(e.path), Len(b.open)} /\ k <= Len(b.open)
    BY <1>2, MinOfTwo
  <2> HIDE DEF k
  <2> QED
    BY <1>2, <2>1
<1> HIDE DEF k
<1>4. open \in Seq(Paths) /\ Len(open) = k /\ open # <<>>
  <2>1. k \in 0..Len(b.open)
    BY <1>3
  <2>2. open \in Seq(Paths) /\ Len(open) = k
    BY <1>1, <2>1, FirstOfSeq
  <2> QED
    BY <2>2, <1>3, LenProperties
<1> HIDE DEF open
<1>5. Last(open) \in Paths /\ Last(e.path) \in Names
  <2>1. Last(open) = open[Len(open)] /\ Len(open) \in 1..Len(open)
    BY <1>3, <1>4, <1>2 DEF Last
  <2>2. Last(e.path) = e.path[Len(e.path)] /\ Len(e.path) \in 1..Len(e.path)
    BY <1>2 DEF Last
  <2>3. open[Len(open)] \in Paths
    BY <1>4, <2>1, ElementOfSeq
  <2>4. e.path[Len(e.path)] \in Names
    BY <1>1, <2>2, ElementOfSeq DEF Paths
  <2> QED
    BY <2>1, <2>2, <2>3, <2>4
<1>6. p \in Paths
  BY <1>5, AppendProperties DEF Paths
<1> HIDE DEF p
<1>7. Append(open, p) \in Seq(Paths) /\ Append(open, p) # <<>>
  BY <1>4, <1>6, AppendFacts
<1>8. PutIn(b, e) = PlacedAt(b, e, open)
  <2>1. b = PlacedOf(b.open, b.listed, b.file)
    BY DEF Placed, PlacedOf
  <2> QED
    BY <2>1, PlaceIs DEF open, k
<1>9. CASE e.kind = "file"
  <2>1. PutIn(b, e) = PlacedOf(open, b.listed, With(b.file, p, e.size))
    BY <1>8, <1>9 DEF PlacedAt, p
  <2>2. With(b.file, p, e.size) \in UNION {[D -> Nat] : D \in SUBSET Paths}
    BY <1>1, <1>6, WithType
  <2> QED
    BY <1>1, <1>4, <2>1, <2>2 DEF Placed, PlacedOf
<1>10. CASE e.kind # "file"
  <2> DEFINE v == e.kind = "dir"
  <2>1. PutIn(b, e) = PlacedOf(Append(open, p), With(b.listed, p, v), b.file)
    BY <1>8, <1>10 DEF PlacedAt, p
  <2>2. v \in BOOLEAN
    OBVIOUS
  <2> HIDE DEF v
  <2>3. With(b.listed, p, v) \in UNION {[D -> BOOLEAN] : D \in SUBSET Paths}
    BY <1>1, <1>6, <2>2, WithType
  <2> QED
    BY <1>1, <1>7, <2>1, <2>3 DEF Placed, PlacedOf
<1> QED
  BY <1>9, <1>10

LEMMA NothingPlaced == Nothing \in Placed
<1>1. <<>> \in Paths
  BY EmptySeq DEF Paths
<1>2. <<<<>>>> \in Seq(Paths) \ {<<>>}
  BY <1>1
<1>3. [d \in {<<>>} |-> TRUE] \in UNION {[D -> BOOLEAN] : D \in SUBSET Paths}
  <2>1. {<<>>} \in SUBSET Paths /\ [d \in {<<>>} |-> TRUE] \in [{<<>>} -> BOOLEAN]
    BY <1>1
  <2> QED
    BY <2>1
<1>4. <<>> \in UNION {[D -> Nat] : D \in SUBSET Paths}
  <2>1. <<>> \in [{} -> Nat]
    <3>1. <<>> \in Seq(Nat) /\ Len(<<>>) = 0
      BY EmptySeq
    <3>2. <<>> \in [1..0 -> Nat] /\ 1..0 = {}
      BY <3>1, LenProperties
    <3> QED
      BY <3>2
  <2>2. {} \in SUBSET Paths
    OBVIOUS
  <2> QED
    BY <2>1, <2>2
<1> QED
  BY <1>2, <1>3, <1>4 DEF Nothing, Placed

PlaceRun(entries, m, run) ==
  /\ m \in Nat /\ DOMAIN entries = 1..m /\ \A i \in 1..m : entries[i] \in PlaceEntry
  /\ run[0] = Nothing /\ \A i \in 1..m : run[i] = PutIn(run[i - 1], entries[i])

LEMMA FromEntriesRuns ==
  ASSUME NEW entries, NEW m, NEW run, PlaceRun(entries, m, run)
  PROVE  FromEntries(entries) = Finished(run[m].listed, run[m].file, FALSE)
<1> DEFINE U == 1..m
           V == Placed
           ch == [s \in SUBSET U |-> Max(s)]
           step == [i \in U |-> [v \in V |-> PutIn(v, entries[i])]]
           N(j) == j = [s \in SUBSET (DOMAIN entries) |->
                          IF s = {} THEN Nothing
                          ELSE PutIn(j[s \ {Max(s)}], entries[Max(s)])]
<1>1. /\ m \in Nat /\ DOMAIN entries = U /\ \A i \in U : entries[i] \in PlaceEntry
      /\ run[0] = Nothing /\ \A i \in U : run[i] = PutIn(run[i - 1], entries[i])
  BY DEF PlaceRun
<1>2. IsFiniteSet(U)
  <2>1. 1 \in Int /\ m \in Int
    BY <1>1
  <2> QED
    BY <2>1, FS_Interval
<1>3. \A s \in SUBSET U : s # {} => ch[s] \in s
  BY <1>1, MaxIsIn
<1>4. step \in [U -> [V -> V]] /\ Nothing \in V
  <2>1. \A i \in U : \A v \in V : PutIn(v, entries[i]) \in V
    BY <1>1, PlaceType
  <2> HIDE DEF U, V
  <2> QED
    BY <2>1, NothingPlaced DEF V
<1>5. PICK it : IsFold(it, U, V, Nothing, ch, step)
  <2> HIDE DEF U, ch, step, V
  <2> QED
    BY <1>2, <1>3, <1>4, FoldExists
<1>12. /\ it \in [SUBSET U -> V]
       /\ \A s \in SUBSET U : it[s] = IF s = {} THEN Nothing ELSE step[ch[s]][it[s \ {ch[s]}]]
  BY <1>5 DEF IsFold
<1>6. N(it)
  <2>1. ASSUME NEW s \in SUBSET U, s # {}
        PROVE  it[s] = PutIn(it[s \ {Max(s)}], entries[Max(s)])
    <3>1. ch[s] = Max(s) /\ Max(s) \in U /\ it[s \ {Max(s)}] \in V
      BY <1>3, <1>12, <2>1
    <3> HIDE DEF U, V, ch
    <3> QED
      BY <1>12, <2>1, <3>1
  <2>2. \A s \in SUBSET U : it[s] = IF s = {} THEN Nothing ELSE PutIn(it[s \ {Max(s)}], entries[Max(s)])
    BY <1>12, <2>1
  <2> HIDE DEF U, V
  <2> QED
    BY <1>1, <1>12, <2>2
<1>7. N(CHOOSE j : N(j))
  <2> HIDE DEF N
  <2> QED
    BY <1>6
<1> DEFINE g == CHOOSE j : N(j)
<1>8. FromEntries(entries) = Finished(g[DOMAIN entries].listed, g[DOMAIN entries].file, FALSE)
  BY Zenon DEF FromEntries, FoldLeft, MapThenFoldSet, Nothing
<1>9. /\ g[{}] = Nothing
      /\ \A s \in SUBSET U : s # {} => g[s] = PutIn(g[s \ {Max(s)}], entries[Max(s)])
  <2> HIDE DEF g, U
  <2>1. N(g)
    BY <1>7 DEF g
  <2> QED
    BY <1>1, <2>1
<1> HIDE DEF g, N
<1>10. ASSUME NEW i \in 1..m, g[1..(i - 1)] = run[i - 1] PROVE g[1..i] = run[i]
  <2>1. 1..i # {} /\ Max(1..i) = i /\ (1..i) \ {Max(1..i)} = 1..(i - 1)
    <3>1. i \in Nat \ {0}
      BY <1>1
    <3> QED
      BY <3>1, MaxOfFirst
  <2>2. 1..i \in SUBSET U
    BY <1>1
  <2>3. g[1..i] = PutIn(g[(1..i) \ {Max(1..i)}], entries[Max(1..i)])
    <3> HIDE DEF U
    <3> QED
      BY <1>9, <2>1, <2>2
  <2>4. g[1..i] = PutIn(g[1..(i - 1)], entries[i])
    BY <2>1, <2>3
  <2> QED
    BY <1>1, <1>10, <2>4
<1>11. g[1..m] = run[m]
  <2>1. g[{}] = run[0]
    BY <1>1, <1>9
  <2> QED
    BY <1>1, <2>1, <1>10, FirstsFold
<1> QED
  BY <1>1, <1>8, <1>11

-----------------------------------------------------------------------------
(***************************************************************************)
(* The folders open when an item is placed.                                *)
(***************************************************************************)
(* Everything between a folder and an item in it is in this folder. *)
LEMMA Between ==
  ASSUME NEW f \in Paths, NEW x \in Paths, NEW p \in Paths, IsPrefix(f, p),
         x = f \/ <<f, x>> \in PathOrder, <<x, p>> \in PathOrder
  PROVE  IsPrefix(f, x)
<1> DEFINE m == Shared(x, p)
<1>0. \A y \in Names : <<y, y>> \notin NameOrder
  BY NameOrderIs DEF IsOrder
<1>1. LexAt(x, p, m, NameOrder)
  BY <1>0, LexIff DEF PathOrder, Paths
<1>2. /\ Len(f) <= Len(p) /\ \A i \in 1..Len(f) : f[i] = p[i]
      /\ Len(f) \in Nat /\ Len(x) \in Nat /\ Len(p) \in Nat
  BY PrefixByElement, LenProperties DEF Paths
<1>3. /\ m \in Nat /\ m <= Len(x) /\ m < Len(p) /\ \A i \in 1..m : x[i] = p[i]
      /\ m < Len(x) => <<x[m + 1], p[m + 1]>> \in NameOrder
  BY <1>1 DEF LexAt, Agree
<1> HIDE DEF m
<1>4. CASE Len(f) <= m
  <2>1. Len(f) <= Len(x) /\ \A i \in 1..Len(f) : f[i] = x[i]
    BY <1>2, <1>3, <1>4
  <2> QED
    BY <2>1, PrefixByElement DEF Paths
<1>5. CASE ~(Len(f) <= m)
  <2>1. m < Len(f) /\ Agree(x, f, m)
    BY <1>2, <1>3, <1>5 DEF Agree
  <2>2. m + 1 \in 1..Len(f) /\ f[m + 1] = p[m + 1]
    BY <1>2, <1>3, <2>1
  <2>3. LexAt(x, f, m, NameOrder)
    BY <1>3, <2>1, <2>2 DEF LexAt
  <2>4. <<x, f>> \in PathOrder
    <3>1. m = Shared(x, f)
      BY <1>0, <2>3, LexIff DEF Paths
    <3> QED
      BY <1>0, <2>3, <3>1, LexIff DEF PathOrder, Paths
  <2>5. x = f \/ <<f, x>> \in PathOrder => <<x, f>> \notin PathOrder
    BY PathOrderIs DEF IsOrder
  <2> QED
    BY <2>4, <2>5
<1> QED
  BY <1>4, <1>5

(* The way down to q. *)
Opened(q) == [k \in 1..(Len(q) + 1) |-> SubSeq(q, 1, k - 1)]

LEMMA OpenedIs ==
  ASSUME NEW q \in Paths
  PROVE  /\ Opened(q) \in Seq(Paths) /\ Len(Opened(q)) = Len(q) + 1 /\ Opened(q) # <<>>
         /\ \A k \in 1..(Len(q) + 1) : Opened(q)[k] = SubSeq(q, 1, k - 1)
<1>1. Len(q) \in Nat
  BY LenProperties DEF Paths
<1>2. \A k \in 1..(Len(q) + 1) : SubSeq(q, 1, k - 1) \in Paths
  <2> SUFFICES ASSUME NEW k \in 1..(Len(q) + 1) PROVE SubSeq(q, 1, k - 1) \in Paths
    OBVIOUS
  <2>1. k - 1 \in 0..Len(q)
    BY <1>1
  <2> QED
    BY <2>1, FirstOfSeq DEF Paths
<1>3. Opened(q) \in [1..(Len(q) + 1) -> Paths] /\ Len(q) + 1 \in Nat
  BY <1>1, <1>2 DEF Opened
<1>4. Opened(q) \in Seq(Paths) /\ Len(Opened(q)) = Len(q) + 1
  BY <1>3, FunctionIsSeq
<1>5. Opened(q) # <<>>
  BY <1>1, <1>4
<1> QED
  BY <1>4, <1>5 DEF Opened

(* Back to the folder of p. *)
LEMMA OpenedBack ==
  ASSUME NEW p \in Paths, p # <<>>, NEW q \in Paths, IsPrefix(Front(p), q)
  PROVE  SubSeq(Opened(q), 1, Min({Len(p), Len(Opened(q))})) = Opened(Front(p))
<1> DEFINE f == Front(p)
<1>1. f \in Paths /\ Len(f) = Len(p) - 1 /\ Len(p) \in Nat \ {0}
  BY FrontByElement DEF Paths
<1>2. Len(f) <= Len(q) /\ (\A i \in 1..Len(f) : f[i] = q[i]) /\ Len(q) \in Nat
  BY <1>1, PrefixByElement, LenProperties DEF Paths
<1>3. Opened(q) \in Seq(Paths) /\ Len(Opened(q)) = Len(q) + 1
  BY OpenedIs
<1>4. Min({Len(p), Len(Opened(q))}) = Len(p)
  <2>1. Len(p) <= Len(Opened(q)) /\ Len(Opened(q)) \in Nat
    BY <1>1, <1>2, <1>3
  <2>2. Len(p) \in Nat
    BY <1>1
  <2> DEFINE k == Min({Len(p), Len(Opened(q))})
  <2>3. k \in {Len(p), Len(Opened(q))} /\ k <= Len(p)
    BY <2>1, <2>2, MinOfTwo
  <2> HIDE DEF k
  <2>4. k = Len(p)
    BY <2>1, <2>2, <2>3
  <2> QED
    BY <2>4 DEF k
<1> DEFINE s == SubSeq(Opened(q), 1, Len(p))
<1>5. s \in Seq(Paths) /\ Len(s) = Len(p) /\ \A k \in 1..Len(p) : s[k] = Opened(q)[k]
  <2>1. Len(p) \in 0..Len(Opened(q))
    BY <1>1, <1>2, <1>3
  <2> QED
    BY <1>3, <2>1, FirstOfSeq
<1>6. Opened(f) \in Seq(Paths) /\ Len(Opened(f)) = Len(f) + 1
  BY <1>1, OpenedIs
<1>7. ASSUME NEW k \in 1..Len(p) PROVE s[k] = Opened(f)[k]
  <2>1. k \in 1..(Len(q) + 1) /\ k \in 1..(Len(f) + 1) /\ k - 1 \in Nat /\ k - 1 <= Len(f) /\ k - 1 <= Len(q)
    BY <1>1, <1>2
  <2>2. Opened(q)[k] = SubSeq(q, 1, k - 1) /\ Opened(f)[k] = SubSeq(f, 1, k - 1)
    BY <1>1, <2>1, OpenedIs
  <2>3. Agree(f, q, k - 1)
    BY <1>1, <1>2, <2>1 DEF Agree
  <2>4. SubSeq(f, 1, k - 1) = SubSeq(q, 1, k - 1)
    BY <1>1, <2>1, <2>3, AgreeIff DEF Paths
  <2> QED
    BY <1>5, <2>2, <2>4
<1>8. Len(s) = Len(Opened(f)) /\ \A k \in 1..Len(s) : s[k] = Opened(f)[k]
  BY <1>1, <1>5, <1>6, <1>7
<1> HIDE DEF s, f
<1>9. s = Opened(f)
  BY <1>5, <1>6, <1>8, SeqEqual
<1> QED
  BY <1>4, <1>9 DEF s, f

LEMMA OpenedMore ==
  ASSUME NEW p \in Paths, p # <<>>
  PROVE  /\ Last(Opened(Front(p))) = Front(p) /\ Append(Front(p), Last(p)) = p
         /\ Append(Opened(Front(p)), p) = Opened(p)
<1> DEFINE f == Front(p)
<1>1. f \in Paths /\ Len(f) = Len(p) - 1 /\ Len(p) \in Nat \ {0} /\ \A i \in 1..(Len(p) - 1) : f[i] = p[i]
  BY FrontByElement DEF Paths
<1>2. /\ Opened(f) \in Seq(Paths) /\ Len(Opened(f)) = Len(f) + 1
      /\ \A k \in 1..(Len(f) + 1) : Opened(f)[k] = SubSeq(f, 1, k - 1)
  BY <1>1, OpenedIs
<1>3. Last(Opened(f)) = f
  <2>1. Len(f) + 1 \in 1..(Len(f) + 1) /\ (Len(f) + 1) - 1 = Len(f) /\ Len(f) \in 0..Len(f)
    BY <1>1
  <2>2. Last(Opened(f)) = SubSeq(f, 1, Len(f))
    BY <1>2, <2>1 DEF Last
  <2>3. /\ SubSeq(f, 1, Len(f)) \in Paths /\ Len(SubSeq(f, 1, Len(f))) = Len(f)
        /\ \A i \in 1..Len(f) : SubSeq(f, 1, Len(f))[i] = f[i]
    BY <1>1, <2>1, FirstOfSeq DEF Paths
  <2>4. SubSeq(f, 1, Len(f)) = f
    BY <1>1, <2>3, SeqEqual DEF Paths
  <2> QED
    BY <2>2, <2>4
<1>4. Append(f, Last(p)) = p
  <2>1. Last(p) = p[Len(p)] /\ Len(p) \in 1..Len(p)
    BY <1>1 DEF Last
  <2>2. Last(p) \in Names
    BY <2>1, ElementOfSeq DEF Paths
  <2>3. /\ Append(f, Last(p)) \in Seq(Names) /\ Len(Append(f, Last(p))) = Len(f) + 1
        /\ \A i \in 1..Len(f) : Append(f, Last(p))[i] = f[i]
        /\ Append(f, Last(p))[Len(f) + 1] = Last(p)
    BY <1>1, <2>2, AppendProperties DEF Paths
  <2>4. \A i \in 1..Len(p) : Append(f, Last(p))[i] = p[i]
    <3> SUFFICES ASSUME NEW i \in 1..Len(p) PROVE Append(f, Last(p))[i] = p[i]
      OBVIOUS
    <3>1. i \in 1..Len(f) \/ i = Len(f) + 1
      BY <1>1
    <3> QED
      BY <1>1, <2>1, <2>3, <3>1
  <2> QED
    BY <1>1, <2>3, <2>4, SeqEqual DEF Paths
<1>5. Append(Opened(f), p) = Opened(p)
  <2>1. /\ Append(Opened(f), p) \in Seq(Paths) /\ Len(Append(Opened(f), p)) = Len(Opened(f)) + 1
        /\ \A i \in 1..Len(Opened(f)) : Append(Opened(f), p)[i] = Opened(f)[i]
        /\ Append(Opened(f), p)[Len(Opened(f)) + 1] = p
    BY <1>2, AppendProperties
  <2>2. /\ Opened(p) \in Seq(Paths) /\ Len(Opened(p)) = Len(p) + 1
        /\ \A k \in 1..(Len(p) + 1) : Opened(p)[k] = SubSeq(p, 1, k - 1)
    BY OpenedIs
  <2>3. \A k \in 1..(Len(p) + 1) : Append(Opened(f), p)[k] = Opened(p)[k]
    <3> SUFFICES ASSUME NEW k \in 1..(Len(p) + 1) PROVE Append(Opened(f), p)[k] = Opened(p)[k]
      OBVIOUS
    <3>1. CASE k = Len(p) + 1
      <4>1. Append(Opened(f), p)[k] = p
        BY <1>1, <1>2, <2>1, <3>1
      <4>2. Opened(p)[k] = SubSeq(p, 1, Len(p))
        BY <2>2, <3>1, <1>1
      <4>3. /\ SubSeq(p, 1, Len(p)) \in Paths /\ Len(SubSeq(p, 1, Len(p))) = Len(p)
            /\ \A i \in 1..Len(p) : SubSeq(p, 1, Len(p))[i] = p[i]
        <5>1. Len(p) \in 0..Len(p)
          BY <1>1
        <5> QED
          BY <5>1, FirstOfSeq DEF Paths
      <4>4. SubSeq(p, 1, Len(p)) = p
        BY <4>3, SeqEqual DEF Paths
      <4> QED
        BY <4>1, <4>2, <4>4
    <3>2. CASE k # Len(p) + 1
      <4>1. k \in 1..(Len(f) + 1) /\ k - 1 \in Nat /\ k - 1 <= Len(f) /\ k - 1 <= Len(p)
        BY <1>1, <3>2
      <4>2. Append(Opened(f), p)[k] = SubSeq(f, 1, k - 1)
        BY <1>2, <2>1, <4>1
      <4>3. Agree(f, p, k - 1)
        BY <1>1, <4>1 DEF Agree
      <4>4. SubSeq(f, 1, k - 1) = SubSeq(p, 1, k - 1)
        BY <1>1, <4>1, <4>3, AgreeIff DEF Paths
      <4> QED
        BY <2>2, <4>2, <4>4
    <3> QED
      BY <3>1, <3>2
  <2>4. Len(Append(Opened(f), p)) = Len(Opened(p)) /\ Len(Opened(p)) = Len(p) + 1
    BY <1>1, <1>2, <2>1, <2>2
  <2> QED
    BY <2>1, <2>2, <2>3, <2>4, SeqEqual
<1> QED
  BY <1>3, <1>4, <1>5

(***************************************************************************)
(* The items of a scan, placed one after the other.                        *)
(***************************************************************************)
Listing(scan) == Stream("dgs", scan)
FolderAt(scan, i) ==
  LET p == Listing(scan)[i]
  IN IF i = 0 THEN <<>> ELSE IF p \in DOMAIN scan.listed THEN p ELSE Front(p)
UpTo(scan, i) == {Listing(scan)[k] : k \in 1..i}
Known(scan) == [scan.listed EXCEPT ![<<>>] = TRUE]
ListedTo(scan, i) == [d \in {<<>>} \cup (UpTo(scan, i) \cap DOMAIN scan.listed) |-> Known(scan)[d]]
FileTo(scan, i) == [f \in UpTo(scan, i) \cap DOMAIN scan.file |-> scan.file[f]]
EntryAt(scan, i) ==
  LET e == ItemEntry("dgs", scan, Listing(scan)[i])
  IN [path |-> Listing(scan)[i], kind |-> e.kind, size |-> e.size]

LEMMA ListingFacts ==
  ASSUME NEW scan \in Trees
  PROVE  LET s == Listing(scan)
         IN /\ Len(s) \in Nat /\ UpTo(scan, 0) = {}
            /\ UpTo(scan, Len(s)) = (DOMAIN scan.listed \cup DOMAIN scan.file) \ {<<>>}
            /\ \A i \in 1..Len(s) : /\ s[i] \in Paths /\ s[i] # <<>> /\ Front(s[i]) \in DOMAIN scan.listed
                                    /\ s[i] \in DOMAIN scan.listed <=> s[i] \notin DOMAIN scan.file
                                    /\ UpTo(scan, i) = UpTo(scan, i - 1) \cup {s[i]}
            /\ \A i, j \in 1..Len(s) : i < j => <<s[i], s[j]>> \in PathOrder
            /\ \A p \in DOMAIN scan.listed : p # <<>> => \E i \in 1..Len(s) : s[i] = p
<1> DEFINE s == Listing(scan)
           T == (DOMAIN scan.listed \cup DOMAIN scan.file) \ {<<>>}
<1>1. IsListing(s, PathOrder, T) /\ T \subseteq Paths
  <2>1. ItemsIn("dgs", scan) = T
    BY DEF ItemsIn
  <2>2. ItemsIn("dgs", scan) \in SUBSET Paths /\ IsListing(Stream("dgs", scan), PathOrder, ItemsIn("dgs", scan))
    BY ItemsInFacts
  <2> QED
    BY <2>1, <2>2 DEF Listing
<1>2. /\ s \in Seq(T) /\ \A x \in T : \E i \in 1..Len(s) : s[i] = x
      /\ \A i, j \in 1..Len(s) : i < j => <<s[i], s[j]>> \in PathOrder
  BY <1>1 DEF IsListing
<1> HIDE DEF s
<1>3. Len(s) \in Nat /\ \A i \in 1..Len(s) : s[i] \in T
  BY <1>2, LenProperties, ElementOfSeq
<1>4. \A p \in T : /\ p \in Paths /\ p # <<>> /\ Front(p) \in DOMAIN scan.listed
                   /\ p \in DOMAIN scan.listed <=> p \notin DOMAIN scan.file
  <2>1. /\ DOMAIN scan.listed \cap DOMAIN scan.file = {}
        /\ \A p \in (DOMAIN scan.listed \cup DOMAIN scan.file) \ {<<>>} : Front(p) \in DOMAIN scan.listed
    BY DiffAssumption
  <2> QED
    BY <1>1, <2>1
<1>5. UpTo(scan, 0) = {} /\ UpTo(scan, Len(s)) = T
  <2>1. UpTo(scan, 0) = {}
    BY DEF UpTo
  <2>2. UpTo(scan, Len(s)) = {s[k] : k \in 1..Len(s)}
    BY DEF UpTo, s
  <2> QED
    BY <1>2, <1>3, <2>1, <2>2
<1>6. ASSUME NEW i \in 1..Len(s) PROVE UpTo(scan, i) = UpTo(scan, i - 1) \cup {s[i]}
  <2>1. 1..i = 1..(i - 1) \cup {i}
    BY <1>3
  <2>2. UpTo(scan, i) = {s[k] : k \in 1..i} /\ UpTo(scan, i - 1) = {s[k] : k \in 1..(i - 1)}
    BY DEF UpTo, s
  <2> QED
    BY <2>1, <2>2
<1>7. \A i \in 1..Len(s) : /\ s[i] \in Paths /\ s[i] # <<>> /\ Front(s[i]) \in DOMAIN scan.listed
                           /\ s[i] \in DOMAIN scan.listed <=> s[i] \notin DOMAIN scan.file
                           /\ UpTo(scan, i) = UpTo(scan, i - 1) \cup {s[i]}
  BY <1>3, <1>4, <1>6
<1>8. \A p \in DOMAIN scan.listed : p # <<>> => \E i \in 1..Len(s) : s[i] = p
  BY <1>2
<1> QED
  BY <1>2, <1>3, <1>5, <1>7, <1>8 DEF s

(* The folder of an item is still open when its turn comes. *)
LEMMA FolderOpen ==
  ASSUME NEW scan \in Trees, NEW i \in 1..Len(Listing(scan))
  PROVE  FolderAt(scan, i - 1) \in Paths /\ IsPrefix(Front(Listing(scan)[i]), FolderAt(scan, i - 1))
<1> DEFINE s == Listing(scan)
           p == s[i]
           f == Front(p)
           x == s[i - 1]
<1>1. /\ Len(s) \in Nat
      /\ \A j \in 1..Len(s) : /\ s[j] \in Paths /\ s[j] # <<>> /\ Front(s[j]) \in DOMAIN scan.listed
                              /\ s[j] \in DOMAIN scan.listed <=> s[j] \notin DOMAIN scan.file
      /\ \A k, j \in 1..Len(s) : k < j => <<s[k], s[j]>> \in PathOrder
      /\ \A d \in DOMAIN scan.listed : d # <<>> => \E j \in 1..Len(s) : s[j] = d
  BY ListingFacts
<1>2. <<>> \in Paths /\ DOMAIN scan.listed \subseteq Paths
  BY EmptySeq, ScanPaths DEF Paths
<1> HIDE DEF s
<1>3. p \in Paths /\ p # <<>> /\ f \in DOMAIN scan.listed /\ f \in Paths
  BY <1>1, <1>2 DEF s
<1>4. FolderAt(scan, i - 1) \in Paths
  <2>1. CASE i = 1
    BY <1>2, <2>1 DEF FolderAt
  <2>2. CASE i # 1
    <3>1. i - 1 \in 1..Len(s) /\ i - 1 # 0
      BY <1>1, <2>2 DEF s
    <3>2. FolderAt(scan, i - 1) = IF x \in DOMAIN scan.listed THEN x ELSE Front(x)
      BY <3>1 DEF FolderAt, s
    <3> QED
      BY <1>1, <1>2, <3>1, <3>2
  <2> QED
    BY <2>1, <2>2
<1>5. CASE f = <<>>
  <2>1. Len(<<>>) = 0 /\ Len(FolderAt(scan, i - 1)) \in Nat
    BY <1>4, LenProperties DEF Paths
  <2>2. IsPrefix(<<>>, FolderAt(scan, i - 1))
    <3> DEFINE q == FolderAt(scan, i - 1)
    <3>1. q \in Seq(Names) /\ <<>> \in Seq(Names)
      BY <1>2, <1>4 DEF Paths
    <3>2. Len(<<>>) <= Len(q) /\ \A j \in 1..Len(<<>>) : <<>>[j] = q[j]
      BY <2>1
    <3> HIDE DEF q
    <3>3. IsPrefix(<<>>, q)
      BY <3>1, <3>2, PrefixByElement
    <3> QED
      BY <3>3 DEF q
  <2> QED
    BY <1>4, <1>5, <2>2 DEF s
<1>6. CASE f # <<>>
  <2>1. PICK k \in 1..Len(s) : s[k] = f
    BY <1>1, <1>3, <1>6
  <2>2. <<f, p>> \in PathOrder
    <3>1. IsStrictPrefix(f, p)
      BY <1>3, PrefixOfFront DEF IsStrictPrefix, Paths
    <3> QED
      BY <1>3, <3>1, FolderComesFirst
  <2>3. k < i
    <3>1. f # p /\ <<p, f>> \notin PathOrder
      BY <1>3, <2>2, PathOrderIs DEF IsOrder
    <3>2. i \in 1..Len(s)
      BY DEF s
    <3>3. ~(i < k) /\ k # i
      BY <1>1, <2>1, <3>1, <3>2
    <3> QED
      BY <1>1, <3>2, <3>3
  <2>4. /\ i - 1 \in 1..Len(s) /\ i \in 1..Len(s) /\ i - 1 # 0 /\ i - 1 < i
        /\ k = i - 1 \/ k < i - 1
    <3>1. i \in 1..Len(s)
      BY DEF s
    <3> QED
      BY <1>1, <2>1, <2>3, <3>1
  <2>5. x \in Paths /\ x # <<>> /\ <<x, p>> \in PathOrder /\ (x = f \/ <<f, x>> \in PathOrder)
    BY <1>1, <2>1, <2>4
  <2>6. IsPrefix(f, p)
    BY <1>3, PrefixOfFront DEF Paths
  <2>7. IsPrefix(f, x)
    <3> HIDE DEF f, x, p
    <3> QED
      BY <1>3, <2>5, <2>6, Between
  <2>8. FolderAt(scan, i - 1) = IF x \in DOMAIN scan.listed THEN x ELSE Front(x)
    BY <2>4 DEF FolderAt, s
  <2>9. IsPrefix(f, FolderAt(scan, i - 1))
    <3>1. CASE x \in DOMAIN scan.listed
      BY <2>7, <2>8, <3>1
    <3>2. CASE x \notin DOMAIN scan.listed
      <4>1. x # f
        BY <1>3, <3>2
      <4> HIDE DEF x, f
      <4>2. IsPrefix(f, Front(x))
        BY <1>3, <2>5, <2>7, <4>1, PrefixOfFront DEF Paths
      <4> QED
        BY <2>8, <3>2, <4>2
    <3> QED
      BY <3>1, <3>2
  <2> QED
    BY <1>4, <2>9 DEF s
<1> QED
  BY <1>5, <1>6

(* One item placed below folder q, which has the item's folder above it. *)
LEMMA PlaceOne ==
  ASSUME NEW p \in Paths, p # <<>>, NEW q \in Paths, IsPrefix(Front(p), q), NEW v, NEW w,
         NEW e, e.path = p
  PROVE  PutIn(PlacedOf(Opened(q), v, w), e) =
           IF e.kind = "file" THEN PlacedOf(Opened(Front(p)), v, With(w, p, e.size))
           ELSE PlacedOf(Opened(p), With(v, p, e.kind = "dir"), w)
<1> DEFINE b == PlacedOf(Opened(q), v, w)
           f == Front(p)
           open == SubSeq(b.open, 1, Min({Len(e.path), Len(b.open)}))
<1>1. b.open = Opened(q) /\ b.listed = v /\ b.file = w
  BY DEF PlacedOf
<1>2. b = PlacedOf(b.open, b.listed, b.file)
  <2> HIDE DEF b
  <2> QED
    BY <1>1 DEF b
<1>3. open = Opened(f)
  <2>1. SubSeq(Opened(q), 1, Min({Len(p), Len(Opened(q))})) = Opened(f)
    BY OpenedBack
  <2> HIDE DEF b, f
  <2> QED
    BY <1>1, <2>1
<1>4. Last(Opened(f)) = f /\ Append(f, Last(p)) = p /\ Append(Opened(f), p) = Opened(p)
  BY OpenedMore
<1>5. PutIn(b, e) = PlacedAt(b, e, open)
  <2> HIDE DEF b
  <2> QED
    BY <1>2, PlaceIs
<1>6. PlacedAt(b, e, open) =
        IF e.kind = "file" THEN PlacedOf(open, b.listed, With(b.file, Append(Last(open), Last(e.path)), e.size))
        ELSE PlacedOf(Append(open, Append(Last(open), Last(e.path))),
                      With(b.listed, Append(Last(open), Last(e.path)), e.kind = "dir"), b.file)
  BY Zenon DEF PlacedAt
<1>7. Append(Last(open), Last(e.path)) = p
  <2> HIDE DEF open, f
  <2> QED
    BY <1>3, <1>4
<1> HIDE DEF open, f, b
<1>8. PutIn(b, e) = IF e.kind = "file" THEN PlacedOf(Opened(f), v, With(w, p, e.size))
                    ELSE PlacedOf(Opened(p), With(v, p, e.kind = "dir"), w)
  BY <1>1, <1>3, <1>4, <1>5, <1>6, <1>7
<1> QED
  BY <1>8 DEF b, f

(* What one more item adds to what is placed. *)
LEMMA NextPlaced ==
  ASSUME NEW scan \in Trees, NEW i \in 1..Len(Listing(scan))
  PROVE  LET p == Listing(scan)[i]
             e == EntryAt(scan, i)
         IN /\ e.path = p
            /\ e.kind = "file" =>
                 /\ FolderAt(scan, i) = Front(p) /\ ListedTo(scan, i) = ListedTo(scan, i - 1)
                 /\ FileTo(scan, i) = With(FileTo(scan, i - 1), p, e.size)
            /\ e.kind # "file" =>
                 /\ FolderAt(scan, i) = p /\ FileTo(scan, i) = FileTo(scan, i - 1)
                 /\ ListedTo(scan, i) = With(ListedTo(scan, i - 1), p, e.kind = "dir")
<1> DEFINE p == Listing(scan)[i]
           e == EntryAt(scan, i)
           f == Front(p)
           before == UpTo(scan, i - 1)
<1>1. /\ p \in Paths /\ p # <<>>
      /\ p \in DOMAIN scan.listed <=> p \notin DOMAIN scan.file
      /\ UpTo(scan, i) = before \cup {p}
  BY ListingFacts
<1>2. e.path = p
  BY DEF EntryAt
<1>10. CASE p \in DOMAIN scan.file
  <2>1. e.kind = "file" /\ e.size = scan.file[p]
    BY <1>10 DEF EntryAt, ItemEntry
  <2>2. FolderAt(scan, i) = f
    BY <1>1, <1>10 DEF FolderAt
  <2>3. ListedTo(scan, i) = ListedTo(scan, i - 1)
    <3>1. UpTo(scan, i) \cap DOMAIN scan.listed = before \cap DOMAIN scan.listed
      BY <1>1, <1>10
    <3> QED
      BY <3>1 DEF ListedTo
  <2>4. FileTo(scan, i) = With(FileTo(scan, i - 1), p, scan.file[p])
    <3>1. UpTo(scan, i) \cap DOMAIN scan.file = (before \cap DOMAIN scan.file) \cup {p}
      BY <1>1, <1>10
    <3> DEFINE g == FileTo(scan, i - 1)
               h == FileTo(scan, i)
    <3>2. /\ DOMAIN g = before \cap DOMAIN scan.file /\ \A x \in DOMAIN g : g[x] = scan.file[x]
      BY DEF FileTo
    <3>3. /\ DOMAIN h = (before \cap DOMAIN scan.file) \cup {p} /\ \A x \in DOMAIN h : h[x] = scan.file[x]
      BY <3>1 DEF FileTo
    <3>4. h = [x \in DOMAIN h |-> h[x]]
      BY DEF FileTo
    <3> HIDE DEF g, h, p, before
    <3>5. h = [x \in DOMAIN g \cup {p} |-> IF x = p THEN scan.file[p] ELSE g[x]]
      BY <3>2, <3>3, <3>4
    <3> QED
      BY <3>5 DEF With, g, h
  <2> HIDE DEF e, p, f
  <2> QED
    BY <1>2, <2>1, <2>2, <2>3, <2>4 DEF e, p, f
<1>11. CASE p \notin DOMAIN scan.file
  <2>0. p \in DOMAIN scan.listed /\ scan.listed[p] \in BOOLEAN
    <3>1. scan.listed \in [DOMAIN scan.listed -> BOOLEAN]
      BY DiffAssumption
    <3>2. p \in DOMAIN scan.listed
      BY <1>1, <1>11
    <3> HIDE DEF p
    <3> QED
      BY <3>1, <3>2
  <2>1. e.kind = IF scan.listed[p] THEN "dir" ELSE "unread"
    BY <1>11 DEF EntryAt, ItemEntry
  <2>2. e.kind # "file" /\ (e.kind = "dir") = scan.listed[p]
    <3> HIDE DEF e, p
    <3>1. CASE scan.listed[p] = TRUE
      BY <2>1, <3>1
    <3>2. CASE scan.listed[p] = FALSE
      BY <2>1, <3>2
    <3> QED
      BY <2>0, <3>1, <3>2
  <2>3. FolderAt(scan, i) = p
    BY <2>0 DEF FolderAt
  <2>4. FileTo(scan, i) = FileTo(scan, i - 1)
    <3>1. UpTo(scan, i) \cap DOMAIN scan.file = before \cap DOMAIN scan.file
      BY <1>1, <1>11
    <3> QED
      BY <3>1 DEF FileTo
  <2>5. ListedTo(scan, i) = With(ListedTo(scan, i - 1), p, scan.listed[p])
    <3> DEFINE g == ListedTo(scan, i - 1)
               h == ListedTo(scan, i)
               D == {<<>>} \cup (before \cap DOMAIN scan.listed)
    <3>1. {<<>>} \cup (UpTo(scan, i) \cap DOMAIN scan.listed) = D \cup {p}
      BY <1>1, <2>0
    <3>2. /\ DOMAIN g = D /\ \A x \in DOMAIN g : g[x] = Known(scan)[x]
      BY DEF ListedTo
    <3>3. DOMAIN h = D \cup {p} /\ \A x \in DOMAIN h : h[x] = Known(scan)[x]
      BY <3>1 DEF ListedTo
    <3>4. h = [x \in DOMAIN h |-> h[x]]
      BY DEF ListedTo
    <3>5. Known(scan)[p] = scan.listed[p]
      <4>1. p # <<>> /\ p \in DOMAIN scan.listed
        BY <1>1, <2>0
      <4> HIDE DEF p
      <4> QED
        BY <4>1 DEF Known
    <3> HIDE DEF g, h, p, D
    <3>6. h = [x \in DOMAIN g \cup {p} |-> IF x = p THEN scan.listed[p] ELSE g[x]]
      BY <3>2, <3>3, <3>4, <3>5
    <3> QED
      BY <3>6 DEF With, g, h
  <2>8. With(ListedTo(scan, i - 1), p, e.kind = "dir") = With(ListedTo(scan, i - 1), p, scan.listed[p])
    <3> DEFINE x == e.kind = "dir"
               y == scan.listed[p]
    <3>1. x = y
      BY <2>2
    <3> HIDE DEF x, y, e, p
    <3>2. With(ListedTo(scan, i - 1), p, x) = With(ListedTo(scan, i - 1), p, y)
      BY <3>1
    <3> QED
      BY <3>2 DEF x, y
  <2> HIDE DEF e, p, f
  <2> QED
    BY <1>2, <2>2, <2>3, <2>4, <2>5, <2>8 DEF e, p, f
<1> QED
  BY <1>10, <1>11

-----------------------------------------------------------------------------
(***************************************************************************)
(* Names as they come back.                                                *)
(***************************************************************************)

(* A path has as many names when they are converted, the folder it is in   *)
(* is converted with it, and what is below a folder stays below.           *)
LEMMA ShownIs ==
  ASSUME NEW p \in Paths, Shown(p) \in Paths
  PROVE  /\ Len(Shown(p)) = Len(p) /\ Len(p) \in Nat
         /\ \A k \in 1..Len(p) : Shown(p)[k] = Lossy(p[k])
<1>1. Len(p) \in Nat /\ DOMAIN p = 1..Len(p)
  BY LenProperties DEF Paths
<1>2. DOMAIN Shown(p) = 1..Len(p) /\ \A k \in 1..Len(p) : Shown(p)[k] = Lossy(p[k])
  BY <1>1 DEF Shown
<1>3. Len(Shown(p)) \in Nat /\ DOMAIN Shown(p) = 1..Len(Shown(p))
  BY LenProperties DEF Paths
<1> QED
  BY <1>1, <1>2, <1>3, SameInterval

LEMMA ShownRoot ==
  ASSUME Shown(<<>>) \in Paths
  PROVE  Shown(<<>>) = <<>>
<1>1. <<>> \in Paths /\ Len(<<>>) = 0
  BY EmptySeq DEF Paths
<1>2. Len(Shown(<<>>)) = 0
  BY <1>1, ShownIs
<1> QED
  BY <1>2, EmptySeq DEF Paths

LEMMA ShownFront ==
  ASSUME NEW p \in Paths, p # <<>>, Shown(p) \in Paths, Shown(Front(p)) \in Paths
  PROVE  Shown(p) # <<>> /\ Front(Shown(p)) = Shown(Front(p))
<1> DEFINE f == Front(p)
           s == Shown(p)
           t == Shown(f)
<1>1. f \in Paths /\ Len(f) = Len(p) - 1 /\ Len(p) \in Nat \ {0} /\ \A k \in 1..(Len(p) - 1) : f[k] = p[k]
  BY FrontByElement DEF Paths
<1>2. Len(s) = Len(p) /\ \A k \in 1..Len(p) : s[k] = Lossy(p[k])
  BY ShownIs
<1>3. Len(t) = Len(f) /\ \A k \in 1..Len(f) : t[k] = Lossy(f[k])
  BY <1>1, ShownIs
<1>4. s # <<>>
  BY <1>1, <1>2, EmptySeq
<1>5. s \in Paths /\ t \in Paths
  OBVIOUS
<1> HIDE DEF f, s, t
<1>6. Front(s) \in Paths /\ Len(Front(s)) = Len(s) - 1 /\ \A k \in 1..(Len(s) - 1) : Front(s)[k] = s[k]
  BY <1>4, <1>5, FrontByElement DEF Paths
<1>7. Len(Front(s)) = Len(t) /\ \A k \in 1..Len(Front(s)) : Front(s)[k] = t[k]
  BY <1>1, <1>2, <1>3, <1>6
<1>8. Front(s) = t
  BY <1>5, <1>6, <1>7, SeqEqual DEF Paths
<1> QED
  BY <1>4, <1>8 DEF f, s, t

LEMMA ShownBelow ==
  ASSUME NEW f \in Paths, NEW q \in Paths, IsPrefix(f, q), Shown(f) \in Paths, Shown(q) \in Paths
  PROVE  IsPrefix(Shown(f), Shown(q))
<1>1. Len(f) <= Len(q) /\ \A k \in 1..Len(f) : f[k] = q[k]
  BY PrefixByElement DEF Paths
<1>2. /\ Len(Shown(f)) = Len(f) /\ Len(f) \in Nat /\ \A k \in 1..Len(f) : Shown(f)[k] = Lossy(f[k])
      /\ Len(Shown(q)) = Len(q) /\ Len(q) \in Nat /\ \A k \in 1..Len(q) : Shown(q)[k] = Lossy(q[k])
  BY ShownIs
<1>3. Len(Shown(f)) <= Len(Shown(q)) /\ \A k \in 1..Len(Shown(f)) : Shown(f)[k] = Shown(q)[k]
  BY <1>1, <1>2
<1> QED
  BY <1>3, PrefixByElement DEF Paths

(* Items that stay apart when their names are converted. *)
StayApart(S) == \A p, q \in S : Shown(p) = Shown(q) => p = q

LEMMA AsShownIs ==
  ASSUME NEW f, StayApart(DOMAIN f)
  PROVE  /\ DOMAIN AsShown(f) = {Shown(p) : p \in DOMAIN f}
         /\ \A p \in DOMAIN f : AsShown(f)[Shown(p)] = f[p]
<1>1. ASSUME NEW p \in DOMAIN f PROVE (CHOOSE x \in DOMAIN f : Shown(x) = Shown(p)) = p
  <2>1. \A x \in DOMAIN f : Shown(x) = Shown(p) => x = p
    BY DEF StayApart
  <2> QED
    BY <2>1
<1> QED
  BY <1>1 DEF AsShown

(* A function is told by its values. *)
LEMMA SameAsShown ==
  ASSUME NEW f, StayApart(DOMAIN f), NEW g, g = [q \in DOMAIN g |-> g[q]],
         DOMAIN g = {Shown(p) : p \in DOMAIN f}, \A p \in DOMAIN f : g[Shown(p)] = f[p]
  PROVE  AsShown(f) = g
<1> DEFINE a == AsShown(f)
<1>1. a = [q \in DOMAIN a |-> a[q]]
  BY DEF AsShown
<1>2. DOMAIN a = DOMAIN g /\ \A p \in DOMAIN f : a[Shown(p)] = f[p]
  BY AsShownIs
<1>3. \A q \in DOMAIN g : a[q] = g[q]
  BY <1>2
<1> HIDE DEF a
<1>4. a = g
  BY <1>1, <1>2, <1>3
<1> QED
  BY <1>4 DEF a

LEMMA AsShownWith ==
  ASSUME NEW f, NEW p, NEW v, StayApart(DOMAIN f \cup {p})
  PROVE  AsShown(With(f, p, v)) = With(AsShown(f), Shown(p), v)
<1> DEFINE g == With(f, p, v)
           h == With(AsShown(f), Shown(p), v)
<1>1. DOMAIN g = DOMAIN f \cup {p} /\ \A x \in DOMAIN g : g[x] = IF x = p THEN v ELSE f[x]
  BY DEF With
<1>2. /\ DOMAIN AsShown(f) = {Shown(x) : x \in DOMAIN f}
      /\ \A x \in DOMAIN f : AsShown(f)[Shown(x)] = f[x]
  BY AsShownIs DEF StayApart
<1>3. /\ h = [q \in DOMAIN h |-> h[q]] /\ DOMAIN h = DOMAIN AsShown(f) \cup {Shown(p)}
      /\ \A q \in DOMAIN h : h[q] = IF q = Shown(p) THEN v ELSE AsShown(f)[q]
  BY DEF With
<1> HIDE DEF g, h
<1>4. DOMAIN h = {Shown(x) : x \in DOMAIN g}
  BY <1>1, <1>2, <1>3
<1>5. ASSUME NEW x \in DOMAIN g PROVE h[Shown(x)] = g[x]
  <2>1. x \in DOMAIN f \cup {p} /\ Shown(x) \in DOMAIN h
    BY <1>1, <1>4
  <2>2. CASE x = p
    BY <1>1, <1>3, <2>1, <2>2
  <2>3. CASE x # p
    <3>1. Shown(x) # Shown(p) /\ x \in DOMAIN f
      BY <2>1, <2>3 DEF StayApart
    <3> QED
      BY <1>1, <1>2, <1>3, <2>1, <2>3, <3>1
  <2> QED
    BY <2>2, <2>3
<1>6. StayApart(DOMAIN g)
  BY <1>1
<1>7. AsShown(g) = h
  BY <1>3, <1>4, <1>5, <1>6, SameAsShown
<1> QED
  BY <1>7 DEF g, h

Scanned(scan) == DOMAIN scan.listed \cup DOMAIN scan.file

(* What of a scan has been placed up to its i-th item, with the names that *)
(* come back.                                                              *)
ShownTo(scan, i) ==
  PlacedOf(Opened(Shown(FolderAt(scan, i))), AsShown(ListedTo(scan, i)), AsShown(FileTo(scan, i)))
ShownAt(scan, i) ==
  LET e == EntryAt(scan, i) IN [path |-> Shown(e.path), kind |-> e.kind, size |-> e.size]

LEMMA PlacedItems ==
  ASSUME NEW scan \in Trees, NEW i \in 0..Len(Listing(scan))
  PROVE  /\ DOMAIN ListedTo(scan, i) \subseteq Scanned(scan) /\ DOMAIN FileTo(scan, i) \subseteq Scanned(scan)
         /\ FolderAt(scan, i) \in Scanned(scan)
         /\ i # 0 => Listing(scan)[i] \in Scanned(scan) /\ Front(Listing(scan)[i]) \in Scanned(scan)
<1>1. <<>> \in DOMAIN scan.listed
  BY ScanPaths
<1>2. /\ DOMAIN ListedTo(scan, i) \subseteq Scanned(scan)
      /\ DOMAIN FileTo(scan, i) \subseteq Scanned(scan)
  BY <1>1 DEF ListedTo, FileTo, Scanned
<1>3. ASSUME i # 0
      PROVE  Listing(scan)[i] \in Scanned(scan) /\ Front(Listing(scan)[i]) \in DOMAIN scan.listed
  <2>1. i \in 1..Len(Listing(scan))
    BY <1>3
  <2> QED
    BY <2>1, ListingFacts DEF Scanned
<1>4. FolderAt(scan, i) \in Scanned(scan)
  BY <1>1, <1>3 DEF FolderAt, Scanned
<1> QED
  BY <1>2, <1>3, <1>4 DEF Scanned

LEMMA ItemsAreShown ==
  ASSUME NEW scan \in Trees, NEW p \in Scanned(scan)
  PROVE  p \in Paths /\ Shown(p) \in Paths
BY DiffAssumption DEF Scanned, Paths

(* One more item placed. *)
LEMMA PlaceNext ==
  ASSUME NEW scan \in Trees, StayApart(Scanned(scan)), NEW i \in 1..Len(Listing(scan))
  PROVE  PutIn(ShownTo(scan, i - 1), ShownAt(scan, i)) = ShownTo(scan, i)
<1> DEFINE p == Listing(scan)[i]
           q == FolderAt(scan, i - 1)
           e == EntryAt(scan, i)
           x == ShownAt(scan, i)
           v == AsShown(ListedTo(scan, i - 1))
           w == AsShown(FileTo(scan, i - 1))
<1>1. /\ p \in Paths /\ p # <<>> /\ q \in Paths /\ IsPrefix(Front(p), q) /\ Front(p) \in Paths
      /\ Shown(p) \in Paths /\ Shown(Front(p)) \in Paths /\ Shown(q) \in Paths
      /\ p \in Scanned(scan)
      /\ DOMAIN ListedTo(scan, i - 1) \subseteq Scanned(scan)
      /\ DOMAIN FileTo(scan, i - 1) \subseteq Scanned(scan)
  <2>1. p # <<>> /\ q \in Paths /\ IsPrefix(Front(p), q)
    BY ListingFacts, FolderOpen
  <2>2. Len(Listing(scan)) \in Nat
    BY ListingFacts
  <2>3. i - 1 \in 0..Len(Listing(scan)) /\ i \in 0..Len(Listing(scan)) /\ i # 0
    BY <2>2
  <2>4. /\ q \in Scanned(scan)
        /\ DOMAIN ListedTo(scan, i - 1) \subseteq Scanned(scan)
        /\ DOMAIN FileTo(scan, i - 1) \subseteq Scanned(scan)
    BY <2>3, PlacedItems
  <2>5. p \in Scanned(scan) /\ Front(p) \in Scanned(scan)
    BY <2>3, PlacedItems
  <2> HIDE DEF p, q
  <2> QED
    BY <2>1, <2>4, <2>5, ItemsAreShown
<1>2. /\ e.path = p
      /\ e.kind = "file" =>
           /\ FolderAt(scan, i) = Front(p) /\ ListedTo(scan, i) = ListedTo(scan, i - 1)
           /\ FileTo(scan, i) = With(FileTo(scan, i - 1), p, e.size)
      /\ e.kind # "file" =>
           /\ FolderAt(scan, i) = p /\ FileTo(scan, i) = FileTo(scan, i - 1)
           /\ ListedTo(scan, i) = With(ListedTo(scan, i - 1), p, e.kind = "dir")
  BY NextPlaced
<1>3. x.path = Shown(p) /\ x.kind = e.kind /\ x.size = e.size
  <2> HIDE DEF e
  <2> QED
    BY <1>2 DEF ShownAt, e
<1>4. ShownTo(scan, i - 1) = PlacedOf(Opened(Shown(q)), v, w)
  BY DEF ShownTo
<1> HIDE DEF x, v, w, e, p, q
<1>5. Shown(p) # <<>> /\ Front(Shown(p)) = Shown(Front(p)) /\ IsPrefix(Shown(Front(p)), Shown(q))
  BY <1>1, ShownFront, ShownBelow
<1>6. PutIn(ShownTo(scan, i - 1), x) =
        IF e.kind = "file" THEN PlacedOf(Opened(Shown(Front(p))), v, With(w, Shown(p), e.size))
        ELSE PlacedOf(Opened(Shown(p)), With(v, Shown(p), e.kind = "dir"), w)
  <2>1. PutIn(PlacedOf(Opened(Shown(q)), v, w), x) =
          IF x.kind = "file" THEN PlacedOf(Opened(Front(Shown(p))), v, With(w, Shown(p), x.size))
          ELSE PlacedOf(Opened(Shown(p)), With(v, Shown(p), x.kind = "dir"), w)
    BY <1>1, <1>3, <1>5, PlaceOne
  <2> QED
    BY <1>3, <1>4, <1>5, <2>1
<1>7. CASE e.kind = "file"
  <2>1. AsShown(With(FileTo(scan, i - 1), p, e.size)) = With(w, Shown(p), e.size)
    <3>1. StayApart(DOMAIN FileTo(scan, i - 1) \cup {p})
      BY <1>1 DEF StayApart
    <3> QED
      BY <3>1, AsShownWith DEF w
  <2>2. ShownTo(scan, i) = PlacedOf(Opened(Shown(Front(p))), v, With(w, Shown(p), e.size))
    BY <1>2, <1>7, <2>1 DEF ShownTo, v
  <2> QED
    BY <1>6, <1>7, <2>2 DEF x
<1>8. CASE e.kind # "file"
  <2> DEFINE y == e.kind = "dir"
  <2>1. AsShown(With(ListedTo(scan, i - 1), p, y)) = With(v, Shown(p), y)
    <3>1. StayApart(DOMAIN ListedTo(scan, i - 1) \cup {p})
      BY <1>1 DEF StayApart
    <3> HIDE DEF y
    <3> QED
      BY <3>1, AsShownWith DEF v
  <2>2. FolderAt(scan, i) = p /\ FileTo(scan, i) = FileTo(scan, i - 1)
        /\ ListedTo(scan, i) = With(ListedTo(scan, i - 1), p, y)
    BY <1>2, <1>8
  <2>3. PutIn(ShownTo(scan, i - 1), x) = PlacedOf(Opened(Shown(p)), With(v, Shown(p), y), w)
    BY <1>6, <1>8
  <2> HIDE DEF y
  <2>4. ShownTo(scan, i) = PlacedOf(Opened(Shown(p)), With(v, Shown(p), y), w)
    BY <2>1, <2>2 DEF ShownTo, w
  <2> QED
    BY <2>3, <2>4 DEF x
<1> QED
  BY <1>7, <1>8

LEMMA PlacedAll ==
  ASSUME NEW scan \in Trees, StayApart(Scanned(scan)), NEW entries,
         entries = [i \in 1..Len(Listing(scan)) |-> ShownAt(scan, i)]
  PROVE  FromEntries(entries) = Finished(AsShown(Known(scan)), AsShown(scan.file), FALSE)
<1> DEFINE k == Len(Listing(scan))
           D == DOMAIN scan.listed
           F == DOMAIN scan.file
           run == [i \in 0..k |-> ShownTo(scan, i)]
<1>1. /\ k \in Nat /\ UpTo(scan, 0) = {} /\ UpTo(scan, k) = (D \cup F) \ {<<>>}
      /\ \A i \in 1..k : Listing(scan)[i] \in Paths /\ Listing(scan)[i] # <<>>
  BY ListingFacts
<1>2. /\ <<>> \in D /\ <<>> \notin F /\ D \cap F = {} /\ scan.listed \in [D -> BOOLEAN]
      /\ scan.file \in [F -> Nat]
  BY ScanPaths, DiffAssumption
<1>3. Known(scan) \in [D -> BOOLEAN] /\ Known(scan)[<<>>] = TRUE
  BY <1>2 DEF Known
<1>4. ShownTo(scan, 0) = Nothing
  <2>1. FolderAt(scan, 0) = <<>>
    BY DEF FolderAt
  <2>2. Opened(<<>>) = <<<<>>>>
    <3>1. /\ Opened(<<>>) \in Seq(Paths) /\ Len(Opened(<<>>)) = 1 /\ Opened(<<>>)[1] = SubSeq(<<>>, 1, 1 - 1)
      <4>1. <<>> \in Paths /\ Len(<<>>) = 0
        BY EmptySeq DEF Paths
      <4>2. Opened(<<>>) \in Seq(Paths) /\ Len(Opened(<<>>)) = Len(<<>>) + 1
        BY <4>1, OpenedIs
      <4>3. \A j \in 1..(Len(<<>>) + 1) : Opened(<<>>)[j] = SubSeq(<<>>, 1, j - 1)
        BY <4>1, OpenedIs
      <4>4. 1 \in 1..(Len(<<>>) + 1) /\ Len(<<>>) + 1 = 1
        BY <4>1
      <4> QED
        BY <4>2, <4>3, <4>4
    <3>2. SubSeq(<<>>, 1, 1 - 1) = <<>>
      BY SubSeqProperties
    <3>3. /\ <<<<>>>> \in Seq(Paths) /\ Len(<<<<>>>>) = 1 /\ <<<<>>>>[1] = <<>>
      <4>1. <<>> \in Paths
        BY EmptySeq DEF Paths
      <4> QED
        BY <4>1
    <3>4. \A j \in 1..1 : Opened(<<>>)[j] = <<<<>>>>[j]
      BY <3>1, <3>2, <3>3
    <3> QED
      BY <3>1, <3>3, <3>4, SeqEqual
  <2>3. ListedTo(scan, 0) = [d \in {<<>>} |-> TRUE]
    <3>1. {<<>>} \cup (UpTo(scan, 0) \cap D) = {<<>>}
      BY <1>1
    <3> QED
      BY <1>3, <3>1 DEF ListedTo
  <2>4. FileTo(scan, 0) = <<>>
    <3>1. UpTo(scan, 0) \cap F = {}
      BY <1>1
    <3>2. FileTo(scan, 0) \in [{} -> Nat]
      BY <3>1 DEF FileTo
    <3>3. 1..0 = {} /\ 0 \in Nat
      OBVIOUS
    <3>4. FileTo(scan, 0) \in [1..0 -> Nat]
      BY <3>2, <3>3
    <3>5. FileTo(scan, 0) \in Seq(Nat) /\ Len(FileTo(scan, 0)) = 0
      BY <3>3, <3>4, FunctionIsSeq
    <3> QED
      BY <3>5, EmptySeq
  <2>5. Shown(<<>>) = <<>>
    <3>1. Shown(<<>>) \in Paths
      BY <1>2, ItemsAreShown DEF Scanned
    <3> QED
      BY <3>1, ShownRoot
  <2>6. AsShown([d \in {<<>>} |-> TRUE]) = [d \in {<<>>} |-> TRUE]
    <3> DEFINE f == [d \in {<<>>} |-> TRUE]
    <3>1. DOMAIN f = {<<>>} /\ f[<<>>] = TRUE /\ f = [d \in DOMAIN f |-> f[d]]
      OBVIOUS
    <3> HIDE DEF f
    <3>2. StayApart(DOMAIN f) /\ DOMAIN f = {Shown(p) : p \in DOMAIN f} /\ \A p \in DOMAIN f : f[Shown(p)] = f[p]
      BY <2>5, <3>1 DEF StayApart
    <3> QED
      BY <3>1, <3>2, SameAsShown DEF f
  <2>7. AsShown(FileTo(scan, 0)) = FileTo(scan, 0)
    <3> DEFINE f == FileTo(scan, 0)
    <3>1. f = [d \in DOMAIN f |-> f[d]] /\ DOMAIN f = {}
      BY <1>1 DEF FileTo
    <3> HIDE DEF f
    <3>2. StayApart(DOMAIN f) /\ DOMAIN f = {Shown(p) : p \in DOMAIN f} /\ \A p \in DOMAIN f : f[Shown(p)] = f[p]
      BY <3>1 DEF StayApart
    <3> QED
      BY <3>1, <3>2, SameAsShown DEF f
  <2> QED
    BY <2>1, <2>2, <2>3, <2>4, <2>5, <2>6, <2>7 DEF ShownTo, PlacedOf, Nothing
<1>5. ASSUME NEW i \in 1..k PROVE ShownAt(scan, i) \in PlaceEntry
  <2> DEFINE p == Listing(scan)[i]
             e == ItemEntry("dgs", scan, p)
  <2>1. p \in Paths \ {<<>>}
    BY <1>1
  <2>6. Shown(p) \in Paths /\ Shown(p) # <<>>
    <3>1. i \in 0..k /\ i # 0
      BY <1>1
    <3>2. p \in Scanned(scan) /\ Front(p) \in Scanned(scan)
      BY <3>1, PlacedItems
    <3> HIDE DEF p
    <3> QED
      BY <2>1, <3>2, ItemsAreShown, ShownFront
  <2>2. /\ IsEntries(EntriesIn("dgs", scan)) /\ Len(EntriesIn("dgs", scan)) = k
        /\ EntriesIn("dgs", scan)[i] = e
    <3>1. "dgs" \in {"dgs", "json"} /\ Len(Stream("dgs", scan)) = k /\ Stream("dgs", scan)[i] = p
      BY DEF Listing
    <3>2. /\ IsEntries(EntriesIn("dgs", scan))
          /\ Len(EntriesIn("dgs", scan)) = Len(Stream("dgs", scan)) /\ Len(Stream("dgs", scan)) \in Nat
          /\ \A j \in 1..Len(Stream("dgs", scan)) :
               /\ Stream("dgs", scan)[j] \in ItemsIn("dgs", scan)
               /\ EntriesIn("dgs", scan)[j] = ItemEntry("dgs", scan, Stream("dgs", scan)[j])
      BY <3>1, EntriesAre
    <3> HIDE DEF k
    <3> QED
      BY <3>1, <3>2
  <2>3. e \in EntryType
    <3>1. EntriesIn("dgs", scan) \in Seq(EntryType)
      BY <2>2 DEF IsEntries
    <3>2. EntriesIn("dgs", scan)[i] \in EntryType
      BY <2>2, <3>1, ElementOfSeq
    <3> QED
      BY <2>2, <3>2
  <2>4. e.kind \in {"dir", "unread", "file"} /\ e.size \in Nat
    <3> HIDE DEF e
    <3> QED
      BY <2>3 DEF EntryType
  <2>5. EntryAt(scan, i) = [path |-> p, kind |-> e.kind, size |-> e.size]
    BY DEF EntryAt
  <2> HIDE DEF p, e
  <2> QED
    BY <2>4, <2>5, <2>6 DEF PlaceEntry, ShownAt
<1>6. PlaceRun(entries, k, run)
  <2>1. DOMAIN entries = 1..k /\ \A i \in 1..k : entries[i] = ShownAt(scan, i)
    OBVIOUS
  <2>2. run[0] = Nothing
    BY <1>1, <1>4
  <2>3. \A i \in 1..k : run[i] = ShownTo(scan, i) /\ run[i - 1] = ShownTo(scan, i - 1)
    BY <1>1
  <2> HIDE DEF run
  <2>4. \A i \in 1..k : run[i] = PutIn(run[i - 1], entries[i])
    BY <2>1, <2>3, PlaceNext
  <2> QED
    BY <1>1, <1>5, <2>1, <2>2, <2>4 DEF PlaceRun
<1>7. FromEntries(entries) = Finished(run[k].listed, run[k].file, FALSE)
  <2> HIDE DEF run
  <2> QED
    BY <1>6, FromEntriesRuns
<1>8. run[k].listed = AsShown(ListedTo(scan, k)) /\ run[k].file = AsShown(FileTo(scan, k))
  <2>1. run[k] = ShownTo(scan, k)
    BY <1>1
  <2> HIDE DEF run
  <2> QED
    BY <2>1 DEF ShownTo, PlacedOf
<1>9. ListedTo(scan, k) = Known(scan)
  <2>1. {<<>>} \cup (UpTo(scan, k) \cap D) = D
    BY <1>1, <1>2
  <2>2. Known(scan) = [d \in D |-> Known(scan)[d]]
    BY <1>3
  <2> QED
    BY <2>1, <2>2 DEF ListedTo
<1>10. FileTo(scan, k) = scan.file
  <2>1. UpTo(scan, k) \cap F = F
    BY <1>1, <1>2
  <2>2. scan.file = [f \in F |-> scan.file[f]]
    BY <1>2
  <2> QED
    BY <2>1, <2>2 DEF FileTo
<1> QED
  BY <1>7, <1>8, <1>9, <1>10

LEMMA ToTreeIs ==
  ASSUME NEW scan \in Trees
  PROVE  /\ StayApart(Scanned(scan)) =>
              ToTree(Snap.dgs[scan]) = Finished(AsShown(Known(scan)), AsShown(scan.file), FALSE)
         /\ Decoded(Snap.dgs[scan]) = [i \in 1..Len(Listing(scan)) |-> On(EntriesIn("dgs", scan), i)]
<1> DEFINE snap == Snap.dgs[scan]
           E == EntriesIn("dgs", scan)
           s == Listing(scan)
           k == Len(s)
           entries == Decoded(snap)
<1>1. snap.data = Encoded(E)
  <2>1. "dgs" \in {"dgs", "json"} /\ snap = Snap["dgs"][scan]
    OBVIOUS
  <2>2. Snap["dgs"][scan].data = Encoded(EntriesIn("dgs", scan))
    BY <2>1, SnapIs
  <2> QED
    BY <2>1, <2>2
<1>2. /\ IsEntries(E) /\ Len(E) = k /\ k \in Nat
      /\ \A i \in 1..k : E[i] = ItemEntry("dgs", scan, s[i])
  <2>1. "dgs" \in {"dgs", "json"} /\ Stream("dgs", scan) = s
    BY DEF Listing
  <2>2. /\ IsEntries(EntriesIn("dgs", scan))
        /\ Len(EntriesIn("dgs", scan)) = Len(Stream("dgs", scan)) /\ Len(Stream("dgs", scan)) \in Nat
        /\ \A i \in 1..Len(Stream("dgs", scan)) :
             /\ Stream("dgs", scan)[i] \in ItemsIn("dgs", scan)
             /\ EntriesIn("dgs", scan)[i] = ItemEntry("dgs", scan, Stream("dgs", scan)[i])
    BY <2>1, EntriesAre
  <2> HIDE DEF s
  <2> QED
    BY <2>1, <2>2
<1>3. entries = [i \in 1..k |-> On(E, i)]
  <2> HIDE DEF snap, E, k
  <2>1. entries = [i \in 1..Len(E) |-> On(E, i)]
    BY <1>1, <1>2, DecodedIs
  <2>2. 1..Len(E) = 1..k
    BY <1>2
  <2> HIDE DEF entries
  <2> QED
    BY <2>1, <2>2
<1> DEFINE placed == [i \in DOMAIN entries |->
                        [path |-> PathOfKey(entries[i].key), kind |-> entries[i].kind, size |-> entries[i].size]]
<1>4. ToTree(snap) = FromEntries(placed)
  BY Zenon DEF ToTree
<1>5. placed = [i \in 1..k |-> ShownAt(scan, i)]
  <2>1. ASSUME NEW i \in 1..k
        PROVE  [path |-> PathOfKey(entries[i].key), kind |-> entries[i].kind, size |-> entries[i].size]
                 = ShownAt(scan, i)
    <3> DEFINE e == ItemEntry("dgs", scan, s[i])
    <3>1. entries[i] = On(E, i) /\ E[i] = e
      <4> HIDE DEF entries, E, s, k
      <4> QED
        BY <1>2, <1>3, <2>1
    <3>2. e.key = KeyOf(s[i])
      BY DEF ItemEntry
    <3>3. NamesOf(KeyOf(s[i])) = s[i]
      <4>1. s[i] \in Paths /\ s[i] # <<>>
        BY <2>1, ListingFacts
      <4> HIDE DEF s
      <4> QED
        BY <4>1, NamesOfKey
    <3> HIDE DEF e, entries, E
    <3>4. entries[i].key = e.key /\ entries[i].kind = e.kind /\ entries[i].size = e.size
      BY <3>1 DEF On
    <3>5. NamesOf(entries[i].key) = s[i]
      BY <3>2, <3>3, <3>4
    <3>6. ShownAt(scan, i) = [path |-> Shown(s[i]), kind |-> e.kind, size |-> e.size]
      BY DEF ShownAt, EntryAt, e
    <3>7. PathOfKey(entries[i].key) = Shown(s[i])
      BY <3>5 DEF PathOfKey
    <3> QED
      BY <3>4, <3>6, <3>7
  <2>2. DOMAIN entries = 1..k
    BY <1>3
  <2> HIDE DEF entries, k
  <2>3. placed = [i \in 1..k |-> [path |-> PathOfKey(entries[i].key), kind |-> entries[i].kind,
                                  size |-> entries[i].size]]
    BY <2>2
  <2> QED
    BY <2>1, <2>3
<1>6. StayApart(Scanned(scan)) => FromEntries(placed) = Finished(AsShown(Known(scan)), AsShown(scan.file), FALSE)
  <2> HIDE DEF placed
  <2> QED
    BY <1>5, PlacedAll
<1> HIDE DEF snap, entries, placed
<1> QED
  BY <1>3, <1>4, <1>6 DEF snap, entries

(* A finite set of paths is as finite when their names are converted.      *)
LEMMA ShownFinite ==
  ASSUME NEW S, IsFiniteSet(S)
  PROVE  IsFiniteSet({Shown(p) : p \in S})
<1> DEFINE T == {Shown(p) : p \in S}
           f == [p \in S |-> Shown(p)]
<1>1. f \in [S -> T] /\ \A t \in T : \E p \in S : f[p] = t
  OBVIOUS
<1> HIDE DEF f, T
<1>2. f \in Surjection(S, T)
  BY <1>1, Fun_IsSurj
<1>3. IsFiniteSet(T)
  BY <1>2, FS_Surjection
<1> QED
  BY <1>3 DEF T

(* A scan with its names converted is one too, if its items stay apart.    *)
LEMMA ShownScan ==
  ASSUME NEW scan \in Trees, StayApart(Scanned(scan))
  PROVE  IsScan(AsShown(Known(scan)), AsShown(scan.file), Names)
<1> DEFINE D == DOMAIN scan.listed
           F == DOMAIN scan.file
           K == AsShown(Known(scan))
           G == AsShown(scan.file)
           SD == {Shown(p) : p \in D}
           SF == {Shown(p) : p \in F}
<1>1. /\ IsFiniteSet(D) /\ IsFiniteSet(F)
      /\ <<>> \in D /\ D \cap F = {} /\ \A p \in (D \cup F) \ {<<>>} : Front(p) \in D
      /\ scan.listed \in [D -> BOOLEAN] /\ scan.file \in [F -> Nat]
  BY DiffAssumption
<1>2. \A p \in D \cup F : p \in Paths /\ Shown(p) \in Paths
  BY ItemsAreShown DEF Scanned
<1>3. \A p, q \in D \cup F : Shown(p) = Shown(q) => p = q
  BY DEF StayApart, Scanned
<1>4. DOMAIN Known(scan) = D /\ Known(scan) \in [D -> BOOLEAN]
  BY <1>1 DEF Known
<1>5. DOMAIN K = SD /\ \A p \in D : K[Shown(p)] \in BOOLEAN
  <2>1. StayApart(DOMAIN Known(scan))
    BY <1>3, <1>4 DEF StayApart
  <2>2. DOMAIN K = {Shown(p) : p \in D} /\ \A p \in D : K[Shown(p)] = Known(scan)[p]
    BY <1>4, <2>1, AsShownIs
  <2> QED
    BY <1>4, <2>2
<1>6. DOMAIN G = SF /\ \A p \in F : G[Shown(p)] \in Nat
  <2>1. StayApart(F)
    BY <1>3 DEF StayApart
  <2>2. DOMAIN G = {Shown(p) : p \in F} /\ \A p \in F : G[Shown(p)] = scan.file[p]
    BY <2>1, AsShownIs
  <2> QED
    BY <1>1, <2>2
<1>7. K \in [DOMAIN K -> BOOLEAN]
  <2>1. K = [q \in DOMAIN K |-> K[q]]
    BY DEF AsShown
  <2>2. \A q \in DOMAIN K : K[q] \in BOOLEAN
    BY <1>5
  <2> HIDE DEF K
  <2> QED
    BY <2>1, <2>2
<1>8. \A q \in DOMAIN G : G[q] \in Nat
  BY <1>6
<1>9. IsFiniteSet(SD) /\ IsFiniteSet(SF)
  BY <1>1, ShownFinite
<1>10. SD \cup SF \subseteq Paths
  BY <1>2
<1>11. SD \cap SF = {}
  BY <1>1, <1>3
<1>12. ASSUME NEW q \in SD \cup SF, q # <<>> PROVE Front(q) \in SD
  <2>1. PICK p \in D \cup F : q = Shown(p)
    OBVIOUS
  <2>2. p # <<>>
    BY <1>1, <1>2, <1>12, <2>1, ShownRoot
  <2>3. Front(p) \in D /\ Shown(Front(p)) \in Paths
    BY <1>1, <1>2, <2>2
  <2>4. Front(q) = Shown(Front(p))
    BY <1>2, <2>1, <2>2, <2>3, ShownFront
  <2> QED
    BY <2>3, <2>4
<1>13. <<>> \in SD
  BY <1>1, <1>2, ShownRoot
<1> HIDE DEF K, G, SD, SF
<1> QED
  BY <1>5, <1>6, <1>7, <1>8, <1>9, <1>10, <1>11, <1>12, <1>13 DEF IsScan, IsTree, Paths, K, G

(* What a cancel changes of a folder's totals. *)
LEMMA CutTotals ==
  ASSUME NEW ls, NEW fs, NEW d
  PROVE  [TotalsBelow(ls, fs, FALSE, d) EXCEPT !.complete = FALSE] = TotalsBelow(ls, fs, TRUE, d)
<1> DEFINE all == \A e \in Within(DOMAIN ls, d) : ls[e]
<1>1. TotalsBelow(ls, fs, TRUE, d) =
        [listed   |-> ls[d],
         complete |-> FALSE,
         size     |-> Sum(fs, Within(DOMAIN fs, d)),
         files    |-> Cardinality(Within(DOMAIN fs, d)),
         dirs     |-> Cardinality(Within(DOMAIN ls, d)) - 1]
  <2>1. (~TRUE /\ all) = FALSE
    OBVIOUS
  <2> HIDE DEF all
  <2> QED
    BY Zenon, <2>1 DEF TotalsBelow, all
<1> DEFINE a == ls[d]
           s == Sum(fs, Within(DOMAIN fs, d))
           k == Cardinality(Within(DOMAIN fs, d))
           m == Cardinality(Within(DOMAIN ls, d)) - 1
           c == ~FALSE /\ all
<1>2. TotalsBelow(ls, fs, FALSE, d) = [listed |-> a, complete |-> c, size |-> s, files |-> k, dirs |-> m]
  BY Zenon DEF TotalsBelow
<1>3. TotalsBelow(ls, fs, TRUE, d) = [listed |-> a, complete |-> FALSE, size |-> s, files |-> k, dirs |-> m]
  BY Zenon, <1>1
<1> HIDE DEF a, s, k, m, c
<1> DEFINE r == [listed |-> a, complete |-> c, size |-> s, files |-> k, dirs |-> m]
<1>4. [r EXCEPT !.complete = FALSE] = [listed |-> a, complete |-> FALSE, size |-> s, files |-> k, dirs |-> m]
  <2>1. \A x : [r EXCEPT !.complete = x] = [listed |-> a, complete |-> x, size |-> s, files |-> k, dirs |-> m]
    OBVIOUS
  <2> QED
    BY Zenon, <2>1
<1> QED
  BY Zenon, <1>2, <1>3, <1>4

(* The tree made of a snapshot, marked as the scan was. *)
LEMMA RebuiltIs ==
  ASSUME NEW scan \in Trees, StayApart(Scanned(scan))
  PROVE  Rebuilt[scan] = Finished(AsShown(Known(scan)), AsShown(scan.file), scan.cancelled)
<1> DEFINE K == AsShown(Known(scan))
           F == AsShown(scan.file)
           tree == ToTree(Snap.dgs[scan])
<1>1. Rebuilt[scan] = IF scan.cancelled THEN MarkCancelled(tree) ELSE tree
  BY DEF Rebuilt
<1>2. tree = Finished(K, F, FALSE)
  BY ToTreeIs
<1>3. IsScan(K, F, Names)
  BY ShownScan
<1> HIDE DEF K, F
<1> HIDE DEF tree
<1>4. /\ Finished(K, F, FALSE) = [dir |-> AllBelow(K, F, FALSE), file |-> F, cancelled |-> FALSE]
      /\ Finished(K, F, TRUE) = [dir |-> AllBelow(K, F, TRUE), file |-> F, cancelled |-> TRUE]
  <2>1. \A cut : Finished(K, F, cut) = [dir |-> AllBelow(K, F, cut), file |-> F, cancelled |-> cut]
    BY <1>3, FinishedIs
  <2> QED
    BY Zenon, <2>1
<1>5. CASE scan.cancelled
  <2>1. scan.cancelled = TRUE
    BY <1>5, DiffAssumption
  <2>2. /\ tree.dir = AllBelow(K, F, FALSE)
        /\ tree = [dir |-> AllBelow(K, F, FALSE), file |-> F, cancelled |-> FALSE]
    <3>1. tree = [dir |-> AllBelow(K, F, FALSE), file |-> F, cancelled |-> FALSE]
      BY Zenon, <1>2, <1>4
    <3> QED
      BY <3>1
  <2> DEFINE marked == [d \in DOMAIN tree.dir |-> [tree.dir[d] EXCEPT !.complete = FALSE]]
  <2>3. MarkCancelled(tree) = [dir |-> marked, file |-> F, cancelled |-> TRUE]
    <3>1. MarkCancelled(tree) = [tree EXCEPT !.cancelled = TRUE, !.dir = marked]
      BY Zenon DEF MarkCancelled
    <3> HIDE DEF marked, tree
    <3> QED
      BY <2>2, <3>1
  <2>4. marked = AllBelow(K, F, TRUE)
    <3>1. DOMAIN tree.dir = DOMAIN K /\ \A d \in DOMAIN K : tree.dir[d] = TotalsBelow(K, F, FALSE, d)
      BY <2>2 DEF AllBelow
    <3>2. \A d : [TotalsBelow(K, F, FALSE, d) EXCEPT !.complete = FALSE] = TotalsBelow(K, F, TRUE, d)
      BY CutTotals
    <3> HIDE DEF tree
    <3>3. marked = [d \in DOMAIN K |-> TotalsBelow(K, F, TRUE, d)]
      BY <3>1, <3>2
    <3> QED
      BY <3>3 DEF AllBelow
  <2>5. Finished(K, F, TRUE) = [dir |-> AllBelow(K, F, TRUE), file |-> F, cancelled |-> TRUE]
    BY <1>4
  <2> HIDE DEF tree, marked
  <2> QED
    BY <1>1, <2>1, <2>3, <2>4, <2>5 DEF K, F
<1>6. CASE ~scan.cancelled
  <2>1. scan.cancelled = FALSE
    BY <1>6, DiffAssumption
  <2> QED
    BY <1>1, <1>2, <2>1 DEF K, F
<1> QED
  BY <1>5, <1>6

(* What no conversion changes.                                             *)
LEMMA ShownAsIs ==
  ASSUME NEW f, f = [p \in DOMAIN f |-> f[p]], \A p \in DOMAIN f : Shown(p) = p
  PROVE  AsShown(f) = f
<1>1. StayApart(DOMAIN f)
  BY DEF StayApart
<1>2. DOMAIN f = {Shown(p) : p \in DOMAIN f} /\ \A p \in DOMAIN f : f[Shown(p)] = f[p]
  OBVIOUS
<1> QED
  BY <1>1, <1>2, SameAsShown

LEMMA RoundTripHolds == Compared => RoundTrip
<1> SUFFICES ASSUME Compared
             PROVE  /\ StayApart(Scanned(new)) =>
                         Rebuilt[new] = Finished(AsShown(Known(new)), AsShown(new.file), new.cancelled)
                    /\ (\A p \in Scanned(new) : Shown(p) = p) =>
                         Rebuilt[new] = Finished(Known(new), new.file, new.cancelled)
                    /\ \A i \in 2..Len(Read[new]) : KeyBefore(Read[new][i - 1].key, Read[new][i].key)
  BY DEF RoundTrip, StayApart, Scanned, Known
<1>0. new \in Trees
  BY DEF Compared
<1>1. StayApart(Scanned(new)) =>
        Rebuilt[new] = Finished(AsShown(Known(new)), AsShown(new.file), new.cancelled)
  BY <1>0, RebuiltIs
<1> DEFINE s == Listing(new)
           k == Len(s)
           E == EntriesIn("dgs", new)
<1>2. Read[new] = [i \in 1..k |-> On(E, i)]
  BY <1>0, ToTreeIs DEF Read
<1>3. k \in Nat /\ (\A i \in 1..k : s[i] \in Paths) /\ \A i, j \in 1..k : i < j => <<s[i], s[j]>> \in PathOrder
  BY <1>0, ListingFacts
<1>4. \A i \in 1..k : E[i].key = KeyOf(s[i])
  BY DEF EntriesIn, ItemEntry, Listing
<1>5. Len(Read[new]) = k
  <2> HIDE DEF k, E
  <2> DEFINE f == [i \in 1..k |-> On(E, i)]
  <2>1. f \in [1..k -> {On(E, i) : i \in 1..k}]
    OBVIOUS
  <2> HIDE DEF f
  <2>2. Len(f) = k
    BY <1>3, <2>1, FunctionIsSeq
  <2> QED
    BY <1>2, <2>2 DEF f
<1>6. ASSUME NEW i \in 2..k PROVE KeyBefore(Read[new][i - 1].key, Read[new][i].key)
  <2>1. i \in 1..k /\ i - 1 \in 1..k /\ i - 1 < i
    BY <1>3
  <2> HIDE DEF s, k, E
  <2>2. Read[new][i] = On(E, i) /\ Read[new][i - 1] = On(E, i - 1)
    BY <1>2, <2>1
  <2>3. Read[new][i].key = KeyOf(s[i]) /\ Read[new][i - 1].key = KeyOf(s[i - 1])
    BY <1>4, <2>1, <2>2 DEF On
  <2> QED
    BY <1>3, <2>1, <2>3, KeysOrdered
<1>7. ASSUME \A p \in Scanned(new) : Shown(p) = p
      PROVE  Rebuilt[new] = Finished(Known(new), new.file, new.cancelled)
  <2>1. StayApart(Scanned(new))
    BY <1>7 DEF StayApart
  <2>2. /\ Known(new) = [p \in DOMAIN Known(new) |-> Known(new)[p]]
        /\ DOMAIN Known(new) \subseteq Scanned(new)
        /\ new.file = [p \in DOMAIN new.file |-> new.file[p]]
        /\ DOMAIN new.file \subseteq Scanned(new)
    <3>1. new.listed \in [DOMAIN new.listed -> BOOLEAN] /\ new.file \in [DOMAIN new.file -> Nat]
      BY <1>0, DiffAssumption
    <3> QED
      BY <3>1 DEF Known, Scanned
  <2>3. AsShown(Known(new)) = Known(new) /\ AsShown(new.file) = new.file
    BY <1>7, <2>2, ShownAsIs
  <2> QED
    BY <1>1, <2>1, <2>3
<1> QED
  BY <1>1, <1>5, <1>6, <1>7

(* The tree that from_entries makes of what capture wrote is the tree that *)
(* was captured, with its names converted (so the same one when all of     *)
(* them are UTF-8), if no two items become one by this; and the entries    *)
(* are in the order that diff reads by.                                    *)
THEOREM SnapshotRoundTrip == Spec => []RoundTrip
<1>1. MergeInv => RoundTrip
  BY RoundTripHolds DEF MergeInv
<1> QED
  BY <1>1, DiffMerges, PTL

=============================================================================
