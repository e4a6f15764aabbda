-------------------------- MODULE RemovePathProofs --------------------------
(***************************************************************************)
(* What holds of RemovePath for any disk, any folder scanned, any path     *)
(* removed and any refusals: a removal touches nothing outside its path    *)
(* and leaves a tree, its report is right, and the scan without a path     *)
(* that is gone is the scan of what is left.  The last two rest on what    *)
(* the totals of a scan are: the only solution of the equations by which   *)
(* each folder adds up what is in it is that each has all that is below.   *)
(***************************************************************************)
EXTENDS RemovePath, FiniteSums, SequenceTheorems

-----------------------------------------------------------------------------
(***************************************************************************)
(* Paths as sequences.                                                     *)
(***************************************************************************)

LEMMA PrefixByElement ==
  ASSUME NEW S, NEW s \in Seq(S), NEW t \in Seq(S)
  PROVE  IsPrefix(s, t) <=> Len(s) <= Len(t) /\ \A i \in 1..Len(s) : s[i] = t[i]
<1>1. /\ Len(s) \in Nat /\ Len(t) \in Nat
      /\ \A i \in 1..Len(s) : s[i] \in S
      /\ \A i \in 1..Len(t) : t[i] \in S
  BY LenProperties, ElementOfSeq
<1>2. /\ SubSeq(s, 1, Len(s)) \in Seq(S) /\ Len(SubSeq(s, 1, Len(s))) = Len(s)
      /\ \A i \in 1..Len(s) : SubSeq(s, 1, Len(s))[i] = s[i]
  BY <1>1, SubSeqProperties
<1>3. ASSUME Len(s) <= Len(t)
      PROVE  /\ SubSeq(t, 1, Len(s)) \in Seq(S) /\ Len(SubSeq(t, 1, Len(s))) = Len(s)
             /\ \A i \in 1..Len(s) : SubSeq(t, 1, Len(s))[i] = t[i]
  BY <1>1, <1>3, SubSeqProperties
<1>4. ASSUME Len(s) <= Len(t), \A i \in 1..Len(s) : s[i] = t[i]
      PROVE  SubSeq(s, 1, Len(s)) = SubSeq(t, 1, Len(s))
  BY <1>2, <1>3, <1>4, SeqEqual
<1> QED
  BY <1>2, <1>3, <1>4 DEF IsPrefix

LEMMA FrontByElement ==
  ASSUME NEW S, NEW s \in Seq(S), s # <<>>
  PROVE  /\ Front(s) \in Seq(S) /\ Len(Front(s)) = Len(s) - 1 /\ Len(s) \in Nat \ {0}
         /\ \A i \in 1..(Len(s) - 1) : Front(s)[i] = s[i]
<1>1. Len(s) \in Nat \ {0} /\ \A i \in 1..Len(s) : s[i] \in S
  BY LenProperties, ElementOfSeq, EmptySeq
<1> DEFINE n == Len(s) - 1
<1>2. n \in Nat /\ 1 \in Int /\ n \in Int /\ \A i \in 1..n : s[i] \in S
  BY <1>1
<1>3. Front(s) = SubSeq(s, 1, n)
  BY DEF Front
<1> HIDE DEF n
<1>4. /\ SubSeq(s, 1, n) \in Seq(S)
      /\ Len(SubSeq(s, 1, n)) = IF 1 <= n THEN n - 1 + 1 ELSE 0
      /\ \A i \in 1..n - 1 + 1 : SubSeq(s, 1, n)[i] = s[1 + i - 1]
  BY <1>2, SubSeqProperties
<1>5. Len(SubSeq(s, 1, n)) = n /\ \A i \in 1..n : SubSeq(s, 1, n)[i] = s[i]
  BY <1>2, <1>4
<1> QED
  BY <1>1, <1>3, <1>4, <1>5 DEF n

LEMMA PrefixOrder ==
  ASSUME NEW S, NEW s \in Seq(S), NEW t \in Seq(S)
  PROVE  /\ IsPrefix(s, s)
         /\ IsPrefix(s, t) /\ IsPrefix(t, s) => s = t
         /\ \A u \in Seq(S) : IsPrefix(s, t) /\ IsPrefix(t, u) => IsPrefix(s, u)
<1>1. Len(s) \in Nat /\ Len(t) \in Nat
  BY LenProperties
<1>2. IsPrefix(s, t) /\ IsPrefix(t, s) => s = t
  BY <1>1, PrefixByElement, SeqEqual
<1>3. ASSUME NEW u \in Seq(S), IsPrefix(s, t), IsPrefix(t, u) PROVE IsPrefix(s, u)
  <2>1. Len(u) \in Nat
    BY LenProperties
  <2> QED
    BY <1>1, <1>3, <2>1, PrefixByElement
<1> QED
  BY <1>1, <1>2, <1>3, PrefixByElement

(* What is in an item is below it, and what is below it and is not it is   *)
(* in something that is below it.                                          *)
LEMMA PrefixOfFront ==
  ASSUME NEW S, NEW s \in Seq(S), NEW t \in Seq(S), t # <<>>
  PROVE  /\ IsPrefix(Front(t), t) /\ Front(t) # t
         /\ IsPrefix(s, Front(t)) => IsPrefix(s, t)
         /\ IsPrefix(s, t) /\ s # t => IsPrefix(s, Front(t))
<1>1. /\ Front(t) \in Seq(S) /\ Len(Front(t)) = Len(t) - 1 /\ Len(t) \in Nat \ {0}
      /\ \A i \in 1..(Len(t) - 1) : Front(t)[i] = t[i]
  BY FrontByElement
<1>2. Len(s) \in Nat
  BY LenProperties
<1>3. IsPrefix(Front(t), t) /\ Front(t) # t
  <2>1. Len(Front(t)) <= Len(t) /\ Len(Front(t)) # Len(t)
    BY <1>1
  <2>2. \A i \in 1..Len(Front(t)) : Front(t)[i] = t[i]
    BY <1>1
  <2> QED
    BY <1>1, <2>1, <2>2, PrefixByElement
<1>4. IsPrefix(s, Front(t)) => IsPrefix(s, t)
  BY <1>1, <1>3, PrefixOrder
<1>5. ASSUME IsPrefix(s, t), s # t PROVE IsPrefix(s, Front(t))
  <2>1. Len(s) <= Len(t) /\ \A i \in 1..Len(s) : s[i] = t[i]
    BY <1>5, PrefixByElement
  <2>2. Len(s) # Len(t)
    BY <1>1, <1>5, <2>1, SeqEqual
  <2>3. Len(s) <= Len(Front(t)) /\ \A i \in 1..Len(s) : i \in 1..(Len(t) - 1)
    BY <1>1, <1>2, <2>1, <2>2
  <2>4. \A i \in 1..Len(s) : s[i] = Front(t)[i]
    BY <1>1, <2>1, <2>3
  <2> QED
    BY <1>1, <2>3, <2>4, PrefixByElement
<1> QED
  BY <1>3, <1>4, <1>5

(* Of some paths one is a shortest, and of finitely many a longest. *)
LEMMA Shortest ==
  ASSUME NEW S, NEW T \in SUBSET Seq(S), T # {}
  PROVE  \E q \in T : \A x \in T : Len(q) <= Len(x)
<1> DEFINE L == {Len(q) : q \in T}
<1>1. L \in SUBSET Nat /\ L # {}
  <2>1. \A q \in T : Len(q) \in Nat
    BY LenProperties
  <2> QED
    BY <2>1
<1>2. PICK m \in L : \A x \in L : m <= x
  <2> HIDE DEF L
  <2> QED
    BY <1>1, LeastNat
<1> QED
  BY <1>2

LEMMA Longest ==
  ASSUME NEW S, NEW T \in SUBSET Seq(S), IsFiniteSet(T), T # {}
  PROVE  \E q \in T : \A x \in T : Len(x) <= Len(q)
<1> DEFINE P == {s \in SUBSET T : s = {} \/ \E q \in s : \A x \in s : Len(x) <= Len(q)}
<1>1. ASSUME \E s \in SUBSET T : s \notin P PROVE FALSE
  <2>1. PICK s \in SUBSET T : s \notin P /\ \A t \in SUBSET T : Cardinality(t) < Cardinality(s) => t \in P
    <3>1. \A Q : (\E s \in SUBSET T : s \notin Q) =>
                    \E s \in SUBSET T : /\ s \notin Q
                                        /\ \A t \in SUBSET T : Cardinality(t) < Cardinality(s) => t \in Q
      BY SmallestSet
    <3> HIDE DEF P
    <3> QED
      BY <1>1, <3>1
  <2>2. s # {} /\ IsFiniteSet(s)
    BY <2>1, FS_Subset
  <2> DEFINE y == Pick(s)
             r == s \ {y}
  <2>3. y \in s /\ r \in SUBSET T /\ Cardinality(r) < Cardinality(s)
    <3>1. /\ Pick(s) \in s /\ Cardinality(s) \in Nat
          /\ Cardinality(s \ {Pick(s)}) = Cardinality(s) - 1
      BY <2>2, PickFacts
    <3> QED
      BY <3>1
  <2>4. \A x \in s : Len(x) \in Nat
    BY LenProperties
  <2>5. r = {} \/ \E q \in r : \A x \in r : Len(x) <= Len(q)
    BY <2>1, <2>3
  <2> HIDE DEF y
  <2>6. \E q \in s : \A x \in s : Len(x) <= Len(q)
    <3>1. CASE r = {}
      BY <2>3, <2>4, <3>1
    <3>2. CASE \E q \in r : \A x \in r : Len(x) <= Len(q)
      <4>1. PICK q \in r : \A x \in r : Len(x) <= Len(q)
        BY <3>2
      <4>2. CASE Len(y) <= Len(q)
        BY <4>1, <4>2
      <4>3. CASE ~(Len(y) <= Len(q))
        <5>1. \A x \in r : Len(x) <= Len(y)
          BY <2>3, <2>4, <4>1, <4>3
        <5> QED
          BY <2>3, <2>4, <5>1
      <4> QED
        BY <4>2, <4>3
    <3> QED
      BY <2>5, <3>1, <3>2
  <2> QED
    BY <2>1, <2>6
<1> QED
  BY <1>1

-----------------------------------------------------------------------------
(***************************************************************************)
(* The disk.                                                               *)
(***************************************************************************)

Paths == DOMAIN disk.at
Names == UNION {Range(p) : p \in Paths}

(* The items at and below the path that is removed. *)
AtPath == Within(Paths, rm.path)
FilesAt == {q \in AtPath : ~IsDir(disk, q)}
FoldersAt == {q \in AtPath : IsDir(disk, q)}

LEMMA DiskFacts ==
  ASSUME layout \in Layouts
  PROVE  /\ IsFiniteSet(Paths) /\ Paths \subseteq Seq(Names)
         /\ \A p \in Paths \ {<<>>} : Front(p) \in Paths /\ IsDir(disk, Front(p))
<1> DEFINE d == layout.disk
<1>1. /\ IsFiniteSet(DOMAIN d.at) /\ DOMAIN d.at \subseteq Seq(UNION {Range(p) : p \in DOMAIN d.at})
      /\ \A p \in DOMAIN d.at \ {<<>>} : Front(p) \in DOMAIN d.at /\ IsDir(d, Front(p))
  BY VolumeAssumption
<1> QED
  BY <1>1 DEF Paths, Names, disk

(* In an item that is not a folder there is nothing. *)
LEMMA NothingBelow ==
  ASSUME layout \in Layouts, NEW p \in Paths, ~IsDir(disk, p)
  PROVE  Within(Paths, p) = {p}
<1> DEFINE T == Within(Paths, p) \ {p}
<1>1. p \in Within(Paths, p)
  BY DiskFacts, PrefixOrder DEF Within
<1>2. ASSUME T # {} PROVE FALSE
  <2>1. T \in SUBSET Seq(Names)
    BY DiskFacts DEF Within
  <2>2. PICK q \in T : \A x \in T : Len(q) <= Len(x)
    <3> HIDE DEF T
    <3> QED
      BY <1>2, <2>1, Shortest
  <2>3. q \in Paths /\ q # p /\ IsPrefix(p, q) /\ p \in Seq(Names) /\ q \in Seq(Names)
    BY <2>2, DiskFacts DEF Within
  <2>4. q # <<>>
    <3>1. <<>> \in Seq(Names) /\ Len(<<>>) = 0
      BY EmptySeq
    <3>2. p # <<>> => Len(p) \in Nat \ {0}
      BY <2>3, EmptySeq
    <3>3. IsPrefix(p, <<>>) => Len(p) <= Len(<<>>)
      BY DEF IsPrefix
    <3> QED
      BY <2>3, <3>1, <3>2, <3>3
  <2>5. Front(q) \in Paths /\ IsDir(disk, Front(q)) /\ IsPrefix(p, Front(q))
    BY <2>3, <2>4, DiskFacts, PrefixOfFront
  <2>6. Front(q) \in T
    BY <2>5 DEF Within
  <2>7. Len(Front(q)) = Len(q) - 1 /\ Len(q) \in Nat
    BY <2>3, <2>4, FrontByElement
  <2> QED
    BY <2>2, <2>6, <2>7
<1> QED
  BY <1>1, <1>2 DEF Within

(* What is in an item at or below the path is below the path. *)
LEMMA InPath ==
  ASSUME layout \in Layouts, rm.path \in Paths, NEW q \in Paths, q # <<>>
  PROVE  /\ Front(q) \in AtPath => q \in AtPath
         /\ q \in AtPath /\ q # rm.path => Front(q) \in AtPath
<1>1. q \in Seq(Names) /\ rm.path \in Seq(Names) /\ Front(q) \in Paths
  BY DiskFacts
<1>2. /\ IsPrefix(rm.path, Front(q)) => IsPrefix(rm.path, q)
      /\ IsPrefix(rm.path, q) /\ rm.path # q => IsPrefix(rm.path, Front(q))
  BY <1>1, PrefixOfFront
<1> QED
  BY <1>1, <1>2 DEF AtPath, Within

-----------------------------------------------------------------------------
(***************************************************************************)
(* What is so at every point of a removal.                                 *)
(***************************************************************************)

Early == rm.st \in {"none", "list", "listed"}

(* Of a deletion, the items that were dealt with. *)
Settled ==
  IF rm.st = "files" THEN rm.files \ rm.todo
  ELSE IF rm.st = "dirs" THEN rm.files \cup (rm.dirs \ rm.todo)
  ELSE rm.files \cup rm.dirs

Fields == {"st", "path", "mode", "files", "dirs", "todo", "removed", "bytes", "errors", "refused"}

RemovalType ==
  /\ layout \in Layouts /\ there \subseteq Paths /\ stop \in BOOLEAN
  /\ DOMAIN rm = Fields
  /\ rm.st \in {"none", "list", "listed", "files", "dirs", "done"}
  /\ rm.mode \in {"dry", "trash", "delete"}
  /\ rm.removed \in Nat /\ rm.errors \in Nat /\ rm.refused \in Nat
  /\ rm.st # "none" => rm.path \in Paths
  /\ rm.st \in {"files", "dirs"} => rm.mode = "delete"

(* The listing has items of the path, sorted, and all of them unless it    *)
(* was cancelled; what is still to be done is part of it.                  *)
ListingOK ==
  /\ rm.files \subseteq FilesAt
  /\ rm.dirs \subseteq FoldersAt
  /\ rm.st \in {"none", "list"} => rm.files = {} /\ rm.dirs = {}
  /\ rm.st \notin {"none", "list"} /\ ~stop => rm.files \cup rm.dirs = AtPath
  /\ rm.st = "files" => rm.todo \subseteq rm.files
  /\ rm.st = "dirs" => rm.todo \subseteq rm.dirs

(* Before the first step that removes anything, and in a dry run. *)
Untouched ==
  /\ Early \/ rm.mode = "dry" => there = Paths
  /\ Early => rm.removed = 0 /\ rm.errors = 0 /\ rm.refused = 0

(* What is gone was on the path, and what is left is a tree. *)
Contained ==
  /\ \A p \in Paths \ there : IsPrefix(rm.path, p)
  /\ \A p \in there \ {<<>>} : Front(p) \in there

DeletionOK ==
  rm.mode = "delete" /\ ~Early =>
    /\ Paths \ there \subseteq Settled
    /\ rm.removed = Cardinality(rm.files \ there)
    /\ ~stop => rm.errors = Cardinality(there \cap Settled)
    /\ ~stop /\ rm.refused = 0 => rm.errors = 0

TrashOK ==
  rm.mode = "trash" /\ rm.st = "done" =>
    \/ rm.errors = 0 /\ there = Paths \ AtPath
    \/ rm.errors = 1 /\ rm.refused # 0 /\ there = Paths

RemovalInv == RemovalType /\ ListingOK /\ Untouched /\ Contained /\ DeletionOK /\ TrashOK

LEMMA SameDisk ==
  ASSUME layout' = layout
  PROVE  /\ disk' = disk /\ Paths' = Paths
         /\ rm'.path = rm.path => AtPath' = AtPath /\ FilesAt' = FilesAt /\ FoldersAt' = FoldersAt
<1>1. disk' = disk /\ Paths' = Paths
  BY DEF disk, Paths
<1>2. rm'.path = rm.path => AtPath' = AtPath
  BY <1>1 DEF AtPath
<1> QED
  BY <1>1, <1>2 DEF FilesAt, FoldersAt, IsDir

LEMMA InitKeeps == Init => RemovalInv
<1> SUFFICES ASSUME Init PROVE RemovalInv
  OBVIOUS
<1>1. /\ layout \in Layouts /\ there = Paths /\ stop = FALSE
      /\ rm = [st |-> "none", path |-> <<>>, mode |-> "dry", files |-> {}, dirs |-> {}, todo |-> {},
               removed |-> 0, bytes |-> 0, errors |-> 0, refused |-> 0]
  BY DEF Init, MftInit, RemoveInit, Paths
<1>2. RemovalType
  BY <1>1 DEF RemovalType, Fields
<1>3. ListingOK /\ Untouched /\ DeletionOK /\ TrashOK
  BY <1>1 DEF ListingOK, Untouched, DeletionOK, TrashOK, Early
<1>4. Contained
  BY <1>1, DiskFacts DEF Contained
<1> QED
  BY <1>2, <1>3, <1>4 DEF RemovalInv

LEMMA StartKeeps ==
  ASSUME RemovalInv, StartRemoval, UNCHANGED mftVars
  PROVE  RemovalInv'
<1>1. layout' = layout /\ there' = there /\ stop' = stop /\ rm.st = "none"
  BY DEF StartRemoval, mftVars
<1>2. PICK p \in Targets \cap there, mode \in {"dry", "trash", "delete"} :
        rm' = [rm EXCEPT !.st = "list", !.path = p, !.mode = mode]
  BY DEF StartRemoval
<1>3. /\ rm'.st = "list" /\ rm'.path = p /\ rm'.mode = mode /\ DOMAIN rm' = DOMAIN rm
      /\ rm'.files = rm.files /\ rm'.dirs = rm.dirs /\ rm'.removed = rm.removed
      /\ rm'.errors = rm.errors /\ rm'.refused = rm.refused
  BY <1>2 DEF RemovalInv, RemovalType, Fields
<1>4. disk' = disk /\ Paths' = Paths /\ AtPath' = Within(Paths, p) /\ p \in Paths
  BY <1>1, <1>2, <1>3, SameDisk DEF AtPath, RemovalInv, RemovalType, Fields
<1>5. RemovalType'
  BY <1>1, <1>3, <1>4 DEF RemovalInv, RemovalType, Fields
<1>6. rm.files = {} /\ rm.dirs = {} /\ there = Paths
  BY <1>1 DEF RemovalInv, ListingOK, Untouched, Early
<1>7. ListingOK'
  BY <1>3, <1>6 DEF ListingOK
<1>8. Untouched' /\ DeletionOK' /\ TrashOK'
  BY <1>1, <1>3, <1>4, <1>6 DEF RemovalInv, Untouched, DeletionOK, TrashOK, Early
<1>9. Contained'
  BY <1>1, <1>4, <1>6 DEF RemovalInv, Contained
<1> QED
  BY <1>5, <1>7, <1>8, <1>9 DEF RemovalInv

LEMMA StopKeeps ==
  ASSUME RemovalInv, StopRemoval, UNCHANGED mftVars
  PROVE  RemovalInv'
<1>1. layout' = layout /\ there' = there /\ stop' = TRUE /\ rm' = rm
  BY DEF StopRemoval, mftVars
<1>2. Paths' = Paths /\ AtPath' = AtPath /\ FilesAt' = FilesAt /\ FoldersAt' = FoldersAt
  BY <1>1, SameDisk
<1>3. RemovalType' /\ Untouched' /\ Contained' /\ TrashOK'
  BY <1>1, <1>2 DEF RemovalInv, RemovalType, Fields, Untouched, Contained, TrashOK, Early
<1>4. ListingOK'
  BY <1>1, <1>2 DEF RemovalInv, ListingOK
<1>5. DeletionOK'
  BY <1>1, <1>2 DEF RemovalInv, DeletionOK, Settled, Early
<1> QED
  BY <1>3, <1>4, <1>5 DEF RemovalInv

(* The listing of a folder finds what is below the path. *)
LEMMA FoundByList ==
  ASSUME layout \in Layouts, rm.path \in Paths, there = Paths, IsDir(disk, rm.path),
         NEW read \in SUBSET {d \in Within(there, rm.path) : IsDir(disk, d)}
  PROVE  LET l == ListedBy(rm.path, read)
         IN /\ l.files \subseteq FilesAt
            /\ l.dirs \subseteq FoldersAt
            /\ read = {d \in Within(there, rm.path) : IsDir(disk, d)} => l.files \cup l.dirs = AtPath
<1> DEFINE p == rm.path
           l == ListedBy(p, read)
           found == UNION {Entries(d) : d \in read}
<1>1. \A q : q \in found <=> q \in Paths /\ q # <<>> /\ Front(q) \in read
  BY DEF Entries, In
<1>2. read \subseteq AtPath /\ p \in AtPath
  BY DiskFacts, PrefixOrder DEF AtPath, Within
<1>3. found \subseteq AtPath
  BY <1>1, <1>2, InPath
<1>4. /\ l.dirs = {p} \cup {q \in found : IsDir(disk, q)}
      /\ l.files = {q \in found : ~IsDir(disk, q)}
  BY DEF ListedBy
<1>5. ASSUME read = {d \in Within(there, p) : IsDir(disk, d)}, NEW q \in AtPath, q # p
      PROVE  q \in found
  <2>1. q \in Paths /\ q \in Seq(Names) /\ p \in Seq(Names) /\ IsPrefix(p, q)
    BY DiskFacts DEF AtPath, Within
  <2>2. q # <<>>
    <3>1. Len(<<>>) = 0 /\ (p # <<>> => Len(p) \in Nat \ {0})
      BY <2>1, EmptySeq
    <3>2. IsPrefix(p, <<>>) => Len(p) <= Len(<<>>)
      BY DEF IsPrefix
    <3> QED
      BY <1>5, <2>1, <3>1, <3>2
  <2>3. Front(q) \in AtPath /\ IsDir(disk, Front(q))
    BY <1>5, <2>1, <2>2, InPath, DiskFacts
  <2> QED
    BY <1>1, <1>5, <2>1, <2>2, <2>3 DEF AtPath
<1> HIDE DEF found, l
<1> QED
  BY <1>2, <1>3, <1>4, <1>5 DEF l, FilesAt, FoldersAt

IsListed(r, d, f, b, q) == q = [r EXCEPT !.st = "listed", !.dirs = d, !.files = f, !.bytes = b]

LEMMA ListFields ==
  ASSUME NEW r, DOMAIN r = Fields, NEW d, NEW f, NEW b, NEW q, IsListed(r, d, f, b, q)
  PROVE  /\ q.st = "listed" /\ q.path = r.path /\ q.mode = r.mode /\ DOMAIN q = DOMAIN r
         /\ q.files = f /\ q.dirs = d
         /\ q.removed = r.removed /\ q.errors = r.errors /\ q.refused = r.refused
  BY DEF Fields, IsListed

LEMMA ListKeeps ==
  ASSUME RemovalInv, List, UNCHANGED mftVars
  PROVE  RemovalInv'
<1>1. /\ layout' = layout /\ there' = there /\ stop' = stop /\ rm.st = "list"
      /\ rm.path \in Paths /\ layout \in Layouts /\ there = Paths
  BY DEF List, mftVars, RemovalInv, RemovalType, Fields, Untouched, Early
<1>2. \E l : /\ l.files \subseteq FilesAt
             /\ l.dirs \subseteq FoldersAt
             /\ ~stop => l.files \cup l.dirs = AtPath
             /\ \E b : IsListed(rm, l.dirs, l.files, b, rm')
  <2> DEFINE p == rm.path
             folders == {d \in Within(there, p) : IsDir(disk, d)}
             With(l) == rm' = [rm EXCEPT !.st = "listed", !.dirs = l.dirs, !.files = l.files,
                                         !.bytes = BytesOf(l.files)]
             one == [dirs |-> {}, files |-> {p}]
  <2>1. \/ ~IsDir(disk, p) /\ With(one)
        \/ IsDir(disk, p) /\ ~stop /\ With(ListedBy(p, folders))
        \/ IsDir(disk, p) /\ stop /\ \E read \in SUBSET folders : With(ListedBy(p, read))
    BY DEF List
  <2>2. \A l : With(l) => \E b : IsListed(rm, l.dirs, l.files, b, rm')
    BY DEF IsListed
  <2> HIDE DEF With
  <2>3. CASE ~IsDir(disk, p) /\ With(one)
    <3>1. AtPath = {p}
      BY <1>1, <2>3, NothingBelow DEF AtPath
    <3>2. one.files \subseteq FilesAt /\ one.dirs \subseteq FoldersAt /\ one.files \cup one.dirs = AtPath
      BY <2>3, <3>1 DEF FilesAt, FoldersAt
    <3> HIDE DEF one
    <3> QED
      BY <2>2, <2>3, <3>2
  <2>4. CASE IsDir(disk, p) /\ ~stop /\ With(ListedBy(p, folders))
    <3> DEFINE l == ListedBy(p, folders)
    <3>1. l.files \subseteq FilesAt /\ l.dirs \subseteq FoldersAt /\ l.files \cup l.dirs = AtPath
      BY <1>1, <2>4, FoundByList
    <3> HIDE DEF l
    <3> QED
      BY <2>2, <2>4, <3>1 DEF l
  <2>5. CASE IsDir(disk, p) /\ stop /\ \E read \in SUBSET folders : With(ListedBy(p, read))
    <3>1. PICK read \in SUBSET folders : With(ListedBy(p, read))
      BY <2>5
    <3> DEFINE l == ListedBy(p, read)
    <3>2. l.files \subseteq FilesAt /\ l.dirs \subseteq FoldersAt
      BY <1>1, <2>5, FoundByList
    <3> HIDE DEF l
    <3> QED
      BY <2>2, <2>5, <3>1, <3>2 DEF l
  <2> QED
    BY <2>1, <2>3, <2>4, <2>5, Zenon
<1>3. PICK l, b : /\ l.files \subseteq FilesAt /\ l.dirs \subseteq FoldersAt
                  /\ ~stop => l.files \cup l.dirs = AtPath
                  /\ IsListed(rm, l.dirs, l.files, b, rm')
  BY <1>2
<1>4. /\ rm'.st = "listed" /\ rm'.path = rm.path /\ rm'.mode = rm.mode /\ DOMAIN rm' = DOMAIN rm
      /\ rm'.files = l.files /\ rm'.dirs = l.dirs /\ rm'.removed = rm.removed
      /\ rm'.errors = rm.errors /\ rm'.refused = rm.refused
  <2>1. DOMAIN rm = Fields
    BY DEF RemovalInv, RemovalType, Fields
  <2> QED
    BY <1>3, <2>1, ListFields
<1>5. Paths' = Paths /\ AtPath' = AtPath /\ FilesAt' = FilesAt /\ FoldersAt' = FoldersAt
  BY <1>1, <1>4, SameDisk
<1>6. RemovalType'
  <2>1. RemovalType
    BY DEF RemovalInv
  <2> QED
    BY <1>1, <1>4, <1>5, <2>1 DEF RemovalType, Fields
<1>7. ListingOK'
  <2>0. l.files \subseteq FilesAt /\ l.dirs \subseteq FoldersAt /\ (~stop => l.files \cup l.dirs = AtPath)
    BY <1>3
  <2>1. /\ rm'.files \subseteq FilesAt' /\ rm'.dirs \subseteq FoldersAt'
        /\ ~stop' => rm'.files \cup rm'.dirs = AtPath'
    BY <1>1, <1>4, <1>5, <2>0
  <2> QED
    BY <1>4, <2>1 DEF ListingOK
<1>8. Untouched' /\ DeletionOK' /\ TrashOK' /\ Contained'
  BY <1>1, <1>4, <1>5 DEF RemovalInv, Untouched, DeletionOK, TrashOK, Contained, Early
<1> QED
  BY <1>6, <1>7, <1>8 DEF RemovalInv

(* Steps after the listing keep what it says. *)
SameListing ==
  /\ layout' = layout /\ DOMAIN rm' = DOMAIN rm
  /\ rm'.path = rm.path /\ rm'.mode = rm.mode /\ rm'.files = rm.files /\ rm'.dirs = rm.dirs

LEMMA SamePaths ==
  ASSUME SameListing
  PROVE  Paths' = Paths /\ AtPath' = AtPath /\ FilesAt' = FilesAt /\ FoldersAt' = FoldersAt
  BY SameDisk DEF SameListing

LEMMA DryRunKeeps ==
  ASSUME RemovalInv, DryRun, UNCHANGED mftVars
  PROVE  RemovalInv'
<1>1. there' = there /\ stop' = stop /\ rm.st = "listed" /\ rm.mode = "dry"
  BY DEF DryRun
<1>2. /\ SameListing /\ rm'.st = "done" /\ rm'.removed = rm.removed
      /\ rm'.errors = rm.errors /\ rm'.refused = rm.refused
  BY DEF DryRun, mftVars, SameListing, RemovalInv, RemovalType, Fields
<1>3. Paths' = Paths /\ AtPath' = AtPath /\ FilesAt' = FilesAt /\ FoldersAt' = FoldersAt
  BY <1>2, SamePaths
<1>4. RemovalType'
  BY <1>1, <1>2, <1>3 DEF SameListing, RemovalInv, RemovalType
<1>5. ListingOK'
  BY <1>1, <1>2, <1>3 DEF SameListing, RemovalInv, ListingOK
<1>6. Untouched' /\ Contained' /\ DeletionOK' /\ TrashOK'
  BY <1>1, <1>2, <1>3 DEF SameListing, RemovalInv, Untouched, Contained, DeletionOK, TrashOK, Early
<1> QED
  BY <1>4, <1>5, <1>6 DEF RemovalInv

LEMMA TrashKeeps ==
  ASSUME RemovalInv, Trash, UNCHANGED mftVars
  PROVE  RemovalInv'
<1>1. /\ stop' = stop /\ rm.st = "listed" /\ rm.mode = "trash" /\ layout \in Layouts
      /\ rm.path \in Paths /\ there = Paths /\ rm.errors = 0 /\ rm.refused = 0 /\ rm.removed = 0
  BY DEF Trash, RemovalInv, RemovalType, Untouched, Early
<1>2. rm.files \subseteq AtPath /\ IsFiniteSet(AtPath) /\ Cardinality(rm.files) \in Nat
  <2>1. rm.files \subseteq AtPath /\ AtPath \subseteq Paths
    BY DEF RemovalInv, ListingOK, FilesAt, AtPath, Within
  <2>2. IsFiniteSet(AtPath) /\ IsFiniteSet(rm.files)
    BY <1>1, <2>1, DiskFacts, FS_Subset
  <2> QED
    BY <2>1, <2>2, FS_CardinalityType
<1>3. /\ SameListing /\ rm'.st = "done"
      /\ \/ /\ there' = Paths \ AtPath /\ rm'.errors = 0 /\ rm'.refused = 0
            /\ rm'.removed = Cardinality(rm.files)
         \/ /\ there' = Paths /\ rm'.errors = 1 /\ rm'.refused = 1 /\ rm'.removed = 0
  <2>1. DOMAIN rm = Fields
    BY DEF RemovalInv, RemovalType
  <2>2. there \ Within(there, rm.path) = Paths \ AtPath
    BY <1>1 DEF AtPath
  <2>3. CASE /\ there' = there \ Within(there, rm.path)
             /\ rm' = [rm EXCEPT !.st = "done", !.removed = Cardinality(rm.files)]
    BY <1>1, <2>1, <2>2, <2>3 DEF mftVars, SameListing, Fields
  <2>4. CASE /\ rm.refused < MaxErrors /\ there' = there
             /\ rm' = [rm EXCEPT !.st = "done", !.errors = 1, !.refused = @ + 1]
    BY <1>1, <2>1, <2>4 DEF mftVars, SameListing, Fields
  <2> QED
    BY <2>3, <2>4 DEF Trash
<1>4. Paths' = Paths /\ AtPath' = AtPath /\ FilesAt' = FilesAt /\ FoldersAt' = FoldersAt
  BY <1>3, SamePaths
<1>5. RemovalType'
  BY <1>1, <1>2, <1>3, <1>4 DEF SameListing, RemovalInv, RemovalType
<1>6. ListingOK'
  BY <1>1, <1>3, <1>4 DEF SameListing, RemovalInv, ListingOK
<1>7. Untouched' /\ DeletionOK'
  BY <1>1, <1>3 DEF SameListing, Untouched, DeletionOK, Early
<1>8. TrashOK'
  BY <1>3, <1>4 DEF TrashOK
<1>9. Contained'
  <2>1. CASE there' = Paths
    BY <1>1, <1>3, <1>4, <2>1 DEF SameListing, RemovalInv, Contained
  <2>2. CASE there' = Paths \ AtPath
    <3>1. \A p \in Paths \ there' : IsPrefix(rm.path, p)
      BY <2>2 DEF AtPath, Within
    <3>2. ASSUME NEW p \in there' \ {<<>>} PROVE Front(p) \in there'
      BY <1>1, <2>2, <3>2, InPath, DiskFacts
    <3> QED
      BY <1>3, <1>4, <3>1, <3>2 DEF SameListing, Contained
  <2> QED
    BY <1>3, <2>1, <2>2
<1> QED
  BY <1>5, <1>6, <1>7, <1>8, <1>9 DEF RemovalInv

(* A deletion begins with the files. *)
LEMMA StartUnlinkingKeeps ==
  ASSUME RemovalInv, StartUnlinking, UNCHANGED mftVars
  PROVE  RemovalInv'
<1>1. /\ there' = there /\ stop' = stop /\ rm.st = "listed" /\ rm.mode = "delete"
      /\ there = Paths /\ rm.errors = 0 /\ rm.refused = 0 /\ rm.removed = 0
  BY DEF StartUnlinking, RemovalInv, Untouched, Early
<1>2. /\ SameListing /\ rm'.st = "files" /\ rm'.todo = rm.files /\ rm'.removed = 0
      /\ rm'.errors = 0 /\ rm'.refused = 0
  BY <1>1 DEF StartUnlinking, mftVars, SameListing, RemovalInv, RemovalType, Fields
<1>3. Paths' = Paths /\ AtPath' = AtPath /\ FilesAt' = FilesAt /\ FoldersAt' = FoldersAt
  BY <1>2, SamePaths
<1>4. RemovalType'
  BY <1>1, <1>2, <1>3 DEF SameListing, RemovalInv, RemovalType
<1>5. ListingOK'
  BY <1>1, <1>2, <1>3 DEF SameListing, RemovalInv, ListingOK
<1>6. Untouched' /\ Contained' /\ TrashOK'
  BY <1>1, <1>2, <1>3 DEF SameListing, RemovalInv, Untouched, Contained, TrashOK, Early
<1>7. DeletionOK'
  <2>1. Settled' = {} /\ rm.files \subseteq there
    BY <1>1, <1>2 DEF Settled, SameListing, RemovalInv, ListingOK, FilesAt, AtPath, Within
  <2>2. rm'.files \ there' = {} /\ there' \cap Settled' = {} /\ Paths' \ there' = {}
    BY <1>1, <1>2, <1>3, <2>1 DEF SameListing
  <2> QED
    BY <1>2, <2>2, FS_EmptySet DEF DeletionOK
<1> QED
  BY <1>4, <1>5, <1>6, <1>7 DEF RemovalInv

LEMMA ListedFinite ==
  ASSUME RemovalInv, rm.st # "none"
  PROVE  /\ rm.files \subseteq Paths /\ rm.dirs \subseteq Paths /\ rm.files \cap rm.dirs = {}
         /\ \A s \in SUBSET Paths : IsFiniteSet(s) /\ Cardinality(s) \in Nat
<1>1. layout \in Layouts
  BY DEF RemovalInv, RemovalType
<1>2. rm.files \subseteq Paths /\ rm.dirs \subseteq Paths /\ rm.files \cap rm.dirs = {}
  BY DEF RemovalInv, ListingOK, FilesAt, FoldersAt, AtPath, Within
<1>3. \A s \in SUBSET Paths : IsFiniteSet(s) /\ Cardinality(s) \in Nat
  BY <1>1, DiskFacts, FS_Subset, FS_CardinalityType
<1> QED
  BY <1>2, <1>3

LEMMA UnlinkKeeps ==
  ASSUME RemovalInv, Unlink, UNCHANGED mftVars
  PROVE  RemovalInv'
<1>1. /\ stop' = stop /\ rm.st = "files" /\ rm.mode = "delete" /\ layout \in Layouts /\ there \subseteq Paths
      /\ rm.path \in Paths /\ rm.errors \in Nat /\ rm.refused \in Nat /\ rm.removed \in Nat
  BY DEF Unlink, RemovalInv, RemovalType
<1>2. PICK f \in rm.todo :
        \/ /\ stop
           /\ rm' = [rm EXCEPT !.todo = @ \ {f}] /\ there' = there
        \/ /\ ~stop
           /\ there' = there \ {f}
           /\ rm' = [rm EXCEPT !.todo = @ \ {f}, !.removed = @ + 1]
        \/ /\ ~stop /\ rm.refused < MaxErrors
           /\ rm' = [rm EXCEPT !.todo = @ \ {f}, !.errors = @ + 1, !.refused = @ + 1]
           /\ there' = there
  BY DEF Unlink
<1>3. /\ SameListing /\ rm'.st = "files" /\ rm'.todo = rm.todo \ {f}
      /\ \/ /\ stop /\ there' = there
            /\ rm'.removed = rm.removed /\ rm'.errors = rm.errors /\ rm'.refused = rm.refused
         \/ /\ ~stop /\ there' = there \ {f}
            /\ rm'.removed = rm.removed + 1 /\ rm'.errors = rm.errors /\ rm'.refused = rm.refused
         \/ /\ ~stop /\ there' = there
            /\ rm'.removed = rm.removed /\ rm'.errors = rm.errors + 1 /\ rm'.refused = rm.refused + 1
  <2>1. DOMAIN rm = Fields
    BY DEF RemovalInv, RemovalType
  <2>2. CASE stop /\ there' = there /\ rm' = [rm EXCEPT !.todo = @ \ {f}]
    BY <1>1, <2>1, <2>2 DEF mftVars, SameListing, Fields
  <2>3. CASE /\ ~stop /\ there' = there \ {f}
             /\ rm' = [rm EXCEPT !.todo = @ \ {f}, !.removed = @ + 1]
    BY <1>1, <2>1, <2>3 DEF mftVars, SameListing, Fields
  <2>4. CASE /\ ~stop /\ there' = there
             /\ rm' = [rm EXCEPT !.todo = @ \ {f}, !.errors = @ + 1, !.refused = @ + 1]
    BY <1>1, <2>1, <2>4 DEF mftVars, SameListing, Fields
  <2> QED
    BY <1>2, <2>2, <2>3, <2>4
<1>4. Paths' = Paths /\ AtPath' = AtPath /\ FilesAt' = FilesAt /\ FoldersAt' = FoldersAt
  BY <1>3, SamePaths
<1>5. /\ rm.todo \subseteq rm.files /\ rm.files \subseteq FilesAt
      /\ Paths \ there \subseteq rm.files \ rm.todo
  BY <1>1 DEF RemovalInv, ListingOK, DeletionOK, Settled, Early
<1>6. f \in there /\ f \in rm.files /\ f \in AtPath /\ ~IsDir(disk, f)
  BY <1>5 DEF FilesAt, AtPath, Within
<1>7. RemovalType'
  BY <1>1, <1>3, <1>4 DEF SameListing, RemovalInv, RemovalType
<1>8. ListingOK'
  BY <1>1, <1>3, <1>4 DEF SameListing, RemovalInv, ListingOK
<1>9. Untouched' /\ TrashOK'
  BY <1>1, <1>3 DEF SameListing, Untouched, TrashOK, Early
<1>10. Contained'
  <2>1. \A p \in Paths \ there' : IsPrefix(rm.path, p)
    BY <1>3, <1>6 DEF RemovalInv, Contained, AtPath, Within
  <2>2. ASSUME NEW p \in there' \ {<<>>} PROVE Front(p) \in there'
    <3>1. Front(p) \in there /\ IsDir(disk, Front(p))
      BY <1>1, <1>3, <2>2, DiskFacts DEF RemovalInv, Contained
    <3> QED
      BY <1>3, <1>6, <3>1
  <2> QED
    BY <1>3, <1>4, <2>1, <2>2 DEF SameListing, Contained
<1>11. DeletionOK'
  <2>1. /\ rm.files \subseteq Paths
        /\ \A s \in SUBSET Paths : IsFiniteSet(s) /\ Cardinality(s) \in Nat
    BY <1>1, ListedFinite
  <2>2. Settled = rm.files \ rm.todo /\ Settled' = Settled \cup {f} /\ f \notin Settled
    BY <1>1, <1>3, <1>6 DEF Settled, SameListing
  <2>3. /\ rm.removed = Cardinality(rm.files \ there)
        /\ ~stop => rm.errors = Cardinality(there \cap Settled)
        /\ ~stop /\ rm.refused = 0 => rm.errors = 0
    BY <1>1 DEF RemovalInv, DeletionOK, Early
  <2>4. Paths' \ there' \subseteq Settled'
    BY <1>3, <1>4, <1>5, <2>2
  <2>5. rm'.removed = Cardinality(rm'.files \ there')
    <3>1. CASE there' = there /\ rm'.removed = rm.removed
      BY <1>3, <2>3, <3>1 DEF SameListing
    <3>2. CASE there' = there \ {f} /\ rm'.removed = rm.removed + 1
      <4>1. rm.files \ there' = (rm.files \ there) \cup {f} /\ f \notin rm.files \ there
        BY <1>6, <3>2
      <4>2. Cardinality(rm.files \ there') = Cardinality(rm.files \ there) + 1
        BY <2>1, <4>1, FS_AddElement
      <4> QED
        BY <1>3, <2>3, <3>2, <4>2 DEF SameListing
    <3> QED
      BY <1>3, <3>1, <3>2
  <2>6. ~stop' => /\ rm'.errors = Cardinality(there' \cap Settled')
                  /\ rm'.refused = 0 => rm'.errors = 0
    <3>1. CASE ~stop /\ there' = there \ {f} /\ rm'.errors = rm.errors /\ rm'.refused = rm.refused
      <4>1. there' \cap Settled' = there \cap Settled
        BY <2>2, <3>1
      <4> QED
        BY <1>1, <2>3, <3>1, <4>1
    <3>2. CASE ~stop /\ there' = there /\ rm'.errors = rm.errors + 1 /\ rm'.refused = rm.refused + 1
      <4>1. there' \cap Settled' = (there \cap Settled) \cup {f} /\ f \notin there \cap Settled
        BY <1>6, <2>2, <3>2
      <4>2. Cardinality(there' \cap Settled') = Cardinality(there \cap Settled) + 1
        BY <1>1, <2>1, <4>1, FS_AddElement
      <4> QED
        BY <1>1, <2>3, <3>2, <4>2
    <3> QED
      BY <1>1, <1>3, <3>1, <3>2
  <2> QED
    BY <2>4, <2>5, <2>6 DEF DeletionOK
<1> QED
  BY <1>7, <1>8, <1>9, <1>10, <1>11 DEF RemovalInv

(* Every file was dealt with, and the folders are next. *)
LEMMA StartRmdirKeeps ==
  ASSUME RemovalInv, StartRmdir, UNCHANGED mftVars
  PROVE  RemovalInv'
<1>1. there' = there /\ stop' = stop /\ rm.st = "files" /\ rm.todo = {} /\ rm.mode = "delete"
  BY DEF StartRmdir, RemovalInv, RemovalType
<1>2. /\ SameListing /\ rm'.st = "dirs" /\ rm'.todo = rm.dirs /\ rm'.removed = rm.removed
      /\ rm'.errors = rm.errors /\ rm'.refused = rm.refused
  BY DEF StartRmdir, mftVars, SameListing, RemovalInv, RemovalType, Fields
<1>3. Paths' = Paths /\ AtPath' = AtPath /\ FilesAt' = FilesAt /\ FoldersAt' = FoldersAt
  BY <1>2, SamePaths
<1>4. RemovalType'
  BY <1>1, <1>2, <1>3 DEF SameListing, RemovalInv, RemovalType
<1>5. ListingOK'
  BY <1>1, <1>2, <1>3 DEF SameListing, RemovalInv, ListingOK
<1>6. Untouched' /\ Contained' /\ TrashOK'
  BY <1>1, <1>2, <1>3 DEF SameListing, RemovalInv, Untouched, Contained, TrashOK, Early
<1>7. DeletionOK'
  <2>1. Settled' = Settled
    BY <1>1, <1>2 DEF Settled, SameListing
  <2> QED
    BY <1>1, <1>2, <1>3, <2>1 DEF SameListing, RemovalInv, DeletionOK, Early
<1> QED
  BY <1>4, <1>5, <1>6, <1>7 DEF RemovalInv

LEMMA EndKeeps ==
  ASSUME RemovalInv, RemovalEnds, UNCHANGED mftVars
  PROVE  RemovalInv'
<1>1. there' = there /\ stop' = stop /\ rm.st = "dirs" /\ rm.todo = {} /\ rm.mode = "delete"
  BY DEF RemovalEnds, RemovalInv, RemovalType
<1>2. /\ SameListing /\ rm'.st = "done" /\ rm'.todo = rm.todo /\ rm'.removed = rm.removed
      /\ rm'.errors = rm.errors /\ rm'.refused = rm.refused
  BY DEF RemovalEnds, mftVars, SameListing, RemovalInv, RemovalType, Fields
<1>3. Paths' = Paths /\ AtPath' = AtPath /\ FilesAt' = FilesAt /\ FoldersAt' = FoldersAt
  BY <1>2, SamePaths
<1>4. RemovalType'
  BY <1>1, <1>2, <1>3 DEF SameListing, RemovalInv, RemovalType
<1>5. ListingOK'
  BY <1>1, <1>2, <1>3 DEF SameListing, RemovalInv, ListingOK
<1>6. Untouched' /\ Contained' /\ TrashOK'
  BY <1>1, <1>2, <1>3 DEF SameListing, RemovalInv, Untouched, Contained, TrashOK, Early
<1>7. DeletionOK'
  <2>1. Settled' = Settled
    BY <1>1, <1>2 DEF Settled, SameListing
  <2> QED
    BY <1>1, <1>2, <1>3, <2>1 DEF SameListing, RemovalInv, DeletionOK, Early
<1> QED
  BY <1>4, <1>5, <1>6, <1>7 DEF RemovalInv

LEMMA UnionApart ==
  ASSUME NEW S, NEW T, IsFiniteSet(S), IsFiniteSet(T), S \cap T = {}
  PROVE  Cardinality(S \cup T) = Cardinality(S) + Cardinality(T)
<1>1. Cardinality(S) \in Nat /\ Cardinality(T) \in Nat /\ Cardinality(S \cap T) = 0
  BY FS_CardinalityType, FS_EmptySet
<1>2. Cardinality(S \cup T) = Cardinality(S) + Cardinality(T) - Cardinality(S \cap T)
  BY FS_Union
<1> QED
  BY <1>1, <1>2

(* As long as nothing was refused, the deepest folders left are empty.     *)
LEMMA DeepestAreEmpty ==
  ASSUME RemovalInv, rm.st = "dirs", ~stop, rm.refused = 0, NEW d \in Level(rm.todo)
  PROVE  In(there, d) = {}
<1>1. /\ layout \in Layouts /\ rm.path \in Paths /\ rm.mode = "delete" /\ there \subseteq Paths
      /\ rm.files \cup rm.dirs = AtPath /\ rm.todo \subseteq rm.dirs
  BY DEF RemovalInv, RemovalType, ListingOK
<1>2. there \cap Settled = {}
  <2>1. Cardinality(there \cap Settled) = 0
    BY <1>1 DEF RemovalInv, DeletionOK, Early
  <2> QED
    BY <1>1, <2>1, ListedFinite, FS_EmptySet
<1>3. there \cap AtPath \subseteq rm.todo
  BY <1>1, <1>2 DEF Settled
<1>4. ASSUME NEW x \in In(there, d) PROVE FALSE
  <2>1. x \in there /\ x # <<>> /\ Front(x) = d /\ x \in Seq(Names)
    BY <1>1, <1>4, DiskFacts DEF In
  <2>2. d \in AtPath
    BY <1>1 DEF Level
  <2>3. x \in rm.todo
    BY <1>1, <1>3, <2>1, <2>2, InPath
  <2>4. Len(d) >= Len(x)
    BY <2>3 DEF Level
  <2>5. Len(d) = Len(x) - 1 /\ Len(x) \in Nat
    BY <2>1, FrontByElement
  <2> QED
    BY <2>4, <2>5
<1> QED
  BY <1>4

LEMMA LevelKeeps ==
  ASSUME RemovalInv, RemoveLevel, UNCHANGED mftVars
  PROVE  RemovalInv'
<1> DEFINE level == Level(rm.todo)
           empty == {d \in level : In(there, d) = {}}
<1>1. /\ stop' = stop /\ rm.st = "dirs" /\ rm.mode = "delete" /\ layout \in Layouts /\ there \subseteq Paths
      /\ rm.path \in Paths /\ rm.errors \in Nat /\ rm.refused \in Nat /\ rm.removed \in Nat
  BY DEF RemoveLevel, RemovalInv, RemovalType
<1>2. PICK gone \in SUBSET empty :
        /\ there' = there \ gone
        /\ rm' = [rm EXCEPT !.todo = @ \ level, !.errors = @ + Cardinality(level \ gone),
                            !.refused = @ + Cardinality(empty \ gone)]
  BY DEF RemoveLevel
<1>3. /\ SameListing /\ rm'.st = "dirs" /\ rm'.todo = rm.todo \ level /\ rm'.removed = rm.removed
      /\ rm'.errors = rm.errors + Cardinality(level \ gone)
      /\ rm'.refused = rm.refused + Cardinality(empty \ gone)
  <2>1. DOMAIN rm = Fields
    BY DEF RemovalInv, RemovalType
  <2> HIDE DEF level, empty
  <2> QED
    BY <1>1, <1>2, <2>1 DEF mftVars, SameListing, Fields
<1>4. Paths' = Paths /\ AtPath' = AtPath /\ FilesAt' = FilesAt /\ FoldersAt' = FoldersAt
  BY <1>3, SamePaths
<1>5. /\ rm.todo \subseteq rm.dirs /\ rm.dirs \subseteq FoldersAt
      /\ Paths \ there \subseteq Settled /\ Settled = rm.files \cup (rm.dirs \ rm.todo)
  BY <1>1 DEF RemovalInv, ListingOK, DeletionOK, Settled, Early
<1>6. /\ rm.files \subseteq Paths /\ rm.dirs \subseteq Paths /\ rm.files \cap rm.dirs = {}
      /\ \A s \in SUBSET Paths : IsFiniteSet(s) /\ Cardinality(s) \in Nat
  BY <1>1, ListedFinite
<1>7. level \subseteq rm.todo /\ level \subseteq there /\ level \subseteq AtPath /\ gone \subseteq level
  <2>1. level \subseteq rm.todo
    BY DEF Level
  <2>2. rm.todo \subseteq Paths /\ rm.todo \cap Settled = {}
    BY <1>5, <1>6
  <2> QED
    BY <2>1, <2>2, <1>5 DEF FoldersAt
<1>8. RemovalType'
  <2>1. Cardinality(level \ gone) \in Nat /\ Cardinality(empty \ gone) \in Nat
    BY <1>5, <1>6, <1>7
  <2> HIDE DEF level, empty
  <2> QED
    BY <1>1, <1>2, <1>3, <1>4, <2>1 DEF SameListing, RemovalInv, RemovalType
<1>9. ListingOK'
  <2> HIDE DEF level
  <2> QED
    BY <1>1, <1>3, <1>4 DEF SameListing, RemovalInv, ListingOK
<1>10. Untouched' /\ TrashOK'
  BY <1>1, <1>3 DEF SameListing, Untouched, TrashOK, Early
<1>11. Contained'
  <2>1. \A p \in Paths \ there' : IsPrefix(rm.path, p)
    BY <1>2, <1>7 DEF RemovalInv, Contained, AtPath, Within
  <2>2. ASSUME NEW p \in there' \ {<<>>} PROVE Front(p) \in there'
    <3>1. Front(p) \in there /\ p \in In(there, Front(p))
      BY <1>2, <2>2 DEF RemovalInv, Contained, In
    <3>2. Front(p) \notin empty
      BY <3>1
    <3> QED
      BY <1>2, <3>1, <3>2
  <2> QED
    BY <1>3, <1>4, <2>1, <2>2 DEF SameListing, Contained
<1>12. DeletionOK'
  <2>1. Settled' = Settled \cup level /\ level \cap Settled = {}
    <3>1. Settled' = rm.files \cup (rm.dirs \ (rm.todo \ level))
      BY <1>3 DEF Settled, SameListing
    <3> QED
      BY <1>5, <1>6, <1>7, <3>1
  <2>2. /\ rm.removed = Cardinality(rm.files \ there)
        /\ ~stop => rm.errors = Cardinality(there \cap Settled)
        /\ ~stop /\ rm.refused = 0 => rm.errors = 0
    BY <1>1 DEF RemovalInv, DeletionOK, Early
  <2>3. Paths' \ there' \subseteq Settled'
    BY <1>2, <1>4, <1>5, <1>7, <2>1
  <2>4. rm'.removed = Cardinality(rm'.files \ there')
    <3>1. rm.files \ there' = rm.files \ there
      BY <1>2, <1>5, <1>6, <1>7
    <3> QED
      BY <1>3, <2>2, <3>1 DEF SameListing
  <2>5. there' \cap Settled' = (there \cap Settled) \cup (level \ gone)
    BY <1>2, <1>7, <2>1
  <2>6. ~stop => rm'.errors = Cardinality(there' \cap Settled')
    <3>1. /\ IsFiniteSet(there \cap Settled) /\ IsFiniteSet(level \ gone)
          /\ (there \cap Settled) \cap (level \ gone) = {}
      BY <1>1, <1>6, <1>7, <2>1
    <3>2. Cardinality(there' \cap Settled') = Cardinality(there \cap Settled) + Cardinality(level \ gone)
      BY <2>5, <3>1, UnionApart
    <3> QED
      BY <1>3, <2>2, <3>2
  <2>7. ASSUME ~stop, rm'.refused = 0 PROVE rm'.errors = 0
    <3>1. Cardinality(empty \ gone) \in Nat /\ IsFiniteSet(empty \ gone)
      BY <1>1, <1>6, <1>7
    <3>2. rm.refused = 0 /\ Cardinality(empty \ gone) = 0
      BY <1>1, <1>3, <2>7, <3>1
    <3>3. empty \ gone = {}
      BY <3>1, <3>2, FS_EmptySet
    <3>4. empty = level
      BY <1>1, <2>7, <3>2, DeepestAreEmpty
    <3>5. Cardinality(level \ gone) = 0
      BY <3>3, <3>4, FS_EmptySet
    <3> QED
      BY <1>3, <2>2, <2>7, <3>2, <3>5
  <2> QED
    BY <1>1, <2>3, <2>4, <2>6, <2>7 DEF DeletionOK
<1> QED
  BY <1>8, <1>9, <1>10, <1>11, <1>12 DEF RemovalInv

LEMMA NextKeeps == RemovalInv /\ [Next]_vars => RemovalInv'
<1> SUFFICES ASSUME RemovalInv, [Next]_vars PROVE RemovalInv'
  OBVIOUS
<1>1. ASSUME layout' = layout, UNCHANGED rmVars PROVE RemovalInv'
  <2>1. there' = there /\ rm' = rm /\ stop' = stop
    BY <1>1 DEF rmVars
  <2>2. Paths' = Paths /\ AtPath' = AtPath /\ FilesAt' = FilesAt /\ FoldersAt' = FoldersAt
    BY <1>1, <2>1, SameDisk
  <2>3. RemovalType' /\ ListingOK' /\ Untouched'
    BY <1>1, <2>1, <2>2 DEF RemovalInv, RemovalType, ListingOK, Untouched, Early
  <2>4. Contained' /\ TrashOK'
    BY <2>1, <2>2 DEF RemovalInv, Contained, TrashOK
  <2>5. DeletionOK'
    BY <2>1, <2>2 DEF RemovalInv, DeletionOK, Early, Settled
  <2> QED
    BY <2>3, <2>4, <2>5 DEF RemovalInv
<1>2. CASE MftNext /\ UNCHANGED rmVars
  <2>1. layout' = layout
    BY <1>2 DEF MftNext, Cancel, ReadChunk, ReadFails, Index, VisitDir, EmitDir, AddDir, WalkCloud, MftEnds
  <2> QED
    BY <1>1, <1>2, <2>1
<1>3. CASE UNCHANGED vars
  BY <1>1, <1>3 DEF vars, mftVars
<1>4. CASE RemoveNext /\ UNCHANGED mftVars
  BY <1>4, StartKeeps, StopKeeps, ListKeeps, DryRunKeeps, TrashKeeps, StartUnlinkingKeeps, UnlinkKeeps,
     StartRmdirKeeps, LevelKeeps, EndKeeps, Zenon DEF RemoveNext
<1> QED
  BY <1>2, <1>3, <1>4 DEF Next

(* What the removal rests on holds of every disk, path and order: what is  *)
(* listed, what went, what was counted.                                    *)
THEOREM RemovalIsSound == Spec => []RemovalInv
<1> QED
  BY InitKeeps, NextKeeps, PTL DEF Spec

-----------------------------------------------------------------------------
(***************************************************************************)
(* What follows for the user.                                              *)
(***************************************************************************)

(* A removal touches nothing outside its path, a dry run nothing at all,   *)
(* and nothing ever loses the folder it is in, for any disk, any order of  *)
(* the threads, any refusals and any cancel.                               *)
THEOREM RemovalStaysOnPath == Spec => []NothingElseGoes
<1>1. RemovalInv => NothingElseGoes
  BY DEF RemovalInv, Untouched, Contained, NothingElseGoes, Paths
<1> QED
  BY <1>1, RemovalIsSound, PTL

(* What a removal that is done and was not cancelled says of its errors. *)
LEMMA ErrorsZero ==
  ASSUME RemovalInv, rm.st = "done", rm.mode # "dry", ~stop
  PROVE  /\ rm.errors = 0 <=> Within(there, rm.path) = {}
         /\ rm.refused = 0 => rm.errors = 0
<1>1. /\ layout \in Layouts /\ there \subseteq Paths /\ rm.path \in Paths
      /\ rm.mode \in {"trash", "delete"} /\ rm.files \cup rm.dirs = AtPath
  BY DEF RemovalInv, RemovalType, ListingOK
<1>2. Within(there, rm.path) = there \cap AtPath /\ rm.path \in AtPath
  BY <1>1, DiskFacts, PrefixOrder DEF Within, AtPath
<1>3. CASE rm.mode = "trash"
  BY <1>1, <1>2, <1>3 DEF RemovalInv, TrashOK
<1>4. CASE rm.mode = "delete"
  <2>1. /\ rm.errors = Cardinality(there \cap AtPath)
        /\ rm.refused = 0 => rm.errors = 0
    BY <1>1, <1>4 DEF RemovalInv, DeletionOK, Early, Settled
  <2> QED
    BY <1>1, <1>2, <2>1, ListedFinite, FS_EmptySet
<1> QED
  BY <1>1, <1>3, <1>4

(* Unless the removal was cancelled, its report has an error exactly when  *)
(* something is left of the path, and only if the system refused           *)
(* something.  The files shown as gone while it runs (Progress) are those  *)
(* that went, at its end, whatever came in between.                        *)
THEOREM ErrorsAreReported == Spec => [](ErrorsAreTrue /\ ProgressIsTrue)
<1>1. ASSUME RemovalInv, rm.st = "done", rm.mode = "delete"
      PROVE  rm.removed = Cardinality({p \in DOMAIN disk.at \ there : ~IsDir(disk, p)})
  <2>1. /\ rm.removed = Cardinality(rm.files \ there) /\ Paths \ there \subseteq rm.files \cup rm.dirs
        /\ rm.files \subseteq FilesAt /\ rm.dirs \subseteq FoldersAt
    BY <1>1 DEF RemovalInv, DeletionOK, ListingOK, Early, Settled
  <2>2. rm.files \ there = {p \in Paths \ there : ~IsDir(disk, p)}
    BY <2>1 DEF FilesAt, FoldersAt, AtPath, Within
  <2> QED
    BY <2>1, <2>2 DEF Paths
<1>2. RemovalInv => ErrorsAreTrue /\ ProgressIsTrue
  BY <1>1, ErrorsZero DEF ErrorsAreTrue, ProgressIsTrue
<1> QED
  BY <1>2, RemovalIsSound, PTL

-----------------------------------------------------------------------------
(***************************************************************************)
(* Trees of paths.                                                         *)
(***************************************************************************)

(* The folders D and the items F that are no folders. *)
IsTree(D, F, S) ==
  /\ IsFiniteSet(D) /\ IsFiniteSet(F) /\ D \subseteq Seq(S) /\ F \subseteq Seq(S)
  /\ D \cap F = {} /\ <<>> \notin F
  /\ \A p \in (D \cup F) \ {<<>>} : Front(p) \in D

(* Only the root has no folder, and it is below nothing else. *)
LEMMA RootIsFirst ==
  ASSUME NEW S, NEW s \in Seq(S), IsPrefix(s, <<>>)
  PROVE  s = <<>>
<1>1. Len(s) \in Nat /\ Len(<<>>) = 0 /\ (s # <<>> => Len(s) # 0)
  BY EmptySeq, LenProperties
<1>2. Len(s) <= Len(<<>>)
  BY DEF IsPrefix
<1> QED
  BY <1>1, <1>2

(* The way down from an item to one below it. *)
LEMMA StepDown ==
  ASSUME NEW S, NEW D, NEW F, IsTree(D, F, S), NEW d \in D \cup F, NEW q \in D \cup F,
         IsPrefix(d, q), q # d
  PROVE  d \in D /\ \E k \in D \cup F : k # <<>> /\ Front(k) = d /\ IsPrefix(k, q)
<1> DEFINE T == {x \in D \cup F : IsPrefix(x, q) /\ IsPrefix(d, x) /\ x # d}
<1>1. D \cup F \subseteq Seq(S)
  BY DEF IsTree
<1>2. T \in SUBSET Seq(S) /\ q \in T
  BY <1>1, PrefixOrder
<1>3. PICK x \in T : \A y \in T : Len(x) <= Len(y)
  <2> HIDE DEF T
  <2> QED
    BY <1>2, Shortest
<1>4. x \in D \cup F /\ x \in Seq(S) /\ d \in Seq(S) /\ q \in Seq(S)
      /\ IsPrefix(x, q) /\ IsPrefix(d, x) /\ x # d
  BY <1>1, <1>3
<1>5. x # <<>>
  BY <1>4, RootIsFirst
<1>6. Front(x) \in D /\ Front(x) \in Seq(S) /\ Len(Front(x)) = Len(x) - 1 /\ Len(x) \in Nat
  BY <1>4, <1>5, FrontByElement DEF IsTree
<1>7. IsPrefix(d, Front(x)) /\ IsPrefix(Front(x), x)
  BY <1>4, <1>5, PrefixOfFront
<1>8. IsPrefix(Front(x), q)
  BY <1>4, <1>6, <1>7, PrefixOrder
<1>9. Front(x) \notin T
  BY <1>3, <1>6
<1>10. Front(x) = d
  BY <1>6, <1>7, <1>8, <1>9
<1> QED
  BY <1>4, <1>5, <1>6, <1>10

(* Of two items in a folder nothing is below both. *)
LEMMA SiblingsApart ==
  ASSUME NEW S, NEW j \in Seq(S), NEW k \in Seq(S), NEW q \in Seq(S), j # <<>>, k # <<>>,
         Front(j) = Front(k), IsPrefix(j, q), IsPrefix(k, q)
  PROVE  j = k
<1>1. Len(j) = Len(k) /\ Len(j) \in Nat
  <2>1. Len(Front(j)) = Len(j) - 1 /\ Len(j) \in Nat
    BY FrontByElement
  <2>2. Len(Front(k)) = Len(k) - 1 /\ Len(k) \in Nat
    BY FrontByElement
  <2> QED
    BY <2>1, <2>2
<1>2. \A i \in 1..Len(j) : j[i] = q[i]
  BY PrefixByElement
<1>3. \A i \in 1..Len(k) : k[i] = q[i]
  BY PrefixByElement
<1> QED
  BY <1>1, <1>2, <1>3, SeqEqual

(* What is below a folder is in it, or below a folder in it, one of them. *)
LEMMA BelowByKid ==
  ASSUME NEW S, NEW D, NEW F, IsTree(D, F, S), NEW d \in D
  PROVE  LET kids == In(D, d)
         IN /\ Within(D, d) = {d} \cup UNION {Within(D, k) : k \in kids}
            /\ d \notin UNION {Within(D, k) : k \in kids}
            /\ Within(F, d) = In(F, d) \cup UNION {Within(F, k) : k \in kids}
            /\ In(F, d) \cap UNION {Within(F, k) : k \in kids} = {}
            /\ \A j, k \in kids : j # k => /\ Within(D, j) \cap Within(D, k) = {}
                                           /\ Within(F, j) \cap Within(F, k) = {}
<1> DEFINE kids == In(D, d)
<1>1. D \subseteq Seq(S) /\ F \subseteq Seq(S) /\ d \in Seq(S)
  BY DEF IsTree
<1>2. \A k \in kids : k \in D /\ k \in Seq(S) /\ k # <<>> /\ Front(k) = d
  BY <1>1 DEF In
<1>3. ASSUME NEW k \in kids
      PROVE  /\ IsPrefix(d, k) /\ k # d /\ ~IsPrefix(k, d)
             /\ \A q \in Seq(S) : IsPrefix(k, q) => IsPrefix(d, q)
  <2>1. IsPrefix(d, k) /\ k # d
    BY <1>2, PrefixOfFront
  <2>2. ~IsPrefix(k, d)
    BY <1>1, <1>2, <2>1, PrefixOrder
  <2>3. \A q \in Seq(S) : IsPrefix(k, q) => IsPrefix(d, q)
    BY <1>1, <1>2, <2>1, PrefixOrder
  <2> QED
    BY <2>1, <2>2, <2>3
<1>4. \A j, k \in kids : \A q \in Seq(S) : IsPrefix(j, q) /\ IsPrefix(k, q) => j = k
  BY <1>2, SiblingsApart
<1>5. ASSUME NEW q \in D \cup F, IsPrefix(d, q), q # d
      PROVE  (q \in F /\ q \in In(F, d)) \/ \E k \in kids : IsPrefix(k, q)
  <2>1. PICK k \in D \cup F : k # <<>> /\ Front(k) = d /\ IsPrefix(k, q)
    BY <1>5, StepDown
  <2>2. CASE k \in D
    BY <2>1, <2>2 DEF In
  <2>3. CASE k \notin D
    <3>1. k = q
      BY <2>1, <2>3, StepDown
    <3> QED
      BY <2>1, <2>3, <3>1 DEF In
  <2> QED
    BY <2>2, <2>3
<1>6. \A q \in D : q # <<>> /\ Front(q) = d => q \in kids
  BY DEF In
<1>7. IsPrefix(d, d)
  BY <1>1, PrefixOrder
<1>8. \A q \in In(F, d) : q \in F /\ q \in Seq(S) /\ q # <<>> /\ Front(q) = d /\ q # d /\ IsPrefix(d, q) /\ q \notin D
  <2>1. \A q \in In(F, d) : q \in F /\ q \in Seq(S) /\ q # <<>> /\ Front(q) = d
    BY <1>1 DEF In
  <2>2. \A q \in In(F, d) : IsPrefix(d, q) /\ q # d
    BY <2>1, PrefixOfFront
  <2> QED
    BY <2>1, <2>2 DEF IsTree
<1>9. ASSUME NEW q \in In(F, d), NEW k \in kids, IsPrefix(k, q) PROVE FALSE
  <2>1. IsPrefix(q, q)
    BY <1>8, PrefixOrder
  <2>2. q = k
    BY <1>2, <1>8, <1>9, <2>1, SiblingsApart
  <2> QED
    BY <1>2, <1>8, <2>2
<1> HIDE DEF kids
<1>10. Within(D, d) = {d} \cup UNION {Within(D, k) : k \in kids}
  <2>1. ASSUME NEW q \in Within(D, d) PROVE q \in {d} \cup UNION {Within(D, k) : k \in kids}
    BY <1>5, <1>8, <2>1 DEF Within
  <2>2. ASSUME NEW k \in kids, NEW q \in Within(D, k) PROVE q \in Within(D, d)
    BY <1>1, <1>3, <2>2 DEF Within
  <2>3. d \in Within(D, d)
    BY <1>7 DEF Within
  <2> QED
    BY <2>1, <2>2, <2>3
<1>11. d \notin UNION {Within(D, k) : k \in kids}
  BY <1>3 DEF Within
<1>12. Within(F, d) = In(F, d) \cup UNION {Within(F, k) : k \in kids}
  <2>1. ASSUME NEW q \in Within(F, d) PROVE q \in In(F, d) \cup UNION {Within(F, k) : k \in kids}
    <3>1. q \in F /\ IsPrefix(d, q) /\ q # d
      BY DEF Within, IsTree
    <3> QED
      BY <1>5, <3>1 DEF Within
  <2>2. ASSUME NEW k \in kids, NEW q \in Within(F, k) PROVE q \in Within(F, d)
    BY <1>1, <1>3, <2>2 DEF Within
  <2>3. \A q \in In(F, d) : q \in Within(F, d)
    BY <1>8 DEF Within
  <2> QED
    BY <2>1, <2>2, <2>3
<1>13. In(F, d) \cap UNION {Within(F, k) : k \in kids} = {}
  BY <1>9 DEF Within
<1>14. ASSUME NEW j \in kids, NEW k \in kids, j # k
       PROVE  Within(D, j) \cap Within(D, k) = {} /\ Within(F, j) \cap Within(F, k) = {}
  BY <1>1, <1>4, <1>14 DEF Within
<1> QED
  BY <1>10, <1>11, <1>12, <1>13, <1>14 DEF kids

-----------------------------------------------------------------------------
(***************************************************************************)
(* The totals of a finished tree: what a folder has is what is below it.   *)
(***************************************************************************)

LEMMA SumsAgree == \A f, T : SumOver(f, T) = Sum(f, T)
BY DEF SumOver, Sum

IsScan(ls, fs, S) ==
  /\ IsTree(DOMAIN ls, DOMAIN fs, S)
  /\ ls \in [DOMAIN ls -> BOOLEAN]
  /\ \A f \in DOMAIN fs : fs[f] \in Nat

Below(ls, fs, cut, d) ==
  [listed   |-> ls[d],
   complete |-> ~cut /\ \A e \in Within(DOMAIN ls, d) : ls[e],
   size     |-> Sum(fs, Within(DOMAIN fs, d)),
   files    |-> Cardinality(Within(DOMAIN fs, d)),
   dirs     |-> Cardinality(Within(DOMAIN ls, d)) - 1]

AllBelow(ls, fs, cut) == [d \in DOMAIN ls |-> Below(ls, fs, cut, d)]

LEMMA BelowFields ==
  ASSUME NEW ls, NEW fs, NEW cut, NEW d
  PROVE  LET b == Below(ls, fs, cut, d)
         IN /\ b.size = Sum(fs, Within(DOMAIN fs, d))
            /\ b.files = Cardinality(Within(DOMAIN fs, d))
            /\ b.dirs = Cardinality(Within(DOMAIN ls, d)) - 1
            /\ b.listed = ls[d]
            /\ b.complete <=> ~cut /\ \A e \in Within(DOMAIN ls, d) : ls[e]
BY DEF Below

(* What is below a folder, as sums over the folders in it. *)
LEMMA BelowAddsUp ==
  ASSUME NEW S, NEW ls, NEW fs, NEW cut, IsScan(ls, fs, S), NEW d \in DOMAIN ls,
         NEW W, W = AllBelow(ls, fs, cut)
  PROVE  LET kids == In(DOMAIN ls, d)
             own  == In(DOMAIN fs, d)
         IN /\ W[d].size = Sum([k \in kids |-> W[k].size], kids) + Sum(fs, own)
            /\ W[d].files = Sum([k \in kids |-> W[k].files], kids) + Cardinality(own)
            /\ W[d].dirs = Sum([k \in kids |-> W[k].dirs + 1], kids)
            /\ W[d].complete <=> ls[d] /\ ~cut /\ \A k \in kids : W[k].complete
<1> DEFINE D == DOMAIN ls
           F == DOMAIN fs
           kids == In(D, d)
           own == In(F, d)
           dirsOf == [k \in kids |-> Within(D, k)]
           filesOf == [k \in kids |-> Within(F, k)]
           allD == AllOf(dirsOf, kids)
           allF == AllOf(filesOf, kids)
           one == [x \in D \cup F |-> 1]
<1>1. /\ IsFiniteSet(D) /\ IsFiniteSet(F) /\ kids \subseteq D /\ own \subseteq F
      /\ \A x : Within(D, x) \subseteq D /\ Within(F, x) \subseteq F
  BY DEF IsScan, IsTree, In, Within
<1>2. /\ IsFiniteSet(kids) /\ IsFiniteSet(own)
      /\ \A x : IsFiniteSet(Within(D, x)) /\ IsFiniteSet(Within(F, x))
  <2> HIDE DEF D, F, kids, own
  <2> QED
    BY <1>1, FS_Subset
<1>3. /\ Within(D, d) = {d} \cup allD /\ d \notin allD
      /\ Within(F, d) = own \cup allF /\ own \cap allF = {}
      /\ \A j, k \in kids : j # k => dirsOf[j] \cap dirsOf[k] = {}
      /\ \A j, k \in kids : j # k => filesOf[j] \cap filesOf[k] = {}
  <2>1. IsTree(D, F, S)
    BY DEF IsScan
  <2>2. /\ Within(D, d) = {d} \cup UNION {Within(D, k) : k \in kids}
        /\ d \notin UNION {Within(D, k) : k \in kids}
        /\ Within(F, d) = own \cup UNION {Within(F, k) : k \in kids}
        /\ own \cap UNION {Within(F, k) : k \in kids} = {}
        /\ \A j, k \in kids : j # k => /\ Within(D, j) \cap Within(D, k) = {}
                                       /\ Within(F, j) \cap Within(F, k) = {}
    <3> HIDE DEF D, F
    <3> QED
      BY <2>1, BelowByKid DEF D
  <2>3. allD = UNION {Within(D, k) : k \in kids} /\ allF = UNION {Within(F, k) : k \in kids}
    BY DEF AllOf
  <2> HIDE DEF D, F, kids, own, allD, allF
  <2> QED
    BY <2>2, <2>3
<1>4. \A x \in F : fs[x] \in Nat
  BY DEF IsScan
<1>5. \A x \in D : W[x] = Below(ls, fs, cut, x)
  BY DEF AllBelow
<1>6. \A x \in D : /\ W[x].size = Sum(fs, Within(F, x))
                   /\ W[x].files = Cardinality(Within(F, x))
                   /\ W[x].dirs = Cardinality(Within(D, x)) - 1
  BY <1>5, BelowFields
<1>12. \A x \in D : W[x].complete <=> ~cut /\ \A e \in Within(D, x) : ls[e]
  BY <1>5, BelowFields
<1>7. /\ \A k \in kids : dirsOf[k] = Within(D, k) /\ filesOf[k] = Within(F, k)
      /\ allD \subseteq D /\ allF \subseteq F /\ d \in D
  <2>1. \A k \in kids : dirsOf[k] \subseteq D /\ filesOf[k] \subseteq F
    BY <1>1
  <2> QED
    BY <2>1 DEF AllOf
<1> HIDE DEF D, F, kids, own, dirsOf, filesOf, allD, allF, one
<1>13. Apart(filesOf, kids) /\ Apart(dirsOf, kids)
  BY <1>2, <1>3, <1>7 DEF Apart
<1>8. W[d].size = Sum([k \in kids |-> W[k].size], kids) + Sum(fs, own)
  <2> DEFINE g == [k \in kids |-> W[k].size]
  <2>1. \A k \in kids : g[k] = Sum(fs, filesOf[k]) /\ IsFiniteSet(filesOf[k]) /\ filesOf[k] \subseteq F
    BY <1>1, <1>2, <1>6, <1>7
  <2> HIDE DEF g
  <2>2. IsFiniteSet(allF) /\ Sum(g, kids) = Sum(fs, allF)
    <3>1. \A k \in kids : \A x \in filesOf[k] : fs[x] \in Nat
      BY <1>4, <2>1
    <3>2. SumsUp(g, fs, filesOf, kids)
      BY <2>1, <3>1 DEF SumsUp
    <3> QED
      BY <1>13, <3>2, SumOfSums DEF allF
  <2>3. Sum(fs, own \cup allF) = Sum(fs, own) + Sum(fs, allF)
    <3>1. \A x \in own \cup allF : fs[x] \in Nat
      BY <1>1, <1>4, <1>7
    <3> QED
      BY <1>2, <1>3, <2>2, <3>1, SumUnion
  <2>4. Sum(fs, own) \in Nat /\ Sum(fs, allF) \in Nat
    <3>1. \A x \in own \cup allF : fs[x] \in Nat
      BY <1>1, <1>4, <1>7
    <3> QED
      BY <1>2, <2>2, <3>1, SumNat
  <2>5. W[d].size = Sum(fs, own \cup allF)
    BY <1>3, <1>6, <1>7
  <2>6. W[d].size = Sum(g, kids) + Sum(fs, own)
    BY <2>2, <2>3, <2>4, <2>5
  <2> QED
    BY <2>6, Zenon DEF g
<1>9. W[d].files = Sum([k \in kids |-> W[k].files], kids) + Cardinality(own)
  <2> DEFINE g == [k \in kids |-> W[k].files]
  <2>1. \A k \in kids : /\ g[k] = Cardinality(filesOf[k]) /\ IsFiniteSet(filesOf[k])
                        /\ \A x \in filesOf[k] : one[x] = 1
    BY <1>1, <1>2, <1>6, <1>7 DEF one
  <2> HIDE DEF g
  <2>2. \A k \in kids : g[k] = Sum(one, filesOf[k]) /\ \A x \in filesOf[k] : one[x] \in Nat
    BY <2>1, SumOfOnes
  <2>3. IsFiniteSet(allF) /\ Sum(g, kids) = Sum(one, allF)
    <3>1. SumsUp(g, one, filesOf, kids)
      BY <2>2 DEF SumsUp
    <3> QED
      BY <1>13, <3>1, SumOfSums DEF allF
  <2>4. Sum(one, allF) = Cardinality(allF)
    <3>1. \A x \in allF : one[x] = 1
      BY <1>7 DEF one
    <3> QED
      BY <2>3, <3>1, SumOfOnes
  <2>5. Cardinality(own \cup allF) = Cardinality(own) + Cardinality(allF)
    BY <1>2, <1>3, <2>3, UnionApart
  <2>6. Cardinality(own) \in Nat /\ Cardinality(allF) \in Nat
    BY <1>2, <2>3, FS_CardinalityType
  <2>8. W[d].files = Cardinality(own \cup allF)
    BY <1>3, <1>6, <1>7
  <2>7. W[d].files = Sum(g, kids) + Cardinality(own)
    BY <2>3, <2>4, <2>5, <2>6, <2>8
  <2> QED
    BY <2>7, Zenon DEF g
<1>10. W[d].dirs = Sum([k \in kids |-> W[k].dirs + 1], kids)
  <2> DEFINE g == [k \in kids |-> W[k].dirs + 1]
  <2>1. \A k \in kids : /\ g[k] = Cardinality(dirsOf[k]) /\ IsFiniteSet(dirsOf[k])
                        /\ \A x \in dirsOf[k] : one[x] = 1
    <3>1. \A k \in kids : Cardinality(Within(D, k)) \in Nat
      BY <1>2, FS_CardinalityType
    <3> QED
      BY <1>1, <1>2, <1>6, <1>7, <3>1 DEF one
  <2> HIDE DEF g
  <2>2. \A k \in kids : g[k] = Sum(one, dirsOf[k]) /\ \A x \in dirsOf[k] : one[x] \in Nat
    BY <2>1, SumOfOnes
  <2>3. IsFiniteSet(allD) /\ Sum(g, kids) = Sum(one, allD)
    <3>1. SumsUp(g, one, dirsOf, kids)
      BY <2>2 DEF SumsUp
    <3> QED
      BY <1>13, <3>1, SumOfSums DEF allD
  <2>4. Sum(one, allD) = Cardinality(allD)
    <3>1. \A x \in allD : one[x] = 1
      BY <1>7 DEF one
    <3> QED
      BY <2>3, <3>1, SumOfOnes
  <2>5. Cardinality({d} \cup allD) = 1 + Cardinality(allD)
    <3>1. IsFiniteSet({d}) /\ Cardinality({d}) = 1 /\ {d} \cap allD = {}
      BY <1>3, FS_Singleton
    <3> QED
      BY <2>3, <3>1, UnionApart
  <2>6. Cardinality(allD) \in Nat
    BY <2>3, FS_CardinalityType
  <2>8. W[d].dirs = Cardinality({d} \cup allD) - 1
    BY <1>3, <1>6, <1>7
  <2>7. W[d].dirs = Sum(g, kids)
    BY <2>3, <2>4, <2>5, <2>6, <2>8
  <2> QED
    BY <2>7, Zenon DEF g
<1>11. W[d].complete <=> ls[d] /\ ~cut /\ \A k \in kids : W[k].complete
  <2>1. \A k \in kids : W[k].complete <=> ~cut /\ \A e \in dirsOf[k] : ls[e]
    BY <1>1, <1>12, <1>7
  <2>2. (\A e \in Within(D, d) : ls[e]) <=> ls[d] /\ \A k \in kids : \A e \in dirsOf[k] : ls[e]
    BY <1>3 DEF allD, AllOf
  <2> QED
    BY <1>12, <1>7, <2>1, <2>2
<1> QED
  BY <1>8, <1>9, <1>10, <1>11 DEF D, F, kids, own

LEMMA CompleteAddsUp ==
  \A S, ls, fs, cut, W :
    IsScan(ls, fs, S) /\ W = AllBelow(ls, fs, cut) =>
      \A d \in DOMAIN ls : W[d].complete <=> ls[d] /\ ~cut /\ \A k \in In(DOMAIN ls, d) : W[k].complete
<1> SUFFICES ASSUME NEW S, NEW ls, NEW fs, NEW cut, NEW W, IsScan(ls, fs, S), W = AllBelow(ls, fs, cut),
                    NEW d \in DOMAIN ls
             PROVE  W[d].complete <=> ls[d] /\ ~cut /\ \A k \in In(DOMAIN ls, d) : W[k].complete
  OBVIOUS
<1> DEFINE kids == In(DOMAIN ls, d)
           own == In(DOMAIN fs, d)
<1>1. /\ W[d].size = Sum([k \in kids |-> W[k].size], kids) + Sum(fs, own)
      /\ W[d].files = Sum([k \in kids |-> W[k].files], kids) + Cardinality(own)
      /\ W[d].dirs = Sum([k \in kids |-> W[k].dirs + 1], kids)
      /\ W[d].complete <=> ls[d] /\ ~cut /\ \A k \in kids : W[k].complete
  BY BelowAddsUp
<1> QED
  BY <1>1

(* The function that gives each folder what is below it is the only one    *)
(* that gives each its own and what the folders in it have.                *)
LEMMA BelowSolves ==
  ASSUME NEW S, NEW ls, NEW fs, NEW cut, IsScan(ls, fs, S), NEW W, W = AllBelow(ls, fs, cut)
  PROVE  \A d \in DOMAIN ls : W[d] = TotalsOf(W, ls, fs, cut, d)
<1> SUFFICES ASSUME NEW d \in DOMAIN ls PROVE W[d] = TotalsOf(W, ls, fs, cut, d)
  OBVIOUS
<1> DEFINE kids == In(DOMAIN ls, d)
           own == In(DOMAIN fs, d)
<1>1. /\ W[d].size = Sum([k \in kids |-> W[k].size], kids) + Sum(fs, own)
      /\ W[d].files = Sum([k \in kids |-> W[k].files], kids) + Cardinality(own)
      /\ W[d].dirs = Sum([k \in kids |-> W[k].dirs + 1], kids)
      /\ W[d].complete <=> ls[d] /\ ~cut /\ \A k \in kids : W[k].complete
  BY BelowAddsUp
<1>2. W[d] = Below(ls, fs, cut, d)
  BY DEF AllBelow
<1>3. W[d] = [listed |-> ls[d], complete |-> W[d].complete, size |-> W[d].size, files |-> W[d].files,
              dirs |-> W[d].dirs]
  BY <1>2 DEF Below
<1>4. W[d].complete = (ls[d] /\ ~cut /\ \A k \in kids : W[k].complete)
  <2>1. W[d].complete \in BOOLEAN
    BY <1>2 DEF Below
  <2> QED
    BY <1>1, <2>1
<1>5. TotalsOf(W, ls, fs, cut, d) =
        [listed |-> ls[d], complete |-> ls[d] /\ ~cut /\ \A k \in kids : W[k].complete,
         size |-> Sum([k \in kids |-> W[k].size], kids) + Sum(fs, own),
         files |-> Sum([k \in kids |-> W[k].files], kids) + Cardinality(own),
         dirs |-> Sum([k \in kids |-> W[k].dirs + 1], kids)]
  BY SumsAgree, Zenon DEF TotalsOf
<1> HIDE DEF kids, own
<1> QED
  BY <1>1, <1>3, <1>4, <1>5

LEMMA OnlyBelowSolves ==
  ASSUME NEW S, NEW ls, NEW fs, NEW cut, IsScan(ls, fs, S),
         NEW g, g = [d \in DOMAIN ls |-> TotalsOf(g, ls, fs, cut, d)]
  PROVE  g = AllBelow(ls, fs, cut)
<1> DEFINE D == DOMAIN ls
           W == AllBelow(ls, fs, cut)
           B == {d \in D : g[d] # W[d]}
<1>1. IsFiniteSet(D) /\ D \subseteq Seq(S)
  BY DEF IsScan, IsTree
<1>2. \A d \in D : g[d] = TotalsOf(g, ls, fs, cut, d)
  OBVIOUS
<1>3. \A d \in D : W[d] = TotalsOf(W, ls, fs, cut, d)
  <2> HIDE DEF W
  <2> QED
    BY BelowSolves DEF W
<1>4. ASSUME B # {} PROVE FALSE
  <2>1. IsFiniteSet(B) /\ B \in SUBSET Seq(S)
    <3>1. B \subseteq D
      OBVIOUS
    <3> HIDE DEF B, D
    <3> QED
      BY <1>1, <3>1, FS_Subset
  <2>2. PICK b \in B : \A x \in B : Len(x) <= Len(b)
    <3> HIDE DEF B
    <3> QED
      BY <1>4, <2>1, Longest
  <2>3. b \in D /\ g[b] # W[b]
    OBVIOUS
  <2> DEFINE kids == In(D, b)
  <2>4. \A k \in kids : g[k] = W[k]
    <3> SUFFICES ASSUME NEW k \in kids PROVE g[k] = W[k]
      OBVIOUS
    <3>1. k \in D /\ k \in Seq(S) /\ k # <<>> /\ Front(k) = b
      BY <1>1 DEF In
    <3>2. Len(b) = Len(k) - 1 /\ Len(k) \in Nat
      BY <3>1, FrontByElement
    <3>3. k \notin B
      <4> HIDE DEF B
      <4> QED
        BY <2>2, <3>2
    <3> QED
      BY <3>1, <3>3
  <2>5. TotalsOf(g, ls, fs, cut, b) = TotalsOf(W, ls, fs, cut, b)
    <3> HIDE DEF W, B
    <3>1. /\ [k \in kids |-> g[k].size] = [k \in kids |-> W[k].size]
          /\ [k \in kids |-> g[k].files] = [k \in kids |-> W[k].files]
          /\ [k \in kids |-> g[k].dirs + 1] = [k \in kids |-> W[k].dirs + 1]
          /\ (\A k \in kids : g[k].complete) <=> (\A k \in kids : W[k].complete)
      BY <2>4
    <3> QED
      BY <3>1 DEF TotalsOf
  <2> HIDE DEF W, B
  <2> QED
    BY <1>2, <1>3, <2>3, <2>5
<1>5. \A d \in D : g[d] = W[d]
  BY <1>4
<1>6. W = [d \in D |-> W[d]] /\ g = [d \in D |-> g[d]]
  BY DEF AllBelow
<1> HIDE DEF W
<1> QED
  BY <1>5, <1>6 DEF W

LEMMA FinishedIs ==
  ASSUME NEW S, NEW ls, NEW fs, NEW cut, IsScan(ls, fs, S)
  PROVE  Finished(ls, fs, cut) = [dir |-> AllBelow(ls, fs, cut), file |-> fs, cancelled |-> cut]
<1> DEFINE W == AllBelow(ls, fs, cut)
           N(g) == g = [d \in DOMAIN ls |-> TotalsOf(g, ls, fs, cut, d)]
<1>1. \A d \in DOMAIN ls : W[d] = TotalsOf(W, ls, fs, cut, d)
  <2> HIDE DEF W
  <2> QED
    BY BelowSolves DEF W
<1>2. W = [d \in DOMAIN ls |-> W[d]]
  BY DEF AllBelow
<1>3. N(W)
  <2> HIDE DEF W
  <2> QED
    BY <1>1, <1>2
<1>4. N(CHOOSE g : N(g))
  <2> HIDE DEF N, W
  <2> QED
    BY <1>3
<1>5. (CHOOSE g : N(g)) = W
  <2> DEFINE g == CHOOSE h : N(h)
  <2>1. g = [d \in DOMAIN ls |-> TotalsOf(g, ls, fs, cut, d)]
    <3> HIDE DEF g
    <3> QED
      BY <1>4 DEF g
  <2> HIDE DEF g
  <2>2. g = W
    BY <2>1, OnlyBelowSolves
  <2> QED
    BY <2>2 DEF g
<1>6. Finished(ls, fs, cut) = [dir |-> (CHOOSE g : N(g)), file |-> fs, cancelled |-> cut]
  BY Zenon DEF Finished
<1> HIDE DEF N, W
<1> QED
  BY <1>5, <1>6 DEF W

-----------------------------------------------------------------------------
(***************************************************************************)
(* Taking an item out of a tree in place.                                  *)
(***************************************************************************)

LEMMA BothBelow ==
  ASSUME NEW S, NEW x \in Seq(S), NEW p \in Seq(S), NEW e \in Seq(S), IsPrefix(x, e), IsPrefix(p, e)
  PROVE  IsPrefix(x, p) \/ IsPrefix(p, x)
<1>1. Len(x) \in Nat /\ Len(p) \in Nat
  BY LenProperties
<1>2. \A i \in 1..Len(x) : x[i] = e[i]
  BY PrefixByElement
<1>3. \A i \in 1..Len(p) : p[i] = e[i]
  BY PrefixByElement
<1>4. CASE Len(x) <= Len(p)
  <2>1. \A i \in 1..Len(x) : x[i] = p[i]
    BY <1>1, <1>2, <1>3, <1>4
  <2> QED
    BY <1>4, <2>1, PrefixByElement
<1>5. CASE Len(p) <= Len(x)
  <2>1. \A i \in 1..Len(p) : p[i] = x[i]
    BY <1>1, <1>2, <1>3, <1>5
  <2> QED
    BY <1>5, <2>1, PrefixByElement
<1> QED
  BY <1>1, <1>4, <1>5

(* What is left of a tree without what is below p. *)
Left(T, p) == T \ Within(T, p)

LEMMA LeftIsTree ==
  ASSUME NEW S, NEW D, NEW F, IsTree(D, F, S), NEW p \in (D \cup F) \ {<<>>}
  PROVE  /\ IsTree(Left(D, p), Left(F, p), S)
         /\ \A x \in Left(D, p) :
              IF IsPrefix(x, Front(p))
              THEN /\ Within(D, x) = Within(Left(D, p), x) \cup Within(D, p)
                   /\ Within(F, x) = Within(Left(F, p), x) \cup Within(F, p)
                   /\ x \in Within(Left(D, p), x)
              ELSE Within(D, x) = Within(Left(D, p), x) /\ Within(F, x) = Within(Left(F, p), x)
         /\ \A x : /\ Within(Left(D, p), x) \cap Within(D, p) = {}
                   /\ Within(Left(F, p), x) \cap Within(F, p) = {}
<1> DEFINE D2 == Left(D, p)
           F2 == Left(F, p)
<1>1. /\ IsFiniteSet(D) /\ IsFiniteSet(F) /\ D \subseteq Seq(S) /\ F \subseteq Seq(S)
      /\ D \cap F = {} /\ <<>> \notin F /\ p \in Seq(S) /\ p # <<>>
      /\ \A x \in (D \cup F) \ {<<>>} : Front(x) \in D
  BY DEF IsTree
<1>2. /\ D2 \subseteq D /\ F2 \subseteq F
      /\ \A x : x \in D2 <=> x \in D /\ ~IsPrefix(p, x)
      /\ \A x : x \in F2 <=> x \in F /\ ~IsPrefix(p, x)
  BY DEF Left, Within
<1>3. IsFiniteSet(D2) /\ IsFiniteSet(F2)
  <2> HIDE DEF D2, F2
  <2> QED
    BY <1>1, <1>2, FS_Subset
<1> HIDE DEF D2, F2
<1>4. IsTree(D2, F2, S)
  <2>1. ASSUME NEW x \in (D2 \cup F2) \ {<<>>} PROVE Front(x) \in D2
    <3>1. x \in Seq(S) /\ Front(x) \in D /\ ~IsPrefix(p, x)
      BY <1>1, <1>2
    <3>2. ~IsPrefix(p, Front(x))
      BY <1>1, <3>1, PrefixOfFront
    <3> QED
      BY <1>2, <3>1, <3>2
  <2> QED
    BY <1>1, <1>2, <1>3, <2>1 DEF IsTree
<1>5. ASSUME NEW x \in D2
      PROVE  IF IsPrefix(x, Front(p))
             THEN /\ Within(D, x) = Within(D2, x) \cup Within(D, p)
                  /\ Within(F, x) = Within(F2, x) \cup Within(F, p)
                  /\ x \in Within(D2, x)
             ELSE Within(D, x) = Within(D2, x) /\ Within(F, x) = Within(F2, x)
  <2>1. x \in D /\ x \in Seq(S) /\ ~IsPrefix(p, x)
    BY <1>1, <1>2
  <2>2. CASE IsPrefix(x, Front(p))
    <3>1. IsPrefix(x, p)
      BY <1>1, <2>1, <2>2, PrefixOfFront
    <3>2. \A e \in Seq(S) : IsPrefix(p, e) => IsPrefix(x, e)
      BY <1>1, <2>1, <3>1, PrefixOrder
    <3>3. IsPrefix(x, x)
      BY <2>1, PrefixOrder
    <3>4. Within(D, x) = Within(D2, x) \cup Within(D, p)
      BY <1>1, <1>2, <3>2 DEF Within
    <3>5. Within(F, x) = Within(F2, x) \cup Within(F, p)
      BY <1>1, <1>2, <3>2 DEF Within
    <3> QED
      BY <2>2, <3>3, <3>4, <3>5 DEF Within
  <2>3. CASE ~IsPrefix(x, Front(p))
    <3>1. ~IsPrefix(x, p)
      <4>1. x # p
        BY <1>1, <2>1, PrefixOrder
      <4> QED
        BY <1>1, <2>1, <2>3, <4>1, PrefixOfFront
    <3>2. \A e \in Seq(S) : IsPrefix(x, e) => ~IsPrefix(p, e)
      BY <1>1, <2>1, <3>1, BothBelow
    <3>3. Within(D, x) = Within(D2, x)
      BY <1>1, <1>2, <3>2 DEF Within
    <3>4. Within(F, x) = Within(F2, x)
      BY <1>1, <1>2, <3>2 DEF Within
    <3> QED
      BY <2>3, <3>3, <3>4
  <2> QED
    BY <2>2, <2>3
<1>6. \A x : Within(D2, x) \cap Within(D, p) = {} /\ Within(F2, x) \cap Within(F, p) = {}
  BY <1>2 DEF Within
<1> QED
  BY <1>4, <1>5, <1>6 DEF D2, F2

Minus(x, y) == IF x > y THEN x - y ELSE 0

(* What the removal of p makes of the totals above it, and of no others. *)
LEMMA BelowWithout ==
  ASSUME NEW S, NEW ls, NEW fs, NEW cut, IsScan(ls, fs, S),
         NEW p \in (DOMAIN ls \cup DOMAIN fs) \ {<<>>},
         NEW ls2, ls2 = Restrict(ls, Left(DOMAIN ls, p)), NEW fs2, fs2 = Restrict(fs, Left(DOMAIN fs, p)),
         NEW x \in DOMAIN ls2
  PROVE  LET b == Below(ls, fs, cut, x)
             c == Below(ls2, fs2, cut, x)
         IN IF IsPrefix(x, Front(p))
            THEN /\ c.size = Minus(b.size, Sum(fs, Within(DOMAIN fs, p)))
                 /\ c.files = Minus(b.files, Cardinality(Within(DOMAIN fs, p)))
                 /\ c.dirs = Minus(b.dirs, Cardinality(Within(DOMAIN ls, p)))
            ELSE /\ c.size = b.size /\ c.files = b.files /\ c.dirs = b.dirs
                 /\ c.complete <=> b.complete
<1> DEFINE D == DOMAIN ls
           F == DOMAIN fs
           D2 == Left(D, p)
           F2 == Left(F, p)
<1>1. /\ IsTree(D, F, S) /\ IsFiniteSet(D) /\ IsFiniteSet(F) /\ \A f \in F : fs[f] \in Nat
  BY DEF IsScan, IsTree
<1>2. /\ DOMAIN ls2 = D2 /\ DOMAIN fs2 = F2 /\ x \in D2
      /\ \A y \in D2 : ls2[y] = ls[y]
      /\ \A f \in F2 : fs2[f] = fs[f]
  BY DEF Restrict
<1> DEFINE b == Below(ls, fs, cut, x)
           c == Below(ls2, fs2, cut, x)
<1>3. /\ b.size = Sum(fs, Within(F, x)) /\ b.files = Cardinality(Within(F, x))
      /\ b.dirs = Cardinality(Within(D, x)) - 1
      /\ b.complete <=> ~cut /\ \A e \in Within(D, x) : ls[e]
  BY BelowFields
<1>4. /\ c.size = Sum(fs2, Within(F2, x)) /\ c.files = Cardinality(Within(F2, x))
      /\ c.dirs = Cardinality(Within(D2, x)) - 1
      /\ c.complete <=> ~cut /\ \A e \in Within(D2, x) : ls2[e]
  <2>1. /\ c.size = Sum(fs2, Within(DOMAIN fs2, x)) /\ c.files = Cardinality(Within(DOMAIN fs2, x))
        /\ c.dirs = Cardinality(Within(DOMAIN ls2, x)) - 1
        /\ c.complete <=> ~cut /\ \A e \in Within(DOMAIN ls2, x) : ls2[e]
    BY BelowFields
  <2> HIDE DEF D2, F2, c
  <2> QED
    BY <1>2, <2>1
<1> HIDE DEF b, c
<1>5. /\ IF IsPrefix(x, Front(p))
         THEN /\ Within(D, x) = Within(D2, x) \cup Within(D, p)
              /\ Within(F, x) = Within(F2, x) \cup Within(F, p)
              /\ x \in Within(D2, x)
         ELSE Within(D, x) = Within(D2, x) /\ Within(F, x) = Within(F2, x)
      /\ Within(D2, x) \cap Within(D, p) = {} /\ Within(F2, x) \cap Within(F, p) = {}
  <2> HIDE DEF D, F
  <2> QED
    BY <1>1, <1>2, LeftIsTree DEF D, F
<1>6. /\ D2 \subseteq D /\ F2 \subseteq F
      /\ \A y : /\ Within(D, y) \subseteq D /\ Within(F, y) \subseteq F
                /\ Within(D2, y) \subseteq D2 /\ Within(F2, y) \subseteq F2
  BY DEF Left, Within
<1> HIDE DEF D, F, D2, F2
<1>7. \A y : /\ IsFiniteSet(Within(D, y)) /\ IsFiniteSet(Within(F, y))
             /\ IsFiniteSet(Within(D2, y)) /\ IsFiniteSet(Within(F2, y))
  <2>1. IsFiniteSet(D2) /\ IsFiniteSet(F2)
    BY <1>1, <1>6, FS_Subset
  <2> QED
    BY <1>1, <1>6, <2>1, FS_Subset
<1>8. \A y : /\ Cardinality(Within(D, y)) \in Nat /\ Cardinality(Within(F, y)) \in Nat
             /\ Cardinality(Within(D2, y)) \in Nat /\ Cardinality(Within(F2, y)) \in Nat
  BY <1>7, FS_CardinalityType
<1>9. /\ Sum(fs2, Within(F2, x)) = Sum(fs, Within(F2, x))
      /\ Sum(fs, Within(F2, x)) \in Nat /\ Sum(fs, Within(F, p)) \in Nat
  <2>1. \A f \in Within(F2, x) : fs[f] \in Nat /\ fs2[f] = fs[f]
    BY <1>1, <1>2, <1>6
  <2>2. \A f \in Within(F, p) : fs[f] \in Nat
    BY <1>1, <1>6
  <2>3. Sum(fs, Within(F2, x)) = Sum(fs2, Within(F2, x))
    BY <1>7, <2>1, SumEqual
  <2>4. Sum(fs, Within(F2, x)) \in Nat
    BY <1>7, <2>1, SumNat
  <2>5. Sum(fs, Within(F, p)) \in Nat
    BY <1>7, <2>2, SumNat
  <2> QED
    BY <2>3, <2>4, <2>5
<1>10. CASE IsPrefix(x, Front(p))
  <2>1. Sum(fs, Within(F, x)) = Sum(fs, Within(F2, x)) + Sum(fs, Within(F, p))
    <3>1. \A f \in Within(F2, x) \cup Within(F, p) : fs[f] \in Nat
      BY <1>1, <1>6
    <3>2. Sum(fs, Within(F2, x) \cup Within(F, p)) = Sum(fs, Within(F2, x)) + Sum(fs, Within(F, p))
      <4>1. \A A, B : /\ IsFiniteSet(A) /\ IsFiniteSet(B) /\ A \cap B = {}
                      /\ \A f \in A \cup B : fs[f] \in Nat
                      => Sum(fs, A \cup B) = Sum(fs, A) + Sum(fs, B)
        BY SumUnion
      <4>2. /\ IsFiniteSet(Within(F2, x)) /\ IsFiniteSet(Within(F, p))
            /\ Within(F2, x) \cap Within(F, p) = {}
        BY <1>5, <1>7
      <4> QED
        BY <3>1, <4>1, <4>2
    <3> QED
      BY <1>5, <1>10, <3>2
  <2>2. Cardinality(Within(F, x)) = Cardinality(Within(F2, x)) + Cardinality(Within(F, p))
    <3>1. Cardinality(Within(F2, x) \cup Within(F, p)) = Cardinality(Within(F2, x)) + Cardinality(Within(F, p))
      BY <1>5, <1>7, UnionApart
    <3> QED
      BY <1>5, <1>10, <3>1
  <2>3. Cardinality(Within(D, x)) = Cardinality(Within(D2, x)) + Cardinality(Within(D, p))
    <3>1. Cardinality(Within(D2, x) \cup Within(D, p)) = Cardinality(Within(D2, x)) + Cardinality(Within(D, p))
      BY <1>5, <1>7, UnionApart
    <3> QED
      BY <1>5, <1>10, <3>1
  <2>4. Cardinality(Within(D2, x)) # 0
    <3>1. Within(D2, x) # {}
      BY <1>5, <1>10
    <3> QED
      BY <1>7, <3>1, FS_EmptySet
  <2>5. c.size = Minus(b.size, Sum(fs, Within(F, p)))
    BY <1>3, <1>4, <1>9, <2>1 DEF Minus
  <2>6. c.files = Minus(b.files, Cardinality(Within(F, p)))
    BY <1>3, <1>4, <1>8, <2>2 DEF Minus
  <2>7. c.dirs = Minus(b.dirs, Cardinality(Within(D, p)))
    BY <1>3, <1>4, <1>8, <2>3, <2>4 DEF Minus
  <2> QED
    BY <1>10, <2>5, <2>6, <2>7 DEF b, c, D, F
<1>11. CASE ~IsPrefix(x, Front(p))
  <2>1. Within(D, x) = Within(D2, x) /\ Within(F, x) = Within(F2, x)
    BY <1>5, <1>11
  <2>2. c.size = b.size /\ c.files = b.files /\ c.dirs = b.dirs
    BY <1>3, <1>4, <1>9, <2>1
  <2>3. c.complete <=> b.complete
    <3>1. \A e \in Within(D2, x) : ls2[e] = ls[e]
      BY <1>2, <1>6
    <3> QED
      BY <1>3, <1>4, <2>1, <3>1
  <2> QED
    BY <1>11, <2>2, <2>3 DEF b, c
<1> QED
  BY <1>10, <1>11

Node(a, b, s, f, n) == [listed |-> a, complete |-> b, size |-> s, files |-> f, dirs |-> n]

LEMMA NodeFields ==
  ASSUME NEW a, NEW b, NEW s, NEW f, NEW n
  PROVE  LET r == Node(a, b, s, f, n)
         IN /\ r.listed = a /\ r.complete = b /\ r.size = s /\ r.files = f /\ r.dirs = n
            /\ \A c : [r EXCEPT !.complete = c] = Node(a, c, s, f, n)
            /\ \A u : [r EXCEPT !.size = u] = Node(a, b, u, f, n)
            /\ \A u : [r EXCEPT !.files = u] = Node(a, b, s, u, n)
            /\ \A u : [r EXCEPT !.dirs = u] = Node(a, b, s, f, u)
BY DEF Node

LEMMA BelowIsNode ==
  ASSUME NEW ls, NEW fs, NEW cut, NEW d
  PROVE  LET b == Below(ls, fs, cut, d)
         IN b = Node(ls[d], b.complete, b.size, b.files, b.dirs) /\ b.complete \in BOOLEAN
<1>1. \A c : [listed |-> ls[d], complete |-> c, size |-> Sum(fs, Within(DOMAIN fs, d)),
              files |-> Cardinality(Within(DOMAIN fs, d)), dirs |-> Cardinality(Within(DOMAIN ls, d)) - 1]
             = Node(ls[d], c, Sum(fs, Within(DOMAIN fs, d)), Cardinality(Within(DOMAIN fs, d)),
                    Cardinality(Within(DOMAIN ls, d)) - 1)
  BY DEF Node
<1>2. \E c \in BOOLEAN : Below(ls, fs, cut, d)
             = Node(ls[d], c, Sum(fs, Within(DOMAIN fs, d)), Cardinality(Within(DOMAIN fs, d)),
                    Cardinality(Within(DOMAIN ls, d)) - 1)
  <2> DEFINE c == (~cut /\ \A e \in Within(DOMAIN ls, d) : ls[e])
  <2>1. c \in BOOLEAN
    OBVIOUS
  <2> QED
    BY <1>1, <2>1, Zenon DEF Below
<1> QED
  BY <1>2, NodeFields

LEMMA SubtractFields ==
  ASSUME NEW dir, NEW d, NEW gone, NEW x \in DOMAIN dir, NEW a, NEW b, NEW s, NEW f, NEW n,
         dir[x] = Node(a, b, s, f, n)
  PROVE  Subtract(dir, d, gone)[x] =
           IF IsPrefix(x, d) THEN Node(a, b, Minus(s, gone.size), Minus(f, gone.files), Minus(n, gone.dirs))
           ELSE Node(a, b, s, f, n)
<1> DEFINE r == Node(a, b, s, f, n)
<1>0. r.size = s /\ r.files = f /\ r.dirs = n
  BY NodeFields
<1>1. [r EXCEPT !.size = Minus(r.size, gone.size), !.files = Minus(r.files, gone.files),
                !.dirs = Minus(r.dirs, gone.dirs)]
        = Node(a, b, Minus(s, gone.size), Minus(f, gone.files), Minus(n, gone.dirs))
  <2> DEFINE u == Minus(s, gone.size)
             v == Minus(f, gone.files)
             w == Minus(n, gone.dirs)
  <2>1. u = Minus(r.size, gone.size) /\ v = Minus(r.files, gone.files) /\ w = Minus(r.dirs, gone.dirs)
    BY <1>0
  <2> HIDE DEF u, v, w
  <2> SUFFICES [[[r EXCEPT !.size = u] EXCEPT !.files = v] EXCEPT !.dirs = w] = Node(a, b, u, v, w)
    BY <2>1, Zenon DEF u, v, w
  <2>2. [r EXCEPT !.size = u] = Node(a, b, u, f, n)
    BY NodeFields
  <2>3. [Node(a, b, u, f, n) EXCEPT !.files = v] = Node(a, b, u, v, n)
    BY NodeFields
  <2>4. [Node(a, b, u, v, n) EXCEPT !.dirs = w] = Node(a, b, u, v, w)
    BY NodeFields
  <2> QED
    BY <2>2, <2>3, <2>4, Zenon
<1>2. Subtract(dir, d, gone)[x] =
        IF IsPrefix(x, d)
        THEN [dir[x] EXCEPT !.size = Minus(dir[x].size, gone.size), !.files = Minus(dir[x].files, gone.files),
                            !.dirs = Minus(dir[x].dirs, gone.dirs)]
        ELSE dir[x]
  BY Zenon DEF Subtract, Minus
<1> QED
  BY <1>1, <1>2, Zenon

(* recheck_complete gives each folder at and above d what a folder is to   *)
(* have, and leaves the others alone.                                      *)
LEMMA RecheckIs ==
  ASSUME NEW S, NEW D \in SUBSET Seq(S), IsFiniteSet(D), NEW dir, DOMAIN dir = D, NEW d, NEW cut,
         NEW V \in [D -> BOOLEAN], \A x \in D : dir[x].complete \in BOOLEAN,
         \A x \in D :
           V[x] <=> IF IsPrefix(x, d) THEN dir[x].listed /\ ~cut /\ \A k \in In(D, x) : V[k]
                    ELSE dir[x].complete
  PROVE  Recheck(dir, d, cut) = [x \in D |-> [dir[x] EXCEPT !.complete = V[x]]]
<1> DEFINE E == DOMAIN dir
           Val(g, x) == IF IsPrefix(x, d) THEN dir[x].listed /\ ~cut /\ \A k \in In(E, x) : g[k]
                        ELSE dir[x].complete
           N(g) == g = [x \in E |-> Val(g, x)]
<1>1. \A g : \A x \in D : Val(g, x) \in BOOLEAN
  OBVIOUS
<1>2. \A x \in D : V[x] = Val(V, x)
  <2> SUFFICES ASSUME NEW x \in D PROVE V[x] = Val(V, x)
    OBVIOUS
  <2>1. V[x] \in BOOLEAN /\ Val(V, x) \in BOOLEAN
    BY <1>1
  <2>2. V[x] <=> Val(V, x)
    OBVIOUS
  <2> HIDE DEF Val
  <2> QED
    BY <2>1, <2>2
<1>3. V = [x \in D |-> V[x]]
  OBVIOUS
<1>4. N(V)
  <2> HIDE DEF Val
  <2> QED
    BY <1>2, <1>3
<1>5. ASSUME NEW g, N(g) PROVE g = V
  <2> DEFINE B == {x \in D : g[x] # V[x]}
  <2>1. \A x \in D : g[x] = Val(g, x)
    <3> HIDE DEF Val
    <3> QED
      BY <1>5
  <2>2. ASSUME B # {} PROVE FALSE
    <3>1. IsFiniteSet(B) /\ B \in SUBSET Seq(S)
      <4>1. B \subseteq D
        OBVIOUS
      <4> HIDE DEF B
      <4> QED
        BY <4>1, FS_Subset
    <3>2. PICK b \in B : \A x \in B : Len(x) <= Len(b)
      <4> HIDE DEF B
      <4> QED
        BY <2>2, <3>1, Longest
    <3>3. b \in D /\ g[b] # V[b]
      OBVIOUS
    <3>4. \A k \in In(D, b) : g[k] = V[k]
      <4> SUFFICES ASSUME NEW k \in In(D, b) PROVE g[k] = V[k]
        OBVIOUS
      <4>1. k \in D /\ k \in Seq(S) /\ k # <<>> /\ Front(k) = b
        BY DEF In
      <4>2. Len(b) = Len(k) - 1 /\ Len(k) \in Nat
        BY <4>1, FrontByElement
      <4>3. k \notin B
        <5> HIDE DEF B
        <5> QED
          BY <3>2, <4>2
      <4> QED
        BY <4>1, <4>3
    <3>5. Val(g, b) = Val(V, b)
      <4>1. (\A k \in In(D, b) : g[k]) <=> (\A k \in In(D, b) : V[k])
        BY <3>4
      <4> QED
        BY <4>1
    <3> HIDE DEF Val
    <3> QED
      BY <1>2, <2>1, <3>3, <3>5
  <2>3. \A x \in D : g[x] = V[x]
    BY <2>2
  <2>4. g = [x \in D |-> g[x]]
    BY <1>5
  <2> QED
    BY <1>3, <2>3, <2>4
<1>6. (CHOOSE g : N(g)) = V
  <2>1. N(CHOOSE g : N(g))
    <3> HIDE DEF N
    <3> QED
      BY <1>4
  <2> HIDE DEF N
  <2> QED
    BY <1>5, <2>1
<1>7. Recheck(dir, d, cut) = [x \in E |-> [dir[x] EXCEPT !.complete = (CHOOSE g : N(g))[x]]]
  BY Zenon DEF Recheck
<1> HIDE DEF N
<1> QED
  BY <1>6, <1>7

(* ScanTree::remove leaves the tree a scan without the item would have. *)
LEMMA RemovedFromTree ==
  ASSUME NEW S, NEW ls, NEW fs, NEW cut, IsScan(ls, fs, S),
         NEW p \in (DOMAIN ls \cup DOMAIN fs) \ {<<>>}
  PROVE  RemoveFromTree(Finished(ls, fs, cut), p)
           = Finished(Restrict(ls, Left(DOMAIN ls, p)), Restrict(fs, Left(DOMAIN fs, p)), cut)
<1> DEFINE D == DOMAIN ls
           F == DOMAIN fs
           D2 == Left(D, p)
           F2 == Left(F, p)
           ls2 == Restrict(ls, D2)
           fs2 == Restrict(fs, F2)
           A == AllBelow(ls, fs, cut)
           A2 == AllBelow(ls2, fs2, cut)
           t == Finished(ls, fs, cut)
           d == Front(p)
<1>1. t = [dir |-> A, file |-> fs, cancelled |-> cut]
  BY FinishedIs
<1>2. /\ IsTree(D, F, S) /\ IsTree(D2, F2, S)
      /\ D2 \subseteq D /\ F2 \subseteq F /\ D \cap F = {} /\ p \in Seq(S) /\ D \subseteq Seq(S) /\ F \subseteq Seq(S)
      /\ IsFiniteSet(D2)
  <2>1. IsTree(D, F, S)
    BY DEF IsScan
  <2>2. IsTree(D2, F2, S)
    <3> HIDE DEF D, F
    <3> QED
      BY <2>1, LeftIsTree DEF D, F
  <2> QED
    BY <2>1, <2>2 DEF IsTree, Left
<1>3. DOMAIN ls2 = D2 /\ DOMAIN fs2 = F2 /\ DOMAIN A = D /\ DOMAIN A2 = D2
      /\ (\A x \in D2 : ls2[x] = ls[x]) /\ (\A x \in F2 : fs2[x] = fs[x])
  BY DEF Restrict, AllBelow
<1>4. IsScan(ls2, fs2, S)
  <2>1. \A x \in D2 : ls2[x] \in BOOLEAN
    BY <1>2, <1>3 DEF IsScan
  <2>2. \A x \in F2 : fs2[x] \in Nat
    BY <1>2, <1>3 DEF IsScan
  <2>3. ls2 \in [D2 -> BOOLEAN]
    BY <2>1 DEF Restrict
  <2> HIDE DEF ls2, fs2, D2, F2
  <2> QED
    BY <1>2, <1>3, <2>2, <2>3 DEF IsScan
<1>5. Finished(ls2, fs2, cut) = [dir |-> A2, file |-> fs2, cancelled |-> cut]
  <2> HIDE DEF ls2, fs2
  <2> QED
    BY <1>4, FinishedIs
<1>6. \A x \in D : A[x] = Below(ls, fs, cut, x)
  BY DEF AllBelow
<1>7. \A x \in D2 : A2[x] = Below(ls2, fs2, cut, x)
  BY DEF AllBelow, Restrict
<1>8. \A x \in D : /\ A[x] = Node(ls[x], A[x].complete, A[x].size, A[x].files, A[x].dirs)
                   /\ A[x].complete \in BOOLEAN
  <2> HIDE DEF A
  <2> QED
    BY <1>6, BelowIsNode
<1>9. \A x \in D2 : /\ A2[x] = Node(ls[x], A2[x].complete, A2[x].size, A2[x].files, A2[x].dirs)
                    /\ A2[x].complete \in BOOLEAN
  <2>1. \A x \in D2 : ls2[x] = ls[x]
    BY <1>3
  <2> HIDE DEF ls2, fs2, A2, D2
  <2> QED
    BY <1>7, <2>1, BelowIsNode
<1>10. ASSUME NEW x \in D2
       PROVE  IF IsPrefix(x, d)
              THEN /\ A2[x].size = Minus(A[x].size, Sum(fs, Within(F, p)))
                   /\ A2[x].files = Minus(A[x].files, Cardinality(Within(F, p)))
                   /\ A2[x].dirs = Minus(A[x].dirs, Cardinality(Within(D, p)))
              ELSE /\ A2[x].size = A[x].size /\ A2[x].files = A[x].files /\ A2[x].dirs = A[x].dirs
                   /\ A2[x].complete <=> A[x].complete
  <2>1. \A l2, f2 : l2 = Restrict(ls, Left(DOMAIN ls, p)) /\ f2 = Restrict(fs, Left(DOMAIN fs, p)) /\ x \in DOMAIN l2 =>
          LET b == Below(ls, fs, cut, x)
              c == Below(l2, f2, cut, x)
          IN IF IsPrefix(x, Front(p))
             THEN /\ c.size = Minus(b.size, Sum(fs, Within(DOMAIN fs, p)))
                  /\ c.files = Minus(b.files, Cardinality(Within(DOMAIN fs, p)))
                  /\ c.dirs = Minus(b.dirs, Cardinality(Within(DOMAIN ls, p)))
             ELSE /\ c.size = b.size /\ c.files = b.files /\ c.dirs = b.dirs
                  /\ c.complete <=> b.complete
    BY BelowWithout
  <2>2. A[x] = Below(ls, fs, cut, x) /\ A2[x] = Below(ls2, fs2, cut, x) /\ x \in DOMAIN ls2
    BY <1>2, <1>3, <1>6, <1>7
  <2>3. LET b == Below(ls, fs, cut, x)
            c == Below(ls2, fs2, cut, x)
        IN IF IsPrefix(x, Front(p))
           THEN /\ c.size = Minus(b.size, Sum(fs, Within(DOMAIN fs, p)))
                /\ c.files = Minus(b.files, Cardinality(Within(DOMAIN fs, p)))
                /\ c.dirs = Minus(b.dirs, Cardinality(Within(DOMAIN ls, p)))
           ELSE /\ c.size = b.size /\ c.files = b.files /\ c.dirs = b.dirs
                /\ c.complete <=> b.complete
    BY <2>1, <2>2, Zenon
  <2> HIDE DEF A, A2
  <2> QED
    BY <2>2, <2>3
<1>11. CASE p \in D
  <2> DEFINE kept == Restrict(A, D2)
             gone == [A[p] EXCEPT !.dirs = @ + 1]
             sub == Subtract(kept, d, gone)
             V == [x \in D2 |-> A2[x].complete]
  <2>1. /\ gone.size = Sum(fs, Within(F, p)) /\ gone.files = Cardinality(Within(F, p))
        /\ gone.dirs = Cardinality(Within(D, p))
    <3>1. A[p] = Below(ls, fs, cut, p)
      BY <1>6, <1>11
    <3>2. /\ A[p].size = Sum(fs, Within(F, p)) /\ A[p].files = Cardinality(Within(F, p))
          /\ A[p].dirs = Cardinality(Within(D, p)) - 1
      BY <3>1, BelowFields
    <3>3. gone.size = A[p].size /\ gone.files = A[p].files /\ gone.dirs = A[p].dirs + 1
      BY <3>1 DEF Below
    <3>4. Cardinality(Within(D, p)) \in Nat
      <4>1. IsFiniteSet(D) /\ Within(D, p) \subseteq D
        BY <1>2 DEF IsTree, Within
      <4> HIDE DEF D
      <4> QED
        BY <4>1, FS_Subset, FS_CardinalityType
    <3> HIDE DEF gone, A
    <3> QED
      BY <3>2, <3>3, <3>4
  <2>2. DOMAIN kept = D2 /\ \A x \in D2 : kept[x] = A[x]
    BY DEF Restrict
  <2>3. DOMAIN sub = D2
    BY <2>2 DEF Subtract
  <2> HIDE DEF gone, kept
  <2>4. ASSUME NEW x \in D2
        PROVE  sub[x] = Node(ls[x], A[x].complete, A2[x].size, A2[x].files, A2[x].dirs)
    <3>1. x \in DOMAIN kept /\ kept[x] = A[x] /\ x \in D
      BY <1>2, <2>2
    <3>2. A[x] = Node(ls[x], A[x].complete, A[x].size, A[x].files, A[x].dirs)
      BY <1>8, <3>1
    <3> HIDE DEF A, A2, D, F, D2, F2, d
    <3>3. sub[x] = IF IsPrefix(x, d)
                   THEN Node(ls[x], A[x].complete, Minus(A[x].size, gone.size), Minus(A[x].files, gone.files),
                             Minus(A[x].dirs, gone.dirs))
                   ELSE Node(ls[x], A[x].complete, A[x].size, A[x].files, A[x].dirs)
      BY <3>1, <3>2, SubtractFields
    <3> QED
      BY <1>10, <2>1, <3>3
  <2>5. Recheck(sub, d, cut) = [x \in D2 |-> [sub[x] EXCEPT !.complete = V[x]]]
    <3>1. V \in [D2 -> BOOLEAN]
      <4> HIDE DEF A2, D2
      <4> QED
        BY <1>9
    <3>2. \A x \in D2 : sub[x].complete = A[x].complete /\ sub[x].listed = ls[x]
      <4> HIDE DEF sub, A, A2, D2
      <4> QED
        BY <2>4, NodeFields
    <3>3. \A x \in D2 : sub[x].complete \in BOOLEAN
      BY <1>2, <1>8, <3>2
    <3>4. ASSUME NEW x \in D2
          PROVE  V[x] <=> IF IsPrefix(x, d) THEN sub[x].listed /\ ~cut /\ \A k \in In(D2, x) : V[k]
                          ELSE sub[x].complete
      <4>1. A2[x].complete <=> ls2[x] /\ ~cut /\ \A k \in In(DOMAIN ls2, x) : A2[k].complete
        <5>1. x \in DOMAIN ls2 /\ A2 = AllBelow(ls2, fs2, cut)
          BY <1>3
        <5> HIDE DEF ls2, fs2, A2
        <5> QED
          BY <1>4, <5>1, CompleteAddsUp
      <4>2. A2[x].complete <=> ls[x] /\ ~cut /\ \A k \in In(D2, x) : A2[k].complete
        <5> HIDE DEF A2, ls2, D2
        <5> QED
          BY <1>3, <4>1
      <4>3. ~IsPrefix(x, d) => (A2[x].complete <=> A[x].complete)
        BY <1>10
      <4>4. \A k \in In(D2, x) : k \in D2 /\ V[k] = A2[k].complete
        BY DEF In
      <4>5. V[x] = A2[x].complete
        OBVIOUS
      <4> HIDE DEF V, A, A2, sub, D2
      <4> QED
        BY <3>2, <4>2, <4>3, <4>4, <4>5
    <3>5. \A T, dir, W, y :
            /\ T \in SUBSET Seq(S) /\ IsFiniteSet(T) /\ DOMAIN dir = T /\ W \in [T -> BOOLEAN]
            /\ \A x \in T : dir[x].complete \in BOOLEAN
            /\ \A x \in T : W[x] <=> IF IsPrefix(x, y) THEN dir[x].listed /\ ~cut /\ \A k \in In(T, x) : W[k]
                                      ELSE dir[x].complete
            => Recheck(dir, y, cut) = [x \in T |-> [dir[x] EXCEPT !.complete = W[x]]]
      BY RecheckIs
    <3>6. D2 \in SUBSET Seq(S) /\ IsFiniteSet(D2)
      BY <1>2
    <3> HIDE DEF sub, V, D2, D
    <3> QED
      BY <2>3, <3>1, <3>3, <3>4, <3>5, <3>6
  <2>6. Recheck(sub, d, cut) = A2
    <3>1. ASSUME NEW x \in D2 PROVE [sub[x] EXCEPT !.complete = V[x]] = A2[x]
      <4>1. sub[x] = Node(ls[x], A[x].complete, A2[x].size, A2[x].files, A2[x].dirs)
        BY <2>4
      <4>2. A2[x] = Node(ls[x], A2[x].complete, A2[x].size, A2[x].files, A2[x].dirs)
        BY <1>9
      <4>3. V[x] = A2[x].complete
        OBVIOUS
      <4> HIDE DEF sub, V, A, A2
      <4>4. [Node(ls[x], A[x].complete, A2[x].size, A2[x].files, A2[x].dirs) EXCEPT !.complete = V[x]]
              = Node(ls[x], V[x], A2[x].size, A2[x].files, A2[x].dirs)
        BY NodeFields
      <4> QED
        BY <4>1, <4>2, <4>3, <4>4
    <3>2. A2 = [x \in D2 |-> A2[x]]
      BY DEF AllBelow, Restrict
    <3> HIDE DEF sub, V, A2, D2
    <3> QED
      BY <2>5, <3>1, <3>2
  <2>7. RemoveFromTree(t, p) = [dir |-> Recheck(sub, d, cut), file |-> fs2, cancelled |-> cut]
    <3>1. RemoveFromTree(t, p) = RemoveDir(t, p)
      BY <1>1, <1>3, <1>11 DEF RemoveFromTree
    <3>2. t.dir = A /\ t.file = fs /\ t.cancelled = cut /\ DOMAIN t.dir = D
      BY <1>1, <1>3
    <3>3. RemoveDir(t, p) = [t EXCEPT !.dir = Recheck(sub, d, cut),
                                      !.file = Restrict(t.file, DOMAIN t.file \ Within(DOMAIN t.file, p))]
      BY <3>2 DEF RemoveDir, kept, gone, Left
    <3>4. Restrict(t.file, DOMAIN t.file \ Within(DOMAIN t.file, p)) = fs2
      BY <3>2 DEF Left
    <3> HIDE DEF t, sub, fs2, A
    <3> QED
      BY <1>1, <3>1, <3>3, <3>4
  <2> QED
    BY <1>5, <2>6, <2>7
<1>12. CASE p \notin D
  <2>1. p \in F /\ Within(D, p) = {} /\ Within(F, p) = {p} /\ D2 = D /\ F2 = F \ {p}
    <3>1. \A q \in D \cup F : IsPrefix(p, q) => q = p
      <4> HIDE DEF D, F
      <4> QED
        BY <1>2, <1>12, StepDown DEF D, F
    <3>2. IsPrefix(p, p)
      BY <1>2, PrefixOrder
    <3> QED
      BY <1>12, <3>1, <3>2 DEF Within, Left
  <2> DEFINE gone == [size |-> fs[p], files |-> 1, dirs |-> 0]
             sub == Subtract(A, d, gone)
  <2>2. Sum(fs, Within(F, p)) = gone.size /\ Cardinality(Within(F, p)) = gone.files
        /\ Cardinality(Within(D, p)) = gone.dirs
    <3>1. fs[p] \in Nat
      BY <2>1 DEF IsScan
    <3> HIDE DEF D, F
    <3> QED
      BY <2>1, <3>1, SumOfOne, FS_Singleton, FS_EmptySet
  <2>3. DOMAIN sub = D
    BY <1>3 DEF Subtract
  <2> HIDE DEF gone
  <2>4. ASSUME NEW x \in D PROVE sub[x] = A2[x]
    <3>1. x \in D2 /\ x \in DOMAIN A
      BY <1>3, <2>1
    <3>2. PICK b \in BOOLEAN : /\ A[x] = Node(ls[x], b, A[x].size, A[x].files, A[x].dirs)
                               /\ A[x].complete = b
      <4> HIDE DEF A
      <4> QED
        BY <1>8
    <3>3. PICK c \in BOOLEAN : /\ A2[x] = Node(ls[x], c, A2[x].size, A2[x].files, A2[x].dirs)
                               /\ A2[x].complete = c
      <4> HIDE DEF A2, D2
      <4> QED
        BY <1>9, <3>1
    <3>4. b = c
      <4>1. b <=> ~cut /\ \A e \in Within(D, x) : ls[e]
        BY <1>6, <3>2, BelowFields
      <4>2. c <=> ~cut /\ \A e \in Within(D2, x) : ls2[e]
        <5>1. A2[x].complete <=> ~cut /\ \A e \in Within(DOMAIN ls2, x) : ls2[e]
          <6>1. A2[x] = Below(ls2, fs2, cut, x)
            BY <1>7, <3>1
          <6> HIDE DEF ls2, fs2, A2
          <6> QED
            BY <6>1, BelowFields
        <5> HIDE DEF ls2, A2, D2
        <5> QED
          BY <1>3, <3>3, <5>1
      <4>3. \A e \in Within(D, x) : ls2[e] = ls[e]
        BY <1>3, <2>1 DEF Within
      <4> HIDE DEF D, D2, ls2
      <4> QED
        BY <2>1, <4>1, <4>2, <4>3
    <3> HIDE DEF A, A2, D, F, D2, F2, d
    <3>5. sub[x] = IF IsPrefix(x, d)
                   THEN Node(ls[x], b, Minus(A[x].size, gone.size), Minus(A[x].files, gone.files),
                             Minus(A[x].dirs, gone.dirs))
                   ELSE Node(ls[x], b, A[x].size, A[x].files, A[x].dirs)
      BY <3>1, <3>2, SubtractFields
    <3> QED
      BY <1>10, <2>2, <3>1, <3>3, <3>4, <3>5
  <2>5. sub = A2
    <3>1. sub = [x \in D |-> sub[x]]
      BY <2>3 DEF Subtract
    <3>2. A2 = [x \in D |-> A2[x]]
      BY <2>1 DEF AllBelow, Restrict
    <3> HIDE DEF sub, A2, D
    <3> QED
      BY <2>4, <3>1, <3>2
  <2>6. RemoveFromTree(t, p) = [dir |-> sub, file |-> fs2, cancelled |-> cut]
    <3>2. t.dir = A /\ t.file = fs /\ t.cancelled = cut /\ DOMAIN t.dir = D
      BY <1>1, <1>3
    <3>1. RemoveFromTree(t, p) = RemoveFile(t, p)
      BY <1>12, <2>1, <3>2 DEF RemoveFromTree
    <3>3. RemoveFile(t, p) = [t EXCEPT !.dir = sub, !.file = Restrict(t.file, DOMAIN t.file \ {p})]
      BY <3>2 DEF RemoveFile, gone
    <3>4. Restrict(t.file, DOMAIN t.file \ {p}) = fs2
      BY <2>1, <3>2
    <3> HIDE DEF t, sub, fs2, A
    <3> QED
      BY <1>1, <3>1, <3>3, <3>4
  <2> QED
    BY <1>5, <2>5, <2>6
<1> QED
  BY <1>11, <1>12

-----------------------------------------------------------------------------
(***************************************************************************)
(* Paths relative to a folder.                                             *)
(***************************************************************************)

(* The item that p is in folder r. *)
LEMMA JoinFacts ==
  ASSUME NEW S, NEW r \in Seq(S), NEW p \in Seq(S)
  PROVE  /\ r \o p \in Seq(S) /\ Len(r \o p) = Len(r) + Len(p) /\ IsPrefix(r, r \o p)
         /\ SubSeq(r \o p, Len(r) + 1, Len(r \o p)) = p
         /\ Len(r) \in Nat /\ Len(p) \in Nat
         /\ \A i \in 1..Len(r) : (r \o p)[i] = r[i]
         /\ \A i \in 1..Len(p) : (r \o p)[Len(r) + i] = p[i]
<1> DEFINE q == r \o p
<1>1. /\ q \in Seq(S) /\ Len(q) = Len(r) + Len(p)
      /\ \A i \in 1 .. Len(r) + Len(p) : q[i] = IF i <= Len(r) THEN r[i] ELSE p[i - Len(r)]
  BY ConcatProperties
<1>2. Len(r) \in Nat /\ Len(p) \in Nat
  BY LenProperties
<1> HIDE DEF q
<1>3. \A i \in 1..Len(r) : q[i] = r[i]
  <2>1. \A i \in 1..Len(r) : i \in 1 .. Len(r) + Len(p) /\ i <= Len(r)
    BY <1>2
  <2> QED
    BY <1>1, <2>1
<1>4. \A i \in 1..Len(p) : q[Len(r) + i] = p[i]
  <2> SUFFICES ASSUME NEW i \in 1..Len(p) PROVE q[Len(r) + i] = p[i]
    OBVIOUS
  <2>1. Len(r) + i \in 1 .. Len(r) + Len(p) /\ ~(Len(r) + i <= Len(r)) /\ Len(r) + i - Len(r) = i
    BY <1>2
  <2> QED
    BY <1>1, <2>1
<1>5. IsPrefix(r, q)
  <2>1. Len(r) <= Len(q)
    BY <1>1, <1>2
  <2> QED
    BY <1>1, <1>3, <2>1, PrefixByElement
<1>6. SubSeq(q, Len(r) + 1, Len(q)) = p
  <2> DEFINE m == Len(r) + 1
             n == Len(q)
  <2>1. m \in Int /\ n \in Int /\ n - m + 1 = Len(p) /\ (m <= n => n - m + 1 = Len(p)) /\ (~(m <= n) => Len(p) = 0)
    BY <1>1, <1>2
  <2>2. \A i \in m..n : q[i] \in S
    <3>1. \A i \in 1..Len(q) : q[i] \in S
      BY <1>1, ElementOfSeq
    <3>2. \A i \in m..n : i \in 1..Len(q)
      BY <1>1, <1>2
    <3> QED
      BY <3>1, <3>2
  <2> HIDE DEF m, n
  <2>3. /\ SubSeq(q, m, n) \in Seq(S) /\ Len(SubSeq(q, m, n)) = IF m <= n THEN n - m + 1 ELSE 0
        /\ \A i \in 1 .. n - m + 1 : SubSeq(q, m, n)[i] = q[m + i - 1]
    BY <2>1, <2>2, SubSeqProperties
  <2>4. Len(SubSeq(q, m, n)) = Len(p)
    BY <2>1, <2>3
  <2>5. \A i \in 1..Len(p) : SubSeq(q, m, n)[i] = p[i]
    <3> SUFFICES ASSUME NEW i \in 1..Len(p) PROVE SubSeq(q, m, n)[i] = p[i]
      OBVIOUS
    <3>1. m + i - 1 = Len(r) + i
      BY <1>2 DEF m
    <3> QED
      BY <1>4, <2>1, <2>3, <3>1
  <2>6. SubSeq(q, m, n) = p
    BY <2>3, <2>4, <2>5, SeqEqual
  <2> QED
    BY <2>6 DEF m, n
<1> QED
  BY <1>1, <1>2, <1>3, <1>4, <1>5, <1>6 DEF q

(* The path from a folder to an item below it. *)
LEMMA RelativePath ==
  ASSUME NEW S, NEW r \in Seq(S), NEW q \in Seq(S), IsPrefix(r, q)
  PROVE  LET p == SubSeq(q, Len(r) + 1, Len(q))
         IN p \in Seq(S) /\ r \o p = q
<1> DEFINE m == Len(r) + 1
           n == Len(q)
           p == SubSeq(q, m, n)
<1>1. Len(r) \in Nat /\ Len(q) \in Nat /\ Len(r) <= Len(q) /\ \A i \in 1..Len(r) : r[i] = q[i]
  BY LenProperties, PrefixByElement
<1>2. m \in Int /\ n \in Int /\ n - m + 1 = Len(q) - Len(r) /\ (~(m <= n) => Len(q) - Len(r) = 0)
  BY <1>1
<1>3. \A i \in m..n : q[i] \in S
  <2>1. \A i \in 1..Len(q) : q[i] \in S
    BY ElementOfSeq
  <2>2. \A i \in m..n : i \in 1..Len(q)
    BY <1>1
  <2> QED
    BY <2>1, <2>2
<1> HIDE DEF m, n
<1>4. /\ SubSeq(q, m, n) \in Seq(S) /\ Len(SubSeq(q, m, n)) = IF m <= n THEN n - m + 1 ELSE 0
      /\ \A i \in 1 .. n - m + 1 : SubSeq(q, m, n)[i] = q[m + i - 1]
  BY <1>2, <1>3, SubSeqProperties
<1>5. p \in Seq(S) /\ Len(p) = Len(q) - Len(r) /\ \A i \in 1..(Len(q) - Len(r)) : p[i] = q[m + i - 1]
  BY <1>2, <1>4
<1> HIDE DEF p
<1>6. /\ r \o p \in Seq(S) /\ Len(r \o p) = Len(r) + Len(p)
      /\ \A i \in 1..Len(r) : (r \o p)[i] = r[i]
      /\ \A i \in 1..Len(p) : (r \o p)[Len(r) + i] = p[i]
  BY <1>5, JoinFacts
<1>7. Len(r \o p) = Len(q)
  BY <1>1, <1>5, <1>6
<1>8. ASSUME NEW i \in 1..Len(q) PROVE (r \o p)[i] = q[i]
  <2>1. CASE i <= Len(r)
    <3>1. i \in 1..Len(r)
      BY <1>1, <2>1
    <3> QED
      BY <1>1, <1>6, <3>1
  <2>2. CASE ~(i <= Len(r))
    <3> DEFINE j == i - Len(r)
    <3>1. j \in 1..(Len(q) - Len(r)) /\ Len(r) + j = i /\ m + j - 1 = i
      BY <1>1, <2>2 DEF m
    <3> HIDE DEF j
    <3> QED
      BY <1>5, <1>6, <3>1
  <2> QED
    BY <2>1, <2>2
<1>9. r \o p = q
  BY <1>6, <1>7, <1>8, SeqEqual
<1> QED
  BY <1>5, <1>9 DEF p, m, n

LEMMA JoinPrefix ==
  ASSUME NEW S, NEW r \in Seq(S), NEW a \in Seq(S), NEW b \in Seq(S)
  PROVE  /\ IsPrefix(r \o a, r \o b) <=> IsPrefix(a, b)
         /\ r \o a = r \o b => a = b
<1>1. /\ r \o a \in Seq(S) /\ Len(r \o a) = Len(r) + Len(a) /\ Len(r) \in Nat /\ Len(a) \in Nat
      /\ \A i \in 1..Len(r) : (r \o a)[i] = r[i]
      /\ \A i \in 1..Len(a) : (r \o a)[Len(r) + i] = a[i]
      /\ SubSeq(r \o a, Len(r) + 1, Len(r \o a)) = a
  BY JoinFacts
<1>2. /\ r \o b \in Seq(S) /\ Len(r \o b) = Len(r) + Len(b) /\ Len(b) \in Nat
      /\ \A i \in 1..Len(r) : (r \o b)[i] = r[i]
      /\ \A i \in 1..Len(b) : (r \o b)[Len(r) + i] = b[i]
      /\ SubSeq(r \o b, Len(r) + 1, Len(r \o b)) = b
  BY JoinFacts
<1> DEFINE x == r \o a
           y == r \o b
<1>3. /\ IsPrefix(x, y) <=> Len(x) <= Len(y) /\ \A i \in 1..Len(x) : x[i] = y[i]
      /\ IsPrefix(a, b) <=> Len(a) <= Len(b) /\ \A i \in 1..Len(a) : a[i] = b[i]
  <2>1. x \in Seq(S) /\ y \in Seq(S)
    BY <1>1, <1>2
  <2> HIDE DEF x, y
  <2> QED
    BY <2>1, PrefixByElement
<1>4. ASSUME IsPrefix(x, y) PROVE IsPrefix(a, b)
  <2>1. Len(a) <= Len(b)
    BY <1>1, <1>2, <1>3, <1>4
  <2>2. ASSUME NEW i \in 1..Len(a) PROVE a[i] = b[i]
    <3>1. Len(r) + i \in 1..Len(x) /\ i \in 1..Len(b)
      BY <1>1, <1>2, <2>1
    <3>2. x[Len(r) + i] = y[Len(r) + i]
      BY <1>3, <1>4, <3>1
    <3> QED
      BY <1>1, <1>2, <3>1, <3>2
  <2> QED
    BY <1>3, <2>1, <2>2
<1>5. ASSUME IsPrefix(a, b) PROVE IsPrefix(x, y)
  <2>1. Len(x) <= Len(y) /\ Len(a) <= Len(b)
    BY <1>1, <1>2, <1>3, <1>5
  <2>2. ASSUME NEW i \in 1..Len(x) PROVE x[i] = y[i]
    <3>1. CASE i <= Len(r)
      <4>1. i \in 1..Len(r)
        BY <1>1, <3>1
      <4> QED
        BY <1>1, <1>2, <4>1
    <3>2. CASE ~(i <= Len(r))
      <4> DEFINE j == i - Len(r)
      <4>1. j \in 1..Len(a) /\ j \in 1..Len(b) /\ Len(r) + j = i
        BY <1>1, <1>2, <2>1, <3>2
      <4> HIDE DEF j
      <4>2. x[Len(r) + j] = a[j] /\ y[Len(r) + j] = b[j] /\ a[j] = b[j]
        BY <1>1, <1>2, <1>3, <1>5, <4>1
      <4> QED
        BY <4>1, <4>2
    <3> QED
      BY <3>1, <3>2
  <2> QED
    BY <1>3, <2>1, <2>2
<1> QED
  BY <1>1, <1>2, <1>4, <1>5

(* The folder an item is in, and its names. *)
LEMMA JoinFront ==
  ASSUME NEW S, NEW r \in Seq(S), NEW p \in Seq(S), p # <<>>
  PROVE  r \o p # <<>> /\ Front(r \o p) = r \o Front(p)
<1>1. /\ r \o p \in Seq(S) /\ Len(r \o p) = Len(r) + Len(p) /\ Len(r) \in Nat
      /\ \A i \in 1..Len(r) : (r \o p)[i] = r[i]
      /\ \A i \in 1..Len(p) : (r \o p)[Len(r) + i] = p[i]
  BY JoinFacts
<1>2. /\ Front(p) \in Seq(S) /\ Len(Front(p)) = Len(p) - 1 /\ Len(p) \in Nat \ {0}
      /\ \A i \in 1..(Len(p) - 1) : Front(p)[i] = p[i]
  BY FrontByElement
<1>3. r \o p # <<>>
  BY <1>1, <1>2, EmptySeq
<1>4. /\ Front(r \o p) \in Seq(S) /\ Len(Front(r \o p)) = Len(r \o p) - 1
      /\ \A i \in 1..(Len(r \o p) - 1) : Front(r \o p)[i] = (r \o p)[i]
  BY <1>1, <1>3, FrontByElement
<1>5. /\ r \o Front(p) \in Seq(S) /\ Len(r \o Front(p)) = Len(r) + Len(Front(p))
      /\ \A i \in 1..Len(r) : (r \o Front(p))[i] = r[i]
      /\ \A i \in 1..Len(Front(p)) : (r \o Front(p))[Len(r) + i] = Front(p)[i]
  <2>1. \A u \in Seq(S) : /\ r \o u \in Seq(S) /\ Len(r \o u) = Len(r) + Len(u)
                          /\ \A i \in 1..Len(r) : (r \o u)[i] = r[i]
                          /\ \A i \in 1..Len(u) : (r \o u)[Len(r) + i] = u[i]
    BY JoinFacts
  <2> QED
    BY <1>2, <2>1
<1> DEFINE x == Front(r \o p)
           y == r \o Front(p)
           n == Len(r) + Len(p) - 1
<1>6. Len(x) = n /\ Len(y) = n /\ Len(r \o p) - 1 = n
  BY <1>1, <1>2, <1>4, <1>5
<1>7. ASSUME NEW i \in 1..n PROVE x[i] = y[i]
  <2>1. CASE i <= Len(r)
    <3>1. i \in 1..Len(r)
      BY <1>1, <2>1
    <3> QED
      BY <1>1, <1>4, <1>5, <1>6, <3>1
  <2>2. CASE ~(i <= Len(r))
    <3> DEFINE j == i - Len(r)
    <3>1. j \in 1..(Len(p) - 1) /\ j \in 1..Len(p) /\ Len(r) + j = i
      BY <1>1, <1>2, <2>2
    <3> HIDE DEF j
    <3>2. /\ x[Len(r) + j] = (r \o p)[Len(r) + j] /\ (r \o p)[Len(r) + j] = p[j]
          /\ y[Len(r) + j] = Front(p)[j] /\ Front(p)[j] = p[j]
      BY <1>1, <1>2, <1>4, <1>5, <1>6, <3>1
    <3> QED
      BY <3>1, <3>2
  <2> QED
    BY <2>1, <2>2
<1>8. x = y
  <2>1. x \in Seq(S) /\ y \in Seq(S)
    BY <1>4, <1>5
  <2> HIDE DEF x, y, n
  <2> QED
    BY <1>6, <1>7, <2>1, SeqEqual
<1> QED
  BY <1>3, <1>8

LEMMA NamesOfPrefix ==
  ASSUME NEW S, NEW s \in Seq(S), NEW t \in Seq(S), IsPrefix(s, t)
  PROVE  Range(s) \subseteq Range(t)
<1>1. Len(s) <= Len(t) /\ Len(s) \in Nat /\ Len(t) \in Nat /\ \A i \in 1..Len(s) : s[i] = t[i]
  BY PrefixByElement, LenProperties
<1>2. DOMAIN s = 1..Len(s) /\ DOMAIN t = 1..Len(t)
  BY LenProperties
<1>3. \A i \in 1..Len(s) : i \in 1..Len(t)
  BY <1>1
<1> QED
  BY <1>1, <1>2, <1>3 DEF Range

-----------------------------------------------------------------------------
(***************************************************************************)
(* The scan the directory walk makes of the items T.                       *)
(***************************************************************************)

Seen(T, r, m, ex) ==
  {p \in {SubSeq(q, Len(r) + 1, Len(q)) : q \in Within(T, r)} : Len(p) <= m /\ Range(p) \cap ex = {}}
SeenFolders(T, r, m, ex) == {p \in Seen(T, r, m, ex) : IsDir(disk, r \o p)}
SeenFiles(T, r, m, ex) == {p \in Seen(T, r, m, ex) : IsFile(disk, r \o p)}
SeenListed(T, r, m, ex) == [d \in SeenFolders(T, r, m, ex) |-> d = <<>> \/ Len(d) < m]
SeenSizes(T, r, m, ex) ==
  [f \in SeenFiles(T, r, m, ex) |-> OnDisk(disk.about[disk.at[r \o f]])]

LEMMA WalkedIs ==
  \A T, r, m, ex :
    Walked(disk, T, r, m, ex) = Finished(SeenListed(T, r, m, ex), SeenSizes(T, r, m, ex), FALSE)
BY DEF Walked, Seen, SeenFolders, SeenFiles, SeenListed, SeenSizes

(* A path of the disk is in a folder of it, whatever it is a prefix of. *)
LEMMA PrefixIsFolder ==
  ASSUME layout \in Layouts, NEW s \in Seq(Names), NEW q \in Paths, IsPrefix(s, q), s # q
  PROVE  s \in Paths /\ IsDir(disk, s)
<1> DEFINE T == {x \in Paths : IsPrefix(s, x) /\ s # x}
<1>1. /\ Paths \subseteq Seq(Names) /\ T \subseteq Paths /\ q \in T
      /\ \A p \in Paths \ {<<>>} : Front(p) \in Paths /\ IsDir(disk, Front(p))
  BY DiskFacts
<1>2. PICK x \in T : \A y \in T : Len(x) <= Len(y)
  <2>1. T \in SUBSET Seq(Names) /\ T # {}
    BY <1>1
  <2> HIDE DEF T
  <2> QED
    BY <2>1, Shortest
<1>3. x \in Paths /\ x \in Seq(Names) /\ IsPrefix(s, x) /\ s # x
  BY <1>1, <1>2
<1>4. x # <<>>
  BY <1>3, RootIsFirst
<1>5. /\ Front(x) \in Paths /\ IsDir(disk, Front(x)) /\ IsPrefix(s, Front(x))
      /\ Len(Front(x)) = Len(x) - 1 /\ Len(x) \in Nat
  BY <1>1, <1>3, <1>4, PrefixOfFront, FrontByElement
<1>6. Front(x) \notin T
  BY <1>2, <1>5
<1> QED
  BY <1>5, <1>6

LEMMA SeenIs ==
  ASSUME NEW r \in Seq(Names), NEW T \in SUBSET Seq(Names), NEW m, NEW ex
  PROVE  Seen(T, r, m, ex) = {p \in Seq(Names) : r \o p \in T /\ Len(p) <= m /\ Range(p) \cap ex = {}}
<1>1. ASSUME NEW q \in Within(T, r)
      PROVE  SubSeq(q, Len(r) + 1, Len(q)) \in Seq(Names) /\ r \o SubSeq(q, Len(r) + 1, Len(q)) = q
  BY RelativePath DEF Within
<1>2. ASSUME NEW p \in Seq(Names), r \o p \in T
      PROVE  r \o p \in Within(T, r) /\ SubSeq(r \o p, Len(r) + 1, Len(r \o p)) = p
  BY <1>2, JoinFacts DEF Within
<1>3. \A q \in Within(T, r) : q \in T
  BY DEF Within
<1>4. ASSUME NEW p \in Seen(T, r, m, ex)
      PROVE  p \in Seq(Names) /\ r \o p \in T /\ Len(p) <= m /\ Range(p) \cap ex = {}
  <2>1. PICK q \in Within(T, r) : p = SubSeq(q, Len(r) + 1, Len(q))
    BY DEF Seen
  <2>2. Len(p) <= m /\ Range(p) \cap ex = {}
    BY DEF Seen
  <2>3. p \in Seq(Names) /\ r \o p = q /\ q \in T
    BY <1>1, <1>3, <2>1
  <2> QED
    BY <2>2, <2>3
<1>5. ASSUME NEW p \in Seq(Names), r \o p \in T, Len(p) <= m, Range(p) \cap ex = {}
      PROVE  p \in Seen(T, r, m, ex)
  BY <1>2, <1>5 DEF Seen
<1> QED
  BY <1>4, <1>5

LEMMA SeenIsAll ==
  \A r \in Seq(Names) : \A T, m, ex :
    T \subseteq Seq(Names) =>
      Seen(T, r, m, ex) = {p \in Seq(Names) : r \o p \in T /\ Len(p) <= m /\ Range(p) \cap ex = {}}
BY SeenIs

LEMMA ImageFinite ==
  ASSUME NEW A, IsFiniteSet(A), NEW h
  PROVE  IsFiniteSet({h[x] : x \in A})
<1> DEFINE I == {h[x] : x \in A}
           g == [x \in A |-> h[x]]
<1>1. g \in Surjection(A, I)
  BY DEF Surjection
<1> HIDE DEF I, g
<1>2. IsFiniteSet(I)
  BY <1>1, FS_Surjection
<1> QED
  BY <1>2 DEF I

LEMMA SizesAreNumbers ==
  ASSUME layout \in Layouts, NEW p \in Paths
  PROVE  OnDisk(disk.about[disk.at[p]]) \in Nat
<1> DEFINE d == layout.disk
<1>1. \A q \in DOMAIN d.at : {d.about[d.at[q]].size, d.about[d.at[q]].local} \subseteq Nat
  BY VolumeAssumption
<1>2. disk.about[disk.at[p]].size \in Nat /\ disk.about[disk.at[p]].local \in Nat
  BY <1>1 DEF disk, Paths
<1> QED
  BY <1>2 DEF OnDisk

(* It is a tree: what is seen is in a folder that is seen. *)
LEMMA WalkIsScan ==
  ASSUME layout \in Layouts, NEW r \in Paths, IsDir(disk, r), NEW m \in Nat, NEW ex
  PROVE  /\ IsScan(SeenListed(Paths, r, m, ex), SeenSizes(Paths, r, m, ex), Names)
         /\ DOMAIN SeenListed(Paths, r, m, ex) = SeenFolders(Paths, r, m, ex)
         /\ DOMAIN SeenSizes(Paths, r, m, ex) = SeenFiles(Paths, r, m, ex)
         /\ <<>> \in SeenFolders(Paths, r, m, ex)
<1> DEFINE all == Seen(Paths, r, m, ex)
           D == SeenFolders(Paths, r, m, ex)
           F == SeenFiles(Paths, r, m, ex)
<1>1. /\ IsFiniteSet(Paths) /\ Paths \subseteq Seq(Names) /\ r \in Seq(Names)
      /\ \A p \in Paths \ {<<>>} : Front(p) \in Paths /\ IsDir(disk, Front(p))
  BY DiskFacts
<1>2. all = {p \in Seq(Names) : r \o p \in Paths /\ Len(p) <= m /\ Range(p) \cap ex = {}}
  BY <1>1, SeenIsAll
<1>3. D = {p \in all : IsDir(disk, r \o p)} /\ F = {p \in all : IsFile(disk, r \o p)}
  BY DEF SeenFolders, SeenFiles
<1>4. IsFiniteSet(all)
  <2> DEFINE W == Within(Paths, r)
             I == {SubSeq(q, Len(r) + 1, Len(q)) : q \in W}
  <2>1. IsFiniteSet(W)
    <3>1. W \subseteq Paths
      BY DEF Within
    <3> HIDE DEF W
    <3> QED
      BY <1>1, <3>1, FS_Subset
  <2>2. IsFiniteSet(I)
    <3> DEFINE h == [q \in W |-> SubSeq(q, Len(r) + 1, Len(q))]
    <3>1. I = {h[q] : q \in W}
      OBVIOUS
    <3> HIDE DEF W, h, I
    <3> QED
      BY <2>1, <3>1, ImageFinite
  <2>3. all \subseteq I
    BY DEF Seen
  <2> HIDE DEF all, I
  <2> QED
    BY <2>2, <2>3, FS_Subset
<1> HIDE DEF all, D, F
<1>5. /\ IsFiniteSet(D) /\ IsFiniteSet(F) /\ D \subseteq Seq(Names) /\ F \subseteq Seq(Names) /\ D \cap F = {}
  <2>1. D \subseteq all /\ F \subseteq all
    BY <1>3
  <2>2. IsFiniteSet(D) /\ IsFiniteSet(F)
    BY <1>4, <2>1, FS_Subset
  <2> QED
    BY <1>2, <1>3, <2>2 DEF IsDir, IsFile
<1>6. <<>> \in D
  <2>1. <<>> \in Seq(Names) /\ r \o <<>> = r /\ Len(<<>>) = 0 /\ Range(<<>>) = {}
    BY <1>1, EmptySeq, ConcatEmptySeq DEF Range
  <2>2. 0 <= m
    OBVIOUS
  <2> QED
    BY <1>2, <1>3, <2>1, <2>2
<1>7. ASSUME NEW p \in (D \cup F) \ {<<>>} PROVE Front(p) \in D
  <2>1. p \in Seq(Names) /\ p # <<>> /\ r \o p \in Paths /\ Len(p) <= m /\ Range(p) \cap ex = {}
    BY <1>2, <1>3
  <2>2. r \o p # <<>> /\ Front(r \o p) = r \o Front(p)
    BY <1>1, <2>1, JoinFront
  <2>3. /\ Front(p) \in Seq(Names) /\ Len(Front(p)) = Len(p) - 1 /\ Len(p) \in Nat
    BY <2>1, FrontByElement
  <2>4. Range(Front(p)) \subseteq Range(p)
    BY <2>1, <2>3, PrefixOfFront, NamesOfPrefix
  <2>5. r \o Front(p) \in Paths /\ IsDir(disk, r \o Front(p))
    BY <1>1, <2>1, <2>2
  <2>6. Len(Front(p)) <= m /\ Range(Front(p)) \cap ex = {}
    BY <2>1, <2>3, <2>4
  <2> QED
    BY <1>2, <1>3, <2>3, <2>5, <2>6
<1>8. <<>> \notin F
  BY <1>5, <1>6
<1>9. IsTree(D, F, Names)
  BY <1>5, <1>7, <1>8 DEF IsTree
<1>10. /\ DOMAIN SeenListed(Paths, r, m, ex) = D /\ DOMAIN SeenSizes(Paths, r, m, ex) = F
       /\ SeenListed(Paths, r, m, ex) \in [D -> BOOLEAN]
  BY DEF SeenListed, SeenSizes, D, F
<1>11. ASSUME NEW f \in F PROVE SeenSizes(Paths, r, m, ex)[f] \in Nat
  <2>1. r \o f \in Paths
    BY <1>2, <1>3
  <2>2. OnDisk(disk.about[disk.at[r \o f]]) \in Nat
    BY <2>1, SizesAreNumbers
  <2> QED
    BY <2>2 DEF SeenSizes, F
<1>12. IsScan(SeenListed(Paths, r, m, ex), SeenSizes(Paths, r, m, ex), Names)
  BY <1>9, <1>10, <1>11 DEF IsScan
<1> QED
  BY <1>6, <1>10, <1>12 DEF D, F

-----------------------------------------------------------------------------
(***************************************************************************)
(* Removal in place.                                                       *)
(***************************************************************************)

(* A walk of what is left when an item is gone sees what the walk before   *)
(* saw, without what is below the item.                                    *)
LEMMA WalkWithout ==
  ASSUME layout \in Layouts, NEW r \in Paths, NEW m, NEW ex, NEW p \in Seq(Names),
         NEW T, T = Paths \ Within(Paths, r \o p)
  PROVE  LET ls == SeenListed(Paths, r, m, ex)
             fs == SeenSizes(Paths, r, m, ex)
         IN /\ SeenListed(T, r, m, ex) = Restrict(ls, Left(DOMAIN ls, p))
            /\ SeenSizes(T, r, m, ex) = Restrict(fs, Left(DOMAIN fs, p))
<1>1. Paths \subseteq Seq(Names) /\ r \in Seq(Names) /\ T \in SUBSET Seq(Names)
  BY DiskFacts
<1>2. /\ Seen(Paths, r, m, ex) = {x \in Seq(Names) : r \o x \in Paths /\ Len(x) <= m /\ Range(x) \cap ex = {}}
      /\ Seen(T, r, m, ex) = {x \in Seq(Names) : r \o x \in T /\ Len(x) <= m /\ Range(x) \cap ex = {}}
  BY <1>1, SeenIsAll
<1>3. ASSUME NEW x \in Seq(Names) PROVE r \o x \in T <=> r \o x \in Paths /\ ~IsPrefix(p, x)
  <2>1. IsPrefix(r \o p, r \o x) <=> IsPrefix(p, x)
    BY <1>1, JoinPrefix
  <2> QED
    BY <2>1 DEF Within
<1>4. Seen(T, r, m, ex) = {x \in Seen(Paths, r, m, ex) : ~IsPrefix(p, x)}
  BY <1>2, <1>3
<1>5. /\ SeenFolders(T, r, m, ex) = Left(SeenFolders(Paths, r, m, ex), p)
      /\ SeenFiles(T, r, m, ex) = Left(SeenFiles(Paths, r, m, ex), p)
  BY <1>4 DEF SeenFolders, SeenFiles, Left, Within
<1>6. /\ DOMAIN SeenListed(Paths, r, m, ex) = SeenFolders(Paths, r, m, ex)
      /\ DOMAIN SeenSizes(Paths, r, m, ex) = SeenFiles(Paths, r, m, ex)
  BY DEF SeenListed, SeenSizes
<1>7. \A U, q : Left(U, q) \subseteq U
  BY DEF Left
<1>8. SeenListed(T, r, m, ex) = Restrict(SeenListed(Paths, r, m, ex), Left(SeenFolders(Paths, r, m, ex), p))
  BY <1>5, <1>7 DEF SeenListed, Restrict
<1>9. SeenSizes(T, r, m, ex) = Restrict(SeenSizes(Paths, r, m, ex), Left(SeenFiles(Paths, r, m, ex), p))
  BY <1>5, <1>7 DEF SeenSizes, Restrict
<1> QED
  BY <1>6, <1>8, <1>9

(* Nothing changes when the item is none of the tree. *)
LEMMA NothingToRemove ==
  ASSUME NEW S, NEW ls, NEW fs, NEW cut, IsScan(ls, fs, S), NEW p, p \notin DOMAIN ls, p \notin DOMAIN fs
  PROVE  RemoveFromTree(Finished(ls, fs, cut), p) = Finished(ls, fs, cut)
<1> DEFINE t == Finished(ls, fs, cut)
           A == AllBelow(ls, fs, cut)
<1>1. t = [dir |-> A, file |-> fs, cancelled |-> cut]
  BY FinishedIs
<1>2. DOMAIN A = DOMAIN ls
  BY DEF AllBelow
<1> HIDE DEF A, t
<1>3. t.dir = A /\ t.file = fs
  BY <1>1
<1>4. RemoveFromTree(t, p) = t
  BY <1>2, <1>3 DEF RemoveFromTree
<1> QED
  BY <1>4 DEF t

(* A scan of a folder without an item that is gone from below the folder   *)
(* is the scan of what is left.                                            *)
LEMMA RemovedIsRescanned ==
  ASSUME layout \in Layouts, NEW r \in Paths, IsDir(disk, r), NEW m \in Nat, NEW ex,
         NEW p \in Seq(Names), p # <<>>, r \o p \in Paths
  PROVE  RemoveFromTree(Walked(disk, Paths, r, m, ex), p)
           = Walked(disk, Paths \ Within(Paths, r \o p), r, m, ex)
<1> DEFINE T == Paths \ Within(Paths, r \o p)
           ls == SeenListed(Paths, r, m, ex)
           fs == SeenSizes(Paths, r, m, ex)
           D == SeenFolders(Paths, r, m, ex)
           F == SeenFiles(Paths, r, m, ex)
           cut == FALSE
<1>1. IsScan(ls, fs, Names) /\ DOMAIN ls = D /\ DOMAIN fs = F
  BY WalkIsScan
<1>2. /\ Walked(disk, Paths, r, m, ex) = Finished(ls, fs, cut)
      /\ Walked(disk, T, r, m, ex) = Finished(SeenListed(T, r, m, ex), SeenSizes(T, r, m, ex), cut)
  <2> HIDE DEF T
  <2> QED
    BY WalkedIs
<1>3. /\ SeenListed(T, r, m, ex) = Restrict(ls, Left(D, p))
      /\ SeenSizes(T, r, m, ex) = Restrict(fs, Left(F, p))
  <2>1. /\ SeenListed(T, r, m, ex) = Restrict(ls, Left(DOMAIN ls, p))
        /\ SeenSizes(T, r, m, ex) = Restrict(fs, Left(DOMAIN fs, p))
    BY WalkWithout
  <2> HIDE DEF ls, fs, D, F, T
  <2> QED
    BY <1>1, <2>1
<1> HIDE DEF ls, fs, T, cut
<1>4. CASE p \in D \cup F
  <2>1. RemoveFromTree(Finished(ls, fs, cut), p)
          = Finished(Restrict(ls, Left(DOMAIN ls, p)), Restrict(fs, Left(DOMAIN fs, p)), cut)
    <3>1. p \in (DOMAIN ls \cup DOMAIN fs) \ {<<>>}
      BY <1>1, <1>4
    <3> HIDE DEF D, F
    <3> QED
      BY <1>1, <3>1, RemovedFromTree
  <2> HIDE DEF D, F
  <2> QED
    BY <1>1, <1>2, <1>3, <2>1 DEF T
<1>5. CASE p \notin D \cup F
  <2>1. ASSUME NEW x \in D \cup F, IsPrefix(p, x) PROVE FALSE
    <3>1. Paths \subseteq Seq(Names) /\ r \in Seq(Names)
      BY DiskFacts
    <3>2. Seen(Paths, r, m, ex) = {y \in Seq(Names) : r \o y \in Paths /\ Len(y) <= m /\ Range(y) \cap ex = {}}
      BY <3>1, SeenIsAll
    <3>3. x \in Seq(Names) /\ r \o x \in Paths /\ Len(x) <= m /\ Range(x) \cap ex = {}
      BY <3>2 DEF SeenFolders, SeenFiles
    <3>4. Len(p) <= m
      <4>1. Len(p) <= Len(x) /\ Len(p) \in Nat /\ Len(x) \in Nat
        BY <2>1, <3>3, PrefixByElement, LenProperties
      <4> QED
        BY <3>3, <4>1
    <3>5. Range(p) \cap ex = {}
      BY <2>1, <3>3, NamesOfPrefix
    <3>6. p \in Seen(Paths, r, m, ex)
      BY <3>2, <3>4, <3>5
    <3>7. ~IsDir(disk, r \o p)
      BY <1>5, <3>6 DEF SeenFolders
    <3>8. IsPrefix(r \o p, r \o x)
      BY <2>1, <3>1, <3>3, JoinPrefix
    <3>9. r \o x = r \o p
      BY <3>3, <3>7, <3>8, NothingBelow DEF Within
    <3>10. x = p
      BY <3>1, <3>3, <3>9, JoinPrefix
    <3> QED
      BY <1>5, <3>10
  <2>2. Left(D, p) = D /\ Left(F, p) = F
    BY <2>1 DEF Left, Within
  <2>3. Restrict(ls, D) = ls /\ Restrict(fs, F) = fs
    <3>1. ls = [x \in D |-> ls[x]] /\ fs = [x \in F |-> fs[x]]
      BY DEF ls, fs, SeenListed, SeenSizes
    <3> HIDE DEF D, F
    <3> QED
      BY <3>1 DEF Restrict
  <2>4. RemoveFromTree(Finished(ls, fs, cut), p) = Finished(ls, fs, cut)
    <3>1. p \notin DOMAIN ls /\ p \notin DOMAIN fs
      BY <1>1, <1>5
    <3> HIDE DEF D, F
    <3> QED
      BY <1>1, <3>1, NothingToRemove
  <2> HIDE DEF D, F
  <2> QED
    BY <1>2, <1>3, <2>2, <2>3, <2>4 DEF T
<1> QED
  BY <1>4, <1>5

-----------------------------------------------------------------------------
(***************************************************************************)
(* A removal comes after a whole scan, and its listing has the bytes.      *)
(***************************************************************************)

BytesListed == rm.st \notin {"none", "list"} => rm.bytes = BytesOf(rm.files)

ScannedInv ==
  /\ start \in Starts /\ depth \in Depths
  /\ rm.st # "none" => phase = "done" /\ ~cancelled
  /\ BytesListed

LEMMA SameBytes ==
  ASSUME UNCHANGED <<layout, start, depth, phase, cancelled>>, ScannedInv,
         rm'.files = rm.files, rm'.bytes = rm.bytes, rm.st \notin {"none", "list"}
  PROVE  ScannedInv'
<1>1. disk' = disk /\ rm.bytes = BytesOf(rm.files) /\ phase = "done" /\ ~cancelled
  BY DEF disk, ScannedInv, BytesListed
<1>2. rm'.bytes = BytesOf(rm.files)'
  BY <1>1 DEF BytesOf
<1> QED
  BY <1>1, <1>2 DEF ScannedInv, BytesListed

LEMMA ListSums ==
  ASSUME RemovalInv, ScannedInv, List, UNCHANGED mftVars
  PROVE  ScannedInv'
<1>1. /\ rm.st = "list" /\ DOMAIN rm = Fields
      /\ UNCHANGED <<layout, start, depth, phase, cancelled>>
  BY DEF List, mftVars, RemovalInv, RemovalType
<1>2. \E l : rm' = [rm EXCEPT !.st = "listed", !.dirs = l.dirs, !.files = l.files, !.bytes = BytesOf(l.files)]
  BY Zenon DEF List
<1>3. PICK l : IsListed(rm, l.dirs, l.files, BytesOf(l.files), rm')
  BY <1>2, Zenon DEF IsListed
<1>4. rm'.st = "listed" /\ rm'.files = l.files /\ rm'.bytes = BytesOf(l.files)
  <2> DEFINE b == BytesOf(l.files)
  <2>1. IsListed(rm, l.dirs, l.files, b, rm')
    BY <1>3
  <2> HIDE DEF b
  <2>2. rm'.st = "listed" /\ rm'.files = l.files /\ rm'.bytes = b
    BY <1>1, <2>1 DEF IsListed, Fields
  <2> QED
    BY <2>2 DEF b
<1>5. disk' = disk /\ phase = "done" /\ ~cancelled
  BY <1>1 DEF disk, ScannedInv
<1>6. rm'.bytes = BytesOf(rm.files)'
  BY <1>4, <1>5 DEF BytesOf
<1> QED
  BY <1>1, <1>5, <1>6 DEF ScannedInv, BytesListed

LEMMA ScannedKeeps == RemovalInv /\ ScannedInv /\ [Next]_vars => ScannedInv'
<1> SUFFICES ASSUME RemovalInv, ScannedInv, [Next]_vars PROVE ScannedInv'
  OBVIOUS
<1>1. ASSUME UNCHANGED <<layout, start, depth>>, UNCHANGED rmVars,
             rm.st # "none" => UNCHANGED <<phase, cancelled>>
      PROVE  ScannedInv'
  <2>1. rm' = rm /\ disk' = disk
    BY <1>1 DEF rmVars, disk
  <2>2. BytesListed'
    BY <2>1 DEF ScannedInv, BytesListed, BytesOf
  <2> QED
    BY <1>1, <2>1, <2>2 DEF ScannedInv
<1>2. CASE MftNext /\ UNCHANGED rmVars
  <2>1. UNCHANGED <<layout, start, depth>> /\ phase # "done"
    BY <1>2 DEF MftNext, Cancel, ReadChunk, ReadFails, Index, VisitDir, EmitDir, AddDir, WalkCloud, MftEnds
  <2>2. rm.st = "none"
    BY <2>1 DEF ScannedInv
  <2> QED
    BY <1>1, <1>2, <2>1, <2>2
<1>3. CASE UNCHANGED vars
  BY <1>1, <1>3 DEF vars, mftVars
<1>4. CASE RemoveNext /\ UNCHANGED mftVars
  <2>1. UNCHANGED <<layout, start, depth, phase, cancelled>> /\ DOMAIN rm = Fields
    BY <1>4 DEF mftVars, RemovalInv, RemovalType
  <2>2. CASE StartRemoval
    <3>1. rm'.st = "list" /\ phase = "done" /\ ~cancelled
      BY <2>1, <2>2 DEF StartRemoval, Fields
    <3> QED
      BY <2>1, <3>1 DEF ScannedInv, BytesListed
  <2>3. CASE StopRemoval
    <3>1. rm' = rm /\ disk' = disk
      BY <2>1, <2>3 DEF StopRemoval, disk
    <3>2. BytesListed'
      BY <3>1 DEF ScannedInv, BytesListed, BytesOf
    <3> QED
      BY <2>1, <3>1, <3>2 DEF ScannedInv
  <2>4. CASE List
    BY <1>4, <2>4, ListSums
  <2>5. CASE DryRun \/ Trash \/ StartUnlinking \/ Unlink \/ StartRmdir \/ RemoveLevel \/ RemovalEnds
    <3>1. CASE DryRun
      <4>1. rm'.files = rm.files /\ rm'.bytes = rm.bytes /\ rm.st \notin {"none", "list"}
        BY <2>1, <3>1 DEF DryRun, Fields
      <4> QED
        BY <2>1, <4>1, SameBytes
    <3>2. CASE Trash
      <4>1. rm'.files = rm.files /\ rm'.bytes = rm.bytes /\ rm.st \notin {"none", "list"}
        BY <2>1, <3>2 DEF Trash, Fields
      <4> QED
        BY <2>1, <4>1, SameBytes
    <3>3. CASE StartUnlinking
      <4>1. rm'.files = rm.files /\ rm'.bytes = rm.bytes /\ rm.st \notin {"none", "list"}
        BY <2>1, <3>3 DEF StartUnlinking, Fields
      <4> QED
        BY <2>1, <4>1, SameBytes
    <3>4. CASE Unlink
      <4>1. rm'.files = rm.files /\ rm'.bytes = rm.bytes /\ rm.st \notin {"none", "list"}
        BY <2>1, <3>4 DEF Unlink, Fields
      <4> QED
        BY <2>1, <4>1, SameBytes
    <3>5. CASE StartRmdir
      <4>1. rm'.files = rm.files /\ rm'.bytes = rm.bytes /\ rm.st \notin {"none", "list"}
        BY <2>1, <3>5 DEF StartRmdir, Fields
      <4> QED
        BY <2>1, <4>1, SameBytes
    <3>6. CASE RemoveLevel
      <4>1. rm'.files = rm.files /\ rm'.bytes = rm.bytes /\ rm.st \notin {"none", "list"}
        BY <2>1, <3>6 DEF RemoveLevel, Fields
      <4> QED
        BY <2>1, <4>1, SameBytes
    <3>7. CASE RemovalEnds
      <4>1. rm'.files = rm.files /\ rm'.bytes = rm.bytes /\ rm.st \notin {"none", "list"}
        BY <2>1, <3>7 DEF RemovalEnds, Fields
      <4> QED
        BY <2>1, <4>1, SameBytes
    <3> QED
      BY <2>5, <3>1, <3>2, <3>3, <3>4, <3>5, <3>6, <3>7
  <2> QED
    BY <1>4, <2>2, <2>3, <2>4, <2>5, Zenon DEF RemoveNext
<1> QED
  BY <1>2, <1>3, <1>4 DEF Next

LEMMA ScannedBefore == Spec => []ScannedInv
<1>1. Init => ScannedInv
  BY DEF Init, MftInit, RemoveInit, ScannedInv, BytesListed
<1> QED
  BY <1>1, ScannedKeeps, RemovalIsSound, PTL DEF Spec

-----------------------------------------------------------------------------
(* When the path is gone, all that was below it is, and nothing else.      *)
LEMMA WhatIsLeft ==
  ASSUME RemovalInv, rm.st # "none", rm.path \notin there
  PROVE  there = Paths \ Within(Paths, rm.path)
<1> DEFINE T == there \cap AtPath
<1>1. /\ layout \in Layouts /\ there \subseteq Paths /\ rm.path \in Paths
      /\ \A p \in Paths \ there : IsPrefix(rm.path, p)
      /\ \A p \in there \ {<<>>} : Front(p) \in there
  BY DEF RemovalInv, RemovalType, Contained
<1>2. Paths \subseteq Seq(Names)
  BY <1>1, DiskFacts
<1>3. ASSUME T # {} PROVE FALSE
  <2>1. PICK q \in T : \A x \in T : Len(q) <= Len(x)
    <3>1. T \in SUBSET Seq(Names)
      BY <1>1, <1>2
    <3> HIDE DEF T
    <3> QED
      BY <1>3, <3>1, Shortest
  <2>2. q \in there /\ q \in AtPath /\ q \in Seq(Names) /\ q \in Paths /\ IsPrefix(rm.path, q) /\ q # rm.path
    BY <1>1, <1>2 DEF AtPath, Within
  <2>3. q # <<>>
    BY <1>1, <1>2, <2>2, RootIsFirst
  <2>4. Front(q) \in there /\ Front(q) \in AtPath
    BY <1>1, <2>2, <2>3, InPath
  <2>5. Len(Front(q)) = Len(q) - 1 /\ Len(q) \in Nat
    BY <2>2, <2>3, FrontByElement
  <2>6. Front(q) \in T
    BY <2>4
  <2> HIDE DEF T
  <2> QED
    BY <2>1, <2>5, <2>6
<1>4. \A p \in Paths \ there : p \in AtPath
  BY <1>1 DEF AtPath, Within
<1> QED
  BY <1>1, <1>3, <1>4 DEF AtPath

(* When the path is gone, the scan without it is the scan one would get    *)
(* now, for any disk, any folder scanned, any options, any path and any    *)
(* order of the removal, provided the scan was that of the directory walk  *)
(* (the engine's part, EnginesAgree).                                      *)
THEOREM RemovalIsRescan == Spec /\ []EnginesAgree => []RemoveIsRescan
<1>1. ASSUME RemovalInv, ScannedInv, EnginesAgree, rm.st = "done", rm.path \notin there,
             IsStrictPrefix(start, rm.path)
      PROVE  RemoveFromTree(Tree, SubSeq(rm.path, Len(start) + 1, Len(rm.path)))
               = Walked(disk, there, start, depth, excluded)
  <2> DEFINE p == SubSeq(rm.path, Len(start) + 1, Len(rm.path))
  <2>1. layout \in Layouts /\ rm.path \in Paths /\ Paths \subseteq Seq(Names)
    BY <1>1, DiskFacts DEF RemovalInv, RemovalType
  <2>2. IsPrefix(start, rm.path) /\ start # rm.path
    BY <1>1 DEF IsStrictPrefix
  <2>3. start \in Seq(Names)
    <3>1. start \in Seq(Range(start)) /\ rm.path \in Seq(Names)
      BY <1>1, <2>1, MftAssumption DEF ScannedInv
    <3>2. Len(start) <= Len(rm.path) /\ SubSeq(start, 1, Len(start)) = SubSeq(rm.path, 1, Len(start))
      BY <2>2 DEF IsPrefix
    <3>3. Len(start) \in Nat /\ Len(rm.path) \in Nat
      BY <3>1, LenProperties
    <3>4. \A i \in 1..Len(start) : start[i] \in Range(start) /\ rm.path[i] \in Names
      BY <3>1, <3>2, <3>3, ElementOfSeq
    <3>5. /\ SubSeq(start, 1, Len(start)) \in Seq(Range(start))
          /\ Len(SubSeq(start, 1, Len(start))) = Len(start)
          /\ \A i \in 1..Len(start) : SubSeq(start, 1, Len(start))[i] = start[i]
      BY <3>3, <3>4, SubSeqProperties
    <3>6. SubSeq(start, 1, Len(start)) = start
      BY <3>1, <3>5, SeqEqual
    <3>7. SubSeq(rm.path, 1, Len(start)) \in Seq(Names)
      BY <3>3, <3>4, SubSeqProperties
    <3> QED
      BY <3>2, <3>6, <3>7
  <2>4. start \in Paths /\ IsDir(disk, start)
    BY <2>1, <2>2, <2>3, PrefixIsFolder
  <2>5. p \in Seq(Names) /\ start \o p = rm.path
    BY <2>1, <2>2, <2>3, RelativePath
  <2>6. p # <<>>
    BY <2>2, <2>3, <2>5, ConcatEmptySeq
  <2>7. depth \in Nat
    BY <1>1, MftAssumption DEF ScannedInv
  <2>8. there = Paths \ Within(Paths, start \o p)
    BY <1>1, <2>5, WhatIsLeft
  <2>9. Tree = Walked(disk, Paths, start, depth, excluded)
    BY <1>1 DEF ScannedInv, EnginesAgree, Paths
  <2> HIDE DEF p
  <2>10. RemoveFromTree(Walked(disk, Paths, start, depth, excluded), p)
           = Walked(disk, Paths \ Within(Paths, start \o p), start, depth, excluded)
    <3>1. \A r \in Paths : \A m \in Nat : \A ex : \A q \in Seq(Names) :
            IsDir(disk, r) /\ q # <<>> /\ r \o q \in Paths =>
              RemoveFromTree(Walked(disk, Paths, r, m, ex), q)
                = Walked(disk, Paths \ Within(Paths, r \o q), r, m, ex)
      BY <2>1, RemovedIsRescanned
    <3>2. start \o p \in Paths
      BY <2>1, <2>5
    <3> QED
      BY <2>4, <2>5, <2>6, <2>7, <3>1, <3>2
  <2>11. RemoveFromTree(Tree, p) = Walked(disk, there, start, depth, excluded)
    BY <2>8, <2>9, <2>10
  <2> QED
    BY <2>11 DEF p
<1>2. RemovalInv /\ ScannedInv /\ EnginesAgree => RemoveIsRescan
  BY <1>1 DEF RemoveIsRescan
<1> QED
  BY <1>2, RemovalIsSound, ScannedBefore, PTL

-----------------------------------------------------------------------------
(***************************************************************************)
(* The listing and a scan of the path.                                     *)
(***************************************************************************)

(* The same sum, of the same things under other names. *)
LEMMA Renamed ==
  \A A, h, f, g :
    /\ IsFiniteSet(A) /\ \A x, y \in A : h[x] = h[y] => x = y
    /\ \A x \in A : f[x] \in Nat /\ g[h[x]] = f[x]
    => IsFiniteSet({h[x] : x \in A}) /\ Sum(f, A) = Sum(g, {h[x] : x \in A})
BY SumImage

LEMMA AsMany ==
  ASSUME NEW A, IsFiniteSet(A), NEW h, \A x, y \in A : h[x] = h[y] => x = y
  PROVE  Cardinality({h[x] : x \in A}) = Cardinality(A)
<1> DEFINE B == {h[x] : x \in A}
           f == [x \in A |-> 1]
           g == [y \in B |-> 1]
<1>1. \A x \in A : f[x] = 1 /\ g[h[x]] = 1
  OBVIOUS
<1>2. \A y \in B : g[y] = 1
  OBVIOUS
<1> HIDE DEF f, g
<1>3. IsFiniteSet({h[x] : x \in A}) /\ Sum(f, A) = Sum(g, {h[x] : x \in A})
  <2>1. \A x \in A : f[x] \in Nat /\ g[h[x]] = f[x]
    BY <1>1
  <2>2. \A x, y \in A : h[x] = h[y] => x = y
    OBVIOUS
  <2> HIDE DEF B
  <2> QED
    BY <2>1, <2>2, SumImage
<1>4. Sum(f, A) = Cardinality(A)
  BY <1>1, SumOfOnes
<1>5. Sum(g, B) = Cardinality(B)
  <2> HIDE DEF B
  <2> QED
    BY <1>2, <1>3, SumOfOnes DEF B
<1> QED
  BY <1>3, <1>4, <1>5

(* A walk of the path without a depth limit that matters and without       *)
(* names to leave out sees what is below it.                               *)
LEMMA SeesAll ==
  ASSUME layout \in Layouts, rm.path \in Paths, NEW m, \A q \in Paths : Len(q) <= m, m \in Nat
  PROVE  /\ SeenFolders(Paths, rm.path, m, {})
              = {SubSeq(q, Len(rm.path) + 1, Len(q)) : q \in FoldersAt}
         /\ SeenFiles(Paths, rm.path, m, {})
              = {SubSeq(q, Len(rm.path) + 1, Len(q)) : q \in {f \in FilesAt : IsFile(disk, f)}}
<1> DEFINE r == rm.path
           Rel(q) == SubSeq(q, Len(r) + 1, Len(q))
           all == Seen(Paths, r, m, {})
<1>1. Paths \subseteq Seq(Names) /\ r \in Seq(Names)
  BY DiskFacts
<1>2. ASSUME NEW q \in AtPath
      PROVE  r \o Rel(q) = q /\ Rel(q) \in Seq(Names) /\ Len(Rel(q)) <= m
  <2>1. q \in Paths /\ q \in Seq(Names) /\ IsPrefix(r, q)
    BY <1>1 DEF AtPath, Within
  <2>2. r \o Rel(q) = q /\ Rel(q) \in Seq(Names)
    BY <1>1, <2>1, RelativePath
  <2> DEFINE p == Rel(q)
  <2>3. p \in Seq(Names) /\ r \o p = q
    BY <2>2
  <2> HIDE DEF p
  <2>4. Len(q) = Len(r) + Len(p) /\ Len(r) \in Nat /\ Len(p) \in Nat
    BY <1>1, <2>3, JoinFacts
  <2>5. Len(p) <= m
    <3>1. Len(q) <= m
      BY <2>1
    <3> QED
      BY <2>4, <3>1
  <2> QED
    BY <2>2, <2>5 DEF p
<1>3. all = {Rel(q) : q \in AtPath}
  <2>1. ASSUME NEW q \in AtPath PROVE Rel(q) \in all
    BY <1>2 DEF Seen, AtPath
  <2>2. \A x \in all : \E q \in AtPath : x = Rel(q)
    BY DEF Seen, AtPath
  <2> HIDE DEF all
  <2> QED
    BY <2>1, <2>2
<1>4. FoldersAt = {q \in AtPath : IsDir(disk, q)} /\ {f \in FilesAt : IsFile(disk, f)} = {q \in AtPath : IsFile(disk, q)}
  BY DEF FoldersAt, FilesAt, IsDir, IsFile
<1>5. SeenFolders(Paths, r, m, {}) = {p \in all : IsDir(disk, r \o p)}
      /\ SeenFiles(Paths, r, m, {}) = {p \in all : IsFile(disk, r \o p)}
  BY DEF SeenFolders, SeenFiles
<1> HIDE DEF r, Rel, all
<1>6. {p \in all : IsDir(disk, r \o p)} = {Rel(q) : q \in {x \in AtPath : IsDir(disk, x)}}
  BY <1>2, <1>3
<1>7. {p \in all : IsFile(disk, r \o p)} = {Rel(q) : q \in {x \in AtPath : IsFile(disk, x)}}
  BY <1>2, <1>3
<1>8. /\ SeenFolders(Paths, r, m, {}) = {Rel(q) : q \in FoldersAt}
      /\ SeenFiles(Paths, r, m, {}) = {Rel(q) : q \in {f \in FilesAt : IsFile(disk, f)}}
  BY <1>4, <1>5, <1>6, <1>7
<1> QED
  BY <1>8 DEF r, Rel

(* The totals of the whole tree. *)
LEMMA TotalsOfAll ==
  ASSUME NEW S, NEW ls, NEW fs, NEW cut, IsScan(ls, fs, S), <<>> \in DOMAIN ls
  PROVE  LET top == Finished(ls, fs, cut).dir[<<>>]
         IN /\ top.size = Sum(fs, DOMAIN fs) /\ top.files = Cardinality(DOMAIN fs)
            /\ top.dirs = Cardinality(DOMAIN ls) - 1
<1>1. ASSUME NEW T, T \subseteq Seq(S) PROVE Within(T, <<>>) = T
  <2>1. <<>> \in Seq(S) /\ Len(<<>>) = 0
    BY EmptySeq
  <2>2. ASSUME NEW q \in T PROVE IsPrefix(<<>>, q)
    <3>1. q \in Seq(S) /\ Len(q) \in Nat
      BY <1>1, LenProperties
    <3>2. Len(<<>>) <= Len(q) /\ \A i \in 1..Len(<<>>) : <<>>[i] = q[i]
      BY <2>1, <3>1
    <3> QED
      BY <2>1, <3>1, <3>2, PrefixByElement
  <2> QED
    BY <2>2 DEF Within
<1>2. Within(DOMAIN ls, <<>>) = DOMAIN ls /\ Within(DOMAIN fs, <<>>) = DOMAIN fs
  BY <1>1 DEF IsScan, IsTree
<1> DEFINE t == Finished(ls, fs, cut)
           A == AllBelow(ls, fs, cut)
<1>3. t = [dir |-> A, file |-> fs, cancelled |-> cut]
  BY FinishedIs
<1>4. A[<<>>] = Below(ls, fs, cut, <<>>)
  BY DEF AllBelow
<1> HIDE DEF A, t
<1>5. t.dir[<<>>] = Below(ls, fs, cut, <<>>)
  BY <1>3, <1>4
<1> DEFINE b == Below(ls, fs, cut, <<>>)
<1>6. /\ b.size = Sum(fs, Within(DOMAIN fs, <<>>))
      /\ b.files = Cardinality(Within(DOMAIN fs, <<>>))
      /\ b.dirs = Cardinality(Within(DOMAIN ls, <<>>)) - 1
  BY BelowFields
<1> HIDE DEF b
<1> QED
  BY <1>2, <1>5, <1>6 DEF b, t

(* What the listing says is what a scan of the path says. *)
LEMMA ListedIsScanned ==
  ASSUME RemovalInv, ScannedInv, rm.st = "done", IsDir(disk, rm.path), ~stop, NEW m \in Nat,
         \A q \in Paths : Len(q) <= m
  PROVE  LET seen == Walked(disk, Paths, rm.path, m, {}).dir[<<>>]
         IN /\ rm.bytes = seen.size /\ Cardinality(rm.dirs) = seen.dirs + 1
            /\ Cardinality({f \in rm.files : IsFile(disk, f)}) = seen.files
<1> DEFINE r == rm.path
           ls == SeenListed(Paths, r, m, {})
           fs == SeenSizes(Paths, r, m, {})
           D == SeenFolders(Paths, r, m, {})
           F == SeenFiles(Paths, r, m, {})
           size == [f \in FilesAt |-> IF IsFile(disk, f) THEN OnDisk(disk.about[disk.at[f]]) ELSE 0]
           own == {f \in FilesAt : IsFile(disk, f)}
           h == [q \in AtPath |-> SubSeq(q, Len(r) + 1, Len(q))]
           cut == FALSE
<1>1. layout \in Layouts /\ r \in Paths
  BY DEF RemovalInv, RemovalType
<1>2. rm.files = FilesAt /\ rm.dirs = FoldersAt
  <2>1. rm.files \subseteq FilesAt /\ rm.dirs \subseteq FoldersAt /\ rm.files \cup rm.dirs = AtPath
    BY DEF RemovalInv, ListingOK
  <2> QED
    BY <2>1 DEF FilesAt, FoldersAt
<1>3. /\ IsFiniteSet(Paths) /\ AtPath \subseteq Paths /\ FilesAt \subseteq AtPath /\ FoldersAt \subseteq AtPath
      /\ IsFiniteSet(FilesAt) /\ IsFiniteSet(FoldersAt) /\ own \subseteq FilesAt /\ IsFiniteSet(own)
  <2>1. AtPath \subseteq Paths /\ FilesAt \subseteq AtPath /\ FoldersAt \subseteq AtPath /\ own \subseteq FilesAt
    BY DEF AtPath, Within, FilesAt, FoldersAt
  <2>2. IsFiniteSet(Paths)
    BY <1>1, DiskFacts
  <2> HIDE DEF own
  <2>3. IsFiniteSet(FilesAt) /\ IsFiniteSet(FoldersAt)
    BY <2>1, <2>2, FS_Subset
  <2> QED
    BY <2>1, <2>2, <2>3, FS_Subset
<1>4. \A q \in AtPath : r \o h[q] = q
  <2>1. Paths \subseteq Seq(Names) /\ r \in Seq(Names)
    BY <1>1, DiskFacts
  <2>2. ASSUME NEW q \in AtPath PROVE r \o SubSeq(q, Len(r) + 1, Len(q)) = q
    <3>1. q \in Seq(Names) /\ IsPrefix(r, q)
      BY <2>1 DEF AtPath, Within
    <3> QED
      BY <2>1, <3>1, RelativePath
  <2> QED
    BY <2>2
<1>5. \A x, y \in AtPath : h[x] = h[y] => x = y
  <2> HIDE DEF h, r
  <2> QED
    BY <1>4
<1>6. D = {h[q] : q \in FoldersAt} /\ F = {h[q] : q \in own}
  <2>1. /\ D = {SubSeq(q, Len(r) + 1, Len(q)) : q \in FoldersAt}
        /\ F = {SubSeq(q, Len(r) + 1, Len(q)) : q \in own}
    BY <1>1, SeesAll
  <2> HIDE DEF D, F, own
  <2> QED
    BY <1>3, <2>1
<1>7. IsScan(ls, fs, Names) /\ DOMAIN ls = D /\ DOMAIN fs = F /\ <<>> \in DOMAIN ls
  BY <1>1, WalkIsScan
<1>8. Walked(disk, Paths, r, m, {}) = Finished(ls, fs, cut)
  BY WalkedIs
<1>9. \A f \in own : size[f] = OnDisk(disk.about[disk.at[f]]) /\ size[f] \in Nat /\ fs[h[f]] = size[f]
  <2>1. ASSUME NEW f \in own PROVE size[f] = OnDisk(disk.about[disk.at[f]]) /\ size[f] \in Nat
    <3>1. f \in Paths /\ f \in FilesAt /\ IsFile(disk, f)
      BY <1>3
    <3>2. OnDisk(disk.about[disk.at[f]]) \in Nat
      BY <1>1, <3>1, SizesAreNumbers
    <3> QED
      BY <3>1, <3>2
  <2>2. ASSUME NEW f \in own PROVE fs[h[f]] = OnDisk(disk.about[disk.at[f]])
    <3>1. h[f] \in F /\ r \o h[f] = f
      BY <1>3, <1>4, <1>6
    <3>2. \A x \in F : fs[x] = OnDisk(disk.about[disk.at[r \o x]])
      BY DEF SeenSizes
    <3> HIDE DEF fs, F, h, r
    <3> QED
      BY <3>1, <3>2
  <2> HIDE DEF size, fs, h, own
  <2> QED
    BY <2>1, <2>2
<1>10. \A f \in FilesAt \ own : size[f] = 0
  OBVIOUS
<1>11. rm.bytes = Sum(size, FilesAt)
  <2>1. rm.bytes = BytesOf(FilesAt)
    BY <1>2 DEF ScannedInv, BytesListed
  <2>2. BytesOf(FilesAt) = SumOver(size, FilesAt)
    BY DEF BytesOf
  <2> HIDE DEF size
  <2> QED
    BY <2>1, <2>2, SumsAgree
<1> HIDE DEF size, own, h, ls, fs, D, F, cut
<1>12. Sum(size, FilesAt) = Sum(size, own)
  <2>1. \A f \in FilesAt : size[f] \in Nat
    BY <1>9, <1>10
  <2> QED
    BY <1>3, <1>10, <2>1, SumNonZero
<1>13. Sum(size, own) = Sum(fs, F)
  <2>1. \A x, y \in own : h[x] = h[y] => x = y
    BY <1>3, <1>5
  <2> QED
    BY <1>3, <1>6, <1>9, <2>1, Renamed
<1>14. Cardinality(F) = Cardinality(own) /\ Cardinality(D) = Cardinality(FoldersAt)
  <2>1. /\ \A x, y \in own : h[x] = h[y] => x = y
        /\ \A x, y \in FoldersAt : h[x] = h[y] => x = y
    BY <1>3, <1>5
  <2> QED
    BY <1>3, <1>6, <2>1, AsMany
<1> DEFINE top == Finished(ls, fs, cut).dir[<<>>]
<1>15. /\ top.size = Sum(fs, F) /\ top.files = Cardinality(F) /\ top.dirs = Cardinality(D) - 1
  <2>1. /\ top.size = Sum(fs, DOMAIN fs) /\ top.files = Cardinality(DOMAIN fs)
        /\ top.dirs = Cardinality(DOMAIN ls) - 1
    BY <1>7, TotalsOfAll
  <2> HIDE DEF top
  <2> QED
    BY <1>7, <2>1
<1>16. Walked(disk, Paths, r, m, {}).dir[<<>>] = top
  BY <1>8
<1>17. Cardinality(D) \in Nat
  BY <1>3, <1>14, FS_CardinalityType
<1> HIDE DEF top, r
<1>18. rm.bytes = top.size /\ Cardinality(rm.dirs) = top.dirs + 1 /\ Cardinality(own) = top.files
  BY <1>2, <1>11, <1>12, <1>13, <1>14, <1>15, <1>17
<1> QED
  BY <1>2, <1>16, <1>18 DEF own, r

(* The bytes of files of the disk add up as numbers do. *)
LEMMA BytesGrow ==
  ASSUME layout \in Layouts, NEW A, NEW B \in SUBSET Paths, A \subseteq B
  PROVE  BytesOf(A) <= BytesOf(B)
<1> DEFINE size(p) == IF IsFile(disk, p) THEN OnDisk(disk.about[disk.at[p]]) ELSE 0
           a == [p \in A |-> size(p)]
           b == [p \in B |-> size(p)]
<1>1. IsFiniteSet(B) /\ IsFiniteSet(A)
  BY DiskFacts, FS_Subset
<1>2. \A p \in B : size(p) \in Nat
  BY SizesAreNumbers
<1>3. BytesOf(A) = Sum(a, A) /\ BytesOf(B) = Sum(b, B)
  <2>1. BytesOf(A) = SumOver(a, A) /\ BytesOf(B) = SumOver(b, B)
    BY DEF BytesOf
  <2> HIDE DEF a, b
  <2> QED
    BY <2>1, SumsAgree
<1>4. (\A p \in A : a[p] = size(p) /\ b[p] = a[p]) /\ \A p \in B : b[p] = size(p)
  OBVIOUS
<1> HIDE DEF size, a, b
<1>5. Sum(a, A) = Sum(b, A)
  <2>1. \A p \in A : a[p] \in Nat /\ b[p] = a[p]
    BY <1>2, <1>4
  <2> QED
    BY <1>1, <2>1, SumEqual
<1>6. Sum(b, A) <= Sum(b, B)
  <2>1. \A p \in B : b[p] \in Nat
    BY <1>2, <1>4
  <2> QED
    BY <1>1, <2>1, SumSubset
<1> QED
  BY <1>3, <1>5, <1>6

(* A part has no more items than the whole. *)
LEMMA PartIsLess ==
  ASSUME NEW B, IsFiniteSet(B), NEW A, A \subseteq B
  PROVE  Cardinality(A) <= Cardinality(B)
<1> DEFINE one == [p \in B |-> 1]
<1>1. IsFiniteSet(A) /\ (\A p \in A : one[p] = 1) /\ (\A p \in B : one[p] = 1)
  BY FS_Subset
<1> HIDE DEF one
<1>2. Sum(one, A) = Cardinality(A) /\ Sum(one, B) = Cardinality(B)
  BY <1>1, SumOfOnes
<1>3. Sum(one, A) <= Sum(one, B)
  BY <1>1, SumSubset
<1> QED
  BY <1>2, <1>3

(* The files, directories and bytes of a report are what went when the     *)
(* removal was not cancelled and has no error; of any other deletion they  *)
(* are at least what went.  (They are what was listed, which may be more:  *)
(* ReportIsWhatWent.)                                                      *)
THEOREM ReportCountsRight == Spec => []CountsAreTrue
<1> DEFINE gone == Paths \ there
           files == {p \in gone : ~IsDir(disk, p)}
<1>1. ASSUME RemovalInv, ScannedInv, rm.st = "done", rm.mode # "dry"
      PROVE  /\ layout \in Layouts /\ there \subseteq Paths /\ rm.path \in Paths
             /\ IsFiniteSet(rm.files) /\ IsFiniteSet(rm.dirs) /\ rm.bytes = BytesOf(rm.files)
             /\ rm.files \subseteq FilesAt /\ rm.dirs \subseteq FoldersAt /\ rm.files \in SUBSET Paths
             /\ ~stop => rm.files \cup rm.dirs = AtPath
             /\ rm.mode = "delete" => gone \subseteq rm.files \cup rm.dirs
  BY <1>1, ListedFinite DEF RemovalInv, RemovalType, ListingOK, ScannedInv, BytesListed, DeletionOK,
     Early, Settled
<1>2. ASSUME RemovalInv, ScannedInv, rm.st = "done", rm.mode # "dry", ~stop, rm.errors = 0
      PROVE  rm.files = files /\ rm.dirs = gone \ files
  <2>1. Within(there, rm.path) = {} /\ \A p \in gone : IsPrefix(rm.path, p)
    BY <1>2, ErrorsZero DEF RemovalInv, Contained
  <2>2. gone = AtPath
    BY <1>1, <1>2, <2>1 DEF AtPath, Within
  <2>3. rm.files = FilesAt /\ rm.dirs = FoldersAt
    BY <1>1, <1>2 DEF FilesAt, FoldersAt
  <2> QED
    BY <2>2, <2>3 DEF FilesAt, FoldersAt
<1>3. ASSUME RemovalInv, ScannedInv, rm.st = "done", rm.mode = "delete"
      PROVE  files \subseteq rm.files /\ gone \ files \subseteq rm.dirs
  BY <1>1, <1>3 DEF FilesAt, FoldersAt
<1>4. Gone = [files |-> Cardinality(files), dirs |-> Cardinality(gone \ files), bytes |-> BytesOf(files)]
  BY DEF Gone, Paths
<1> HIDE DEF gone, files
<1>5. ASSUME RemovalInv, ScannedInv, rm.st = "done", rm.mode # "dry", ~stop, rm.errors = 0
      PROVE  Report = Gone
  BY <1>1, <1>2, <1>4, <1>5 DEF Report
<1>6. ASSUME RemovalInv, ScannedInv, rm.st = "done", rm.mode = "delete"
      PROVE  /\ Cardinality(files) <= Cardinality(rm.files)
             /\ Cardinality(gone \ files) <= Cardinality(rm.dirs)
             /\ BytesOf(files) <= rm.bytes
  <2>1. Cardinality(files) <= Cardinality(rm.files)
    BY <1>1, <1>3, <1>6, PartIsLess
  <2>2. Cardinality(gone \ files) <= Cardinality(rm.dirs)
    BY <1>1, <1>3, <1>6, PartIsLess
  <2>3. BytesOf(files) <= BytesOf(rm.files)
    BY <1>1, <1>3, <1>6, BytesGrow
  <2> QED
    BY <1>1, <1>6, <2>1, <2>2, <2>3
<1>7. ASSUME RemovalInv, ScannedInv, rm.st = "done", rm.mode = "delete"
      PROVE  Gone.files <= Report.files /\ Gone.dirs <= Report.dirs /\ Gone.bytes <= Report.bytes
  <2>1. /\ Gone.files = Cardinality(files) /\ Gone.dirs = Cardinality(gone \ files)
        /\ Gone.bytes = BytesOf(files)
    BY <1>4
  <2>2. /\ Report.files = Cardinality(rm.files) /\ Report.dirs = Cardinality(rm.dirs)
        /\ Report.bytes = rm.bytes
    BY DEF Report
  <2> QED
    BY <1>6, <1>7, <2>1, <2>2
<1>8. RemovalInv /\ ScannedInv => CountsAreTrue
  BY <1>5, <1>7 DEF CountsAreTrue
<1> QED
  BY <1>8, RemovalIsSound, ScannedBefore, PTL

(* What the user is told of a removal: unless it was cancelled the listing *)
(* has the totals a scan of the path shows, the report an error exactly    *)
(* when something is left, and without an error its numbers are what went; *)
(* with refusals or a cancel those of a deletion are at least what went.   *)
THEOREM ReportIsRight == Spec => []ReportIsTrue
<1>1. ASSUME RemovalInv, ScannedInv, rm.st = "done", IsDir(disk, rm.path), ~stop
      PROVE  LET deepest == Max({Len(p) : p \in DOMAIN disk.at})
                 seen == Walked(disk, DOMAIN disk.at, rm.path, deepest, {}).dir[<<>>]
             IN /\ rm.bytes = seen.size /\ Cardinality(rm.dirs) = seen.dirs + 1
                /\ Cardinality({f \in rm.files : IsFile(disk, f)}) = seen.files
  <2> DEFINE L == {Len(p) : p \in Paths}
             m == Max(L)
  <2>1. layout \in Layouts /\ rm.path \in Paths
    BY <1>1 DEF RemovalInv, RemovalType
  <2>2. IsFiniteSet(Paths) /\ Paths \in SUBSET Seq(Names) /\ Paths # {}
    BY <2>1, DiskFacts
  <2>3. \E q \in Paths : \A x \in Paths : Len(x) <= Len(q)
    BY <2>2, Longest
  <2>4. L \subseteq Nat
    BY <2>2, LenProperties
  <2>5. \E x \in L : \A y \in L : x >= y
    BY <2>2, <2>3, <2>4
  <2>6. m \in L /\ \A y \in L : m >= y
    <3> HIDE DEF L
    <3> QED
      BY <2>5 DEF Max
  <2>7. m \in Nat /\ \A q \in Paths : Len(q) <= m
    <3>1. m \in Nat /\ \A q \in Paths : m >= Len(q) /\ Len(q) \in Nat
      BY <2>2, <2>4, <2>6, LenProperties
    <3> HIDE DEF m
    <3> QED
      BY <3>1
  <2>8. DOMAIN disk.at = Paths
    BY DEF Paths
  <2> HIDE DEF m, L
  <2>9. LET seen == Walked(disk, Paths, rm.path, m, {}).dir[<<>>]
        IN /\ rm.bytes = seen.size /\ Cardinality(rm.dirs) = seen.dirs + 1
           /\ Cardinality({f \in rm.files : IsFile(disk, f)}) = seen.files
    BY <1>1, <2>7, ListedIsScanned
  <2> QED
    BY <2>8, <2>9 DEF m, L
<1>2. RemovalInv /\ ScannedInv => ListingIsTrue
  BY <1>1 DEF ListingIsTrue
<1> QED
  BY <1>2, ErrorsAreReported, ReportCountsRight, RemovalIsSound, ScannedBefore, PTL DEF ReportIsTrue

=============================================================================
