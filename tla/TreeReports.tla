---------------------------- MODULE TreeReports ----------------------------
(***************************************************************************)
(* What a finished scan is asked (ScanTree, crates/diskghost-core/src/     *)
(* tree.rs): the report of any folder, as if that folder had been scanned  *)
(* on its own, the sizes of its files, and all folders in order.  A name   *)
(* is a sequence of bytes here.                                            *)
(***************************************************************************)
EXTENDS Integers, ScannedTree

CONSTANT Bounds    \* SIZE_BUCKET_BOUNDS

-----------------------------------------------------------------------------
(* The set S as a sequence, in an order that is total on it (SortSeq is not *)
(* defined in TLA+, so that nothing could be proved about it).             *)
InOrder(S, Less(_, _)) ==
  [i \in 1..Cardinality(S) |-> CHOOSE x \in S : Cardinality({y \in S : Less(y, x)}) = i - 1]

Shared(a, b) ==
  Cardinality({i \in 1..Min({Len(a), Len(b)}) : SubSeq(a, 1, i) = SubSeq(b, 1, i)})

(* The order of byte sequences, with the byte b counting as Code(b). *)
Before(a, b, Code(_)) ==
  LET i == Shared(a, b)
  IN i < Len(b) /\ (i < Len(a) => Code(a[i + 1]) < Code(b[i + 1]))

(* cmp_name. *)
NameBefore(a, b) == Before(a, b, LAMBDA c : c)

(* The paths S, of one folder, by name. *)
ByName(S) == InOrder(S, LAMBDA p, q : NameBefore(Last(p), Last(q)))

(* Paths in the order of their names, a folder before what is in it. *)
PathBefore(p, q) ==
  LET i == Shared(p, q)
  IN i < Len(q) /\ (i < Len(p) => NameBefore(p[i + 1], q[i + 1]))

-----------------------------------------------------------------------------
(* ScanTree::subtree: of the folders in a folder the last comes first. *)
Subtree(t, d) ==
  LET below[x \in DOMAIN t.dir] ==
        <<x>> \o FoldLeft(LAMBDA s, k : below[k] \o s, <<>>, ByName(In(DOMAIN t.dir, x)))
  IN below[d]

(* children_of: the biggest folders, equal ones by name. *)
BiggestDirs(t, d, top) ==
  LET Bigger(p, q) == \/ t.dir[p].size > t.dir[q].size
                      \/ t.dir[p].size = t.dir[q].size /\ NameBefore(Last(p), Last(q))
      kids == InOrder(In(DOMAIN t.dir, d), Bigger)
  IN [i \in 1..Min({top, Len(kids)}) |-> <<Last(kids[i]), t.dir[kids[i]]>>]

(* Mutant: a heap with the biggest on top. *)
LeastBiggest(heap) ==
  CHOOSE x \in heap : \A y \in heap : y.size <= x.size

(* The least of a heap of files, by size, folder number and name. *)
Least(heap) ==
  LET Less(x, y) == \/ x.size < y.size
                    \/ x.size = y.size /\ x.nr < y.nr
                    \/ x.size = y.size /\ x.nr = y.nr /\ NameBefore(Last(x.path), Last(y.path))
  IN CHOOSE x \in heap : \A y \in heap \ {x} : Less(x, y)

(* The biggest files at any depth, found in one pass with a heap; nr[x] is *)
(* the number folder x has in the arena (report_of).                       *)
BiggestFiles(t, d, top, nr) ==
  LET Try(heap, f) ==
        LET entry == [size |-> t.file[f], nr |-> nr[Front(f)], path |-> f]
        IN IF Cardinality(heap) < top THEN heap \cup {entry}
           ELSE IF entry.size > Least(heap).size THEN (heap \ {Least(heap)}) \cup {entry}
           ELSE heap
      InFolder(heap, x) == FoldLeft(Try, heap, ByName(In(DOMAIN t.file, x)))
      heap == IF top = 0 THEN {} ELSE FoldLeft(InFolder, {}, Subtree(t, d))
  IN InOrder({x.path : x \in heap},
                  LAMBDA f, g : t.file[f] > t.file[g] \/ (t.file[f] = t.file[g] /\ PathBefore(f, g)))

(* report_of, but for the whole tree's cancelled and skipped. *)
ReportOf(t, d, top, nr) ==
  LET direct == In(DOMAIN t.file, d)
  IN [totals |-> t.dir[d], children |-> BiggestDirs(t, d, top),
      rootFiles |-> <<MapThenSumSet(LAMBDA f : t.file[f], direct), Cardinality(direct)>>,
      files |-> BiggestFiles(t, d, top, nr)]

(* The size range of a size: how many bounds are not above it. *)
Bucket(size) == Cardinality({i \in DOMAIN Bounds : Bounds[i] <= size})

(* file_stats, by size range; the ranges by extension are left out. *)
FileStats(t, d) ==
  LET Count(stats, f) == [stats EXCEPT ![Bucket(t.file[f])] = <<@[1] + t.file[f], @[2] + 1>>]
      InFolder(stats, x) == FoldLeft(Count, stats, ByName(In(DOMAIN t.file, x)))
  IN FoldLeft(InFolder, [b \in 0..Len(Bounds) |-> <<0, 0>>], Subtree(t, d))

(* dir_sizes: here the first comes first, and the root is left out. *)
DirSizes(t) ==
  LET below[x \in DOMAIN t.dir] ==
        FoldLeft(LAMBDA s, k : s \o <<k>> \o below[k], <<>>, ByName(In(DOMAIN t.dir, x)))
  IN below[<<>>]

=============================================================================
