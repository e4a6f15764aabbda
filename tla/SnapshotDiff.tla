---------------------------- MODULE SnapshotDiff ----------------------------
(***************************************************************************)
(* Snapshots and their comparison (crates/diskghost-core/src/snapshot.rs). *)
(* A snapshot is one stream of entries, folders and files, sorted by path, *)
(* each path coded by what it does not share with the one before.  `diff`  *)
(* reads two such streams side by side, once, and keeps no entry: it is    *)
(* right only if capture writes in the order the comparison goes by, and   *)
(* if the decoder never loses what the encoder shared.  A name is a        *)
(* sequence of bytes, because these orders are orders of bytes; one that   *)
(* is not UTF-8 is read back as another (Lossy).                           *)
(***************************************************************************)
EXTENDS Integers, TreeReports

CONSTANTS
  Sep,            \* the byte between the names of a key
  Lossy(_),       \* a name as String::from_utf8_lossy has it: of UTF-8 the name itself
  Trees,          \* the scans compared: [listed, file, cancelled]
  Ats,            \* the paths compared at
  Formats,        \* how the older one was stored: "dgs", or "json" (format 1)
  DiffFileLimit,  \* DIFF_FILE_LIMIT
  Tops            \* how many folders and files a report lists

(* A name has no separator and no byte 0 in it. *)
Names == Seq(Nat \ {0, Sep}) \ {<<>>}

(* A path of such names as a path that is made from a key. *)
Shown(path) == [i \in DOMAIN path |-> Lossy(path[i])]

(* A scan has finitely many items, each of them one thing, in a folder.    *)
(* Only a cancel leaves its root unread.  No conversion makes a separator, *)
(* a byte 0 or an empty name.                                              *)
ASSUME DiffAssumption ==
  /\ Sep \in Nat \ {0}
  /\ DiffFileLimit \in Nat \ {0}
  /\ Formats \subseteq {"dgs", "json"}
  /\ Tops \subseteq Nat
  /\ Ats \subseteq Seq(Names)
  /\ \A t \in Trees :
       LET D == DOMAIN t.listed
           F == DOMAIN t.file
       IN /\ IsFiniteSet(D) /\ IsFiniteSet(F) /\ D \cup F \subseteq Seq(Names)
          /\ \A p \in D \cup F : Shown(p) \in Seq(Names)
          /\ <<>> \in D /\ D \cap F = {} /\ \A p \in (D \cup F) \ {<<>>} : Front(p) \in D
          /\ t.listed \in [D -> BOOLEAN] /\ t.file \in [F -> Nat] /\ t.cancelled \in BOOLEAN
          /\ ~t.cancelled => t.listed[<<>>]

VARIABLES
  old, new,   \* the two scans: [listed, file, cancelled]
  format,     \* of the older snapshot
  at,         \* the directory the comparison is about
  o, n,       \* the cursors
  acc,        \* what the comparison has gathered
  report      \* [st |-> "none"], or how it ended

vars == <<old, new, format, at, o, n, acc, report>>

TreeOf(scan) == Finished(scan.listed, scan.file, scan.cancelled)

-----------------------------------------------------------------------------
(* Keys and their order.                                                   *)

(* key_of. *)
KeyOf(path) ==
  FoldLeft(LAMBDA key, name : IF key = <<>> THEN name ELSE key \o <<Sep>> \o name, <<>>, path)

(* The names of a key, and path_of_key, which converts each of them. *)
NamesOf(key) ==
  FoldLeft(LAMBDA path, b : IF b = Sep THEN Append(path, <<>>)
                            ELSE Append(Front(path), Append(Last(path), b)),
           <<<<>>>>, key)

PathOfKey(key) == Shown(NamesOf(key))

(* Mutant: the separator sorts as the byte it is. *)
KeyBeforeBytes(a, b) == Before(a, b, LAMBDA c : c)

(* cmp_key: the separator comes before every other byte. *)
KeyBefore(a, b) == Before(a, b, LAMBDA c : IF c = Sep THEN 0 ELSE c)

-----------------------------------------------------------------------------
(* Writing.                                                                *)

(* The entry of an item. *)
EntryOf(t, p) ==
  IF p \in DOMAIN t.dir
    THEN [key |-> KeyOf(p), kind |-> IF t.dir[p].listed THEN "dir" ELSE "unread",
          size |-> t.dir[p].size, files |-> t.dir[p].files]
    ELSE [key |-> KeyOf(p), kind |-> "file", size |-> t.file[p], files |-> 0]

(* capture_node: of folder d its sub-folders and files merged by name,     *)
(* with what is in each sub-folder after it.                               *)
CaptureNode(t, node, d) ==
  LET Emit(out, p) == Append(out, EntryOf(t, p)) \o IF p \in DOMAIN t.dir THEN node[p] ELSE <<>>
  IN FoldLeft(Emit, <<>>, ByName(In(DOMAIN t.dir \cup DOMAIN t.file, d)))

Captured(t) == LET node[d \in DOMAIN t.dir] == CaptureNode(t, node, d) IN node[<<>>]

(* Mutant: off by one. *)
LastByteLate(v) == v <= 128

LastByte(v) == v < 128

(* put_varint: seven bits to a byte, 128 added while more follow. *)
Varint[v \in Nat] == IF LastByte(v) THEN <<v>> ELSE <<(v % 128) + 128>> \o Varint[v \div 128]

(* Encoder::entry, for all of them. *)
Encoded(entries) ==
  [i \in DOMAIN entries |->
     LET e == entries[i]
         shared == Shared(IF i = 1 THEN <<>> ELSE entries[i - 1].key, e.key)
     IN [kind |-> e.kind, shared |-> Varint[shared], rest |-> SubSeq(e.key, shared + 1, Len(e.key)),
         size |-> Varint[e.size], files |-> IF e.kind = "file" THEN <<>> ELSE Varint[e.files]]]

Header(t) == [complete |-> t.dir[<<>>].complete, total |-> <<t.dir[<<>>].size, t.dir[<<>>].files>>]

(* Snapshot::capture and from_legacy. *)
Capture(t) == [head |-> Header(t), hasFiles |-> TRUE, data |-> Encoded(Captured(t))]

FromLegacy(t) ==
  LET dirs == {[key |-> KeyOf(d), kind |-> "dir", size |-> t.dir[d].size, files |-> t.dir[d].files] :
                 d \in DOMAIN t.dir \ {<<>>}}
  IN [head |-> [Header(t) EXCEPT !.complete = TRUE], hasFiles |-> FALSE,
      data |-> Encoded(InOrder(dirs, LAMBDA d, e : KeyBefore(d.key, e.key)))]

-----------------------------------------------------------------------------
(* Reading.                                                                *)

(* get_varint. *)
GetVarint(bytes) == FoldRight(LAMBDA b, v : v * 128 + (b % 128), bytes, 0)

(* Cursor::new and Cursor::advance. *)
CursorOn(snap) ==
  [left |-> snap.data, key |-> <<>>, kind |-> "file", size |-> 0, files |-> 0, done |-> snap.data = <<>>]

Advance(c) ==
  IF c.left = <<>> THEN [c EXCEPT !.done = TRUE]
  ELSE LET e == Head(c.left)
       IN [left |-> Tail(c.left), key |-> SubSeq(c.key, 1, GetVarint(e.shared)) \o e.rest,
           kind |-> e.kind, size |-> GetVarint(e.size),
           files |-> IF e.kind = "file" THEN 0 ELSE GetVarint(e.files), done |-> FALSE]

(* All the entries a cursor goes through. *)
Decoded(snap) ==
  LET cursor[i \in 0..Len(snap.data)] == IF i = 0 THEN CursorOn(snap) ELSE Advance(cursor[i - 1])
  IN [i \in DOMAIN snap.data |-> cursor[i]]

(* Snapshot::to_tree.  from_entries takes the name of an entry from its    *)
(* key, converted like those of path_of_key (tree.rs:425).                 *)
ToTree(snap) ==
  LET entries == Decoded(snap)
  IN FromEntries([i \in DOMAIN entries |->
       [path |-> PathOfKey(entries[i].key), kind |-> entries[i].kind, size |-> entries[i].size]])

-----------------------------------------------------------------------------
(* diff.                                                                   *)

NoChanges == [count |-> 0, bytes |-> 0, top |-> {}]
NoAcc == [oldTot |-> <<>>, newTot |-> <<>>, files |-> FALSE,
          grown |-> {}, shrunk |-> {}, added |-> {}, removed |-> {},
          newFiles |-> NoChanges, goneFiles |-> NoChanges, changedFiles |-> NoChanges]

(* Acc::rel. *)
Rel(key) ==
  LET a    == KeyOf(at)
      rest == IF a = <<>> THEN key ELSE SubSeq(key, Len(a) + 2, Len(key))
  IN IF a # <<>> /\ key = a THEN "at"
     ELSE IF a # <<>> /\ ~(IsStrictPrefix(a, key) /\ key[Len(a) + 1] = Sep) THEN "outside"
     ELSE IF Sep \in Range(rest) THEN "deeper" ELSE "child"

Distance(x, y) == IF x > y THEN x - y ELSE y - x

(* TopFiles::push: a full list drops its least (of equal ones the one with *)
(* the first key) for a bigger change.                                     *)
Push(top, key, x, y) ==
  LET change == [mag |-> Distance(x, y), key |-> key]
      least  == CHOOSE c \in top : \A d \in top \ {c} :
                  c.mag < d.mag \/ (c.mag = d.mag /\ NameBefore(c.key, d.key))
  IN IF Cardinality(top) < DiffFileLimit THEN top \cup {change}
     ELSE IF change.mag > least.mag THEN (top \ {least}) \cup {change}
     ELSE top

Gather(changes, key, x, y) ==
  [count |-> changes.count + 1, bytes |-> changes.bytes + (y - x), top |-> Push(changes.top, key, x, y)]

Delta(key, was, is) == [path |-> PathOfKey(key), was |-> was, is |-> is]

(* Acc::one_side and Acc::both. *)
OneSide(a, c, isNew) ==
  LET rel == Rel(c.key)
      dir == c.kind # "file"
      tot == <<c.size, c.files>>
  IN IF rel = "at" /\ dir
       THEN IF isNew THEN [a EXCEPT !.newTot = tot] ELSE [a EXCEPT !.oldTot = tot]
     ELSE IF rel = "child" /\ dir
       THEN IF isNew THEN [a EXCEPT !.added = @ \cup {Delta(c.key, <<>>, tot)}]
                     ELSE [a EXCEPT !.removed = @ \cup {Delta(c.key, tot, <<>>)}]
     ELSE IF rel \in {"child", "deeper"} /\ ~dir /\ a.files
       THEN IF isNew THEN [a EXCEPT !.newFiles = Gather(@, c.key, 0, c.size)]
                     ELSE [a EXCEPT !.goneFiles = Gather(@, c.key, 0, c.size)]
     ELSE a

BothSides(a, c, d) ==
  LET rel == Rel(d.key)
      dir == d.kind # "file"
      delta == Delta(d.key, <<c.size, c.files>>, <<d.size, d.files>>)
  IN IF rel = "at" /\ dir
       THEN [a EXCEPT !.oldTot = delta.was, !.newTot = delta.is]
     ELSE IF rel = "child" /\ dir
       THEN IF d.size > c.size THEN [a EXCEPT !.grown = @ \cup {delta}]
            ELSE IF d.size < c.size THEN [a EXCEPT !.shrunk = @ \cup {delta}]
            ELSE a
     ELSE IF rel \in {"child", "deeper"} /\ ~dir /\ a.files /\ c.size # d.size
       THEN [a EXCEPT !.changedFiles = Gather(@, d.key, c.size, d.size)]
     ELSE a

(* The snapshots of every scan, by format. *)
Snap == [dgs  |-> [scan \in Trees |-> Capture(TreeOf(scan))],
         json |-> [scan \in Trees |-> FromLegacy(TreeOf(scan))]]

Idle == [CursorOn([data |-> <<>>]) EXCEPT !.done = TRUE]

Init ==
  /\ old \in Trees /\ new \in Trees
  /\ format \in Formats
  /\ at \in Ats
  /\ o = Idle /\ n = Idle
  /\ acc = NoAcc
  /\ report = [st |-> "none"]

(* Up to the loop.  Both are snapshots of one root. *)
Start ==
  LET s == Snap[format][old]
      t == Snap.dgs[new]
  IN /\ report.st = "none"
     /\ IF ~s.head.complete \/ ~t.head.complete
          THEN /\ report' = [st |-> "partial"]
               /\ UNCHANGED <<o, n, acc>>
          ELSE /\ report' = [st |-> "reading"]
               /\ o' = Advance(CursorOn(s))
               /\ n' = Advance(CursorOn(t))
               /\ acc' = [NoAcc EXCEPT !.files = s.hasFiles,
                            !.oldTot = IF at = <<>> THEN s.head.total ELSE <<>>,
                            !.newTot = IF at = <<>> THEN t.head.total ELSE <<>>]
     /\ UNCHANGED <<old, new, format, at>>

Reading == report.st = "reading" /\ ~(o.done /\ n.done)

(* Of two entries with one key the folder comes first. *)
FolderFirst(c, d) == c.kind # "file" /\ d.kind = "file"

OldFirst == ~o.done /\ (n.done \/ KeyBefore(o.key, n.key) \/ (o.key = n.key /\ FolderFirst(o, n)))
NewFirst == ~n.done /\ (o.done \/ KeyBefore(n.key, o.key) \/ (o.key = n.key /\ FolderFirst(n, o)))

(* The three arms of the merge. *)
OnlyOld ==
  /\ Reading /\ OldFirst
  /\ acc' = OneSide(acc, o, FALSE)
  /\ o' = Advance(o)
  /\ UNCHANGED <<old, new, format, at, n, report>>

OnlyNew ==
  /\ Reading /\ NewFirst
  /\ acc' = OneSide(acc, n, TRUE)
  /\ n' = Advance(n)
  /\ UNCHANGED <<old, new, format, at, o, report>>

InBoth ==
  /\ Reading /\ ~OldFirst /\ ~NewFirst
  /\ acc' = BothSides(acc, o, n)
  /\ o' = Advance(o) /\ n' = Advance(n)
  /\ UNCHANGED <<old, new, format, at, report>>

(* Mutant: equal totals, and no folder that grew, will do. *)
UnchangedByTotals(a, was, is) == was = is /\ a.grown = {} /\ a.added = {}

(* DiffReport::is_unchanged. *)
IsUnchanged(a, was, is) ==
  /\ was = is
  /\ {a.grown, a.shrunk, a.added, a.removed} = {{}}
  /\ {a.newFiles.count, a.goneFiles.count, a.changedFiles.count} = {0}

(* Acc::finish. *)
Finish ==
  LET was == IF acc.oldTot = <<>> THEN <<0, 0>> ELSE acc.oldTot
  IN /\ report.st = "reading" /\ o.done /\ n.done
     /\ report' = IF acc.newTot = <<>> THEN [st |-> "not in snapshot"]
                  ELSE [st |-> "ok", was |-> was, is |-> acc.newTot,
                        unchanged |-> IsUnchanged(acc, was, acc.newTot)]
     /\ UNCHANGED <<old, new, format, at, o, n, acc>>

Next == Start \/ OnlyOld \/ OnlyNew \/ InBoth \/ Finish

Spec == Init /\ [][Next]_vars

-----------------------------------------------------------------------------
(* What the two scans say, without keys, streams or cursors.               *)

Below(scan, d) ==
  LET files == Within(DOMAIN scan.file, d)
  IN <<SumOver(scan.file, files), Cardinality(files)>>

Whole(scan) == ~scan.cancelled /\ \A d \in DOMAIN scan.listed : scan.listed[d]

FolderChanges(P(_, _)) ==
  LET Of(scan, d) == IF d \in DOMAIN scan.listed THEN Below(scan, d) ELSE <<>>
  IN {[path |-> Shown(d), was |-> Of(old, d), is |-> Of(new, d)] :
        d \in {k \in In(DOMAIN old.listed \cup DOMAIN new.listed, at) : P(Of(old, k), Of(new, k))}}

FilesBelow(scan) == {f \in DOMAIN scan.file : IsStrictPrefix(at, f)}

(* `changes` has counted the files S, the size of f having changed by      *)
(* by[f], and lists the biggest of these changes.                          *)
Counts(changes, S, by) ==
  LET listed == {NamesOf(c.key) : c \in changes.top}
      Mag(f) == Distance(by[f], 0)
  IN /\ changes.count = Cardinality(S)
     /\ changes.bytes = SumOver(by, S)
     /\ changes.top = {[mag |-> Mag(f), key |-> KeyOf(f)] : f \in listed}
     /\ listed \subseteq S /\ Cardinality(listed) = Min({DiffFileLimit, Cardinality(S)})
     /\ \A f \in listed, g \in S \ listed : Mag(f) >= Mag(g)

(* A comparison is refused when one of the scans is partial or the folder  *)
(* is not in the newer one, and else tells exactly what is different: of   *)
(* the folders directly below `at` and, where both snapshots have files,   *)
(* of the files at any depth; a folder that became a file counts as gone   *)
(* and new.  diff is one pass over two streams.  What differs is told by   *)
(* the bytes of names; the paths that are shown have them converted.       *)
DiffIsExact ==
  LET both == FilesBelow(old) \cap FilesBelow(new)
      growth == [f \in both |-> new.file[f] - old.file[f]]
  IN /\ report.st = "partial" => ~Whole(new) \/ (format = "dgs" /\ ~Whole(old))
     /\ report.st = "not in snapshot" => at \notin DOMAIN new.listed
     /\ report.st = "ok" =>
          /\ Whole(new) /\ (format = "dgs" => Whole(old))
          /\ at \in DOMAIN new.listed /\ report.is = Below(new, at)
          /\ report.was = IF at \in DOMAIN old.listed THEN Below(old, at) ELSE <<0, 0>>
          /\ acc.added = FolderChanges(LAMBDA x, y : x = <<>>)
          /\ acc.removed = FolderChanges(LAMBDA x, y : y = <<>>)
          /\ acc.grown = FolderChanges(LAMBDA x, y : x # <<>> /\ y # <<>> /\ x[1] < y[1])
          /\ acc.shrunk = FolderChanges(LAMBDA x, y : x # <<>> /\ y # <<>> /\ x[1] > y[1])
          /\ IF format = "json"
               THEN {acc.newFiles, acc.goneFiles, acc.changedFiles} = {NoChanges}
               ELSE /\ Counts(acc.newFiles, FilesBelow(new) \ FilesBelow(old), new.file)
                    /\ Counts(acc.goneFiles, FilesBelow(old) \ FilesBelow(new), old.file)
                    /\ Counts(acc.changedFiles, {f \in both : growth[f] # 0}, growth)

(* "Nothing changed" is said only when the same files of the same sizes    *)
(* are below the folder, and the same folders directly in it: no change    *)
(* hides another one of the opposite sign (is_unchanged).                  *)
UnchangedMeansSame ==
  (report.st = "ok" /\ report.unchanged) =>
    /\ In(DOMAIN old.listed, at) = In(DOMAIN new.listed, at)
    /\ format = "dgs" =>
         \A f \in FilesBelow(old) \cup FilesBelow(new) :
           f \in FilesBelow(old) \cap FilesBelow(new) /\ old.file[f] = new.file[f]

(* What is read of a snapshot, and the tree made of it (helper.rs). *)
Read == [scan \in Trees |-> Decoded(Snap.dgs[scan])]
Rebuilt == [scan \in Trees |-> LET tree == ToTree(Snap.dgs[scan])
                               IN IF scan.cancelled THEN MarkCancelled(tree) ELSE tree]

(* What is known of items, with their paths as they are shown. *)
AsShown(f) == [q \in {Shown(p) : p \in DOMAIN f} |-> f[CHOOSE p \in DOMAIN f : Shown(p) = q]]

(* A scan that is captured and made a tree again, as the elevated helper   *)
(* hands its trees over, is the same tree, the folders that were not read  *)
(* and a cancel included, and its entries are in the order diff goes by.   *)
(* Names come back converted: those that are UTF-8 as they were.  Of items *)
(* that are one after this nothing is said.  (A root is taken for read,    *)
(* which tells nothing in a tree that was cancelled.)                      *)
RoundTrip ==
  report.st = "none" =>
    LET entries == Read[new]
        items == DOMAIN new.listed \cup DOMAIN new.file
    IN /\ (\A p, q \in items : Shown(p) = Shown(q) => p = q) =>
            Rebuilt[new] = Finished(AsShown([new.listed EXCEPT ![<<>>] = TRUE]), AsShown(new.file),
                                    new.cancelled)
       /\ (\A p \in items : Shown(p) = p) =>
            Rebuilt[new] = Finished([new.listed EXCEPT ![<<>>] = TRUE], new.file, new.cancelled)
       /\ \A i \in 2..Len(entries) : KeyBefore(entries[i - 1].key, entries[i].key)

(* to_tree: "the same folders, files and sizes, browsable like a fresh     *)
(* scan" (snapshot.rs:499-500), whatever the names.                        *)
SameTree ==
  report.st = "none" /\ ~new.cancelled => Rebuilt[new] = TreeOf(new)

(* The numbers folders may have in the arena: in any order, but for what   *)
(* is above them (Builder::dir_id).                                        *)
Numbers(dirs) ==
  {nr \in Injection(dirs, 1..Cardinality(dirs)) :
     \A p, q \in dirs : IsStrictPrefix(p, q) => nr[p] < nr[q]}

(* The report of a folder is that of a scan of this folder alone, and both *)
(* list as many of the biggest files as were asked for: "as if that        *)
(* directory had been scanned on its own" (tree.rs:546-547), whatever the  *)
(* order in which its folders arrived, and whichever of equally big files  *)
(* that makes it list.  The size ranges count every file below once, and   *)
(* dir_sizes has every folder, by path.                                    *)
ReportsAreScans ==
  LET t == TreeOf(new)
      Part(S) == {SubSeq(p, Len(at) + 1, Len(p)) : p \in Within(S, at)}
      alone == Finished([d \in Part(DOMAIN new.listed) |-> new.listed[at \o d]],
                        [f \in Part(DOMAIN new.file) |-> new.file[at \o f]], new.cancelled)
      stats == FileStats(t, at)
      dirs == DirSizes(t)
      below == FilesBelow(new)
  IN (report.st = "none" /\ old = new /\ at \in DOMAIN t.dir) =>
       /\ \A top \in Tops, nr \in Numbers(DOMAIN t.dir), an \in Numbers(DOMAIN alone.dir) :
            LET r == ReportOf(t, at, top, nr)
                s == ReportOf(alone, <<>>, top, an)
                Sizes(tree, files) == [i \in DOMAIN files |-> tree.file[files[i]]]
            IN /\ [r EXCEPT !.files = Sizes(t, @)] = [s EXCEPT !.files = Sizes(alone, @)]
               /\ Range(r.files) \subseteq below /\ IsInjective(r.files)
               /\ Len(r.files) = Min({top, Cardinality(below)})
               /\ \A f \in Range(r.files), g \in below \ Range(r.files) : t.file[f] >= t.file[g]
       /\ \A b \in DOMAIN stats :
            LET files == {f \in below : /\ b > 0 => Bounds[b] <= new.file[f]
                                        /\ b < Len(Bounds) => new.file[f] < Bounds[b + 1]}
            IN stats[b] = <<MapThenSumSet(LAMBDA f : new.file[f], files), Cardinality(files)>>
       /\ Range(dirs) = DOMAIN t.dir \ {<<>>}
       /\ \A i \in 2..Len(dirs) : PathBefore(dirs[i - 1], dirs[i])

(* "so the list never reshuffles" (tree.rs:665): the files listed do not   *)
(* depend on the order in which the folders arrived.  Of equally big files *)
(* at the end of the list they do.                                         *)
ListNeverReshuffles ==
  LET t == TreeOf(new)
  IN report.st = "none" =>
       \A top \in Tops, nr, again \in Numbers(DOMAIN t.dir) :
         BiggestFiles(t, <<>>, top, nr) = BiggestFiles(t, <<>>, top, again)

=============================================================================
