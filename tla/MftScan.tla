------------------------------ MODULE MftScan ------------------------------
(***************************************************************************)
(* The Ultra engine (crates/diskghost-core/src/mft.rs, Builder::add_mft in *)
(* tree.rs): the Master File Table is read in chunks by several threads,   *)
(* its records are merged, indexed by parent and walked from the scanned   *)
(* folder; folders of the cloud are left to the directory walk.  It stands *)
(* in for the directory walk, so its tree must be the same.                *)
(***************************************************************************)
EXTENDS NtfsVolume

CONSTANTS
  Chunk,       \* records read at once
  Starts,      \* the folders that are scanned
  Depths,      \* the depth limits
  Excludes,    \* what is excluded: a set of sets of names
  MayFail      \* may a read fail

ASSUME MftAssumption ==
  /\ {Chunk, Cluster} \subseteq Nat \ {0}
  /\ Depths \subseteq Nat \ {0}
  /\ \A s \in Starts : s \in Seq(Range(s))

VARIABLES
  layout, start,          \* the disk, the folder scanned
  depth, excluded,        \* the options: the depth limit, names left out
  phase,                  \* "read", "index", "walk", "cloud", "done", or "fallback"
  unread,                 \* chunks still to be read
  parsed,                 \* <<index, record>> of those that were
  table,                  \* [node, links], once merged
  queue, cloud,           \* folders left: [rec, path, depth]
  listed, file,           \* the tree being built
  cancelled               \* the sticky flag

mftVars == <<layout, start, depth, excluded, phase, unread, parsed, table, queue, cloud, listed, file, cancelled>>

disk == layout.disk

-----------------------------------------------------------------------------
(* Decoding.                                                               *)

(* Mutant: distances are read without their sign. *)
UnsignedDistance(bytes) == FoldRight(LAMBDA b, v : b + 256 * v, bytes, 0)

Unsigned(bytes) == FoldRight(LAMBDA b, v : b + 256 * v, bytes, 0)

Distance8(bytes) == Unsigned(bytes) - IF Last(bytes) >= 128 THEN 256 ^ Len(bytes) ELSE 0

(* runs. *)
RunsOf(raw) ==
  LET from[p \in Nat] ==
        LET len == raw[p] % 16
            off == raw[p] \div 16
        IN IF p > Len(raw) THEN <<>>
           ELSE IF raw[p] = 0 \/ p + len + off > Len(raw) THEN <<>>
           ELSE (IF off = 0 THEN <<>>
                 ELSE <<<<Distance8(SubSeq(raw, p + len + 1, p + len + off)),
                          Unsigned(SubSeq(raw, p + 1, p + len))>>>>)
                \o from[p + 1 + len + off]
      Place(out, run) == Append(out, <<run[1] + (IF out = <<>> THEN 0 ELSE Last(out)[1]), run[2]>>)
  IN FoldLeft(Place, <<>>, from[1])

(* The table cut into chunks, each with the number of its first record. *)
Chunks ==
  LET Cut(acc, run) ==
        LET bytes == Min({run[2] * Cluster, TableSize - acc.no})
        IN [no |-> acc.no + bytes,
            out |-> acc.out \cup {[off |-> run[1] * Cluster + k * Chunk, first |-> acc.no + k * Chunk,
                                   n |-> Min({Chunk, bytes - k * Chunk})] : k \in 0..((bytes - 1) \div Chunk)}]
  IN FoldLeft(Cut, [no |-> 0, out |-> {}], RunsOf(RunBytes)).out

(* parse: one record.  Of a stream in several pieces the first tells the   *)
(* sizes; an 8.3 name counts only when the record has no other.            *)
Parse(index, rec) ==
  LET Names(dos) == {<<a.parent, a.name>> : a \in {b \in rec.attrs : b.kind = "name" /\ b.dos = dos}}
  IN [base |-> IF rec.base = 0 THEN index ELSE rec.base, dir |-> rec.dir,
      names |-> IF Names(FALSE) = {} THEN Names(TRUE) ELSE Names(FALSE),
      odd |-> \E a \in rec.attrs : a.kind = "info" /\ a.odd,
      link |-> \E a \in rec.attrs : a.kind = "reparse" /\ a.link,
      reparse |-> \E a \in rec.attrs : a.kind = "reparse",
      data |-> {<<a.size, a.alloc>> : a \in {b \in rec.attrs : b.kind = "data" /\ ~b.named /\ b.vcn = 0}}]

SizeOf(r) ==
  IF r.data = {} THEN 0
  ELSE LET d == CHOOSE x \in r.data : TRUE IN IF r.odd \/ r.reparse THEN d[2] ELSE d[1]

(* The merge of extension records into their base records in read_table. *)
Merged ==
  LET bases == {r \in parsed : r[2].base = r[1]}
      Ext(i) == {r[2] : r \in {s \in parsed : s[2].base = i /\ s[1] # i}}
      NodeOf(i, r) ==
        LET all == {r} \cup Ext(i)
            sized == {x \in Ext(i) : x.data # {}}
        IN [dir |-> r.dir, names |-> UNION {x.names : x \in all}, link |-> \E x \in all : x.link,
            cloud |-> \E x \in all : x.reparse /\ ~x.link,
            size |-> IF SizeOf(r) # 0 \/ sized = {} THEN SizeOf(r) ELSE SizeOf(CHOOSE x \in sized : TRUE)]
  IN [i \in {r[1] : r \in bases} |-> NodeOf(i, (CHOOSE r \in bases : r[1] = i)[2])]

(* Table::read: the entries of all folders. *)
LinksOf(node) ==
  UNION {{[parent |-> n[1], rec |-> i, name |-> n[2]] : n \in {m \in node[i].names : m[1] # i}} :
           i \in {j \in DOMAIN node : (j >= FirstUser \/ j = Root) /\ ~node[j].link}}

ChildrenOf(t, dir) == {l \in t.links : l.parent = dir}

(* Table::find: the record of a folder, 0 if it is not there. *)
Find(t, path) ==
  LET Step(at, name) ==
        LET next == {l \in ChildrenOf(t, at) : t.node[l.rec].dir /\ l.name = name}
        IN IF next = {} THEN 0 ELSE (CHOOSE l \in next : TRUE).rec
  IN FoldLeft(Step, Root, path)

IsCloud(t, rec) == rec \in t.synced \/ (rec \in DOMAIN t.node /\ t.node[rec].cloud)

-----------------------------------------------------------------------------
MftInit ==
  /\ layout \in Layouts
  /\ start \in Starts /\ depth \in Depths /\ excluded \in Excludes
  /\ phase = "read"
  /\ unread = Chunks
  /\ parsed = {} /\ table = [node |-> <<>>, links |-> {}, synced |-> {}]
  /\ queue = {} /\ cloud = {}
  /\ listed = <<>> :> FALSE /\ file = <<>>
  /\ cancelled = FALSE

Cancel ==
  /\ phase \notin {"done", "fallback"} /\ ~cancelled
  /\ cancelled' = TRUE
  /\ UNCHANGED <<layout, start, depth, excluded, phase, unread, parsed, table, queue, cloud, listed, file>>

(* One chunk, by whichever thread: none after a cancel.  A record that is  *)
(* torn or not in use is passed over.                                      *)
ReadChunk ==
  /\ phase = "read"
  /\ \E c \in unread :
       LET found == {<<c.first + i, Volume(layout, c.off + i)>> : i \in 0..c.n - 1}
       IN /\ unread' = unread \ {c}
          /\ parsed' = IF cancelled THEN parsed
                       ELSE parsed \cup {<<r[1], Parse(r[1], r[2])>> : r \in {s \in found : s[2].ok /\ s[2].used}}
  /\ UNCHANGED <<layout, start, depth, excluded, phase, table, queue, cloud, listed, file, cancelled>>

(* The volume cannot be read: the directory walk takes over (fill). *)
ReadFails ==
  /\ phase = "read" /\ MayFail /\ unread # {}
  /\ phase' = "fallback"
  /\ UNCHANGED <<layout, start, depth, excluded, unread, parsed, table, queue, cloud, listed, file, cancelled>>

(* Table::read once all is read, and the start of add_mft or, with         *)
(* exclusions, of walk, which stops here after a cancel.  The root of the  *)
(* volume is found even if a cancel left it unread.                        *)
Index ==
  LET t == [node |-> Merged, links |-> LinksOf(Merged), synced |-> {}]
      full == [t EXCEPT !.synced = {Find(t, s) : s \in disk.synced} \ {0}]
      rec == Find(t, start)
      todo == {[rec |-> rec, path |-> <<>>, depth |-> 0]}
  IN /\ phase = "read" /\ unread = {}
     /\ \/ /\ cancelled /\ excluded # {}
           /\ phase' = "done"
           /\ UNCHANGED <<table, queue, cloud, parsed>>
        \/ /\ ~(cancelled /\ excluded # {}) /\ rec = 0
           /\ phase' = "fallback"
           /\ UNCHANGED <<table, queue, cloud, parsed>>
        \/ /\ ~(cancelled /\ excluded # {}) /\ rec # 0
           /\ phase' = "walk"
           /\ table' = full /\ parsed' = {}
           /\ queue' = IF IsCloud(full, rec) THEN {} ELSE todo
           /\ cloud' = IF IsCloud(full, rec) THEN todo ELSE {}
     /\ UNCHANGED <<layout, start, depth, excluded, unread, listed, file, cancelled>>

Descend(d) == d < depth

(* Folder q, with these entries, becomes part of the tree.  Which folder   *)
(* is next is left open.                                                   *)
AddDir(q, entries) ==
  LET PathOf(e) == Append(q.path, e.name)
      dirs  == {e \in entries : table.node[e.rec].dir}
      below == {[rec |-> e.rec, path |-> PathOf(e), depth |-> q.depth + 1] :
                  e \in {d \in dirs : Descend(q.depth + 1)}}
      clouds == {b \in below : IsCloud(table, b.rec)}
      Bytes(e) == IF IsCloud(table, e.rec) THEN disk.about[e.rec].local ELSE table.node[e.rec].size
  IN /\ queue' = (queue \ {q}) \cup (below \ clouds)
     /\ cloud' = cloud \cup clouds
     /\ listed' = (q.path :> TRUE) @@ listed @@ [p \in {PathOf(e) : e \in dirs} |-> FALSE]
     /\ file' = file @@ [p \in {PathOf(e) : e \in entries \ dirs} |->
                           Bytes(CHOOSE e \in entries : PathOf(e) = p)]
     /\ UNCHANGED <<layout, start, depth, excluded, phase, unread, parsed, table, cancelled>>

(* One turn of the loop of add_mft. *)
VisitDir ==
  /\ phase = "walk" /\ ~cancelled /\ excluded = {}
  /\ \E q \in queue : AddDir(q, ChildrenOf(table, q.rec))

(* is_excluded, for a path below the scanned folder. *)
IsExcluded(path) == Range(path) \cap excluded # {}

(* One turn of the loop of walk: a batch that Builder::add takes in. *)
EmitDir ==
  /\ phase = "walk" /\ ~cancelled /\ excluded # {}
  /\ \E q \in queue :
       AddDir(q, {e \in ChildrenOf(table, q.rec) : ~IsExcluded(Append(q.path, e.name))})

(* The depth limit that is left for a cloud folder. *)
LeftFor(d) == depth - d

(* A cloud folder is listed by the directory walk into the same tree, with *)
(* the same exclusions, which see only what is below it.                   *)
WalkCloud ==
  /\ phase = "walk" /\ ~cancelled /\ queue = {}
  /\ \E q \in cloud :
       LET sub == Walked(disk, DOMAIN disk.at, start \o q.path, LeftFor(q.depth), excluded)
           Under(f) == [p \in {q.path \o s : s \in DOMAIN f} |-> f[SubSeq(p, Len(q.path) + 1, Len(p))]]
       IN /\ cloud' = cloud \ {q}
          /\ listed' = Under(ListedIn(sub)) @@ listed
          /\ file' = Under(sub.file) @@ file
  /\ UNCHANGED <<layout, start, depth, excluded, phase, unread, parsed, table, queue, cancelled>>

MftEnds ==
  /\ phase = "walk" /\ (cancelled \/ (queue = {} /\ cloud = {}))
  /\ phase' = "done"
  /\ UNCHANGED <<layout, start, depth, excluded, unread, parsed, table, queue, cloud, listed, file, cancelled>>

MftNext == Cancel \/ ReadChunk \/ ReadFails \/ Index \/ VisitDir \/ EmitDir \/ WalkCloud \/ MftEnds

(* Builder::finish. *)
Tree == Finished(listed, file, cancelled)

-----------------------------------------------------------------------------
(* The tree of the table is the tree the directory walk makes of the same  *)
(* folder, whatever the order of the chunks and of the folders, hard       *)
(* links, links, odd sizes, cloud folders, the depth limit and exclusions  *)
(* included: "What is counted matches the walk" (mft.rs:12-15).  After a   *)
(* cancel it has nothing that is not there, and calls nothing complete.    *)
EnginesAgree ==
  phase = "done" =>
    LET walked == Walked(disk, DOMAIN disk.at, start, depth, excluded)
    IN IF ~cancelled THEN Tree = walked
       ELSE /\ \A d \in DOMAIN Tree.dir : ~Tree.dir[d].complete
            /\ DOMAIN listed \subseteq DOMAIN walked.dir
            /\ \A f \in DOMAIN file : f \in DOMAIN walked.file /\ file[f] = walked.file[f]

=============================================================================
