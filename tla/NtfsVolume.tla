---------------------------- MODULE NtfsVolume ----------------------------
(***************************************************************************)
(* The world around mft.rs and remove_path: what is on a disk, how NTFS    *)
(* lays it out in its Master File Table, and the scan the directory walk   *)
(* makes of it.  Nothing here is the program's own code.                   *)
(*                                                                         *)
(* A disk has `at`, from paths to record numbers (hard links share one),   *)
(* and `about`, what is true of each record: dir, link (a symbolic link or *)
(* junction), cloud (a placeholder), odd (sparse or compressed), size,     *)
(* alloc (what its record says is allocated), local (what Windows says it  *)
(* takes), short (its 8.3 name, as a path), hidden (the cloud filter shows *)
(* it, the table does not have it).  `target` says where links to folders  *)
(* lead, `synced` are the folders OneDrive keeps, `other` the records that *)
(* are no items of the disk.                                               *)
(***************************************************************************)
EXTENDS Integers, ScannedTree

CONSTANTS
  Root, FirstUser,   \* ROOT and FIRST_USER_RECORD, scaled down
  TableSize,         \* records in the table
  Cluster,           \* records per cluster
  Extents,           \* where the table lies: <<first cluster, clusters>>
  Layouts            \* [disk, of, ext, moved]: attributes `moved` of record `of`
                     \* that did not fit and are in the extension record `ext`

-----------------------------------------------------------------------------
(* The table.                                                              *)

Attributes(disk, i) ==
  LET a == disk.about[i]
      Name(p, dos) == [kind |-> "name", parent |-> IF p = <<>> THEN Root ELSE disk.at[Front(p)],
                       name |-> IF p = <<>> THEN "." ELSE Last(p), dos |-> dos]
      Data(named, vcn, size, alloc) ==
        [kind |-> "data", named |-> named, vcn |-> vcn, size |-> size, alloc |-> alloc]
  IN {[kind |-> "info", odd |-> a.odd]}
     \cup {Name(p, FALSE) : p \in {q \in DOMAIN disk.at : disk.at[q] = i}}
     \cup {Name(p, TRUE) : p \in a.short}
     \cup (IF a.dir \/ a.link THEN {}
           ELSE {Data(FALSE, 0, a.size, a.alloc), Data(FALSE, 1, 99, 99), Data(TRUE, 0, 77, 77)})
     \cup (IF a.link \/ a.cloud THEN {[kind |-> "reparse", link |-> a.link]} ELSE {})

NoRecord == [ok |-> FALSE, used |-> FALSE, base |-> 0, dir |-> FALSE, attrs |-> {}]

RecordAt(layout, k) ==
  LET disk == layout.disk
  IN IF k = layout.ext
       THEN [ok |-> TRUE, used |-> TRUE, base |-> layout.of, dir |-> FALSE, attrs |-> layout.moved]
     ELSE IF k \in DOMAIN disk.about /\ ~disk.about[k].hidden
       THEN [ok |-> TRUE, used |-> TRUE, base |-> 0, dir |-> disk.about[k].dir,
             attrs |-> Attributes(disk, k) \ IF k = layout.of THEN layout.moved ELSE {}]
     ELSE IF k \in DOMAIN disk.other THEN disk.other[k] ELSE NoRecord

(* The places the table takes on the volume, in order, and what is there.  *)
(* Behind its end lies what was there before it grew.                      *)
Slots == FoldLeft(LAMBDA s, e : s \o [i \in 1..e[2] * Cluster |-> e[1] * Cluster + i - 1], <<>>, Extents)

Leftover == [ok |-> TRUE, used |-> TRUE, base |-> 0, dir |-> FALSE,
             attrs |-> {[kind |-> "name", parent |-> Root, name |-> "left over", dos |-> FALSE]}]

Volume(layout, slot) ==
  LET k == CHOOSE i \in DOMAIN Slots : Slots[i] = slot
  IN IF slot \notin Range(Slots) THEN NoRecord
     ELSE IF k <= TableSize THEN RecordAt(layout, k - 1) ELSE Leftover

(* The data runs of the table: a byte with the numbers of bytes of the     *)
(* length and of the distance to the run before, and these, lowest byte    *)
(* first, the distance signed; a run that is not on the volume has none.   *)
RunBytes ==
  LET Run(i) ==
        LET delta == Extents[i][1] - (IF i = 1 THEN 0 ELSE Extents[i - 1][1])
            low   == delta % 256
        IN IF delta \in -128..127 THEN <<17, Extents[i][2], low>>
           ELSE <<33, Extents[i][2], low, ((delta - low) \div 256) % 256>>
      hole == <<1, 5>>
  IN FoldLeft(LAMBDA s, i : s \o Run(i) \o hole, <<>>, [i \in DOMAIN Extents |-> i]) \o <<0, 1>>

-----------------------------------------------------------------------------
(* Items below a path, and the scan the directory walk makes.              *)

IsDir(disk, p) == disk.about[disk.at[p]].dir /\ ~disk.about[disk.at[p]].link
IsFile(disk, p) == ~disk.about[disk.at[p]].dir /\ ~disk.about[disk.at[p]].link

(* A disk has finitely many items, and each but the root is in a folder    *)
(* (a link has nothing in it).  Sizes are numbers.                         *)
ASSUME VolumeAssumption ==
  \A l \in Layouts :
    LET at == l.disk.at
    IN /\ IsFiniteSet(DOMAIN at)
       /\ DOMAIN at \subseteq Seq(UNION {Range(p) : p \in DOMAIN at})
       /\ \A p \in DOMAIN at \ {<<>>} : Front(p) \in DOMAIN at /\ IsDir(l.disk, Front(p))
       /\ \A p \in DOMAIN at : {l.disk.about[at[p]].size, l.disk.about[at[p]].local} \subseteq Nat

(* GetCompressedFileSizeW, asked of the files that are not plain.  That it   *)
(* fails, whereupon the logical size is taken instead, is left out.         *)
OnDisk(a) == IF a.odd \/ a.cloud THEN a.local ELSE a.size

(* Of the items `there`, a scan of folder r with depth limit m that leaves *)
(* out the names ex.                                                       *)
Walked(disk, there, r, m, ex) ==
  LET seen == {p \in {SubSeq(q, Len(r) + 1, Len(q)) : q \in Within(there, r)} :
                 Len(p) <= m /\ Range(p) \cap ex = {}}
      dirs == {p \in seen : IsDir(disk, r \o p)}
  IN Finished([d \in dirs |-> d = <<>> \/ Len(d) < m],
              [f \in {p \in seen : IsFile(disk, r \o p)} |-> OnDisk(disk.about[disk.at[r \o f]])], FALSE)

=============================================================================
