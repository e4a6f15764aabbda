-------------------------- MODULE DuplicateSearch --------------------------
(***************************************************************************)
(* The duplicate search (crates/diskghost-core/src/dupes.rs) and its hash  *)
(* cache, run by the dupes tabs of the app while the user goes on working  *)
(* in the same folders.  A content has one of two sizes: a "small" one is  *)
(* covered by the sample, of a "large" one the sample reads only the ends. *)
(* A hash stands for what was hashed (BLAKE3 is taken to be injective).    *)
(***************************************************************************)
EXTENDS Naturals, FiniteSets

CONSTANTS
  Paths,        \* the files' paths
  Inodes,       \* the physical files, by their file id
  Contents,     \* what a file can hold
  None,         \* no file, no entry, not known
  Size,         \* Size[c]: "small" or "large"
  Ends,         \* Ends[c]: the first and last 16 KB of a large content
  InitAt,       \* the inode at each path at first
  InitData,     \* and what the inodes hold, with their modification times
  Tabs,         \* dupes jobs of the app
  Scope,        \* Scope[t]: the paths below the root tab t searches
  Cached,       \* searches share a hash cache (the app; the CLI's --cache)
  MayRestore,   \* the user may also copy a file over another, time included
  MaxEdits,     \* bound on what the user does
  MaxSearches   \* bound on the searches

Data == [content : Contents, time : Nat]

Sample(c) == IF Size[c] = "small" THEN c ELSE Ends[c]
Samples == {Sample(c) : c \in Contents}

Known == [size : {"small", "large"}, time : Nat, id : Inodes,
          ends : Samples, full : Contents \cup {None}]

(* A candidate: what the walk said of a path, and what is known of it. *)
Cand == [size : {"small", "large"}, time : Nat, known : Known \cup {None}]

ASSUME DupAssumption ==
  /\ IsFiniteSet(Paths)
  /\ \A c \in Contents : Size[c] \in {"small", "large"}
  /\ InitAt \in [Paths -> Inodes \cup {None}]
  /\ InitData \in [Inodes -> Data] /\ \A i \in Inodes : InitData[i].time < 3
  /\ Scope \in [Tabs -> SUBSET Paths]
  /\ {Cached, MayRestore} \subseteq BOOLEAN
  /\ {MaxEdits, MaxSearches} \subseteq Nat
  /\ None \notin Inodes /\ None \notin Contents /\ None \notin Known /\ None \notin Cand

VARIABLES
  at,       \* at[p]: the inode at path p, or None
  data,     \* data[i]: content and modification time of inode i
  cache,    \* cache[p]: what the HashCache knows of p, or None
  search,   \* search[t]: the search of tab t
  groups,   \* groups[t]: the duplicate groups tab t shows
  changed,  \* changed[p]: searches begun before p was last changed
  edits, searches

fs == <<at, data>>
vars == <<fs, cache, search, groups, changed, edits, searches>>

Group == [full : Contents, files : SUBSET Paths]

NoCache == [p \in Paths |-> None]
Idle == [st |-> "idle", nr |-> 0, stop |-> FALSE, todo |-> {}, alike |-> {},
         cand |-> [p \in Paths |-> None]]

Init ==
  /\ at = InitAt
  /\ data = InitData
  /\ cache = NoCache
  /\ search = [t \in Tabs |-> Idle]
  /\ groups = [t \in Tabs |-> {}]
  /\ changed = [p \in Paths |-> 0]
  /\ edits = 0
  /\ searches = 0

Exists(p) == at[p] # None
ContentAt(p) == data[at[p]].content
Links(i) == {p \in Paths : at[p] = i}

Touch(ps) == changed' = [p \in Paths |-> IF p \in ps THEN searches ELSE changed[p]]

(* The paths changed since search number n began. *)
Touched(n) == {p \in Paths : changed[p] >= n}

-----------------------------------------------------------------------------
(* The user, and every other program.                                      *)

Latest == 3 + edits   \* later than the times of InitData

(* A file is written in place.  Time 0 stands for a file system without   *)
(* reliable times and stays 0.                                             *)
Edit(p, c) ==
  /\ Exists(p) /\ ContentAt(p) # c
  /\ data' = [data EXCEPT ![at[p]] =
                [content |-> c, time |-> IF @.time = 0 THEN 0 ELSE Latest]]
  /\ Touch(Links(at[p]))
  /\ UNCHANGED at

Unlink(p) ==
  /\ Exists(p)
  /\ at' = [at EXCEPT ![p] = None]
  /\ Touch({p})
  /\ UNCHANGED data

(* A copy that keeps the modification time, over a file or to a new one,  *)
(* which takes an unused inode.                                            *)
Restore(q, p) ==
  /\ MayRestore
  /\ Exists(q) /\ p # q /\ at[p] # at[q]
  /\ \E i \in IF Exists(p) THEN {at[p]} ELSE {x \in Inodes : Links(x) = {}} :
       /\ at' = [at EXCEPT ![p] = i]
       /\ data' = [data EXCEPT ![i] = data[at[q]]]
       /\ Touch({p} \cup Links(i))

User ==
  /\ edits < MaxEdits
  /\ edits' = edits + 1
  /\ \E p \in Paths : \/ \E c \in Contents : Edit(p, c)
                      \/ Unlink(p)
                      \/ \E q \in Paths : Restore(q, p)
  /\ UNCHANGED <<cache, search, groups, searches>>

-----------------------------------------------------------------------------
(* HashCache.                                                              *)

(* Mutant: an entry counts for every time. *)
LookupBySize(p, size, time) ==
  IF Cached /\ cache[p] # None /\ cache[p].size = size THEN cache[p] ELSE None

(* HashCache::get. *)
Lookup(p, size, time) ==
  IF /\ Cached /\ time # 0 /\ cache[p] # None
     /\ cache[p].size = size /\ cache[p].time = time
    THEN cache[p] ELSE None

(* What find hands to replace_under: once cancelled, files that were not   *)
(* hashed to the end are left out.                                         *)
Fresh(t, p) ==
  LET c == search[t].cand[p]
  IN IF c = None THEN None
     ELSE IF c.known = None \/ (search[t].stop /\ c.known.full = None)
            THEN None ELSE c.known

(* HashCache::replace_under: all that was known below the root goes. *)
Replaced(t) ==
  [p \in Paths |-> IF p \in Scope[t] THEN Fresh(t, p) ELSE cache[p]]

-----------------------------------------------------------------------------
(* find, in tab t.                                                         *)

Begin(t) ==
  /\ search[t].st \in {"idle", "done"}
  /\ searches < MaxSearches
  /\ searches' = searches + 1
  /\ search' = [search EXCEPT ![t] = [Idle EXCEPT !.st = "walk", !.nr = searches', !.todo = Scope[t]]]
  /\ groups' = [groups EXCEPT ![t] = {}]
  /\ UNCHANGED <<fs, cache, changed, edits>>

Cancel(t) ==
  /\ search[t].st \in {"walk", "sample", "hash"}
  /\ ~search[t].stop
  /\ search' = [search EXCEPT ![t].stop = TRUE]
  /\ UNCHANGED <<fs, cache, groups, changed, edits, searches>>

(* The walk comes to a file, or passes it over once cancelled. *)
ListFile(t, p) ==
  /\ search[t].st = "walk"
  /\ p \in search[t].todo
  /\ search' = [search EXCEPT
       ![t].todo = @ \ {p},
       ![t].cand[p] = IF Exists(p) /\ ~search[t].stop
                        THEN [size |-> Size[ContentAt(p)], time |-> data[at[p]].time,
                              known |-> None]
                        ELSE None]
  /\ UNCHANGED <<fs, cache, groups, changed, edits, searches>>

(* find returns; its candidates are dropped. *)
Returns(t) ==
  search' = [search EXCEPT ![t] =
               [Idle EXCEPT !.st = "done", !.nr = search[t].nr, !.stop = search[t].stop]]

Stopped(t) == Returns(t) /\ UNCHANGED groups

(* per_size: the files whose size no other has are dropped. *)
CompareSizes(t) ==
  LET cand == search[t].cand
      some == {p \in Paths : cand[p] # None}
      kept == {p \in some : \E q \in some \ {p} : cand[q].size = cand[p].size}
  IN /\ search[t].st = "walk" /\ search[t].todo = {}
     /\ IF search[t].stop
          THEN Stopped(t)
          ELSE /\ search' = [search EXCEPT ![t].st = "sample", ![t].todo = kept,
                               ![t].cand = [p \in Paths |-> IF p \in kept THEN cand[p] ELSE None]]
               /\ UNCHANGED groups
     /\ UNCHANGED <<fs, cache, changed, edits, searches>>

(* `sample`: the size is the one the walk saw; a file of another size by   *)
(* now, or none, is not known.                                             *)
SampleOf(p, c) ==
  IF ~Exists(p) THEN None
  ELSE IF Size[ContentAt(p)] # c.size THEN None
  ELSE [size |-> c.size, time |-> c.time, id |-> at[p], ends |-> Sample(ContentAt(p)),
        full |-> IF c.size = "small" THEN ContentAt(p) ELSE None]

SampleFile(t, p) ==
  LET c == search[t].cand[p]
      hit == Lookup(p, c.size, c.time)
  IN /\ search[t].st = "sample"
     /\ p \in search[t].todo
     /\ search' = [search EXCEPT
          ![t].todo = @ \ {p},
          ![t].cand[p].known = IF search[t].stop THEN None
                               ELSE IF hit # None THEN hit ELSE SampleOf(p, c)]
     /\ UNCHANGED <<fs, cache, groups, changed, edits, searches>>

(* Mutant: hard links are not collapsed. *)
KeepAllLinks(known, kept) == kept = DOMAIN known

(* seen_ids: of the files with one id the walk's first is kept, which is   *)
(* any of them.                                                            *)
OneOfEach(known, kept) ==
  /\ \A p \in DOMAIN known : \E q \in kept : known[q].id = known[p].id /\ known[q].size = known[p].size
  /\ \A p, q \in kept : p # q => known[p].id # known[q].id \/ known[p].size # known[q].size

(* The sampled files. *)
Sampled(t) ==
  [p \in {x \in Paths : search[t].cand[x] # None /\ search[t].cand[x].known # None}
     |-> search[t].cand[p].known]

(* by_sample: the files that have the size and the sample of another. *)
Alike(known, kept) ==
  {p \in kept : \E q \in kept \ {p} :
     known[p].size = known[q].size /\ known[p].ends = known[q].ends}

(* by_sample, after hard links were collapsed. *)
CompareSamples(t) ==
  LET known == Sampled(t)
  IN /\ search[t].st = "sample" /\ search[t].todo = {}
     /\ IF search[t].stop
          THEN Stopped(t)
          ELSE \E kept \in SUBSET DOMAIN known :
                 /\ OneOfEach(known, kept)
                 /\ search' = [search EXCEPT ![t].st = "hash", ![t].alike = Alike(known, kept),
                                 ![t].todo = {p \in Alike(known, kept) : known[p].full = None}]
                 /\ UNCHANGED groups
     /\ UNCHANGED <<fs, cache, changed, edits, searches>>

(* Mutant: the sample is taken for the whole, as if all files were small. *)
HashEndsOnly(t, p) ==
  /\ search[t].st = "hash"
  /\ p \in search[t].todo
  /\ search' = [search EXCEPT
       ![t].todo = @ \ {p},
       ![t].cand[p].known.full = CHOOSE c \in Contents : Sample(c) = search[t].cand[p].known.ends]
  /\ UNCHANGED <<fs, cache, groups, changed, edits, searches>>

(* full_hash: of what is at the path now. *)
HashFile(t, p) ==
  /\ search[t].st = "hash"
  /\ p \in search[t].todo
  /\ search' = [search EXCEPT
       ![t].todo = @ \ {p},
       ![t].cand[p].known.full = IF Exists(p) /\ ~search[t].stop THEN ContentAt(p) ELSE None]
  /\ UNCHANGED <<fs, cache, groups, changed, edits, searches>>

(* by_full: the groups by size and hash. *)
Grouped(t) ==
  LET cand == search[t].cand
      done == {p \in search[t].alike : cand[p].known.full # None}
      Same(p, q) == cand[p].size = cand[q].size /\ cand[p].known.full = cand[q].known.full
      all  == {[full |-> cand[p].known.full, files |-> {q \in done : Same(p, q)}] : p \in done}
  IN {g \in all : Cardinality(g.files) > 1}

Finish(t) ==
  /\ search[t].st = "hash" /\ search[t].todo = {}
  /\ cache' = IF Cached THEN Replaced(t) ELSE cache
  /\ groups' = [groups EXCEPT ![t] = IF search[t].stop THEN {} ELSE Grouped(t)]
  /\ Returns(t)
  /\ UNCHANGED <<fs, changed, edits, searches>>

Search(t) ==
  \/ Begin(t) \/ Cancel(t)
  \/ \E p \in Paths : ListFile(t, p) \/ SampleFile(t, p) \/ HashFile(t, p)
  \/ CompareSizes(t) \/ CompareSamples(t) \/ Finish(t)

Next == User \/ \E t \in Tabs : Search(t)

Spec == Init /\ [][Next]_vars

-----------------------------------------------------------------------------
SearchState ==
  [st : {"idle", "walk", "sample", "hash", "done"}, nr : 0..MaxSearches, stop : BOOLEAN,
   todo : SUBSET Paths, alike : SUBSET Paths, cand : [Paths -> Cand \cup {None}]]

(* Every variable has its type. *)
DupTypeOK ==
  /\ at \in [Paths -> Inodes \cup {None}]
  /\ data \in [Inodes -> Data]
  /\ cache \in [Paths -> Known \cup {None}]
  /\ search \in [Tabs -> SearchState]
  /\ \A t \in Tabs :
       search[t].todo \cup search[t].alike \subseteq Scope[t] /\ search[t].nr <= searches
  /\ groups \in [Tabs -> SUBSET Group]
  /\ changed \in [Paths -> 0..searches]
  /\ edits \in 0..MaxEdits /\ searches \in 0..MaxSearches

(* What dupes.rs says of a search (lines 1-16), for whatever the user did  *)
(* meanwhile and whatever earlier searches left in the cache: every file   *)
(* of a group that was not changed since the search began is there and has *)
(* the content of the group.                                               *)
GroupsIdentical ==
  \A t \in Tabs : \A g \in groups[t] : \A p \in g.files \ Touched(search[t].nr) :
    Exists(p) /\ ContentAt(p) = g.full

(* "Hard links to one physical file are never called duplicates"           *)
(* (dupes.rs 5-6): two files of a group that were not changed since the    *)
(* search began are two physical files.                                    *)
HardLinksNotDuplicates ==
  \A t \in Tabs : \A g \in groups[t] : \A p, q \in g.files \ Touched(search[t].nr) :
    p # q => at[p] # at[q]

(* A search that was neither cancelled nor disturbed has found all: two    *)
(* physical files of equal content have each a link in the same group.     *)
NoDuplicateMissed ==
  \A t \in Tabs :
    search[t].st = "done" /\ ~search[t].stop /\ Touched(search[t].nr) \cap Scope[t] = {} =>
      \A p, q \in Scope[t] :
        Exists(p) /\ Exists(q) /\ at[p] # at[q] /\ ContentAt(p) = ContentAt(q) =>
          \E g \in groups[t] : Links(at[p]) \cap g.files # {} /\ Links(at[q]) \cap g.files # {}

=============================================================================
