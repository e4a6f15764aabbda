-------------------------- MODULE TreeBuilderProofs --------------------------
(***************************************************************************)
(* Proofs about the tree built while the walk runs, for every directory    *)
(* tree, every number of threads and every depth limit: the arena never    *)
(* holds a directory twice, its parent links are right, and `pending` is   *)
(* exact.  The walk and the builder keep the contract of ScanContract;     *)
(* following links there is one node for each target, and in a complete    *)
(* tree a node for every target; and the totals that finish rolls up are   *)
(* those of the directories that were listed: exact where a node is marked *)
(* complete, never more than there is anywhere.                            *)
(***************************************************************************)
EXTENDS TreeBuilder, FiniteSums, SequenceTheorems

(***************************************************************************)
(* Facts about numbers, sequences and paths.                               *)
(***************************************************************************)

(* Appending a block of m new elements to a sequence. *)
LEMMA AppendBlock ==
  ASSUME NEW S, NEW s \in Seq(S), NEW m \in Nat, NEW f \in [1..m -> S]
  PROVE  /\ s \o f \in Seq(S)
         /\ Len(s \o f) = Len(s) + m
         /\ DOMAIN (s \o f) = 1..(Len(s) + m)
         /\ \A i \in 1..Len(s) : (s \o f)[i] = s[i]
         /\ \A i \in 1..m : (s \o f)[Len(s) + i] = f[i]
<1>1. f \in Seq(S) /\ Len(f) = m
  <2>1. f \in UNION {[1..k -> S] : k \in Nat}
    OBVIOUS
  <2>2. f \in Seq(S)
    BY <2>1, SeqDef
  <2> QED
    BY <2>2, LenProperties
<1>2. Len(s) \in Nat /\ s \o f \in Seq(S) /\ Len(s \o f) = Len(s) + m
  BY <1>1, ConcatProperties, LenProperties
<1>3. DOMAIN (s \o f) = 1..(Len(s) + m)
  BY <1>2, LenProperties
<1>4. \A i \in 1..(Len(s) + m) : (s \o f)[i] = IF i <= Len(s) THEN s[i] ELSE f[i - Len(s)]
  BY <1>1, ConcatProperties
<1>5. \A i \in 1..Len(s) : (s \o f)[i] = s[i]
  BY <1>2, <1>4
<1>6. \A i \in 1..m : (s \o f)[Len(s) + i] = f[i]
  BY <1>2, <1>4
<1> QED
  BY <1>2, <1>3, <1>5, <1>6

(* The level a directory has on its own path, and its parent. *)
LEMMA PathFacts ==
  ASSUME NEW d \in Dirs
  PROVE  /\ Path[d] \in Seq(Dirs) /\ Len(Path[d]) \in Nat /\ Len(Path[d]) >= 1
         /\ Path[d][1] = Root /\ Path[d][Len(Path[d])] = d
         /\ \A i \in 1..Len(Path[d]) :
              /\ Path[d][i] \in Dirs
              /\ Len(Path[Path[d][i]]) = i
              /\ \A j \in 1..i : Path[Path[d][i]][j] = Path[d][j]
<1>1. Path[d] \in Seq(Dirs)
  BY PathAssumption
<1>2. Len(Path[d]) \in Nat /\ Len(Path[d]) > 0
  BY <1>1, PathAssumption, LenProperties
<1>3. Path[d][1] = Root /\ Path[d][Len(Path[d])] = d
  BY PathAssumption
<1>4. ASSUME NEW i \in 1..Len(Path[d])
      PROVE  /\ Path[d][i] \in Dirs
             /\ Len(Path[Path[d][i]]) = i
             /\ \A j \in 1..i : Path[Path[d][i]][j] = Path[d][j]
  BY <1>1, PathAssumption, ElementOfSeq
<1> QED
  BY <1>1, <1>2, <1>3, <1>4

(* Only the root has a path of one element. *)
LEMMA RootLevel ==
  ASSUME NEW d \in Dirs
  PROVE  Len(Path[d]) = 1 <=> d = Root
<1>1. d = Root => Len(Path[d]) = 1
  <2>1. Root \in Dirs /\ 1 \in 1..Len(Path[Root]) /\ Path[Root][1] = Root
    BY PathFacts, PathAssumption
  <2>2. Len(Path[Path[Root][1]]) = 1
    BY <2>1, PathFacts
  <2> QED
    BY <2>1, <2>2
<1> QED
  BY <1>1, PathFacts

(* The directory one level further down a path has the one above it as     *)
(* its parent.                                                             *)
LEMMA ParentOnPath ==
  ASSUME NEW d \in Dirs, NEW i \in 1..(Len(Path[d]) - 1)
  PROVE  /\ Path[d][i + 1] \in Dirs \ {Root}
         /\ Parent(Path[d][i + 1]) = Path[d][i]
<1>1. i \in 1..Len(Path[d]) /\ i + 1 \in 1..Len(Path[d])
  BY PathFacts
<1>2. Path[d][i + 1] \in Dirs /\ Len(Path[Path[d][i + 1]]) = i + 1
  BY <1>1, PathFacts
<1>3. Path[Path[d][i + 1]][i] = Path[d][i]
  BY <1>1, PathFacts
<1>4. Len(Path[Path[d][i + 1]]) - 1 = i /\ i + 1 # 1
  BY <1>2
<1> QED
  BY <1>2, <1>3, <1>4, RootLevel DEF Parent

(* What dir_id finds when it climbs: the deepest level it can look up. *)
LEMMA KnownLevelFacts ==
  ASSUME NEW d \in Dirs
  PROVE  /\ KnownLevel(d) \in 1..Len(Path[d])
         /\ Known(d, KnownLevel(d))
         /\ \A j \in 1..Len(Path[d]) : Known(d, j) => j <= KnownLevel(d)
<1> DEFINE n == Len(Path[d])
           S == {k \in 1..n : Known(d, k)}
<1>1. n \in Nat /\ 1 \in 1..n
  BY PathFacts
<1>2. 1 \in S
  BY <1>1 DEF Known
<1>3. PICK k \in S : \A j \in S : j <= k
  BY <1>1, <1>2, DeepestLevel
<1>4. \E m \in 1..n : Known(d, m) /\ \A j \in 1..n : Known(d, j) => j <= m
  BY <1>3
<1> QED
  BY <1>4 DEF KnownLevel

-----------------------------------------------------------------------------
(***************************************************************************)
(* The walk's steps leave the tree alone.                                  *)
(***************************************************************************)

(* The sub-directories that batches name, in listings and in the channel. *)
Batched ==
  (UNION {at[w].batch.subdirs : w \in {v \in Workers : at[v] # None}})
    \cup (UNION {chan[i].subdirs : i \in DOMAIN chan})

(* Thread w stays in its listing, and nothing but it and the queue moves. *)
OnlyListing(w) ==
  /\ at'[w] # None /\ at'[w].batch.dir = at[w].batch.dir
  /\ \A v \in Workers \ {w} : at'[v] = at[v]
  /\ chan' = chan /\ cancelled' = cancelled
  /\ InListing' = InListing /\ Started' = Started

(* What the types say of the listings and batches under way. *)
LEMMA TypeFacts ==
  ASSUME TypeOK
  PROVE  /\ \A w \in Workers : at[w] # None =>
              /\ at[w] \in Listing
              /\ at[w].batch \in Batch /\ at[w].batch.dir \in Dirs
              /\ at[w].batch.subdirs \subseteq Dirs /\ at[w].todo \subseteq Dirs
              /\ at[w].files \in BOOLEAN
         /\ chan \in Seq(Batch) /\ DOMAIN chan = 1..Len(chan) /\ Len(chan) \in Nat
         /\ \A i \in DOMAIN chan : /\ chan[i] \in Batch /\ chan[i].dir \in Dirs
                                   /\ chan[i].subdirs \subseteq Dirs
         /\ nodes \in Seq(Node) /\ DOMAIN nodes = 1..Len(nodes) /\ Len(nodes) \in Nat
         /\ \A i \in DOMAIN nodes : nodes[i] \in Node /\ nodes[i].dir \in Dirs
<1>1. \A w \in Workers : at[w] # None => at[w] \in Listing
  BY DEF TypeOK, WalkTypeOK
<1>2. \A l \in Listing : l.batch \in Batch /\ l.todo \subseteq Dirs /\ l.files \in BOOLEAN
  BY DEF Listing
<1>3. \A b \in Batch : b.dir \in Dirs /\ b.subdirs \subseteq Dirs
  BY DEF Batch
<1>4. chan \in Seq(Batch) /\ DOMAIN chan = 1..Len(chan) /\ Len(chan) \in Nat
  BY LenProperties DEF TypeOK, WalkTypeOK
<1>5. nodes \in Seq(Node) /\ DOMAIN nodes = 1..Len(nodes) /\ Len(nodes) \in Nat
  BY LenProperties DEF TypeOK
<1>6. \A i \in DOMAIN chan : chan[i] \in Batch
  BY <1>4, ElementOfSeq
<1>7. \A i \in DOMAIN nodes : nodes[i] \in Node
  BY <1>5, ElementOfSeq
<1>8. \A n \in Node : n.dir \in Dirs
  BY DEF Node
<1> QED
  BY <1>1, <1>2, <1>3, <1>4, <1>5, <1>6, <1>7, <1>8

(* The arena's own invariants talk of the arena and of `pending` only. *)
LEMMA TreeUntouched ==
  ASSUME BuildInv, UNCHANGED buildVars
  PROVE  OneNodePerDir' /\ ParentBeforeChild' /\ PendingIsUnlisted' /\ Listed' = Listed
BY DEF BuildInv, buildVars, OneNodePerDir, ParentBeforeChild, PendingIsUnlisted, Listed

(* A task is dropped. *)
LEMMA DropStep ==
  ASSUME BuildInv, NEW w \in Workers, NEW d \in queue, Drop(w, d), UNCHANGED buildVars
  PROVE  /\ BuildInv'
         /\ InListing' = InListing /\ Started' = Started /\ Batched' \subseteq Batched
<1>1. OneNodePerDir' /\ ParentBeforeChild' /\ PendingIsUnlisted' /\ Listed' = Listed
  BY TreeUntouched
<1>2. TypeOK'
  BY DEF BuildInv, Drop, TypeOK, WalkTypeOK, buildVars
<1>3. InListing' = InListing /\ InChan' = InChan /\ Started' = Started
  BY <1>1 DEF Drop, InListing, InChan, Started
<1>4. OnePlace'
  BY <1>1, <1>3 DEF BuildInv, OnePlace, Drop
<1>5. Announced'
  BY <1>1, <1>3 DEF BuildInv, Announced, Drop, buildVars
<1>6. OwnChildren'
  BY DEF BuildInv, OwnChildren, Drop
<1>7. Batched' \subseteq Batched
  BY DEF Drop, Batched
<1> QED
  BY <1>1, <1>2, <1>3, <1>4, <1>5, <1>6, <1>7 DEF BuildInv

(* A directory being queued has no child anywhere yet. *)
LEMMA NoChildOfQueued ==
  ASSUME BuildInv, NEW d \in queue, NEW x \in queue \cup Started, x # Root
  PROVE  Parent(x) # d
<1>1. x \in Dirs
  BY TypeFacts DEF BuildInv, TypeOK, WalkTypeOK, Started, InListing, InChan, Listed
<1>2. Len(Path[x]) - 1 \in 1..(Len(Path[x]) - 1)
  BY <1>1, PathFacts, RootLevel
<1>3. Parent(x) \in Started
  BY <1>1, <1>2 DEF BuildInv, Announced, Parent
<1> QED
  BY <1>3 DEF BuildInv, OnePlace

(* A directory that cannot be listed: its empty batch is sent. *)
LEMMA ListFailsStep ==
  ASSUME BuildInv, NEW w \in Workers, NEW d \in queue, ListFails(w, d), UNCHANGED buildVars
  PROVE  /\ BuildInv'
         /\ InListing' = InListing /\ Started' = Started \cup {d} /\ Batched' \subseteq Batched
<1> DEFINE b == [EmptyBatch(d) EXCEPT !.skipped = 1]
<1>1. OneNodePerDir' /\ ParentBeforeChild' /\ PendingIsUnlisted' /\ Listed' = Listed
  BY TreeUntouched
<1>2. d \in Dirs
  BY DEF BuildInv, TypeOK, WalkTypeOK
<1>3. b \in Batch /\ b.dir = d /\ b.subdirs = {}
  BY <1>2 DEF EmptyBatch, Batch
<1> HIDE DEF b
<1>4. chan' = Append(chan, b) /\ queue' = queue \ {d} /\ at' = at
  BY DEF ListFails, b
<1>5. /\ chan' \in Seq(Batch) /\ Len(chan') = Len(chan) + 1
      /\ DOMAIN chan = 1..Len(chan) /\ DOMAIN chan' = 1..(Len(chan) + 1)
      /\ Len(chan) \in Nat
      /\ \A i \in 1..Len(chan) : chan'[i] = chan[i]
      /\ chan'[Len(chan) + 1] = b
  BY <1>3, <1>4, TypeFacts, LenProperties DEF BuildInv
<1>6. TypeOK'
  BY <1>4, <1>5 DEF BuildInv, ListFails, TypeOK, WalkTypeOK, buildVars
<1>7. InListing' = InListing
  BY <1>4 DEF InListing
<1>8. InChan' = InChan \cup {d}
  BY <1>3, <1>5 DEF InChan
<1>9. Started' = Started \cup {d} /\ d \notin Started
  BY <1>1, <1>7, <1>8 DEF Started, BuildInv, OnePlace
<1>10. OnePlace'
  <2>1. \A i, j \in DOMAIN chan' : chan'[i].dir = chan'[j].dir => i = j
    BY <1>3, <1>5, <1>9 DEF BuildInv, OnePlace, Started, InChan
  <2>2. \A u, v \in Workers :
          at'[u] # None /\ at'[v] # None /\ at'[u].batch.dir = at'[v].batch.dir => u = v
    BY <1>4 DEF BuildInv, OnePlace
  <2> QED
    BY <2>1, <2>2, <1>1, <1>4, <1>7, <1>8, <1>9 DEF BuildInv, OnePlace, Started
<1>11. Announced'
  <2> SUFFICES ASSUME NEW x \in queue' \cup Started'
               PROVE  /\ \A i \in 1..(Len(Path[x]) - 1) : Path[x][i] \in Started'
                      /\ x # Root =>
                           /\ \A v \in Workers :
                                at'[v] # None /\ at'[v].batch.dir = Parent(x) =>
                                  x \in at'[v].batch.subdirs \ at'[v].todo
                           /\ \A i \in DOMAIN chan' :
                                chan'[i].dir = Parent(x) => x \in chan'[i].subdirs
                           /\ Parent(x) \in Listed' =>
                                \E i \in DOMAIN nodes' : nodes'[i].dir = x
    BY DEF Announced
  <2>1. x \in queue \cup Started
    BY <1>4, <1>9
  <2>2. \A i \in 1..(Len(Path[x]) - 1) : Path[x][i] \in Started'
    BY <2>1, <1>9 DEF BuildInv, Announced
  <2>3. x # Root => Parent(x) # d
    BY <2>1, NoChildOfQueued
  <2>4. x # Root => \A i \in DOMAIN chan' : chan'[i].dir = Parent(x) => x \in chan'[i].subdirs
    BY <2>1, <2>3, <1>3, <1>5 DEF BuildInv, Announced
  <2> QED
    BY <2>1, <2>2, <2>4, <1>1, <1>4 DEF BuildInv, Announced, buildVars
<1>12. OwnChildren'
  BY <1>3, <1>4, <1>5 DEF BuildInv, OwnChildren
<1>13. Batched' \subseteq Batched
  BY <1>3, <1>4, <1>5 DEF Batched
<1> QED
  BY <1>1, <1>6, <1>7, <1>9, <1>10, <1>11, <1>12, <1>13 DEF BuildInv

(* A thread opens a directory. *)
LEMMA OpenStep ==
  ASSUME BuildInv, NEW w \in Workers, at[w] = None, NEW d \in queue,
         Open(w, d), UNCHANGED buildVars
  PROVE  /\ BuildInv'
         /\ InListing' = InListing \cup {d} /\ Started' = Started \cup {d} /\ Batched' \subseteq Batched
         /\ at'[w] # None /\ at'[w].batch.dir = d /\ at'[w].todo = Children(d)
         /\ at'[w].files = TRUE /\ at'[w].batch.bytes = 0
         /\ \A v \in Workers \ {w} : at'[v] = at[v]
<1> DEFINE l == [batch |-> EmptyBatch(d), todo |-> Children(d), files |-> TRUE]
<1>1. OneNodePerDir' /\ ParentBeforeChild' /\ PendingIsUnlisted' /\ Listed' = Listed
  BY TreeUntouched
<1>2. d \in Dirs
  BY DEF BuildInv, TypeOK, WalkTypeOK
<1>3. /\ l \in Listing /\ l # None
      /\ l.batch.dir = d /\ l.batch.subdirs = {} /\ l.todo = Children(d)
      /\ l.files = TRUE /\ l.batch.bytes = 0
  <2>1. /\ EmptyBatch(d) \in Batch /\ EmptyBatch(d).dir = d
        /\ EmptyBatch(d).subdirs = {} /\ EmptyBatch(d).bytes = 0
    BY <1>2 DEF EmptyBatch, Batch
  <2>2. Children(d) \in SUBSET Dirs
    BY DEF Children
  <2>3. l \in Listing
    BY <2>1, <2>2 DEF Listing
  <2> QED
    BY <2>1, <2>3, WorkersAssumption
<1> HIDE DEF l
<1>4. /\ at' = [at EXCEPT ![w] = l] /\ queue' = queue \ {d} /\ chan' = chan
      /\ at'[w] = l /\ \A v \in Workers \ {w} : at'[v] = at[v]
  BY DEF Open, l, BuildInv, TypeOK, WalkTypeOK
<1>5. TypeOK'
  BY <1>3, <1>4 DEF BuildInv, Open, TypeOK, WalkTypeOK, buildVars
<1>6. InListing' = InListing \cup {d}
  BY <1>3, <1>4 DEF InListing
<1>7. InChan' = InChan
  BY <1>4 DEF InChan
<1>8. Started' = Started \cup {d} /\ d \notin Started
  BY <1>1, <1>6, <1>7 DEF Started, BuildInv, OnePlace
<1>9. OnePlace'
  <2>1. \A u, v \in Workers :
          at'[u] # None /\ at'[v] # None /\ at'[u].batch.dir = at'[v].batch.dir => u = v
    BY <1>3, <1>4, <1>8 DEF BuildInv, OnePlace, Started, InListing
  <2> QED
    BY <2>1, <1>1, <1>4, <1>6, <1>7, <1>8 DEF BuildInv, OnePlace, Started
<1>10. Announced'
  <2> SUFFICES ASSUME NEW x \in queue' \cup Started'
               PROVE  /\ \A i \in 1..(Len(Path[x]) - 1) : Path[x][i] \in Started'
                      /\ x # Root =>
                           /\ \A v \in Workers :
                                at'[v] # None /\ at'[v].batch.dir = Parent(x) =>
                                  x \in at'[v].batch.subdirs \ at'[v].todo
                           /\ \A i \in DOMAIN chan' :
                                chan'[i].dir = Parent(x) => x \in chan'[i].subdirs
                           /\ Parent(x) \in Listed' =>
                                \E i \in DOMAIN nodes' : nodes'[i].dir = x
    BY DEF Announced
  <2>1. x \in queue \cup Started
    BY <1>4, <1>8
  <2>2. \A i \in 1..(Len(Path[x]) - 1) : Path[x][i] \in Started'
    BY <2>1, <1>8 DEF BuildInv, Announced
  <2>3. x # Root => Parent(x) # d
    BY <2>1, NoChildOfQueued
  <2>4. x # Root => \A v \in Workers :
          at'[v] # None /\ at'[v].batch.dir = Parent(x) => x \in at'[v].batch.subdirs \ at'[v].todo
    BY <2>1, <2>3, <1>3, <1>4 DEF BuildInv, Announced
  <2> QED
    BY <2>1, <2>2, <2>4, <1>1, <1>4 DEF BuildInv, Announced, buildVars
<1>11. OwnChildren'
  BY <1>3, <1>4 DEF BuildInv, OwnChildren
<1>12. Batched' \subseteq Batched
  BY <1>3, <1>4 DEF Batched
<1> QED
  BY <1>1, <1>3, <1>4, <1>5, <1>6, <1>8, <1>9, <1>10, <1>11, <1>12 DEF BuildInv

(* A listing moves on by one entry: the batch keeps its directory, names   *)
(* no fewer sub-directories, and nothing reappears among the entries to    *)
(* come.                                                                   *)
LEMMA EntryStep ==
  ASSUME BuildInv, UNCHANGED buildVars, NEW w \in Workers, at[w] # None,
         NEW l \in Listing, at' = [at EXCEPT ![w] = l],
         l.batch.dir = at[w].batch.dir, at[w].batch.subdirs \subseteq l.batch.subdirs,
         l.todo \subseteq at[w].todo,
         l.batch.subdirs \subseteq at[w].batch.subdirs \cup (at[w].todo \ l.todo),
         NEW D \in SUBSET (l.batch.subdirs \cap (at[w].todo \ l.todo)),
         queue' = queue \cup D, chan' = chan, cancelled' = cancelled,
         seen' \subseteq {Target[d] : d \in Dirs}
  PROVE  BuildInv' /\ at'[w] = l /\ OnlyListing(w)
<1> DEFINE p == at[w].batch.dir
<1>1. OneNodePerDir' /\ ParentBeforeChild' /\ PendingIsUnlisted' /\ Listed' = Listed
  BY TreeUntouched
<1>2. /\ at'[w] = l /\ \A v \in Workers \ {w} : at'[v] = at[v]
      /\ l # None
  BY WorkersAssumption DEF BuildInv, TypeOK, WalkTypeOK
<1>3. p \in Dirs /\ D \subseteq Children(p) /\ D \subseteq Dirs /\ p \in InListing
  BY TypeFacts DEF BuildInv, OwnChildren, Children, InListing
<1>4. TypeOK'
  BY <1>2, <1>3 DEF BuildInv, TypeOK, WalkTypeOK, buildVars
<1>5. InListing' = InListing /\ InChan' = InChan /\ Started' = Started
  <2>1. InListing' = InListing
    BY <1>2 DEF InListing
  <2> QED
    BY <2>1, <1>1 DEF InChan, Started
<1>6. D \cap (queue \cup Started) = {}
  <2> SUFFICES ASSUME NEW c \in D, c \in queue \cup Started PROVE FALSE
    OBVIOUS
  <2>1. c # Root /\ Parent(c) = p /\ c \in at[w].todo
    BY <1>3 DEF Children
  <2> QED
    BY <2>1 DEF BuildInv, Announced
<1>7. OnePlace'
  <2>1. \A u, v \in Workers :
          at'[u] # None /\ at'[v] # None /\ at'[u].batch.dir = at'[v].batch.dir => u = v
    BY <1>2 DEF BuildInv, OnePlace
  <2> QED
    BY <2>1, <1>1, <1>5, <1>6 DEF BuildInv, OnePlace
<1>8. Announced'
  <2> SUFFICES ASSUME NEW x \in queue' \cup Started'
               PROVE  /\ \A i \in 1..(Len(Path[x]) - 1) : Path[x][i] \in Started'
                      /\ x # Root =>
                           /\ \A v \in Workers :
                                at'[v] # None /\ at'[v].batch.dir = Parent(x) =>
                                  x \in at'[v].batch.subdirs \ at'[v].todo
                           /\ \A i \in DOMAIN chan' :
                                chan'[i].dir = Parent(x) => x \in chan'[i].subdirs
                           /\ Parent(x) \in Listed' =>
                                \E i \in DOMAIN nodes' : nodes'[i].dir = x
    BY DEF Announced
  <2>1. CASE x \in queue \cup Started
    <3>1. x # Root => \A v \in Workers :
            at'[v] # None /\ at'[v].batch.dir = Parent(x) => x \in at'[v].batch.subdirs \ at'[v].todo
      BY <2>1, <1>2 DEF BuildInv, Announced
    <3> QED
      BY <2>1, <3>1, <1>1, <1>5 DEF BuildInv, Announced, buildVars
  <2>2. CASE x \in D
    <3>1. x \in Dirs /\ x # Root /\ Parent(x) = p
      BY <2>2, <1>3 DEF Children
    <3>2. p \in Started /\ p \notin InChan /\ p \notin Listed
      BY <1>3 DEF Started, BuildInv, OnePlace
    <3>3. \A i \in 1..(Len(Path[x]) - 1) : Path[x][i] \in Started
      <4> SUFFICES ASSUME NEW i \in 1..(Len(Path[x]) - 1) PROVE Path[x][i] \in Started
        OBVIOUS
      <4>1. Len(Path[x]) \in Nat /\ Len(Path[x]) - 1 \in 1..Len(Path[x])
        BY <3>1, PathFacts, RootLevel
      <4>2. Path[x][Len(Path[x]) - 1] = p
        BY <3>1 DEF Parent
      <4>3. Len(Path[p]) = Len(Path[x]) - 1 /\ Path[p][i] = Path[x][i]
        <5> DEFINE q == Len(Path[x]) - 1
        <5>1. q \in 1..Len(Path[x]) /\ i \in 1..q /\ Path[x][q] = p
          BY <4>1, <4>2
        <5> HIDE DEF q
        <5>2. Len(Path[Path[x][q]]) = q /\ Path[Path[x][q]][i] = Path[x][i]
          BY <3>1, <5>1, PathFacts
        <5> QED
          BY <5>1, <5>2 DEF q
      <4>4. CASE i = Len(Path[x]) - 1
        BY <3>2, <4>2, <4>4
      <4>5. CASE i # Len(Path[x]) - 1
        <5>1. i \in 1..(Len(Path[p]) - 1)
          BY <4>1, <4>3, <4>5
        <5> QED
          BY <5>1, <4>3, <3>2 DEF BuildInv, Announced
      <4> QED
        BY <4>4, <4>5
    <3>4. \A v \in Workers :
            at'[v] # None /\ at'[v].batch.dir = p => x \in at'[v].batch.subdirs \ at'[v].todo
      BY <2>2, <1>2 DEF BuildInv, OnePlace
    <3>5. \A i \in DOMAIN chan' : chan'[i].dir # p
      BY <3>2 DEF InChan
    <3> QED
      BY <3>1, <3>2, <3>3, <3>4, <3>5, <1>1, <1>5
  <2> QED
    BY <2>1, <2>2, <1>5
<1>9. OwnChildren'
  BY <1>2 DEF BuildInv, OwnChildren
<1>10. OnlyListing(w)
  BY <1>2, <1>5 DEF OnlyListing
<1> QED
  BY <1>1, <1>2, <1>4, <1>7, <1>8, <1>9, <1>10 DEF BuildInv

LEMMA FindDirStep ==
  ASSUME BuildInv, NEW w \in Workers, at[w] # None, FindDir(w), UNCHANGED buildVars
  PROVE  /\ BuildInv' /\ OnlyListing(w)
         /\ at'[w].files = at[w].files /\ at'[w].batch.bytes = at[w].batch.bytes
         /\ \E c \in at[w].todo :
              LET subs == IF Follow /\ Target[c] \in seen THEN {} ELSE {c}
              IN /\ at'[w].todo = at[w].todo \ {c}
                 /\ at'[w].batch.subdirs = at[w].batch.subdirs \cup subs
                 /\ seen' = IF Follow THEN seen \cup {Target[c]} ELSE seen
                 /\ queue' = IF Depth(at[w].batch.dir) + 1 < MaxDepth THEN queue \cup subs ELSE queue
<1>1. PICK c \in at[w].todo :
        LET d     == at[w].batch.dir
            again == Follow /\ Target[c] \in seen
            subs  == IF again THEN {} ELSE {c}
        IN /\ at' = [at EXCEPT ![w].todo = @ \ {c},
                               ![w].batch.subdirs = @ \cup subs]
           /\ seen' = IF Follow THEN seen \cup {Target[c]} ELSE seen
           /\ queue' = IF Depth(d) + 1 < MaxDepth THEN queue \cup subs ELSE queue
           /\ UNCHANGED <<cancelled, chan>>
  BY DEF FindDir
<1> DEFINE subs == IF Follow /\ Target[c] \in seen THEN {} ELSE {c}
           D == IF Depth(at[w].batch.dir) + 1 < MaxDepth THEN subs ELSE {}
           l == [at[w] EXCEPT !.todo = @ \ {c}, !.batch.subdirs = @ \cup subs]
<1>2. at[w] \in Listing /\ at[w].batch \in Batch /\ c \in Dirs /\ subs \subseteq {c}
  BY TypeFacts DEF BuildInv
<1>3. /\ l \in Listing
      /\ l.todo = at[w].todo \ {c} /\ l.batch.dir = at[w].batch.dir
      /\ l.batch.subdirs = at[w].batch.subdirs \cup subs
      /\ l.files = at[w].files /\ l.batch.bytes = at[w].batch.bytes
  BY <1>2 DEF Listing, Batch
<1>4. /\ at' = [at EXCEPT ![w] = l]
      /\ queue' = queue \cup D /\ chan' = chan /\ cancelled' = cancelled
      /\ seen' \subseteq {Target[d] : d \in Dirs}
  <2>1. at' = [at EXCEPT ![w] = l]
    BY <1>1
  <2>2. queue' = queue \cup D /\ chan' = chan /\ cancelled' = cancelled
    BY <1>1
  <2>3. seen' \subseteq {Target[d] : d \in Dirs}
    BY <1>1, <1>2 DEF BuildInv, TypeOK, WalkTypeOK
  <2> QED
    BY <2>1, <2>2, <2>3
<1>5. D \in SUBSET (l.batch.subdirs \cap (at[w].todo \ l.todo))
  BY <1>2, <1>3
<1>6. l.batch.subdirs \subseteq at[w].batch.subdirs \cup (at[w].todo \ l.todo)
  BY <1>2, <1>3
<1>7. at[w].batch.subdirs \subseteq l.batch.subdirs /\ l.todo \subseteq at[w].todo
  BY <1>3
<1> HIDE DEF l, D
<1>8. BuildInv' /\ at'[w] = l /\ OnlyListing(w)
  <2> HIDE DEF subs
  <2> QED
    BY <1>3, <1>4, <1>5, <1>6, <1>7, EntryStep
<1> QED
  BY <1>1, <1>3, <1>8

LEMMA ReadFilesStep ==
  ASSUME BuildInv, NEW w \in Workers, at[w] # None, ReadFiles(w), UNCHANGED buildVars
  PROVE  /\ BuildInv' /\ OnlyListing(w)
         /\ at'[w].batch.subdirs = at[w].batch.subdirs /\ at'[w].todo = at[w].todo
         /\ at'[w].files = FALSE /\ at'[w].batch.bytes = Bytes[at[w].batch.dir]
         /\ UNCHANGED <<queue, seen>>
<1> DEFINE l == [at[w] EXCEPT !.files = FALSE, !.batch.bytes = Bytes[at[w].batch.dir]]
<1>1. at[w] \in Listing /\ at[w].batch \in Batch /\ Bytes[at[w].batch.dir] \in Nat
  BY TypeFacts, ScanAssumption DEF BuildInv
<1>2. /\ l \in Listing
      /\ l.todo = at[w].todo /\ l.batch.dir = at[w].batch.dir
      /\ l.batch.subdirs = at[w].batch.subdirs
      /\ l.files = FALSE /\ l.batch.bytes = Bytes[at[w].batch.dir]
  BY <1>1 DEF Listing, Batch
<1>3. /\ at' = [at EXCEPT ![w] = l] /\ queue' = queue \cup {} /\ chan' = chan
      /\ cancelled' = cancelled /\ seen' \subseteq {Target[d] : d \in Dirs}
  BY DEF ReadFiles, BuildInv, TypeOK, WalkTypeOK
<1> HIDE DEF l
<1>4. {} \in SUBSET (l.batch.subdirs \cap (at[w].todo \ l.todo))
  OBVIOUS
<1>5. BuildInv' /\ at'[w] = l /\ OnlyListing(w)
  BY <1>2, <1>3, <1>4, EntryStep
<1> QED
  BY <1>2, <1>5 DEF ReadFiles

LEMMA EntryFailsStep ==
  ASSUME BuildInv, NEW w \in Workers, at[w] # None, EntryFails(w), UNCHANGED buildVars
  PROVE  /\ BuildInv' /\ OnlyListing(w)
         /\ at'[w].batch.subdirs = at[w].batch.subdirs /\ at[w].batch.dir \in Flaky
         /\ at'[w].batch.bytes = at[w].batch.bytes /\ (at'[w].files => at[w].files)
         /\ UNCHANGED <<queue, seen>>
<1> DEFINE nb == [at[w].batch EXCEPT !.skipped = @ + 1]
<1>1. /\ at[w] \in Listing /\ at[w].batch \in Batch
      /\ nb \in Batch /\ nb.dir = at[w].batch.dir /\ nb.subdirs = at[w].batch.subdirs
      /\ nb.bytes = at[w].batch.bytes
  <2>1. at[w] \in Listing /\ at[w].batch \in Batch
    BY TypeFacts DEF BuildInv
  <2>2. at[w].batch.skipped + 1 \in Nat
    BY <2>1 DEF Batch
  <2> QED
    BY <2>1, <2>2 DEF Batch
<1>2. /\ queue' = queue \cup {} /\ chan' = chan
      /\ cancelled' = cancelled /\ seen' \subseteq {Target[d] : d \in Dirs}
  BY DEF EntryFails, BuildInv, TypeOK, WalkTypeOK
<1>3. ASSUME NEW c \in at[w].todo,
             at' = [at EXCEPT ![w].todo = @ \ {c}, ![w].batch.skipped = @ + 1]
      PROVE  /\ BuildInv' /\ OnlyListing(w) /\ at'[w].batch.subdirs = at[w].batch.subdirs
             /\ at'[w].batch.bytes = at[w].batch.bytes /\ (at'[w].files => at[w].files)
  <2> DEFINE l == [at[w] EXCEPT !.todo = @ \ {c}, !.batch = nb]
  <2>1. /\ l \in Listing /\ l.files = at[w].files /\ l.batch.bytes = at[w].batch.bytes
        /\ l.todo = at[w].todo \ {c} /\ l.batch.dir = at[w].batch.dir
        /\ l.batch.subdirs = at[w].batch.subdirs
    BY <1>1 DEF Listing
  <2>2. at' = [at EXCEPT ![w] = l]
    BY <1>3
  <2> HIDE DEF l
  <2>3. {} \in SUBSET (l.batch.subdirs \cap (at[w].todo \ l.todo))
    OBVIOUS
  <2>4. BuildInv' /\ at'[w] = l /\ OnlyListing(w)
    BY <2>1, <2>2, <2>3, <1>2, EntryStep
  <2> QED
    BY <2>1, <2>4
<1>4. ASSUME at' = [at EXCEPT ![w].files = FALSE, ![w].batch.skipped = @ + 1]
      PROVE  /\ BuildInv' /\ OnlyListing(w) /\ at'[w].batch.subdirs = at[w].batch.subdirs
             /\ at'[w].batch.bytes = at[w].batch.bytes /\ (at'[w].files => at[w].files)
  <2> DEFINE l == [at[w] EXCEPT !.files = FALSE, !.batch = nb]
  <2>1. /\ l \in Listing /\ l.files = FALSE /\ l.batch.bytes = at[w].batch.bytes
        /\ l.todo = at[w].todo /\ l.batch.dir = at[w].batch.dir
        /\ l.batch.subdirs = at[w].batch.subdirs
    BY <1>1 DEF Listing
  <2>2. at' = [at EXCEPT ![w] = l]
    BY <1>4
  <2> HIDE DEF l
  <2>3. {} \in SUBSET (l.batch.subdirs \cap (at[w].todo \ l.todo))
    OBVIOUS
  <2>4. BuildInv' /\ at'[w] = l /\ OnlyListing(w)
    BY <2>1, <2>2, <2>3, <1>2, EntryStep
  <2> QED
    BY <2>1, <2>4
<1> QED
  BY <1>3, <1>4 DEF EntryFails

(* The batch of a listing is sent. *)
LEMMA SendStep ==
  ASSUME BuildInv, NEW w \in Workers, at[w] # None, Send(w), UNCHANGED buildVars
  PROVE  /\ BuildInv'
         /\ InListing' \subseteq InListing /\ Started' = Started /\ Batched' \subseteq Batched
         /\ at'[w] = None /\ \A v \in Workers \ {w} : at'[v] = at[v]
         /\ UNCHANGED <<cancelled, queue, seen>>
<1> DEFINE b == at[w].batch
           d == b.dir
<1>1. OneNodePerDir' /\ ParentBeforeChild' /\ PendingIsUnlisted' /\ Listed' = Listed
  BY TreeUntouched
<1>2. b \in Batch /\ d \in Dirs /\ d \in InListing
  BY TypeFacts DEF BuildInv, InListing
<1>3. /\ chan' = Append(chan, b) /\ queue' = queue
      /\ at'[w] = None /\ \A v \in Workers \ {w} : at'[v] = at[v]
  BY DEF Send, BuildInv, TypeOK, WalkTypeOK
<1>4. /\ chan' \in Seq(Batch) /\ Len(chan') = Len(chan) + 1
      /\ DOMAIN chan = 1..Len(chan) /\ DOMAIN chan' = 1..(Len(chan) + 1)
      /\ Len(chan) \in Nat
      /\ \A i \in 1..Len(chan) : chan'[i] = chan[i]
      /\ chan'[Len(chan) + 1] = b
  BY <1>2, <1>3, TypeFacts, LenProperties DEF BuildInv
<1>5. TypeOK'
  BY <1>4 DEF BuildInv, Send, TypeOK, WalkTypeOK, buildVars
<1>6. InListing' = InListing \ {d}
  BY <1>3 DEF InListing, BuildInv, OnePlace
<1>7. InChan' = InChan \cup {d}
  BY <1>4 DEF InChan
<1>8. Started' = Started
  BY <1>1, <1>2, <1>6, <1>7 DEF Started
<1>9. OnePlace'
  <2>1. \A i, j \in DOMAIN chan' : chan'[i].dir = chan'[j].dir => i = j
    BY <1>2, <1>4 DEF BuildInv, OnePlace, InChan
  <2>2. \A u, v \in Workers :
          at'[u] # None /\ at'[v] # None /\ at'[u].batch.dir = at'[v].batch.dir => u = v
    BY <1>3 DEF BuildInv, OnePlace
  <2> QED
    BY <2>1, <2>2, <1>1, <1>2, <1>3, <1>6, <1>7, <1>8 DEF BuildInv, OnePlace
<1>10. Announced'
  <2> SUFFICES ASSUME NEW x \in queue' \cup Started'
               PROVE  /\ \A i \in 1..(Len(Path[x]) - 1) : Path[x][i] \in Started'
                      /\ x # Root =>
                           /\ \A v \in Workers :
                                at'[v] # None /\ at'[v].batch.dir = Parent(x) =>
                                  x \in at'[v].batch.subdirs \ at'[v].todo
                           /\ \A i \in DOMAIN chan' :
                                chan'[i].dir = Parent(x) => x \in chan'[i].subdirs
                           /\ Parent(x) \in Listed' =>
                                \E i \in DOMAIN nodes' : nodes'[i].dir = x
    BY DEF Announced
  <2>1. x \in queue \cup Started
    BY <1>3, <1>8
  <2>2. x # Root => \A i \in DOMAIN chan' : chan'[i].dir = Parent(x) => x \in chan'[i].subdirs
    BY <2>1, <1>4 DEF BuildInv, Announced
  <2>3. x # Root => \A v \in Workers :
          at'[v] # None /\ at'[v].batch.dir = Parent(x) => x \in at'[v].batch.subdirs \ at'[v].todo
    BY <2>1, <1>3 DEF BuildInv, Announced
  <2> QED
    BY <2>1, <2>2, <2>3, <1>1, <1>8 DEF BuildInv, Announced, buildVars
<1>11. OwnChildren'
  BY <1>3, <1>4 DEF BuildInv, OwnChildren
<1>12. Batched' \subseteq Batched
  <2>1. \A v \in Workers : at'[v] # None => at[v] # None /\ at'[v] = at[v]
    BY <1>3
  <2>2. \A i \in DOMAIN chan' : (i \in DOMAIN chan /\ chan'[i] = chan[i]) \/ chan'[i] = b
    BY <1>4
  <2>3. b.subdirs \subseteq Batched
    BY DEF Batched
  <2> HIDE DEF b
  <2>4. UNION {at'[v].batch.subdirs : v \in {u \in Workers : at'[u] # None}} \subseteq Batched
    BY <2>1 DEF Batched
  <2>5. UNION {chan'[i].subdirs : i \in DOMAIN chan'} \subseteq Batched
    BY <2>2, <2>3 DEF Batched
  <2> QED
    BY <2>4, <2>5 DEF Batched
<1>13. UNCHANGED <<cancelled, queue, seen>>
  BY DEF Send
<1> QED
  BY <1>1, <1>3, <1>5, <1>6, <1>8, <1>9, <1>10, <1>11, <1>12, <1>13 DEF BuildInv

(* The steps that change neither the walk's places nor the arena. *)
LEMMA QuietStep ==
  ASSUME BuildInv, UNCHANGED <<queue, at, seen, chan, nodes, pending, skipped>>,
         TypeOK'
  PROVE  BuildInv'
<1>1. OneNodePerDir' /\ ParentBeforeChild' /\ PendingIsUnlisted'
  BY DEF BuildInv, OneNodePerDir, ParentBeforeChild, PendingIsUnlisted
<1>2. InListing' = InListing /\ InChan' = InChan /\ Listed' = Listed /\ Started' = Started
  BY DEF InListing, InChan, Listed, Started
<1>3. OnePlace'
  BY <1>2 DEF BuildInv, OnePlace
<1>4. Announced'
  BY <1>2 DEF BuildInv, Announced
<1>5. OwnChildren'
  BY DEF BuildInv, OwnChildren
<1> QED
  BY <1>1, <1>3, <1>4, <1>5 DEF BuildInv

-----------------------------------------------------------------------------
(***************************************************************************)
(* The builder's step.  The invariants of the arena are restated for any   *)
(* arena and any pending map, so that they can be followed through the     *)
(* three stages of `add`: the missing ancestors, the sub-directories, the  *)
(* listing itself.                                                         *)
(***************************************************************************)
Unique(A) == \A i, j \in DOMAIN A : A[i].dir = A[j].dir => i = j

Linked(A) ==
  /\ 1 \in DOMAIN A
  /\ \A i \in DOMAIN A :
       IF i = 1 THEN A[i].dir = Root /\ A[i].parent = 0
       ELSE /\ A[i].dir # Root
            /\ A[i].parent \in 1..(i - 1)
            /\ A[A[i].parent].dir = Parent(A[i].dir)

Tracked(A, P) ==
  \A d \in Dirs :
    /\ P[d] # 0 => P[d] \in DOMAIN A /\ A[P[d]].dir = d /\ d # Root /\ ~A[P[d]].listed
    /\ \A i \in DOMAIN A : A[i].dir = d /\ d # Root /\ ~A[i].listed => P[d] = i

LEMMA ArenaOfState ==
  /\ OneNodePerDir = Unique(nodes)
  /\ ParentBeforeChild = Linked(nodes)
  /\ PendingIsUnlisted = Tracked(nodes, pending)
BY DEF OneNodePerDir, Unique, ParentBeforeChild, Linked, PendingIsUnlisted, Tracked

(* f is a block of new, unlisted nodes for the end of arena A, and Q is P  *)
(* with those nodes entered.                                               *)
Extends(A, P, m, f, Q) ==
  /\ \A i \in 1..m :
       /\ f[i].dir # Root /\ ~f[i].listed
       /\ f[i].parent \in 1..(Len(A) + i - 1)
       /\ (A \o f)[f[i].parent].dir = Parent(f[i].dir)
       /\ \A j \in DOMAIN A : A[j].dir # f[i].dir
       /\ \A j \in 1..m : f[j].dir = f[i].dir => j = i
       /\ Q[f[i].dir] = Len(A) + i
  /\ \A x \in Dirs : (\A i \in 1..m : f[i].dir # x) => Q[x] = P[x]

LEMMA GrowArena ==
  ASSUME NEW A \in Seq(Node), NEW P, Unique(A), Linked(A), Tracked(A, P),
         NEW m \in Nat, NEW f \in [1..m -> Node], NEW Q, Extends(A, P, m, f, Q)
  PROVE  Unique(A \o f) /\ Linked(A \o f) /\ Tracked(A \o f, Q)
<1> DEFINE B == A \o f
<1>1. /\ B \in Seq(Node) /\ Len(A) \in Nat /\ DOMAIN A = 1..Len(A)
      /\ DOMAIN B = 1..(Len(A) + m)
      /\ \A i \in 1..Len(A) : B[i] = A[i]
      /\ \A i \in 1..m : B[Len(A) + i] = f[i]
      /\ 1 \in 1..Len(A)
  <2>1. Len(A) \in Nat /\ DOMAIN A = 1..Len(A)
    BY LenProperties
  <2>2. 1 \in 1..Len(A)
    BY <2>1 DEF Linked
  <2> QED
    BY <2>1, <2>2, AppendBlock
<1>2. \A i \in 1..m : f[i] \in Node /\ f[i].dir \in Dirs
  BY DEF Node
<1>7. /\ \A i \in 1..m :
           /\ f[i].dir # Root /\ ~f[i].listed
           /\ f[i].parent \in 1..(Len(A) + i - 1)
           /\ B[f[i].parent].dir = Parent(f[i].dir)
           /\ \A j \in DOMAIN A : A[j].dir # f[i].dir
           /\ \A j \in 1..m : f[j].dir = f[i].dir => j = i
           /\ Q[f[i].dir] = Len(A) + i
      /\ \A x \in Dirs : (\A i \in 1..m : f[i].dir # x) => Q[x] = P[x]
  BY DEF Extends
<1> HIDE DEF B
<1>3. \A i \in DOMAIN B : i \in 1..Len(A) \/ \E j \in 1..m : i = Len(A) + j
  <2> SUFFICES ASSUME NEW i \in DOMAIN B, i \notin 1..Len(A)
               PROVE  \E j \in 1..m : i = Len(A) + j
    OBVIOUS
  <2>1. i - Len(A) \in 1..m /\ i = Len(A) + (i - Len(A))
    BY <1>1
  <2> QED
    BY <2>1
<1>4. Unique(B)
  <2> SUFFICES ASSUME NEW i \in DOMAIN B, NEW j \in DOMAIN B, B[i].dir = B[j].dir
               PROVE  i = j
    BY DEF Unique
  <2>1. CASE i \in 1..Len(A) /\ j \in 1..Len(A)
    BY <2>1, <1>1 DEF Unique
  <2>2. CASE i \in 1..Len(A) /\ j \notin 1..Len(A)
    <3>1. PICK q \in 1..m : j = Len(A) + q
      BY <2>2, <1>3
    <3>2. B[i] = A[i] /\ B[j] = f[q] /\ i \in DOMAIN A
      BY <2>2, <3>1, <1>1
    <3> QED
      BY <1>7, <3>2
  <2>3. CASE i \notin 1..Len(A) /\ j \in 1..Len(A)
    <3>1. PICK q \in 1..m : i = Len(A) + q
      BY <2>3, <1>3
    <3>2. B[j] = A[j] /\ B[i] = f[q] /\ j \in DOMAIN A
      BY <2>3, <3>1, <1>1
    <3> QED
      BY <1>7, <3>2
  <2>4. CASE i \notin 1..Len(A) /\ j \notin 1..Len(A)
    <3>1. PICK q \in 1..m : i = Len(A) + q
      BY <2>4, <1>3
    <3>2. PICK r \in 1..m : j = Len(A) + r
      BY <2>4, <1>3
    <3>3. B[i] = f[q] /\ B[j] = f[r]
      BY <3>1, <3>2, <1>1
    <3> QED
      BY <1>7, <3>1, <3>2, <3>3
  <2> QED
    BY <2>1, <2>2, <2>3, <2>4
<1>5. Linked(B)
  <2> SUFFICES ASSUME NEW i \in DOMAIN B
               PROVE  IF i = 1 THEN B[i].dir = Root /\ B[i].parent = 0
                      ELSE /\ B[i].dir # Root
                           /\ B[i].parent \in 1..(i - 1)
                           /\ B[B[i].parent].dir = Parent(B[i].dir)
    BY <1>1 DEF Linked
  <2>1. CASE i = 1
    <3>1. 1 \in DOMAIN A /\ B[1] = A[1]
      BY <1>1
    <3> QED
      BY <2>1, <3>1 DEF Linked
  <2>2. CASE i \in 1..Len(A) /\ i # 1
    <3>1. A[i].dir # Root /\ A[i].parent \in 1..(i - 1) /\ A[A[i].parent].dir = Parent(A[i].dir)
      BY <2>2, <1>1 DEF Linked
    <3>2. B[i] = A[i] /\ B[A[i].parent] = A[A[i].parent]
      BY <2>2, <3>1, <1>1
    <3> QED
      BY <2>2, <3>1, <3>2
  <2>3. CASE i \notin 1..Len(A)
    <3>1. PICK j \in 1..m : i = Len(A) + j
      BY <2>3, <1>3
    <3>2. B[i] = f[j]
      BY <3>1, <1>1
    <3>3. i # 1
      BY <2>3, <1>1
    <3> QED
      BY <1>7, <3>1, <3>2, <3>3, <1>1 DEF B
  <2> QED
    BY <2>1, <2>2, <2>3
<1>6. Tracked(B, Q)
  <2> SUFFICES ASSUME NEW x \in Dirs
               PROVE  /\ Q[x] # 0 => /\ Q[x] \in DOMAIN B /\ B[Q[x]].dir = x
                                     /\ x # Root /\ ~B[Q[x]].listed
                      /\ \A i \in DOMAIN B : B[i].dir = x /\ x # Root /\ ~B[i].listed => Q[x] = i
    BY DEF Tracked
  <2>1. CASE \E i \in 1..m : f[i].dir = x
    <3>1. PICK i \in 1..m : f[i].dir = x
      BY <2>1
    <3>2. Q[x] = Len(A) + i /\ Len(A) + i \in DOMAIN B /\ B[Len(A) + i] = f[i]
      BY <1>7, <3>1, <1>1
    <3>3. \A j \in DOMAIN B : B[j].dir = x => j = Len(A) + i
      BY <3>1, <3>2, <1>4 DEF Unique
    <3> QED
      BY <1>7, <3>1, <3>2, <3>3
  <2>2. CASE \A i \in 1..m : f[i].dir # x
    <3>1. Q[x] = P[x]
      BY <1>7, <2>2
    <3>2. ASSUME NEW i \in DOMAIN B, B[i].dir = x, i \notin 1..Len(A) PROVE FALSE
      <4>1. PICK q \in 1..m : i = Len(A) + q
        BY <3>2, <1>3
      <4> QED
        BY <4>1, <3>2, <2>2, <1>1
    <3> QED
      BY <3>1, <3>2, <1>1 DEF Tracked
  <2> QED
    BY <2>1, <2>2
<1> QED
  BY <1>4, <1>5, <1>6 DEF B

(* Q is P without d. *)
Forgets(P, d, Q) == Q[d] = 0 /\ \A x \in Dirs : x # d => Q[x] = P[x]

(* A node becomes listed and leaves `pending`. *)
LEMMA ListNode ==
  ASSUME NEW A \in Seq(Node), NEW P \in [Dirs -> Nat],
         Unique(A), Linked(A), Tracked(A, P),
         NEW id \in DOMAIN A, NEW b \in Batch,
         NEW Q, Forgets(P, A[id].dir, Q)
  PROVE  /\ Fill(A, id, b) \in Seq(Node)
         /\ Unique(Fill(A, id, b)) /\ Linked(Fill(A, id, b)) /\ Tracked(Fill(A, id, b), Q)
         /\ DOMAIN Fill(A, id, b) = DOMAIN A
         /\ \A i \in DOMAIN A : /\ Fill(A, id, b)[i].dir = A[i].dir
                                /\ Fill(A, id, b)[i].listed = (A[i].listed \/ i = id)
<1> DEFINE B == Fill(A, id, b)
           e == [A[id] EXCEPT !.listed = TRUE, !.bytes = @ + b.bytes]
<1>1. DOMAIN A = 1..Len(A) /\ Len(A) \in Nat /\ \A i \in DOMAIN A : A[i] \in Node
  BY LenProperties, ElementOfSeq
<1>2. A[id].bytes + b.bytes \in Nat
  <2>1. A[id].bytes \in Nat
    BY <1>1 DEF Node
  <2>2. b.bytes \in Nat
    BY DEF Batch
  <2> QED
    BY <2>1, <2>2
<1>3. e \in Node /\ e.dir = A[id].dir /\ e.parent = A[id].parent /\ e.listed = TRUE
  BY <1>1, <1>2 DEF Node
<1>4. B = [A EXCEPT ![id] = e]
  BY DEF Fill
<1> HIDE DEF B, e
<1>5. /\ B \in Seq(Node) /\ DOMAIN B = DOMAIN A
      /\ B[id] = e /\ \A i \in DOMAIN A : i # id => B[i] = A[i]
  BY <1>1, <1>3, <1>4, ExceptSeq, LenProperties
<1>6. \A i \in DOMAIN A : /\ B[i].dir = A[i].dir /\ B[i].parent = A[i].parent
                          /\ B[i].listed = (A[i].listed \/ i = id)
  <2> SUFFICES ASSUME NEW i \in DOMAIN A
               PROVE  /\ B[i].dir = A[i].dir /\ B[i].parent = A[i].parent
                      /\ B[i].listed = (A[i].listed \/ i = id)
    OBVIOUS
  <2>1. A[i].listed \in BOOLEAN
    BY <1>1 DEF Node
  <2>2. CASE i = id
    BY <2>2, <1>3, <1>5
  <2>3. CASE i # id
    BY <2>1, <2>3, <1>5
  <2> QED
    BY <2>2, <2>3
<1>7. Unique(B)
  BY <1>5, <1>6 DEF Unique
<1>8. Linked(B)
  <2> SUFFICES ASSUME NEW i \in DOMAIN B
               PROVE  IF i = 1 THEN B[i].dir = Root /\ B[i].parent = 0
                      ELSE /\ B[i].dir # Root
                           /\ B[i].parent \in 1..(i - 1)
                           /\ B[B[i].parent].dir = Parent(B[i].dir)
    BY <1>5 DEF Linked
  <2>1. i \in DOMAIN A /\ B[i].dir = A[i].dir /\ B[i].parent = A[i].parent
    BY <1>5, <1>6
  <2>2. CASE i = 1
    BY <2>1, <2>2 DEF Linked
  <2>3. CASE i # 1
    <3>1. A[i].dir # Root /\ A[i].parent \in 1..(i - 1) /\ A[A[i].parent].dir = Parent(A[i].dir)
      BY <2>1, <2>3 DEF Linked
    <3>2. B[A[i].parent].dir = A[A[i].parent].dir
      BY <2>1, <3>1, <1>1, <1>6
    <3> QED
      BY <2>1, <2>3, <3>1, <3>2
  <2> QED
    BY <2>2, <2>3
<1>9. Tracked(B, Q)
  <2> SUFFICES ASSUME NEW x \in Dirs
               PROVE  /\ Q[x] # 0 => /\ Q[x] \in DOMAIN B /\ B[Q[x]].dir = x
                                     /\ x # Root /\ ~B[Q[x]].listed
                      /\ \A i \in DOMAIN B : B[i].dir = x /\ x # Root /\ ~B[i].listed => Q[x] = i
    BY DEF Tracked
  <2>1. CASE x = A[id].dir
    BY <2>1, <1>5, <1>6 DEF Unique, Forgets
  <2>2. CASE x # A[id].dir
    <3>1. Q[x] = P[x]
      BY <2>2 DEF Forgets
    <3>2. P[x] # 0 => /\ P[x] \in DOMAIN A /\ A[P[x]].dir = x
                      /\ x # Root /\ ~A[P[x]].listed /\ P[x] # id
      BY <2>2 DEF Tracked
    <3>3. \A i \in DOMAIN A : A[i].dir = x /\ x # Root /\ ~A[i].listed => P[x] = i
      BY DEF Tracked
    <3> QED
      BY <3>1, <3>2, <3>3, <1>5, <1>6
  <2> QED
    BY <2>1, <2>2
<1> QED
  BY <1>5, <1>6, <1>7, <1>8, <1>9 DEF B

(* Its bytes are added to those of the node, and no other node changes. *)
LEMMA FillBytes ==
  ASSUME NEW A \in Seq(Node), NEW id \in DOMAIN A, NEW b
  PROVE  /\ Fill(A, id, b)[id].bytes = A[id].bytes + b.bytes
         /\ \A i \in DOMAIN A : i # id => Fill(A, id, b)[i] = A[i]
<1>1. DOMAIN A = 1..Len(A) /\ \A i \in DOMAIN A : A[i] \in Node
  BY LenProperties, ElementOfSeq
<1> DEFINE e == [A[id] EXCEPT !.listed = TRUE, !.bytes = @ + b.bytes]
<1>2. e.bytes = A[id].bytes + b.bytes
  BY <1>1 DEF Node
<1>3. Fill(A, id, b) = [A EXCEPT ![id] = e]
  BY DEF Fill
<1> HIDE DEF e
<1> QED
  BY <1>2, <1>3

(* Where the directory of the oldest batch is, and is not. *)
LEMMA HeadFacts ==
  ASSUME BuildInv, chan # <<>>
  PROVE  /\ Head(chan) \in Batch /\ Head(chan).dir \in Dirs
         /\ 1 \in DOMAIN chan /\ Head(chan) = chan[1]
         /\ Head(chan).dir \in InChan /\ Head(chan).dir \notin Listed
         /\ nodes \in Seq(Node) /\ Len(nodes) \in Nat /\ Len(nodes) >= 1
         /\ DOMAIN nodes = 1..Len(nodes) /\ nodes[1].dir = Root
<1>1. /\ chan \in Seq(Batch) /\ Len(chan) \in Nat /\ DOMAIN chan = 1..Len(chan)
      /\ nodes \in Seq(Node) /\ Len(nodes) \in Nat /\ DOMAIN nodes = 1..Len(nodes)
  BY TypeFacts DEF BuildInv
<1>2. 1 \in DOMAIN chan /\ Head(chan) = chan[1]
  BY <1>1, EmptySeq
<1>3. Head(chan) \in Batch /\ Head(chan).dir \in Dirs
  BY <1>2, TypeFacts DEF BuildInv
<1>4. Head(chan).dir \in InChan /\ Head(chan).dir \notin Listed
  BY <1>2 DEF InChan, BuildInv, OnePlace
<1>5. 1 \in DOMAIN nodes /\ nodes[1].dir = Root
  BY DEF BuildInv, ParentBeforeChild
<1> QED
  BY <1>1, <1>2, <1>3, <1>4, <1>5

(* The directory at a level of the path that dir_id cannot look up has no  *)
(* node: were the deepest such node listed, its batch would have created   *)
(* the next level; were it not, it would be in `pending`.                  *)
LEMMA NothingBelowKnown ==
  ASSUME BuildInv, NEW d \in InChan,
         NEW j \in (KnownLevel(d) + 1)..Len(Path[d]),
         NEW i \in DOMAIN nodes, nodes[i].dir = Path[d][j]
  PROVE  FALSE
<1> DEFINE n == Len(Path[d])
           k == KnownLevel(d)
           S == {q \in (k + 1)..n : \E t \in DOMAIN nodes : nodes[t].dir = Path[d][q]}
<1>1. d \in Dirs /\ d \in Started /\ d \notin Listed
  BY TypeFacts DEF BuildInv, InChan, Started, OnePlace
<1>2. n \in Nat /\ n >= 1 /\ k \in 1..n
  BY <1>1, PathFacts, KnownLevelFacts
<1>3. S \in SUBSET (1..n) /\ j \in S
  BY <1>2
<1> HIDE DEF S
<1>4. PICK q \in S : \A r \in S : r <= q
  BY <1>2, <1>3, DeepestLevel
<1>5. q \in (k + 1)..n /\ q \in 1..n /\ q # 1
  BY <1>2, <1>4 DEF S
<1>6. PICK t \in DOMAIN nodes : nodes[t].dir = Path[d][q]
  BY <1>4 DEF S
<1>7. pending[Path[d][q]] = 0
  <2>1. Known(d, q) => q <= k
    BY <1>1, <1>5, KnownLevelFacts
  <2> QED
    BY <2>1, <1>2, <1>5 DEF Known
<1>8. Path[d][q] \in Dirs /\ Path[d][q] # Root
  <2>1. Path[d][q] \in Dirs /\ Len(Path[Path[d][q]]) = q
    BY <1>1, <1>5, PathFacts
  <2> QED
    BY <2>1, <1>5, RootLevel
<1>9. nodes[t].listed /\ Path[d][q] \in Listed
  <2>1. ~nodes[t].listed => pending[Path[d][q]] = t
    BY <1>6, <1>8 DEF BuildInv, PendingIsUnlisted
  <2>2. t # 0
    BY TypeFacts DEF BuildInv
  <2>3. nodes[t].listed
    BY <2>1, <2>2, <1>7
  <2> QED
    BY <2>3, <1>6 DEF Listed
<1>10. q # n
  BY <1>1, <1>9, PathFacts
<1>11. q \in 1..(n - 1) /\ q + 1 \in 1..n /\ q + 1 \in (k + 1)..n
  BY <1>2, <1>5, <1>10
<1>12. Path[d][q + 1] \in Dirs \ {Root} /\ Parent(Path[d][q + 1]) = Path[d][q]
  BY <1>1, <1>11, ParentOnPath
<1>13. Path[d][q + 1] \in Started
  <2>1. CASE q + 1 = n
    BY <2>1, <1>1, PathFacts
  <2>2. CASE q + 1 # n
    <3>1. q + 1 \in 1..(Len(Path[d]) - 1)
      BY <2>2, <1>11
    <3> QED
      BY <3>1, <1>1 DEF BuildInv, Announced
  <2> QED
    BY <2>1, <2>2
<1>14. \E u \in DOMAIN nodes : nodes[u].dir = Path[d][q + 1]
  BY <1>9, <1>12, <1>13 DEF BuildInv, Announced
<1>15. q + 1 \in S
  BY <1>11, <1>14 DEF S
<1> QED
  BY <1>4, <1>5, <1>15

(* After dir_id: the missing ancestors are there and tracked, and the      *)
(* directory of the batch has its node.                                    *)
LEMMA ChainStage ==
  ASSUME BuildInv, NEW d \in InChan
  PROVE  LET A  == nodes \o Created(d)
             P  == PendingWithChain(d)
             id == DirId(d)
         IN /\ A \in Seq(Node) /\ P \in [Dirs -> Nat]
            /\ Unique(A) /\ Linked(A) /\ Tracked(A, P)
            /\ id \in DOMAIN A /\ A[id].dir = d /\ ~A[id].listed
            /\ DOMAIN nodes \subseteq DOMAIN A
            /\ \A i \in DOMAIN nodes : A[i] = nodes[i]
            /\ \A i \in DOMAIN A \ DOMAIN nodes :
                 /\ ~A[i].listed /\ A[i].bytes = 0
                 /\ \E j \in 1..Len(Path[d]) : A[i].dir = Path[d][j]
<1> DEFINE n == Len(Path[d])
           k == KnownLevel(d)
           m == n - k
           base == Len(nodes)
           f == Created(d)
           A == nodes \o f
           P == PendingWithChain(d)
           r == IdOf(Path[d][k])
<1>1. d \in Dirs /\ d \notin Listed
  BY TypeFacts DEF BuildInv, InChan, OnePlace
<1>2. n \in Nat /\ k \in 1..n /\ m \in Nat /\ Known(d, k)
  BY <1>1, PathFacts, KnownLevelFacts
<1>3. /\ nodes \in Seq(Node) /\ base \in Nat /\ DOMAIN nodes = 1..base
      /\ 1 \in DOMAIN nodes /\ nodes[1].dir = Root
  BY TypeFacts DEF BuildInv, ParentBeforeChild
<1>4. \A i \in 1..n : Path[d][i] \in Dirs /\ Len(Path[Path[d][i]]) = i
  BY <1>1, PathFacts
<1>5. r \in DOMAIN nodes /\ nodes[r].dir = Path[d][k]
  <2>1. CASE Path[d][k] = Root
    BY <2>1, <1>3 DEF IdOf
  <2>2. CASE Path[d][k] # Root
    <3>1. k # 1
      BY <2>2, <1>1, PathFacts
    <3>2. pending[Path[d][k]] # 0
      BY <3>1, <1>2 DEF Known
    <3> QED
      BY <2>2, <3>2, <1>2, <1>4 DEF IdOf, BuildInv, PendingIsUnlisted
  <2> QED
    BY <2>1, <2>2
<1>6. /\ ChainId(d, k, k) = r
      /\ \A i \in 1..m : ChainId(d, k, k + i) = base + i
      /\ \A i \in 1..m : ChainId(d, k, k + i - 1) = IF i = 1 THEN r ELSE base + (i - 1)
  <2>1. ChainId(d, k, k) = r
    BY <1>2 DEF ChainId
  <2>2. ASSUME NEW i \in 1..m PROVE ChainId(d, k, k + i) = base + i
    <3>1. ~(k + i <= k) /\ (k + i) - k = i
      BY <1>2
    <3> QED
      BY <3>1 DEF ChainId
  <2>3. ASSUME NEW i \in 1..m
        PROVE  ChainId(d, k, k + i - 1) = IF i = 1 THEN r ELSE base + (i - 1)
    <3>1. CASE i = 1
      <4>1. k + i - 1 = k
        BY <3>1, <1>2
      <4> QED
        BY <3>1, <4>1, <2>1
    <3>2. CASE i # 1
      <4>1. ~(k + i - 1 <= k) /\ (k + i - 1) - k = i - 1
        BY <3>2, <1>2
      <4> QED
        BY <3>2, <4>1 DEF ChainId
    <3> QED
      BY <3>1, <3>2
  <2> QED
    BY <2>1, <2>2, <2>3
<1>7. f = [i \in 1..m |-> NewNode(Path[d][k + i], ChainId(d, k, k + i - 1))]
  BY DEF Created
<1>8. \A i \in 1..m : k + i \in 1..n /\ k + i \in (k + 1)..n /\ k + i - 1 \in 1..(n - 1)
  BY <1>2
<1>9. \A i \in 1..m : /\ f[i] = NewNode(Path[d][k + i], ChainId(d, k, k + i - 1))
                      /\ f[i] \in Node
  <2> SUFFICES ASSUME NEW i \in 1..m
               PROVE  /\ f[i] = NewNode(Path[d][k + i], ChainId(d, k, k + i - 1))
                      /\ f[i] \in Node
    OBVIOUS
  <2>1. f[i] = NewNode(Path[d][k + i], ChainId(d, k, k + i - 1))
    BY <1>7
  <2>2. ChainId(d, k, k + i - 1) \in Nat
    BY <1>3, <1>5, <1>6
  <2>3. Path[d][k + i] \in Dirs
    BY <1>4, <1>8
  <2> QED
    BY <2>1, <2>2, <2>3 DEF NewNode, Node
<1>10. \A i \in 1..m : /\ f[i].dir = Path[d][k + i] /\ ~f[i].listed /\ f[i].bytes = 0
                       /\ f[i].parent = IF i = 1 THEN r ELSE base + (i - 1)
  <2> SUFFICES ASSUME NEW i \in 1..m
               PROVE  /\ f[i].dir = Path[d][k + i] /\ ~f[i].listed /\ f[i].bytes = 0
                      /\ f[i].parent = IF i = 1 THEN r ELSE base + (i - 1)
    OBVIOUS
  <2>1. f[i] = NewNode(Path[d][k + i], ChainId(d, k, k + i - 1))
    BY <1>9
  <2>2. /\ f[i].dir = Path[d][k + i] /\ f[i].listed = FALSE /\ f[i].bytes = 0
        /\ f[i].parent = ChainId(d, k, k + i - 1)
    BY <2>1 DEF NewNode
  <2> QED
    BY <2>2, <1>6
<1>11. f \in [1..m -> Node]
  BY <1>7, <1>9
<1>20. m = n - k /\ base = Len(nodes) /\ A = nodes \o f
  OBVIOUS
<1> HIDE DEF f, r, m, base
<1>12. /\ A \in Seq(Node) /\ DOMAIN A = 1..(base + m)
       /\ \A i \in 1..base : A[i] = nodes[i]
       /\ \A i \in 1..m : A[base + i] = f[i]
  <2>1. /\ nodes \o f \in Seq(Node) /\ DOMAIN (nodes \o f) = 1..(Len(nodes) + m)
        /\ \A i \in 1..Len(nodes) : (nodes \o f)[i] = nodes[i]
        /\ \A i \in 1..m : (nodes \o f)[Len(nodes) + i] = f[i]
    <3>1. nodes \in Seq(Node) /\ m \in Nat
      BY <1>2, <1>3
    <3> QED
      BY <3>1, <1>11, AppendBlock
  <2> HIDE DEF A
  <2> QED
    BY <2>1, <1>20
<1>13. ASSUME NEW i \in 1..m
       PROVE  /\ f[i].dir # Root /\ ~f[i].listed
              /\ f[i].parent \in 1..(base + i - 1)
              /\ A[f[i].parent].dir = Parent(f[i].dir)
              /\ \A j \in DOMAIN nodes : nodes[j].dir # f[i].dir
              /\ \A j \in 1..m : f[j].dir = f[i].dir => j = i
  <2> DEFINE q == k + i - 1
  <2>1. q \in 1..(n - 1) /\ q + 1 = k + i
    BY <1>2, <1>8, <1>20
  <2>2. f[i].dir # Root /\ Parent(f[i].dir) = Path[d][q]
    <3>1. f[i].dir = Path[d][q + 1]
      BY <2>1, <1>10
    <3> HIDE DEF q
    <3> QED
      BY <3>1, <2>1, <1>1, ParentOnPath
  <2>3. f[i].parent \in 1..(base + i - 1) /\ A[f[i].parent].dir = Path[d][q]
    <3>1. CASE i = 1
      <4>1. f[i].parent = r /\ q = k
        BY <3>1, <1>2, <1>10
      <4> QED
        BY <3>1, <4>1, <1>3, <1>5, <1>12
    <3>2. CASE i # 1
      <4>1. f[i].parent = base + (i - 1) /\ i - 1 \in 1..m
        BY <3>2, <1>2, <1>10
      <4>2. A[base + (i - 1)] = f[i - 1] /\ f[i - 1].dir = Path[d][k + (i - 1)]
        BY <4>1, <1>10, <1>12
      <4>3. k + (i - 1) = q
        BY <1>2
      <4> QED
        BY <4>1, <4>2, <4>3, <1>3
    <3> QED
      BY <3>1, <3>2
  <2>4. \A j \in DOMAIN nodes : nodes[j].dir # f[i].dir
    BY <1>8, <1>10, NothingBelowKnown
  <2>5. \A j \in 1..m : f[j].dir = f[i].dir => j = i
    <3> SUFFICES ASSUME NEW j \in 1..m, f[j].dir = f[i].dir PROVE j = i
      OBVIOUS
    <3>1. Len(Path[f[j].dir]) = k + j /\ Len(Path[f[i].dir]) = k + i
      BY <1>4, <1>8, <1>10
    <3> QED
      BY <3>1, <1>2
  <2> QED
    BY <2>2, <2>3, <2>4, <2>5, <1>10
<1>14. P \in [Dirs -> Nat] /\ \A i \in 1..m : P[f[i].dir] = base + i
  <2>1. \A x \in Dirs : P[x] = IF IsPrefix(x, d) /\ Len(Path[x]) > k
                                 THEN ChainId(d, k, Len(Path[x])) ELSE pending[x]
    BY DEF PendingWithChain
  <2>2. ASSUME NEW x \in Dirs, IsPrefix(x, d), Len(Path[x]) > k
        PROVE  /\ Len(Path[x]) - k \in 1..m
               /\ f[Len(Path[x]) - k].dir = x
               /\ P[x] = base + (Len(Path[x]) - k)
    <3> DEFINE i == Len(Path[x]) - k
    <3>1. Len(Path[x]) \in Nat /\ Len(Path[x]) <= n /\ Path[d][Len(Path[x])] = x
      BY <2>2, PathFacts DEF IsPrefix
    <3>2. i \in 1..m /\ k + i = Len(Path[x])
      <4>1. \A q \in Nat : q <= n /\ q > k => q - k \in 1..m /\ k + (q - k) = q
        BY <1>2, <1>20
      <4> QED
        BY <4>1, <3>1, <2>2
    <3>3. P[x] = ChainId(d, k, Len(Path[x]))
      BY <2>1, <2>2
    <3> HIDE DEF i
    <3>4. f[i].dir = x
      BY <3>1, <3>2, <1>10
    <3>5. P[x] = base + i
      BY <3>2, <3>3, <1>6
    <3> QED
      BY <3>2, <3>4, <3>5 DEF i
  <2>3. \A i \in 1..m : P[f[i].dir] = base + i
    <3> SUFFICES ASSUME NEW i \in 1..m PROVE P[f[i].dir] = base + i
      OBVIOUS
    <3>1. f[i].dir \in Dirs /\ Len(Path[f[i].dir]) = k + i /\ f[i].dir = Path[d][k + i]
      BY <1>4, <1>8, <1>10
    <3>2. IsPrefix(f[i].dir, d) /\ k + i > k
      BY <3>1, <1>2, <1>8, <1>20 DEF IsPrefix
    <3>3. P[f[i].dir] = ChainId(d, k, k + i)
      BY <3>1, <3>2, <2>1
    <3> QED
      BY <3>3, <1>6
  <2>4. \A x \in Dirs : P[x] \in Nat
    <3> SUFFICES ASSUME NEW x \in Dirs PROVE P[x] \in Nat
      OBVIOUS
    <3>1. CASE IsPrefix(x, d) /\ Len(Path[x]) > k
      BY <3>1, <2>2, <1>3
    <3>2. CASE ~(IsPrefix(x, d) /\ Len(Path[x]) > k)
      BY <3>2, <2>1 DEF BuildInv, TypeOK
    <3> QED
      BY <3>1, <3>2
  <2>5. P \in [Dirs -> Nat]
    BY <2>4 DEF PendingWithChain
  <2> QED
    BY <2>3, <2>5
<1>15. \A x \in Dirs : (\A i \in 1..m : f[i].dir # x) => P[x] = pending[x]
  <2> SUFFICES ASSUME NEW x \in Dirs, \A i \in 1..m : f[i].dir # x PROVE P[x] = pending[x]
    OBVIOUS
  <2>1. CASE IsPrefix(x, d) /\ Len(Path[x]) > k
    <3>1. Len(Path[x]) \in Nat /\ Len(Path[x]) <= n /\ Path[d][Len(Path[x])] = x
      BY <2>1, PathFacts DEF IsPrefix
    <3>2. Len(Path[x]) - k \in 1..m /\ k + (Len(Path[x]) - k) = Len(Path[x])
      <4>1. \A q \in Nat : q <= n /\ q > k => q - k \in 1..m /\ k + (q - k) = q
        BY <1>2, <1>20
      <4> QED
        BY <4>1, <3>1, <2>1
    <3> QED
      BY <3>1, <3>2, <1>10
  <2>2. CASE ~(IsPrefix(x, d) /\ Len(Path[x]) > k)
    BY <2>2 DEF PendingWithChain
  <2> QED
    BY <2>1, <2>2
<1> HIDE DEF P, A
<1>16. Unique(A) /\ Linked(A) /\ Tracked(A, P)
  <2>1. Unique(nodes) /\ Linked(nodes) /\ Tracked(nodes, pending)
    BY ArenaOfState DEF BuildInv
  <2>2. pending \in [Dirs -> Nat]
    BY DEF BuildInv, TypeOK
  <2>3. \A i \in 1..m :
          /\ f[i].dir # Root /\ ~f[i].listed
          /\ f[i].parent \in 1..(Len(nodes) + i - 1)
          /\ (nodes \o f)[f[i].parent].dir = Parent(f[i].dir)
          /\ \A j \in DOMAIN nodes : nodes[j].dir # f[i].dir
          /\ \A j \in 1..m : f[j].dir = f[i].dir => j = i
    BY <1>13, <1>20
  <2>4. P \in [Dirs -> Nat] /\ \A i \in 1..m : P[f[i].dir] = Len(nodes) + i
    BY <1>14, <1>20
  <2>5. Unique(nodes \o f) /\ Linked(nodes \o f) /\ Tracked(nodes \o f, P)
    <3>1. Extends(nodes, pending, m, f, P)
      BY <2>3, <2>4, <1>15 DEF Extends
    <3> QED
      BY <3>1, <2>1, <1>2, <1>3, <1>11, GrowArena
  <2> QED
    BY <2>5, <1>20
<1>17. DirId(d) \in DOMAIN A /\ A[DirId(d)].dir = d /\ ~A[DirId(d)].listed
  <2>1. Path[d][n] = d
    BY <1>1, PathFacts
  <2>2. CASE k = n
    <3>1. DirId(d) = r /\ r \in 1..base
      BY <2>2, <1>3, <1>5, <1>6 DEF DirId
    <3>2. r \in DOMAIN A /\ A[r] = nodes[r] /\ nodes[r].dir = d
      BY <2>1, <2>2, <3>1, <1>2, <1>3, <1>5, <1>12
    <3>3. ~nodes[r].listed
      BY <3>1, <3>2, <1>1, <1>3 DEF Listed
    <3> QED
      BY <3>1, <3>2, <3>3
  <2>3. CASE k # n
    <3>1. m \in 1..m /\ k + m = n
      BY <2>3, <1>2, <1>20
    <3>2. DirId(d) = base + m
      BY <3>1, <1>6 DEF DirId
    <3>3. f[m].dir = d /\ ~f[m].listed
      BY <2>1, <3>1, <1>10
    <3>4. base + m \in DOMAIN A /\ A[base + m] = f[m]
      BY <3>1, <1>2, <1>3, <1>12
    <3> QED
      BY <3>2, <3>3, <3>4
  <2> QED
    BY <2>2, <2>3
<1>18. DOMAIN nodes \subseteq DOMAIN A /\ \A i \in DOMAIN nodes : A[i] = nodes[i]
  BY <1>2, <1>3, <1>12
<1>19. \A i \in DOMAIN A \ DOMAIN nodes :
         ~A[i].listed /\ A[i].bytes = 0 /\ \E j \in 1..n : A[i].dir = Path[d][j]
  <2> SUFFICES ASSUME NEW i \in DOMAIN A \ DOMAIN nodes
               PROVE  ~A[i].listed /\ A[i].bytes = 0 /\ \E j \in 1..n : A[i].dir = Path[d][j]
    OBVIOUS
  <2>1. i - base \in 1..m /\ i = base + (i - base)
    BY <1>2, <1>3, <1>12
  <2>2. ~A[i].listed /\ A[i].bytes = 0 /\ A[i].dir = Path[d][k + (i - base)]
    BY <2>1, <1>10, <1>12
  <2> QED
    BY <2>1, <2>2, <1>8
<1> QED
  BY <1>12, <1>14, <1>16, <1>17, <1>18, <1>19 DEF A, P, f

(* A directory is not its own parent. *)
LEMMA ParentIsAbove ==
  ASSUME NEW d \in Dirs, NEW y \in Children(d)
  PROVE  y \in Dirs /\ y # Root /\ Parent(y) = d /\ y # d
<1>1. y \in Dirs /\ y # Root /\ Parent(y) = d
  BY DEF Children
<1> DEFINE q == Len(Path[y]) - 1
<1>2. q \in 1..Len(Path[y]) /\ q # Len(Path[y]) /\ Path[y][q] = d
  <2>1. Len(Path[y]) \in Nat /\ Len(Path[y]) >= 1 /\ Len(Path[y]) # 1
    BY <1>1, PathFacts, RootLevel
  <2>2. q \in 1..Len(Path[y]) /\ q # Len(Path[y])
    <3>1. \A n \in Nat : n >= 1 /\ n # 1 => n - 1 \in 1..n /\ n - 1 # n
      OBVIOUS
    <3> QED
      BY <2>1, <3>1
  <2>3. Path[y][q] = d
    BY <1>1 DEF Parent
  <2> QED
    BY <2>2, <2>3
<1> HIDE DEF q
<1>3. Len(Path[d]) = q
  BY <1>1, <1>2, PathFacts
<1> QED
  BY <1>1, <1>2, <1>3

(* After add: the directory of the batch is listed, its sub-directories    *)
(* have nodes, and the arena is still in order.                            *)
LEMMA AddStage ==
  ASSUME BuildInv, chan # <<>>, Add(Head(chan))
  PROVE  /\ nodes' \in Seq(Node) /\ pending' \in [Dirs -> Nat]
         /\ OneNodePerDir' /\ ParentBeforeChild' /\ PendingIsUnlisted'
         /\ Listed' = Listed \cup {Head(chan).dir}
         /\ \A i \in DOMAIN nodes : \E j \in DOMAIN nodes' : nodes'[j].dir = nodes[i].dir
         /\ \A y \in Head(chan).subdirs : \E j \in DOMAIN nodes' : nodes'[j].dir = y
         /\ \A j \in DOMAIN nodes' :
              \/ \E i \in DOMAIN nodes : nodes'[j].dir = nodes[i].dir
              \/ nodes'[j].dir \in Head(chan).subdirs
              \/ \E i \in 1..Len(Path[Head(chan).dir]) : nodes'[j].dir = Path[Head(chan).dir][i]
         /\ (\A i \in DOMAIN nodes : ~nodes[i].listed => nodes[i].bytes = 0) =>
              \A j \in DOMAIN nodes' :
                \/ j \in DOMAIN nodes /\ nodes'[j] = nodes[j]
                \/ ~nodes'[j].listed /\ nodes'[j].bytes = 0
                \/ /\ nodes'[j].listed /\ nodes'[j].dir = Head(chan).dir
                   /\ nodes'[j].bytes = Head(chan).bytes
<1> DEFINE b == Head(chan)
           d == b.dir
           A == nodes \o Created(d)
           P == PendingWithChain(d)
           id == DirId(d)
           S == b.subdirs \ Early(A, id)
           c == Cardinality(S)
<1>1. b \in Batch /\ d \in Dirs /\ d \in InChan /\ d \notin Listed /\ b.subdirs \subseteq Children(d)
  BY HeadFacts DEF BuildInv, OwnChildren
<1>2. /\ A \in Seq(Node) /\ P \in [Dirs -> Nat]
      /\ Unique(A) /\ Linked(A) /\ Tracked(A, P)
      /\ id \in DOMAIN A /\ A[id].dir = d /\ ~A[id].listed
      /\ DOMAIN nodes \subseteq DOMAIN A
      /\ \A i \in DOMAIN nodes : A[i] = nodes[i]
      /\ \A i \in DOMAIN A \ DOMAIN nodes :
           /\ ~A[i].listed /\ A[i].bytes = 0
           /\ \E j \in 1..Len(Path[d]) : A[i].dir = Path[d][j]
  BY <1>1, ChainStage
<1>3. PICK s \in Orders(S) :
        /\ nodes' = Fill(PushSubdirs(A, id, s), id, b)
        /\ pending' = PendingAfter(P, d, s, Len(A))
  BY DEF Add
<1> HIDE DEF A, P, id
<1>4. DOMAIN A = 1..Len(A) /\ Len(A) \in Nat /\ \A i \in DOMAIN A : A[i] \in Node
  BY <1>2, LenProperties, ElementOfSeq
<1>5. \A y \in b.subdirs : y \in Dirs /\ y # Root /\ Parent(y) = d /\ y # d
  BY <1>1, ParentIsAbove
<1>6. c \in Nat
  <2>1. S \subseteq Dirs
    BY <1>5
  <2> QED
    BY <2>1, ScanAssumption, FS_Subset, FS_CardinalityType
<1> HIDE DEF c
<1>7. /\ s \in [1..c -> S] /\ DOMAIN s = 1..c
      /\ \A i, j \in 1..c : s[i] = s[j] => i = j
      /\ \A x \in S : \E i \in 1..c : s[i] = x
  BY <1>3 DEF Orders, c
<1>8. Len(s) = c
  BY <1>6, <1>7
<1>9. \A i \in 1..c : s[i] \in S /\ s[i] \in b.subdirs /\ s[i] \in Dirs
  BY <1>5, <1>7
<1> DEFINE f == [i \in 1..c |-> NewNode(s[i], id)]
           B == A \o f
           Q == [x \in Dirs |-> IF \E i \in 1..c : s[i] = x
                                  THEN Len(A) + (CHOOSE i \in 1..c : s[i] = x) ELSE P[x]]
<1>10. \A i \in 1..c : /\ f[i] \in Node /\ f[i].dir = s[i] /\ ~f[i].listed /\ f[i].parent = id
                       /\ f[i].bytes = 0
  BY <1>2, <1>4, <1>9 DEF NewNode, Node
<1>11. f \in [1..c -> Node]
  BY <1>10
<1>12. \A i \in 1..c : (CHOOSE j \in 1..c : s[j] = s[i]) = i
  BY <1>7
<1>13. Q \in [Dirs -> Nat] /\ \A i \in 1..c : Q[s[i]] = Len(A) + i
  <2>1. ASSUME NEW i \in 1..c PROVE Q[s[i]] = Len(A) + i
    <3>1. Q[s[i]] = Len(A) + (CHOOSE j \in 1..c : s[j] = s[i])
      BY <1>9
    <3> QED
      BY <3>1, <1>12
  <2>2. ASSUME NEW x \in Dirs PROVE Q[x] \in Nat
    <3>1. CASE \E i \in 1..c : s[i] = x
      BY <3>1, <2>1, <1>4
    <3>2. CASE ~\E i \in 1..c : s[i] = x
      BY <3>2, <1>2
    <3> QED
      BY <3>1, <3>2
  <2>3. Q \in [Dirs -> Nat]
    BY <2>2
  <2> QED
    BY <2>1, <2>3
<1>14. PushSubdirs(A, id, s) = B
  BY <1>8 DEF PushSubdirs
<1>15. pending' = PendingAfter(P, d, s, Len(A))
  BY <1>3
<1>16. /\ pending' \in [Dirs -> Nat] /\ pending'[d] = 0
       /\ \A x \in Dirs : x # d => pending'[x] = Q[x]
  <2>1. \A x \in Dirs : pending'[x] = IF \E i \in 1..c : s[i] = x THEN Q[x]
                                      ELSE IF x = d THEN 0 ELSE P[x]
    BY <1>7, <1>15 DEF PendingAfter
  <2>2. ~\E i \in 1..c : s[i] = d
    BY <1>5, <1>9
  <2>3. pending'[d] = 0
    BY <2>1, <2>2, <1>1
  <2>4. \A x \in Dirs : x # d => pending'[x] = Q[x]
    BY <2>1
  <2>5. \A x \in Dirs : pending'[x] \in Nat
    <3>1. \A x \in Dirs : Q[x] \in Nat
      BY <1>13
    <3> HIDE DEF Q
    <3> QED
      BY <2>3, <2>4, <3>1
  <2>6. pending' = [x \in Dirs |-> pending'[x]]
    BY <1>15 DEF PendingAfter
  <2> QED
    BY <2>3, <2>4, <2>5, <2>6
<1> HIDE DEF f, Q
<1>17. /\ B \in Seq(Node) /\ DOMAIN B = 1..(Len(A) + c)
       /\ \A i \in 1..Len(A) : B[i] = A[i]
       /\ \A i \in 1..c : B[Len(A) + i] = f[i]
  BY <1>2, <1>6, <1>11, AppendBlock
<1>18. \A i \in 1..c, j \in DOMAIN A : A[j].dir # s[i]
  <2> SUFFICES ASSUME NEW i \in 1..c, NEW j \in DOMAIN A, A[j].dir = s[i] PROVE FALSE
    OBVIOUS
  <2>1. s[i] # Root /\ Parent(s[i]) = d /\ s[i] \notin Early(A, id)
    BY <1>5, <1>9
  <2>2. A[j].parent \in 1..(j - 1) /\ A[A[j].parent].dir = d
    BY <2>1, <1>2 DEF Linked
  <2>3. A[j].parent = id
    BY <2>2, <1>2, <1>4 DEF Unique
  <2> QED
    BY <2>1, <2>3 DEF Early
<1>19. Extends(A, P, c, f, Q)
  <2>1. ASSUME NEW i \in 1..c
        PROVE  /\ f[i].dir # Root /\ ~f[i].listed
               /\ f[i].parent \in 1..(Len(A) + i - 1)
               /\ (A \o f)[f[i].parent].dir = Parent(f[i].dir)
               /\ \A j \in DOMAIN A : A[j].dir # f[i].dir
               /\ \A j \in 1..c : f[j].dir = f[i].dir => j = i
               /\ Q[f[i].dir] = Len(A) + i
    <3>1. f[i].dir # Root /\ ~f[i].listed /\ Parent(f[i].dir) = d
      BY <1>5, <1>9, <1>10
    <3>2. f[i].parent = id /\ id \in 1..(Len(A) + i - 1)
      BY <1>2, <1>4, <1>6, <1>10
    <3>3. (A \o f)[id].dir = d
      BY <1>2, <1>4, <1>17
    <3>4. \A j \in DOMAIN A : A[j].dir # f[i].dir
      BY <1>10, <1>18
    <3>5. \A j \in 1..c : f[j].dir = f[i].dir => j = i
      BY <1>7, <1>10
    <3>6. Q[f[i].dir] = Len(A) + i
      BY <1>10, <1>13
    <3> QED
      BY <3>1, <3>2, <3>3, <3>4, <3>5, <3>6
  <2>2. \A x \in Dirs : (\A i \in 1..c : f[i].dir # x) => Q[x] = P[x]
    BY <1>10 DEF Q
  <2> QED
    BY <2>1, <2>2 DEF Extends
<1>20. Unique(B) /\ Linked(B) /\ Tracked(B, Q)
  BY <1>2, <1>6, <1>11, <1>19, GrowArena
<1> HIDE DEF B
<1>21. id \in DOMAIN B /\ B[id].dir = d
  BY <1>2, <1>4, <1>6, <1>17
<1>22. nodes' = Fill(B, id, b)
  BY <1>3, <1>14
<1>23. /\ nodes' \in Seq(Node) /\ Unique(nodes') /\ Linked(nodes') /\ Tracked(nodes', pending')
       /\ DOMAIN nodes' = DOMAIN B
       /\ \A i \in DOMAIN B : /\ nodes'[i].dir = B[i].dir
                              /\ nodes'[i].listed = (B[i].listed \/ i = id)
  <2>1. Forgets(Q, B[id].dir, pending')
    BY <1>16, <1>21 DEF Forgets
  <2>2. Q \in [Dirs -> Nat] /\ B \in Seq(Node) /\ b \in Batch
    BY <1>1, <1>13, <1>17
  <2> HIDE DEF b
  <2>3. LET C == Fill(B, id, b)
        IN /\ C \in Seq(Node) /\ Unique(C) /\ Linked(C) /\ Tracked(C, pending')
           /\ DOMAIN C = DOMAIN B
           /\ \A i \in DOMAIN B : C[i].dir = B[i].dir /\ C[i].listed = (B[i].listed \/ i = id)
    BY <2>1, <2>2, <1>20, <1>21, ListNode
  <2> QED
    BY <2>3, <1>22
<1>24. OneNodePerDir' /\ ParentBeforeChild' /\ PendingIsUnlisted'
  BY <1>23 DEF OneNodePerDir, ParentBeforeChild, PendingIsUnlisted, Unique, Linked, Tracked
<1>25. \A i \in DOMAIN B : i \in DOMAIN A \/ \E j \in 1..c : i = Len(A) + j
  <2> SUFFICES ASSUME NEW i \in DOMAIN B, i \notin DOMAIN A
               PROVE  \E j \in 1..c : i = Len(A) + j
    OBVIOUS
  <2>1. i - Len(A) \in 1..c /\ i = Len(A) + (i - Len(A))
    BY <1>4, <1>6, <1>17
  <2> QED
    BY <2>1
<1>26. Listed' = Listed \cup {d}
  <2>1. ASSUME NEW i \in DOMAIN B PROVE B[i].listed <=> i \in DOMAIN nodes /\ nodes[i].listed
    <3>1. CASE i \in DOMAIN A
      BY <3>1, <1>2, <1>4, <1>17
    <3>2. CASE i \notin DOMAIN A
      <4>1. PICK j \in 1..c : i = Len(A) + j
        BY <3>2, <1>25
      <4> QED
        BY <3>2, <4>1, <1>2, <1>10, <1>17
    <3> QED
      BY <3>1, <3>2
  <2>2. \A i \in DOMAIN nodes : i \in DOMAIN B /\ B[i].dir = nodes[i].dir
    BY <1>2, <1>4, <1>6, <1>17
  <2>3. Listed' \subseteq Listed \cup {d}
    <3> SUFFICES ASSUME NEW x \in Listed' PROVE x \in Listed \cup {d}
      OBVIOUS
    <3>1. PICK i \in DOMAIN nodes' : nodes'[i].listed /\ x = nodes'[i].dir
      BY DEF Listed
    <3>2. i \in DOMAIN B /\ x = B[i].dir /\ (B[i].listed \/ i = id)
      BY <3>1, <1>23
    <3>3. CASE i = id
      BY <3>2, <3>3, <1>21
    <3>4. CASE B[i].listed
      BY <3>2, <3>4, <2>1, <2>2 DEF Listed
    <3> QED
      BY <3>2, <3>3, <3>4
  <2>4. Listed \subseteq Listed'
    <3> SUFFICES ASSUME NEW i \in DOMAIN nodes, nodes[i].listed
                 PROVE  nodes[i].dir \in Listed'
      BY DEF Listed
    <3>1. i \in DOMAIN B /\ B[i].dir = nodes[i].dir /\ B[i].listed
      BY <2>1, <2>2
    <3>2. i \in DOMAIN nodes' /\ nodes'[i].dir = nodes[i].dir /\ nodes'[i].listed
      BY <3>1, <1>23
    <3> QED
      BY <3>2 DEF Listed
  <2>5. d \in Listed'
    BY <1>21, <1>23 DEF Listed
  <2> QED
    BY <2>3, <2>4, <2>5
<1>27. \A i \in DOMAIN nodes : \E j \in DOMAIN nodes' : nodes'[j].dir = nodes[i].dir
  BY <1>2, <1>4, <1>6, <1>17, <1>23
<1>28. ASSUME NEW y \in b.subdirs PROVE \E j \in DOMAIN nodes' : nodes'[j].dir = y
  <2>1. CASE y \in Early(A, id)
    <3>1. PICK j \in DOMAIN A : A[j].dir = y
      BY <2>1 DEF Early
    <3>2. j \in DOMAIN B /\ B[j] = A[j]
      BY <1>4, <1>6, <1>17
    <3> QED
      BY <3>1, <3>2, <1>23
  <2>2. CASE y \notin Early(A, id)
    <3>1. PICK i \in 1..c : s[i] = y
      BY <2>2, <1>7
    <3>2. Len(A) + i \in DOMAIN B /\ B[Len(A) + i].dir = y
      BY <3>1, <1>4, <1>6, <1>10, <1>17
    <3> QED
      BY <3>2, <1>23
  <2> QED
    BY <2>1, <2>2
<1>29. ASSUME NEW j \in DOMAIN nodes'
       PROVE  \/ \E i \in DOMAIN nodes : nodes'[j].dir = nodes[i].dir
              \/ nodes'[j].dir \in b.subdirs
              \/ \E i \in 1..Len(Path[d]) : nodes'[j].dir = Path[d][i]
  <2>1. j \in DOMAIN B /\ nodes'[j].dir = B[j].dir
    BY <1>23
  <2>2. CASE j \in DOMAIN A
    <3>1. nodes'[j].dir = A[j].dir
      BY <2>1, <2>2, <1>4, <1>17
    <3> QED
      BY <2>2, <3>1, <1>2
  <2>3. CASE j \notin DOMAIN A
    <3>1. PICK i \in 1..c : j = Len(A) + i
      BY <2>1, <2>3, <1>25
    <3> QED
      BY <2>1, <3>1, <1>9, <1>10, <1>17
  <2> QED
    BY <2>2, <2>3
<1>30. ASSUME \A i \in DOMAIN nodes : ~nodes[i].listed => nodes[i].bytes = 0, NEW j \in DOMAIN nodes'
       PROVE  \/ j \in DOMAIN nodes /\ nodes'[j] = nodes[j]
              \/ ~nodes'[j].listed /\ nodes'[j].bytes = 0
              \/ nodes'[j].listed /\ nodes'[j].dir = d /\ nodes'[j].bytes = b.bytes
  <2>0. /\ nodes'[id].bytes = B[id].bytes + b.bytes
        /\ \A i \in DOMAIN B : i # id => nodes'[i] = B[i]
    <3>1. B \in Seq(Node)
      BY <1>17
    <3> QED
      BY <3>1, <1>21, <1>22, FillBytes
  <2>1. j \in DOMAIN B
    BY <1>23
  <2>2. CASE j = id
    <3>1. A[id].bytes = 0
      BY <1>2, <1>30
    <3>2. B[id] = A[id] /\ b.bytes \in Nat
      BY <1>1, <1>2, <1>4, <1>17 DEF Batch
    <3>3. nodes'[id].bytes = b.bytes
      BY <3>1, <3>2, <2>0
    <3> QED
      BY <2>1, <2>2, <3>3, <1>21, <1>23
  <2>3. CASE j # id /\ j \in DOMAIN A
    <3>1. nodes'[j] = A[j]
      BY <2>0, <2>1, <2>3, <1>4, <1>17
    <3> QED
      BY <2>3, <3>1, <1>2
  <2>4. CASE j # id /\ j \notin DOMAIN A
    <3>1. PICK i \in 1..c : j = Len(A) + i
      BY <2>1, <2>4, <1>25
    <3>2. nodes'[j] = f[i]
      BY <2>0, <2>1, <2>4, <3>1, <1>17
    <3> QED
      BY <3>2, <1>10
  <2> QED
    BY <2>2, <2>3, <2>4
<1> QED
  BY <1>16, <1>23, <1>24, <1>26, <1>27, <1>28, <1>29, <1>30

(* The builder takes the oldest batch off the channel and adds it. *)
LEMMA ReceiveStep ==
  ASSUME BuildInv, Receive
  PROVE  /\ BuildInv'
         /\ InListing' = InListing /\ Started' = Started /\ Batched' \subseteq Batched
         /\ Listed' = Listed \cup {Head(chan).dir}
<1> DEFINE b == Head(chan)
           d == b.dir
<1>1. chan # <<>> /\ Add(b) /\ chan' = Tail(chan)
      /\ UNCHANGED <<cancelled, queue, at, seen, tree>>
      /\ skipped' = skipped + b.skipped
  BY DEF Receive
<1>2. b \in Batch /\ d \in Dirs /\ 1 \in DOMAIN chan /\ b = chan[1]
      /\ d \in InChan /\ d \notin Listed
  BY <1>1, HeadFacts
<1>3. /\ nodes' \in Seq(Node) /\ pending' \in [Dirs -> Nat]
      /\ OneNodePerDir' /\ ParentBeforeChild' /\ PendingIsUnlisted'
      /\ Listed' = Listed \cup {d}
      /\ \A i \in DOMAIN nodes : \E j \in DOMAIN nodes' : nodes'[j].dir = nodes[i].dir
      /\ \A y \in b.subdirs : \E j \in DOMAIN nodes' : nodes'[j].dir = y
  BY <1>1, AddStage
<1>4. chan \in Seq(Batch) /\ Len(chan) \in Nat /\ DOMAIN chan = 1..Len(chan)
  BY TypeFacts DEF BuildInv
<1> HIDE DEF b
<1>5. /\ chan' \in Seq(Batch) /\ Len(chan') = Len(chan) - 1
      /\ DOMAIN chan' = 1..(Len(chan) - 1)
      /\ \A i \in 1..(Len(chan) - 1) : chan'[i] = chan[i + 1]
  <2>1. chan' \in Seq(Batch) /\ Len(chan') = Len(chan) - 1
        /\ \A i \in 1..Len(chan') : chan'[i] = chan[i + 1]
    BY <1>1, <1>4, HeadTailProperties
  <2>2. DOMAIN chan' = 1..Len(chan')
    BY <2>1, LenProperties
  <2> QED
    BY <2>1, <2>2
<1>6. \A i \in DOMAIN chan' : i + 1 \in DOMAIN chan /\ i + 1 # 1 /\ chan'[i] = chan[i + 1]
  BY <1>4, <1>5
<1>7. \A i \in DOMAIN chan : i = 1 \/ \E j \in DOMAIN chan' : j + 1 = i
  <2> SUFFICES ASSUME NEW i \in DOMAIN chan, i # 1 PROVE \E j \in DOMAIN chan' : j + 1 = i
    OBVIOUS
  <2>1. i - 1 \in DOMAIN chan' /\ (i - 1) + 1 = i
    BY <1>4, <1>5
  <2> QED
    BY <2>1
<1>8. \A i, j \in DOMAIN chan : chan[i].dir = chan[j].dir => i = j
  BY DEF BuildInv, OnePlace
<1>9. InChan' = InChan \ {d}
  <2>1. ASSUME NEW x \in InChan' PROVE x \in InChan \ {d}
    <3>1. PICK i \in DOMAIN chan' : x = chan'[i].dir
      BY DEF InChan
    <3>2. x = chan[i + 1].dir /\ i + 1 \in DOMAIN chan /\ i + 1 # 1
      BY <3>1, <1>6
    <3> QED
      BY <3>2, <1>2, <1>8 DEF InChan
  <2>2. ASSUME NEW x \in InChan, x # d PROVE x \in InChan'
    <3>1. PICK i \in DOMAIN chan : x = chan[i].dir
      BY DEF InChan
    <3>2. i # 1
      BY <2>2, <3>1, <1>2
    <3>3. PICK j \in DOMAIN chan' : j + 1 = i
      BY <3>2, <1>7
    <3> QED
      BY <3>1, <3>3, <1>6 DEF InChan
  <2> QED
    BY <2>1, <2>2
<1>10. InListing' = InListing /\ Started' = Started
  <2>1. InListing' = InListing
    BY <1>1 DEF InListing
  <2> QED
    BY <2>1, <1>2, <1>3, <1>9 DEF Started
<1>11. TypeOK'
  <2>1. WalkTypeOK'
    BY <1>1, <1>5 DEF BuildInv, TypeOK, WalkTypeOK
  <2>2. skipped' \in Nat
    <3>1. b.skipped \in Nat
      BY <1>2 DEF Batch
    <3> QED
      BY <3>1, <1>1 DEF BuildInv, TypeOK
  <2> QED
    BY <2>1, <2>2, <1>1, <1>3 DEF BuildInv, TypeOK
<1>12. OnePlace'
  <2>1. \A i, j \in DOMAIN chan' : chan'[i].dir = chan'[j].dir => i = j
    <3> SUFFICES ASSUME NEW i \in DOMAIN chan', NEW j \in DOMAIN chan',
                        chan'[i].dir = chan'[j].dir
                 PROVE  i = j
      OBVIOUS
    <3>1. i + 1 = j + 1
      BY <1>6, <1>8
    <3> QED
      BY <3>1, <1>4, <1>5
  <2>2. queue' = queue /\ at' = at
    BY <1>1
  <2>3. InListing' \cap Listed' = {} /\ InListing' \cap InChan' = {} /\ InChan' \cap Listed' = {}
    BY <1>2, <1>3, <1>9, <1>10 DEF BuildInv, OnePlace
  <2> QED
    BY <2>1, <2>2, <2>3, <1>10 DEF BuildInv, OnePlace
<1>13. Announced'
  <2> SUFFICES ASSUME NEW x \in queue' \cup Started'
               PROVE  /\ \A i \in 1..(Len(Path[x]) - 1) : Path[x][i] \in Started'
                      /\ x # Root =>
                           /\ \A v \in Workers :
                                at'[v] # None /\ at'[v].batch.dir = Parent(x) =>
                                  x \in at'[v].batch.subdirs \ at'[v].todo
                           /\ \A i \in DOMAIN chan' :
                                chan'[i].dir = Parent(x) => x \in chan'[i].subdirs
                           /\ Parent(x) \in Listed' =>
                                \E i \in DOMAIN nodes' : nodes'[i].dir = x
    BY DEF Announced
  <2>1. x \in queue \cup Started /\ at' = at
    BY <1>1, <1>10
  <2>2. \A i \in 1..(Len(Path[x]) - 1) : Path[x][i] \in Started'
    BY <2>1, <1>10 DEF BuildInv, Announced
  <2>3. x # Root => \A i \in DOMAIN chan' : chan'[i].dir = Parent(x) => x \in chan'[i].subdirs
    BY <2>1, <1>6 DEF BuildInv, Announced
  <2>4. ASSUME x # Root, Parent(x) \in Listed'
        PROVE  \E i \in DOMAIN nodes' : nodes'[i].dir = x
    <3>1. CASE Parent(x) = d
      <4>1. x \in b.subdirs
        BY <2>1, <2>4, <3>1, <1>2 DEF BuildInv, Announced
      <4> QED
        BY <4>1, <1>3
    <3>2. CASE Parent(x) \in Listed
      <4>1. PICK i \in DOMAIN nodes : nodes[i].dir = x
        BY <2>1, <2>4, <3>2 DEF BuildInv, Announced
      <4> QED
        BY <4>1, <1>3
    <3> QED
      BY <2>4, <3>1, <3>2, <1>3
  <2> QED
    BY <2>1, <2>2, <2>3, <2>4 DEF BuildInv, Announced
<1>14. OwnChildren'
  BY <1>1, <1>6 DEF BuildInv, OwnChildren
<1>15. Batched' \subseteq Batched
  BY <1>1, <1>6 DEF Batched
<1> QED
  BY <1>3, <1>10, <1>11, <1>12, <1>13, <1>14, <1>15 DEF BuildInv, b

-----------------------------------------------------------------------------
(***************************************************************************)
(* The theorems.                                                           *)
(***************************************************************************)

LEMMA InitInv == Init => BuildInv
<1> SUFFICES ASSUME Init PROVE BuildInv
  OBVIOUS
<1>1. /\ cancelled = FALSE /\ queue = {Root} /\ at = [w \in Workers |-> None]
      /\ seen = (IF Follow THEN {Target[Root]} ELSE {}) /\ chan = <<>>
      /\ nodes = <<NewNode(Root, 0)>> /\ pending = [d \in Dirs |-> 0]
      /\ skipped = 0 /\ tree = None
  BY DEF Init, WalkInit, BuildInit
<1>2. Root \in Dirs /\ Len(Path[Root]) = 1
  BY PathAssumption, RootLevel
<1>3. NewNode(Root, 0) \in Node
  BY <1>2 DEF NewNode, Node
<1>4. nodes \in Seq(Node) /\ DOMAIN nodes = {1}
      /\ nodes[1].dir = Root /\ nodes[1].parent = 0 /\ nodes[1].listed = FALSE
  <2>1. nodes \in Seq(Node) /\ Len(nodes) = 1 /\ nodes[1] = NewNode(Root, 0)
    BY <1>1, <1>3
  <2>2. DOMAIN nodes = {1}
    BY <2>1, LenProperties
  <2> QED
    BY <2>1, <2>2 DEF NewNode
<1>5. TypeOK
  <2>1. chan \in Seq(Batch) /\ queue \subseteq Dirs /\ cancelled \in BOOLEAN
    <3>1. chan \in Seq(Batch)
      BY <1>1, EmptySeq
    <3>2. queue \subseteq Dirs /\ cancelled \in BOOLEAN
      BY <1>1, <1>2
    <3> QED
      BY <3>1, <3>2
  <2>2. at \in [Workers -> Listing \cup {None}]
    BY <1>1
  <2>3. seen \subseteq {Target[x] : x \in Dirs}
    BY <1>1, <1>2
  <2>4. pending \in [Dirs -> Nat] /\ skipped \in Nat
    BY <1>1
  <2> QED
    BY <2>1, <2>2, <2>3, <2>4, <1>1, <1>4 DEF TypeOK, WalkTypeOK
<1>6. InListing = {} /\ InChan = {} /\ Listed = {} /\ Started = {}
  BY <1>1, <1>4 DEF InListing, InChan, Listed, Started
<1>7. OneNodePerDir
  BY <1>4 DEF OneNodePerDir
<1>8. ParentBeforeChild
  BY <1>4 DEF ParentBeforeChild
<1>9. PendingIsUnlisted
  BY <1>1, <1>4 DEF PendingIsUnlisted
<1>10. OnePlace
  BY <1>1, <1>6 DEF OnePlace
<1>11. Announced
  <2>1. queue \cup Started = {Root}
    BY <1>1, <1>6
  <2>2. 1..(Len(Path[Root]) - 1) = {}
    BY <1>2
  <2> QED
    BY <2>1, <2>2 DEF Announced
<1>12. OwnChildren
  BY <1>1 DEF OwnChildren
<1> QED
  BY <1>5, <1>7, <1>8, <1>9, <1>10, <1>11, <1>12 DEF BuildInv

LEMMA NextInv == BuildInv /\ [Next]_vars => BuildInv'
<1> SUFFICES ASSUME BuildInv, [Next]_vars PROVE BuildInv'
  OBVIOUS
<1>1. CASE tree = None /\ Cancel /\ UNCHANGED buildVars
  <2>1. UNCHANGED <<queue, at, seen, chan, nodes, pending, skipped>>
    BY <1>1 DEF Cancel, buildVars
  <2>2. TypeOK'
    BY <1>1 DEF BuildInv, TypeOK, WalkTypeOK, Cancel, buildVars
  <2> QED
    BY <2>1, <2>2, QuietStep
<1>2. ASSUME NEW w \in Workers, WorkerStep(w), UNCHANGED buildVars PROVE BuildInv'
  <2>1. CASE TakeTask(w)
    <3>1. PICK d \in queue : Drop(w, d) \/ ListFails(w, d) \/ Open(w, d)
      BY <2>1 DEF TakeTask
    <3>2. at[w] = None
      BY <2>1 DEF TakeTask
    <3> QED
      BY <1>2, <3>1, <3>2, DropStep, ListFailsStep, OpenStep
  <2>2. CASE ListStep(w)
    BY <1>2, <2>2, FindDirStep, ReadFilesStep, EntryFailsStep, SendStep DEF ListStep
  <2> QED
    BY <1>2, <2>1, <2>2 DEF WorkerStep
<1>3. CASE Receive
  BY <1>3, ReceiveStep
<1>4. CASE Finish
  <2>1. UNCHANGED <<queue, at, seen, chan, nodes, pending, skipped>>
        /\ tree' = [cancelled |-> cancelled, totals |-> RollUp(cancelled)]
        /\ cancelled' = cancelled
    BY <1>4 DEF Finish, walkVars
  <2>2. tree'.cancelled \in BOOLEAN
    BY <2>1 DEF BuildInv, TypeOK, WalkTypeOK
  <2>3. TypeOK'
    BY <2>1, <2>2 DEF BuildInv, TypeOK, WalkTypeOK
  <2> QED
    BY <2>1, <2>3, QuietStep
<1>5. CASE UNCHANGED vars
  <2>1. UNCHANGED <<queue, at, seen, chan, nodes, pending, skipped>>
    BY <1>5 DEF vars, walkVars, buildVars
  <2>2. TypeOK'
    BY <1>5 DEF BuildInv, TypeOK, WalkTypeOK, vars, walkVars, buildVars
  <2> QED
    BY <2>1, <2>2, QuietStep
<1> QED
  BY <1>1, <1>2, <1>3, <1>4, <1>5 DEF Next, Returned

(* Whatever the order in which the threads find, list and send, and        *)
(* whenever the batches are received, the arena is in order, `pending` is  *)
(* exact and no directory is in two places.                                *)
THEOREM ArenaStaysInOrder == Spec => []BuildInv
<1>1. Init => BuildInv
  BY InitInv
<1>2. BuildInv /\ [Next]_vars => BuildInv'
  BY NextInv
<1> QED
  BY <1>1, <1>2, PTL DEF Spec

(* No path ever has two nodes. *)
THEOREM NoDirectoryTwice == Spec => []OneNodePerDir
<1>1. BuildInv => OneNodePerDir
  BY DEF BuildInv
<1> QED
  BY <1>1, ArenaStaysInOrder, PTL

-----------------------------------------------------------------------------
(***************************************************************************)
(* What is promised: the contract, and links followed once.                *)
(***************************************************************************)

(* What is walked is what a scan is asked for; nothing is found in what    *)
(* cannot be read.                                                         *)
OnlyVisible == queue \cup Started \subseteq Visible /\ InListing \cap Unreadable = {}

(* A directory that is still to come in a listing. *)
ToCome(c) == \E w \in Workers : at[w] # None /\ at[w].batch.dir = Parent(c) /\ c \in at[w].todo

(* Without a cancel no visible directory is lost: once the listing of its  *)
(* parent has begun it is still to come, queued, or on its way.            *)
NothingLost ==
  ~cancelled /\ ~Follow =>
    /\ Root \in queue \cup Started
    /\ \A c \in Visible \ {Root} :
         Parent(c) \in Started \ Flaky => c \in queue \cup Started \/ ToCome(c)

(* Every directory the walk has let in, and every one with a node. *)
Found ==
  {Root} \cup queue \cup Started \cup Batched \cup {nodes[i].dir : i \in DOMAIN nodes}

(* `seen` holds the target of each, and no two have the same. *)
TargetsApart ==
  Follow => /\ \A x \in Found : Target[x] \in seen
            /\ \A x, y \in Found : Target[x] = Target[y] => x = y

ContractInv == BuildInv /\ OnlyVisible /\ NothingLost /\ TargetsApart

-----------------------------------------------------------------------------
(***************************************************************************)
(* Paths.                                                                  *)
(***************************************************************************)

(* The path of a directory is that of its parent and one level more. *)
LEMMA ParentPath ==
  ASSUME NEW c \in Dirs, c # Root
  PROVE  /\ Parent(c) \in Dirs /\ c \in Children(Parent(c))
         /\ Len(Path[c]) \in Nat /\ Len(Path[c]) >= 2
         /\ Len(Path[Parent(c)]) = Len(Path[c]) - 1
         /\ \A j \in 1..(Len(Path[c]) - 1) : Path[Parent(c)][j] = Path[c][j]
<1> DEFINE q == Len(Path[c]) - 1
<1>1. Len(Path[c]) \in Nat /\ Len(Path[c]) >= 2 /\ q \in 1..Len(Path[c]) /\ Path[c][q] = Parent(c)
  <2>1. Len(Path[c]) \in Nat /\ Len(Path[c]) >= 1 /\ Len(Path[c]) # 1
    BY PathFacts, RootLevel
  <2>2. \A n \in Nat : n >= 1 /\ n # 1 => n >= 2 /\ n - 1 \in 1..n
    OBVIOUS
  <2> QED
    BY <2>1, <2>2 DEF Parent
<1> HIDE DEF q
<1>2. /\ Path[c][q] \in Dirs /\ Len(Path[Path[c][q]]) = q
      /\ \A j \in 1..q : Path[Path[c][q]][j] = Path[c][j]
  BY <1>1, PathFacts
<1> QED
  BY <1>1, <1>2 DEF Children, q

(* Below a directory is what is below its parent, and itself. *)
LEMMA PrefixOfChild ==
  ASSUME NEW c \in Dirs, c # Root, NEW u \in Dirs
  PROVE  IsPrefix(u, c) <=> u = c \/ IsPrefix(u, Parent(c))
<1> DEFINE n == Len(Path[c])
           k == Len(Path[u])
<1>1. /\ n \in Nat /\ n >= 2 /\ k \in Nat /\ k >= 1 /\ Path[c][n] = c
      /\ Len(Path[Parent(c)]) = n - 1
      /\ \A j \in 1..(n - 1) : Path[Parent(c)][j] = Path[c][j]
  BY ParentPath, PathFacts
<1> HIDE DEF n, k
<1>2. IsPrefix(u, c) <=> k <= n /\ Path[c][k] = u
  BY DEF IsPrefix, n, k
<1>3. IsPrefix(u, Parent(c)) <=> k <= n - 1 /\ Path[Parent(c)][k] = u
  BY <1>1 DEF IsPrefix, k
<1>4. u = c => k = n
  BY DEF n, k
<1> QED
  BY <1>1, <1>2, <1>3, <1>4

LEMMA VisibleChild ==
  ASSUME NEW c \in Dirs, c # Root, Parent(c) \in Visible
  PROVE  c \in Visible <=> Parent(c) \notin Unreadable /\ Depth(Parent(c)) + 1 < MaxDepth
<1>1. Depth(c) = Depth(Parent(c)) + 1
  BY ParentPath DEF Depth
<1>2. Parent(c) # c
  BY ParentPath
<1>3. \A u \in Unreadable : u \in Dirs
  BY ScanAssumption
<1>4. IsPrefix(Parent(c), c)
  BY ParentPath, PathFacts DEF IsPrefix
<1> QED
  BY <1>1, <1>2, <1>3, <1>4, PrefixOfChild DEF Visible

(* Nothing is above the root. *)
LEMMA RootOnTop ==
  ASSUME NEW u \in Dirs, IsPrefix(u, Root)
  PROVE  u = Root
<1>1. Root \in Dirs /\ Len(Path[Root]) = 1
  BY PathAssumption, RootLevel
<1>2. Len(Path[u]) \in Nat /\ Len(Path[u]) >= 1 /\ Len(Path[u]) <= 1 /\ Path[Root][Len(Path[u])] = u
  BY <1>1, PathFacts DEF IsPrefix
<1> QED
  BY <1>2, <1>1, PathFacts

LEMMA RootVisible == Root \in Visible
<1>1. Root \in Dirs /\ Len(Path[Root]) = 1
  BY PathAssumption, RootLevel
<1>2. Depth(Root) < MaxDepth
  BY <1>1, ScanAssumption DEF Depth
<1>3. Unreadable \subseteq Dirs
  BY ScanAssumption
<1> QED
  BY <1>1, <1>2, <1>3, RootOnTop DEF Visible

-----------------------------------------------------------------------------
(***************************************************************************)
(* The steps.                                                              *)
(***************************************************************************)

LEMMA TargetsKept ==
  ASSUME TargetsApart, seen \subseteq seen', Found' \subseteq Found
  PROVE  TargetsApart'
BY DEF TargetsApart

(* Nothing has moved that the invariants speak of. *)
LEMMA ContractQuiet ==
  ASSUME ContractInv, BuildInv', UNCHANGED <<queue, at, seen, chan, nodes>>,
         cancelled' = cancelled \/ cancelled'
  PROVE  ContractInv'
<1>1. InListing' = InListing /\ InChan' = InChan /\ Listed' = Listed /\ Started' = Started
  BY DEF InListing, InChan, Listed, Started
<1>2. Batched' = Batched
  BY DEF Batched
<1>3. OnlyVisible'
  BY <1>1 DEF ContractInv, OnlyVisible
<1>4. NothingLost'
  BY <1>1 DEF ContractInv, NothingLost, ToCome
<1>5. Found' = Found
  BY <1>1, <1>2 DEF Found
<1>6. TargetsApart'
  BY <1>5, TargetsKept DEF ContractInv
<1> QED
  BY <1>3, <1>4, <1>6 DEF ContractInv

LEMMA DropKeeps ==
  ASSUME ContractInv, NEW w \in Workers, NEW d \in queue, Drop(w, d), UNCHANGED buildVars
  PROVE  ContractInv'
<1>1. BuildInv' /\ InListing' = InListing /\ Started' = Started /\ Batched' \subseteq Batched
  BY DropStep DEF ContractInv
<1>2. cancelled' /\ queue' \subseteq queue /\ seen' = seen /\ nodes' = nodes
  BY DEF Drop, buildVars
<1>3. OnlyVisible' /\ NothingLost'
  BY <1>1, <1>2 DEF ContractInv, OnlyVisible, NothingLost
<1>4. Found' \subseteq Found
  BY <1>1, <1>2 DEF Found
<1> QED
  BY <1>1, <1>2, <1>3, <1>4, TargetsKept DEF ContractInv

LEMMA ListFailsKeeps ==
  ASSUME ContractInv, NEW w \in Workers, NEW d \in queue, ListFails(w, d), UNCHANGED buildVars
  PROVE  ContractInv'
<1>1. /\ BuildInv' /\ InListing' = InListing /\ Started' = Started \cup {d}
      /\ Batched' \subseteq Batched
  BY ListFailsStep DEF ContractInv
<1>2. /\ d \in Unreadable /\ queue' = queue \ {d} /\ seen' = seen /\ nodes' = nodes
      /\ at' = at /\ cancelled' = cancelled
  BY DEF ListFails, buildVars
<1>3. OnlyVisible'
  BY <1>1, <1>2 DEF ContractInv, OnlyVisible
<1>4. queue' \cup Started' = queue \cup Started
  BY <1>1, <1>2
<1>5. ASSUME NEW c \in Visible \ {Root} PROVE Parent(c) # d
  <2>1. c \in Dirs /\ d \in Visible
    BY <1>5 DEF Visible, ContractInv, OnlyVisible
  <2> QED
    BY <1>2, <1>5, <2>1, VisibleChild
<1>6. NothingLost'
  BY <1>1, <1>2, <1>4, <1>5 DEF ContractInv, NothingLost, ToCome
<1>7. Found' \subseteq Found
  BY <1>1, <1>2 DEF Found
<1> QED
  BY <1>1, <1>2, <1>3, <1>6, <1>7, TargetsKept DEF ContractInv

LEMMA OpenKeeps ==
  ASSUME ContractInv, NEW w \in Workers, at[w] = None, NEW d \in queue,
         Open(w, d), UNCHANGED buildVars
  PROVE  ContractInv'
<1>1. /\ BuildInv'
      /\ InListing' = InListing \cup {d} /\ Started' = Started \cup {d} /\ Batched' \subseteq Batched
      /\ at'[w] # None /\ at'[w].batch.dir = d /\ at'[w].todo = Children(d)
      /\ \A v \in Workers \ {w} : at'[v] = at[v]
  BY OpenStep DEF ContractInv
<1>2. /\ d \notin Unreadable /\ queue' = queue \ {d} /\ seen' = seen /\ nodes' = nodes
      /\ cancelled' = cancelled
  BY DEF Open, buildVars
<1>3. OnlyVisible'
  BY <1>1, <1>2 DEF ContractInv, OnlyVisible
<1>4. queue' \cup Started' = queue \cup Started
  BY <1>1, <1>2
<1>5. ASSUME NEW c \in Visible \ {Root}, Parent(c) = d PROVE ToCome(c)'
  <2>1. c \in Children(d)
    BY <1>5 DEF Visible, Children
  <2> QED
    BY <2>1, <1>1, <1>5 DEF ToCome
<1>6. ASSUME NEW c, ToCome(c) PROVE ToCome(c)'
  BY <1>1, <1>6 DEF ToCome
<1>7. NothingLost'
  BY <1>1, <1>2, <1>4, <1>5, <1>6 DEF ContractInv, NothingLost
<1>8. Found' \subseteq Found
  BY <1>1, <1>2 DEF Found
<1> QED
  BY <1>1, <1>2, <1>3, <1>7, <1>8, TargetsKept DEF ContractInv

(* The directory of a listing. *)
LEMMA ListingFacts ==
  ASSUME ContractInv, NEW w \in Workers, at[w] # None
  PROVE  /\ at[w].batch.dir \in Visible \ Unreadable /\ at[w].batch.dir \in Started
         /\ \A c \in at[w].todo : c \in Dirs /\ c # Root /\ Parent(c) = at[w].batch.dir
<1>1. at[w].batch.dir \in InListing
  BY DEF InListing
<1>2. at[w].todo \subseteq Children(at[w].batch.dir)
  BY DEF ContractInv, BuildInv, OwnChildren
<1> QED
  BY <1>1, <1>2 DEF ContractInv, OnlyVisible, Started, Children

LEMMA FindDirKeeps ==
  ASSUME ContractInv, NEW w \in Workers, at[w] # None, FindDir(w), UNCHANGED buildVars
  PROVE  ContractInv'
<1> DEFINE d == at[w].batch.dir
<1>1. BuildInv' /\ OnlyListing(w) /\ nodes' = nodes
  BY FindDirStep DEF ContractInv, buildVars
<1>2. PICK c \in at[w].todo :
        LET subs == IF Follow /\ Target[c] \in seen THEN {} ELSE {c}
        IN /\ at'[w].todo = at[w].todo \ {c}
           /\ at'[w].batch.subdirs = at[w].batch.subdirs \cup subs
           /\ seen' = IF Follow THEN seen \cup {Target[c]} ELSE seen
           /\ queue' = IF Depth(d) + 1 < MaxDepth THEN queue \cup subs ELSE queue
  BY FindDirStep DEF ContractInv
<1> DEFINE subs == IF Follow /\ Target[c] \in seen THEN {} ELSE {c}
<1>3. d \in Visible \ Unreadable /\ c \in Dirs /\ c # Root /\ Parent(c) = d
  BY ListingFacts
<1>4. /\ at'[w] # None /\ at'[w].batch.dir = d /\ \A v \in Workers \ {w} : at'[v] = at[v]
      /\ chan' = chan /\ cancelled' = cancelled /\ InListing' = InListing /\ Started' = Started
  BY <1>1 DEF OnlyListing
<1>5. Depth(d) + 1 < MaxDepth <=> c \in Visible
  BY <1>3, VisibleChild
<1> HIDE DEF d
<1>6. OnlyVisible'
  BY <1>2, <1>4, <1>5 DEF ContractInv, OnlyVisible
<1>7. NothingLost'
  <2> SUFFICES ASSUME ~cancelled, ~Follow, NEW x \in Visible \ {Root}, Parent(x) \in Started \ Flaky
               PROVE  x \in queue' \cup Started \/ ToCome(x)'
    BY <1>2, <1>4 DEF ContractInv, NothingLost
  <2>1. CASE x \in queue \cup Started
    BY <2>1, <1>2
  <2>2. CASE x = c
    BY <2>2, <1>2, <1>5
  <2>3. CASE x # c /\ ToCome(x)
    <3>1. PICK v \in Workers : at[v] # None /\ at[v].batch.dir = Parent(x) /\ x \in at[v].todo
      BY <2>3 DEF ToCome
    <3>2. at'[v] # None /\ at'[v].batch.dir = Parent(x) /\ x \in at'[v].todo
      BY <3>1, <2>3, <1>2, <1>4 DEF d
    <3> QED
      BY <3>2 DEF ToCome
  <2> QED
    BY <2>1, <2>2, <2>3 DEF ContractInv, NothingLost
<1>8. TargetsApart'
  <2>1. Batched' \subseteq Batched \cup subs
    <3>1. \A v \in Workers : at'[v] # None =>
            at[v] # None /\ at'[v].batch.subdirs \subseteq at[v].batch.subdirs \cup subs
      BY <1>2, <1>4
    <3> HIDE DEF subs
    <3> QED
      BY <3>1, <1>4 DEF Batched
  <2>2. Found' \subseteq Found \cup subs
    BY <2>1, <1>1, <1>2, <1>4 DEF Found
  <2>3. seen \subseteq seen'
    BY <1>2
  <2>4. CASE subs = {}
    BY <2>2, <2>3, <2>4, TargetsKept DEF ContractInv
  <2>5. CASE subs # {}
    <3>1. Follow => Target[c] \notin seen /\ Target[c] \in seen'
      BY <2>5, <1>2
    <3>2. Found' \subseteq Found \cup {c}
      BY <2>2, <2>5
    <3> QED
      BY <3>1, <3>2, <2>3 DEF ContractInv, TargetsApart
  <2> QED
    BY <2>4, <2>5
<1> QED
  BY <1>1, <1>6, <1>7, <1>8 DEF ContractInv

(* The other steps inside a listing. *)
LEMMA SkipKeeps ==
  ASSUME ContractInv, NEW w \in Workers, at[w] # None, ReadFiles(w) \/ EntryFails(w),
         UNCHANGED buildVars
  PROVE  ContractInv'
<1>1. /\ BuildInv' /\ OnlyListing(w) /\ nodes' = nodes
      /\ at'[w].batch.subdirs = at[w].batch.subdirs
      /\ at'[w].todo = at[w].todo \/ at[w].batch.dir \in Flaky
      /\ UNCHANGED <<queue, seen>>
  BY ReadFilesStep, EntryFailsStep DEF ContractInv, buildVars
<1>2. /\ at'[w] # None /\ at'[w].batch.dir = at[w].batch.dir
      /\ \A v \in Workers \ {w} : at'[v] = at[v]
      /\ chan' = chan /\ cancelled' = cancelled /\ InListing' = InListing /\ Started' = Started
  BY <1>1 DEF OnlyListing
<1>3. OnlyVisible'
  BY <1>1, <1>2 DEF ContractInv, OnlyVisible
<1>4. ASSUME NEW c, Parent(c) \notin Flaky, ToCome(c) PROVE ToCome(c)'
  BY <1>1, <1>2, <1>4 DEF ToCome
<1>5. NothingLost'
  BY <1>1, <1>2, <1>4 DEF ContractInv, NothingLost
<1>6. Batched' = Batched
  BY <1>1, <1>2 DEF Batched
<1>7. Found' \subseteq Found
  BY <1>1, <1>2, <1>6 DEF Found
<1> QED
  BY <1>1, <1>3, <1>5, <1>7, TargetsKept DEF ContractInv

LEMMA SendKeeps ==
  ASSUME ContractInv, NEW w \in Workers, at[w] # None, Send(w), UNCHANGED buildVars
  PROVE  ContractInv'
<1>1. /\ BuildInv' /\ nodes' = nodes
      /\ InListing' \subseteq InListing /\ Started' = Started /\ Batched' \subseteq Batched
      /\ at'[w] = None /\ \A v \in Workers \ {w} : at'[v] = at[v]
      /\ UNCHANGED <<cancelled, queue, seen>>
  BY SendStep DEF ContractInv, buildVars
<1>2. cancelled \/ at[w].todo = {}
  BY DEF Send
<1>3. OnlyVisible'
  BY <1>1 DEF ContractInv, OnlyVisible
<1>4. ASSUME NEW c, ~cancelled, ToCome(c) PROVE ToCome(c)'
  BY <1>1, <1>2, <1>4 DEF ToCome
<1>5. NothingLost'
  BY <1>1, <1>4 DEF ContractInv, NothingLost
<1>6. Found' \subseteq Found
  BY <1>1 DEF Found
<1> QED
  BY <1>1, <1>3, <1>5, <1>6, TargetsKept DEF ContractInv

(* A node is made only for a directory the walk has let in. *)
LEMMA ReceiveFinds ==
  ASSUME ContractInv, Receive
  PROVE  Found' \subseteq Found
<1> DEFINE b == Head(chan)
           d == b.dir
<1>1. /\ Started' = Started /\ Batched' \subseteq Batched
      /\ UNCHANGED <<cancelled, queue, at, seen>> /\ chan # <<>> /\ Add(b)
  BY ReceiveStep DEF ContractInv, Receive
<1>2. d \in InChan /\ d \in Started /\ d \in Dirs /\ b.subdirs \subseteq Batched
  <2>1. d \in InChan /\ d \in Dirs /\ 1 \in DOMAIN chan /\ b = chan[1]
    BY <1>1, HeadFacts DEF ContractInv
  <2>2. chan[1].subdirs \subseteq Batched
    BY <2>1 DEF Batched
  <2> QED
    BY <2>1, <2>2 DEF Started
<1>3. ASSUME NEW i \in 1..Len(Path[d]) PROVE Path[d][i] \in Found
  <2>1. Len(Path[d]) \in Nat /\ Path[d][Len(Path[d])] = d
    BY <1>2, PathFacts
  <2>2. CASE i = Len(Path[d])
    BY <2>1, <2>2, <1>2 DEF Found
  <2>3. CASE i # Len(Path[d])
    <3>1. i \in 1..(Len(Path[d]) - 1)
      BY <2>1, <2>3
    <3> QED
      BY <3>1, <1>2 DEF ContractInv, BuildInv, Announced, Found
  <2> QED
    BY <2>2, <2>3
<1>4. ASSUME NEW j \in DOMAIN nodes' PROVE nodes'[j].dir \in Found
  <2>1. \/ \E i \in DOMAIN nodes : nodes'[j].dir = nodes[i].dir
        \/ nodes'[j].dir \in b.subdirs
        \/ \E i \in 1..Len(Path[d]) : nodes'[j].dir = Path[d][i]
    BY <1>1, AddStage DEF ContractInv
  <2> QED
    BY <2>1, <1>2, <1>3 DEF Found
<1> QED
  BY <1>1, <1>4 DEF Found

LEMMA ReceiveKeeps ==
  ASSUME ContractInv, Receive
  PROVE  ContractInv'
<1>1. /\ BuildInv' /\ InListing' = InListing /\ Started' = Started
      /\ UNCHANGED <<cancelled, queue, at, seen>>
  BY ReceiveStep DEF ContractInv, Receive
<1>2. OnlyVisible'
  BY <1>1 DEF ContractInv, OnlyVisible
<1>3. NothingLost'
  BY <1>1 DEF ContractInv, NothingLost, ToCome
<1> QED
  BY <1>1, <1>2, <1>3, ReceiveFinds, TargetsKept DEF ContractInv

-----------------------------------------------------------------------------
(***************************************************************************)
(* The contract, and the links.                                            *)
(***************************************************************************)

LEMMA InitContract == Init => ContractInv
<1> SUFFICES ASSUME Init PROVE ContractInv
  OBVIOUS
<1>1. /\ queue = {Root} /\ at = [w \in Workers |-> None] /\ chan = <<>>
      /\ seen = (IF Follow THEN {Target[Root]} ELSE {}) /\ nodes = <<NewNode(Root, 0)>>
  BY DEF Init, WalkInit, BuildInit
<1>2. DOMAIN nodes = {1} /\ nodes[1].dir = Root /\ ~nodes[1].listed
  BY <1>1 DEF NewNode
<1>3. InListing = {} /\ Started = {} /\ Batched = {}
  BY <1>1, <1>2 DEF InListing, InChan, Listed, Started, Batched
<1>4. OnlyVisible
  BY <1>1, <1>3, RootVisible DEF OnlyVisible
<1>5. NothingLost
  BY <1>1, <1>3 DEF NothingLost
<1>6. Found = {Root}
  BY <1>1, <1>2, <1>3 DEF Found
<1>7. TargetsApart
  BY <1>1, <1>6 DEF TargetsApart
<1> QED
  BY <1>4, <1>5, <1>7, InitInv DEF ContractInv

LEMMA NextContract == ContractInv /\ [Next]_vars => ContractInv'
<1> SUFFICES ASSUME ContractInv, [Next]_vars PROVE ContractInv'
  OBVIOUS
<1>1. BuildInv'
  BY NextInv DEF ContractInv
<1>2. CASE tree = None /\ Cancel /\ UNCHANGED buildVars
  BY <1>1, <1>2, ContractQuiet DEF Cancel, buildVars
<1>3. ASSUME NEW w \in Workers, WorkerStep(w), UNCHANGED buildVars PROVE ContractInv'
  <2>1. CASE TakeTask(w)
    <3>1. PICK d \in queue : Drop(w, d) \/ ListFails(w, d) \/ Open(w, d)
      BY <2>1 DEF TakeTask
    <3>2. at[w] = None
      BY <2>1 DEF TakeTask
    <3> QED
      BY <1>3, <3>1, <3>2, DropKeeps, ListFailsKeeps, OpenKeeps
  <2>2. CASE ListStep(w)
    BY <1>3, <2>2, FindDirKeeps, SkipKeeps, SendKeeps DEF ListStep
  <2> QED
    BY <1>3, <2>1, <2>2 DEF WorkerStep
<1>4. CASE Receive
  BY <1>4, ReceiveKeeps
<1>5. CASE Finish
  BY <1>1, <1>5, ContractQuiet DEF Finish, walkVars
<1>6. CASE UNCHANGED vars
  BY <1>1, <1>6, ContractQuiet DEF vars, walkVars, buildVars
<1> QED
  BY <1>2, <1>3, <1>4, <1>5, <1>6 DEF Next, Returned

(* Following links, no canonical directory has two nodes, whichever        *)
(* threads reach it by whichever links, and in whatever order.             *)
THEOREM LinksEnteredOnce == Spec => []TargetsOnce
<1>1. ContractInv => TargetsOnce
  <2> SUFFICES ASSUME ContractInv, Follow, NEW i \in DOMAIN nodes, NEW j \in DOMAIN nodes,
                      Target[nodes[i].dir] = Target[nodes[j].dir]
               PROVE  i = j
    BY DEF TargetsOnce
  <2>1. nodes[i].dir \in Found /\ nodes[j].dir \in Found
    BY DEF Found
  <2>2. nodes[i].dir = nodes[j].dir
    BY <2>1 DEF ContractInv, TargetsApart
  <2> QED
    BY <2>2 DEF ContractInv, BuildInv, OneNodePerDir
<1> QED
  BY <1>1, InitContract, NextContract, PTL DEF Spec

(* The contract speaks of the same hierarchy. *)
LEMMA SameTree ==
  /\ Contract!Visible = Visible
  /\ \A d : Contract!Parent(d) = Parent(d)
BY DEF Contract!Visible, Contract!Depth, Contract!IsPrefix, Contract!Parent,
       Visible, Depth, IsPrefix, Parent

(* A batch that is received lists one more directory; a build that is      *)
(* over, and was not cut short, has listed all that were announced.        *)
LEMMA ContractStep ==
  ASSUME ContractInv, ~Follow, [Next]_vars
  PROVE  [Contract!Next]_<<Listed, Outcome>>
<1>1. CASE UNCHANGED <<nodes, tree>>
  BY <1>1 DEF Listed, Outcome
<1>2. CASE Receive
  <2>1. Listed' = Listed \cup {Head(chan).dir}
    BY <1>2, ReceiveStep DEF ContractInv
  <2>2. Head(chan).dir \in InChan /\ Head(chan).dir \notin Listed
    BY <1>2, HeadFacts DEF ContractInv, Receive
  <2>3. Head(chan).dir \in Visible
    BY <2>2 DEF ContractInv, OnlyVisible, Started
  <2>4. Outcome = "running" /\ Outcome' = Outcome
    BY <1>2 DEF Receive, Outcome
  <2>5. Contract!List
    BY <2>1, <2>2, <2>3, <2>4, SameTree DEF Contract!List
  <2> QED
    BY <2>5 DEF Contract!Next
<1>3. CASE Finish
  <2>1. /\ Outcome = "running" /\ nodes' = nodes /\ WalkOver /\ chan = <<>>
        /\ tree'.cancelled = cancelled
    BY <1>3 DEF Finish, Outcome
  <2>2. Listed' = Listed
    BY <2>1 DEF Listed
  <2>3. CASE tree' = None
    BY <2>1, <2>2, <2>3 DEF Outcome
  <2>4. CASE tree' # None /\ cancelled
    <3>1. Outcome' = "cut"
      BY <2>1, <2>4 DEF Outcome
    <3> QED
      BY <3>1, <2>1, <2>2 DEF Contract!Next, Contract!Cut
  <2>5. CASE tree' # None /\ ~cancelled
    <3>1. Outcome' = "whole"
      BY <2>1, <2>5 DEF Outcome
    <3>2. queue = {} /\ Started = Listed /\ \A c : ~ToCome(c)
      BY <2>1 DEF WalkOver, Started, InListing, InChan, ToCome
    <3>3. /\ Root \in Listed
          /\ \A c \in Visible \ {Root} : Parent(c) \in Listed \ Flaky => c \in Listed
      BY <2>5, <3>2 DEF ContractInv, NothingLost
    <3>4. Contract!Closed
      BY <3>3, SameTree DEF Contract!Closed
    <3> QED
      BY <3>1, <3>4, <2>1, <2>2 DEF Contract!Next, Contract!Whole
  <2> QED
    BY <2>3, <2>4, <2>5
<1> QED
  BY <1>1, <1>2, <1>3 DEF Next, Returned, vars, buildVars

(* Without links followed, what the threads, the channel and the arena     *)
(* make together is what ScanContract promises: directory by directory,    *)
(* none twice, none outside what was asked for, and when a build that was  *)
(* not cancelled returns, all of them.                                     *)
THEOREM BuildKeepsContract == ~Follow => (Spec => ImplementsContract)
<1> SUFFICES ASSUME ~Follow PROVE Spec => ImplementsContract
  OBVIOUS
<1>1. Init => Contract!Init
  <2> SUFFICES ASSUME Init PROVE Contract!Init
    OBVIOUS
  <2>1. tree = None /\ nodes = <<NewNode(Root, 0)>>
    BY DEF Init, BuildInit
  <2>2. Listed = {}
    BY <2>1 DEF Listed, NewNode
  <2> QED
    BY <2>1, <2>2 DEF Contract!Init, Outcome
<1>2. ContractInv /\ [Next]_vars => [Contract!Next]_<<Listed, Outcome>>
  BY ContractStep
<1> QED
  BY <1>1, <1>2, InitContract, NextContract, PTL DEF Spec, ImplementsContract, Contract!Spec, Contract!vars

-----------------------------------------------------------------------------
(* What holds of a directory and is handed down from each directory on the *)
(* way to its child, holds of everything below.                            *)
LEMMA AlongPath ==
  ASSUME NEW x \in Dirs, NEW d \in Dirs, IsPrefix(d, x), NEW S, d \in S,
         \A c \in Dirs \ {Root} :
           IsPrefix(d, Parent(c)) /\ IsPrefix(c, x) /\ Parent(c) \in S => c \in S
  PROVE  x \in S
<1> DEFINE n == Len(Path[x])
           l == Len(Path[d])
           G == {k \in 1..n : k < l \/ Path[x][k] \in S}
<1>1. /\ n \in Nat /\ n >= 1 /\ Path[x][n] = x /\ l \in 1..n /\ Path[x][l] = d
  BY PathFacts DEF IsPrefix
<1>2. ASSUME NEW m \in 1..n, m \notin G, \A j \in 1..(m - 1) : j \in G PROVE FALSE
  <2>1. m > l
    BY <1>1, <1>2
  <2> DEFINE c == Path[x][m]
  <2>2. m - 1 \in 1..(n - 1) /\ (m - 1) + 1 = m /\ m - 1 \in 1..(m - 1) /\ m - 1 >= l
    BY <1>1, <2>1
  <2>3. c \in Dirs \ {Root} /\ Parent(c) = Path[x][m - 1] /\ Parent(c) \in Dirs
    <3>1. Path[x][(m - 1) + 1] \in Dirs \ {Root} /\ Parent(Path[x][(m - 1) + 1]) = Path[x][m - 1]
      BY <2>2, ParentOnPath
    <3> QED
      BY <3>1, <2>2, ParentPath
  <2>4. Len(Path[c]) = m /\ IsPrefix(c, x)
    BY <1>1, <1>2, PathFacts DEF IsPrefix
  <2>5. IsPrefix(d, Parent(c))
    <3>1. /\ Len(Path[Path[x][m - 1]]) = m - 1
          /\ \A j \in 1..(m - 1) : Path[Path[x][m - 1]][j] = Path[x][j]
      BY <2>2, PathFacts
    <3>2. Path[Path[x][m - 1]][l] = d
      BY <3>1, <2>2, <1>1
    <3> QED
      BY <3>1, <3>2, <2>2, <2>3 DEF IsPrefix
  <2>6. Parent(c) \in S
    BY <1>2, <2>2, <2>3
  <2>7. c \in S
    BY <2>3, <2>4, <2>5, <2>6
  <2> QED
    BY <1>2, <2>7
<1>3. n \in G
  <2> SUFFICES ASSUME n \notin G PROVE FALSE
    OBVIOUS
  <2>1. \E i \in 1..n : i \notin G
    BY <1>1
  <2>2. PICK m \in 1..n : m \notin G /\ \A j \in 1..(m - 1) : j \in G
    <3> HIDE DEF G
    <3> QED
      BY <1>1, <2>1, FirstMissing
  <2> HIDE DEF G
  <2> QED
    BY <2>2, <1>2
<1> QED
  BY <1>1, <1>3

-----------------------------------------------------------------------------
(***************************************************************************)
(* The roll-up in finish.                                                  *)
(***************************************************************************)

(* What remains to be rolled up once node i is the last, and f[i] is what  *)
(* came of it.                                                             *)
IsRollUp(f, i, n, own) ==
  f = [j \in i..n |-> IF j = n THEN own ELSE RollInto(f[j + 1], j + 1)]

LEMMA RollUpExists ==
  ASSUME NEW n \in Nat, n >= 1, NEW own
  PROVE  \E f : IsRollUp(f, 1, n, own)
<1> DEFINE S == {i \in 1..n : \E f : IsRollUp(f, i, n, own)}
<1>1. n \in S
  <2> DEFINE f == [j \in n..n |-> own]
  <2>1. IsRollUp(f, n, n, own)
    BY DEF IsRollUp
  <2> QED
    BY <2>1
<1>2. ASSUME NEW i \in 1..n, i # n, i + 1 \in S PROVE i \in S
  <2>1. PICK g : IsRollUp(g, i + 1, n, own)
    BY <1>2
  <2> DEFINE f == [j \in i..n |-> IF j = i THEN RollInto(g[i + 1], i + 1) ELSE g[j]]
  <2>2. \A j \in (i + 1)..n : g[j] = IF j = n THEN own ELSE RollInto(g[j + 1], j + 1)
    BY <2>1 DEF IsRollUp
  <2>3. \A j \in (i + 1)..n : f[j] = g[j]
    BY <1>2
  <2>4. \A j \in i..n : f[j] = IF j = n THEN own ELSE RollInto(f[j + 1], j + 1)
    <3> SUFFICES ASSUME NEW j \in i..n
                 PROVE  f[j] = IF j = n THEN own ELSE RollInto(f[j + 1], j + 1)
      OBVIOUS
    <3>1. CASE j = i
      <4>1. f[j] = RollInto(g[i + 1], i + 1) /\ i + 1 \in (i + 1)..n
        BY <3>1, <1>2
      <4> HIDE DEF f
      <4> QED
        BY <4>1, <3>1, <2>3, <1>2
    <3>2. CASE j # i
      <4>1. j \in (i + 1)..n /\ (j # n => j + 1 \in (i + 1)..n)
        BY <3>2
      <4> HIDE DEF f
      <4> QED
        BY <4>1, <2>2, <2>3
    <3> QED
      BY <3>1, <3>2
  <2>5. f = [j \in i..n |-> f[j]]
    OBVIOUS
  <2> HIDE DEF f
  <2>6. IsRollUp(f, i, n, own)
    BY <2>4, <2>5 DEF IsRollUp
  <2> QED
    BY <2>6
<1> HIDE DEF S
<1>3. 1 \in S
  <2> SUFFICES ASSUME 1 \notin S PROVE FALSE
    OBVIOUS
  <2>0. \E i \in 1..n : i \notin S
    OBVIOUS
  <2>1. PICK m \in 1..n : m \notin S /\ \A j \in (m + 1)..n : j \in S
    BY <2>0, LastMissing
  <2>2. m # n /\ m + 1 \in (m + 1)..n
    BY <2>1, <1>1
  <2> QED
    BY <2>1, <2>2, <1>2
<1> QED
  BY <1>3 DEF S

(* The stages of the roll-up: all nodes above i have been rolled up in     *)
(* f[i].                                                                   *)
LEMMA RollUpStages ==
  ASSUME NEW n \in Nat, n = Len(nodes), n >= 1, NEW cut
  PROVE  \E f : /\ f[n] = OwnTotals(cut)
                /\ \A i \in 1..(n - 1) : f[i] = RollInto(f[i + 1], i + 1)
                /\ RollUp(cut) = f[1]
<1> DEFINE own == OwnTotals(cut)
           F == CHOOSE f : IsRollUp(f, 1, n, own)
<1>1. IsRollUp(F, 1, n, own)
  BY RollUpExists
<1>2. RollUp(cut) = F[1]
  BY DEF RollUp, IsRollUp
<1> HIDE DEF F, own
<1>3. \A i \in 1..n : F[i] = IF i = n THEN own ELSE RollInto(F[i + 1], i + 1)
  BY <1>1 DEF IsRollUp
<1>4. F[n] = own /\ \A i \in 1..(n - 1) : F[i] = RollInto(F[i + 1], i + 1)
  BY <1>3
<1> QED
  BY <1>2, <1>4 DEF own

(* The totals of a node, and those of n nodes. *)
Total == [bytes : Nat, dirs : Nat, complete : BOOLEAN]
Totals(n) == [1..n -> Total]

LEMMA TotalFields ==
  ASSUME NEW r \in Total
  PROVE  r.bytes \in Nat /\ r.dirs \in Nat /\ r.complete \in BOOLEAN
BY DEF Total

Updated(r, b, d, c) == [[[r EXCEPT !.bytes = b] EXCEPT !.dirs = d] EXCEPT !.complete = c]

LEMMA TotalUpdate ==
  ASSUME NEW r \in Total, NEW b \in Nat, NEW d \in Nat, NEW c \in BOOLEAN
  PROVE  /\ Updated(r, b, d, c) \in Total
         /\ Updated(r, b, d, c).bytes = b
         /\ Updated(r, b, d, c).dirs = d
         /\ Updated(r, b, d, c).complete = c
<1> DEFINE r1 == [bytes |-> b, dirs |-> r.dirs, complete |-> r.complete]
           r2 == [bytes |-> b, dirs |-> d, complete |-> r.complete]
           r3 == [bytes |-> b, dirs |-> d, complete |-> c]
<1>1. [r EXCEPT !.bytes = b] = r1
  BY DEF Total
<1>2. [r1 EXCEPT !.dirs = d] = r2
  OBVIOUS
<1>3. [r2 EXCEPT !.complete = c] = r3
  OBVIOUS
<1>4. r3 \in Total
  BY DEF Total
<1> HIDE DEF r1, r2, r3
<1>5. [[[r EXCEPT !.bytes = b] EXCEPT !.dirs = d] EXCEPT !.complete = c] = r3
  BY <1>1, <1>2, <1>3
<1> QED
  BY <1>4, <1>5 DEF r3, Updated

LEMMA RollIntoFields ==
  ASSUME NEW n \in Nat, NEW t \in Totals(n), NEW i \in 1..n, nodes[i].parent \in 1..(i - 1)
  PROVE  LET p == nodes[i].parent
             u == RollInto(t, i)
         IN /\ u \in Totals(n)
            /\ u[p].bytes = t[p].bytes + t[i].bytes
            /\ u[p].dirs = t[p].dirs + t[i].dirs + 1
            /\ u[p].complete = (t[p].complete /\ t[i].complete)
            /\ \A k \in 1..n : k # p => u[k] = t[k]
<1> DEFINE p == nodes[i].parent
           b == t[p].bytes + t[i].bytes
           d == t[p].dirs + t[i].dirs + 1
           c == t[p].complete /\ t[i].complete
           r == Updated(t[p], b, d, c)
<1>1. p \in 1..n /\ t \in [1..n -> Total]
  BY DEF Totals
<1>2. t[p] \in Total /\ t[i] \in Total
  BY <1>1
<1>3. t[p].bytes \in Nat /\ t[i].bytes \in Nat /\ t[p].dirs \in Nat /\ t[i].dirs \in Nat
  BY <1>2, TotalFields
<1>4. b \in Nat /\ d \in Nat
  BY <1>3
<1>5. c \in BOOLEAN
  OBVIOUS
<1>6. RollInto(t, i) = [t EXCEPT ![p] = [[[t[p] EXCEPT !.bytes = b] EXCEPT !.dirs = d] EXCEPT !.complete = c]]
  <2>1. RollInto(t, i) = [[[t EXCEPT ![p].bytes = @ + t[i].bytes]
                              EXCEPT ![p].dirs = @ + t[i].dirs + 1]
                              EXCEPT ![p].complete = @ /\ t[i].complete]
    BY DEF RollInto
  <2> DEFINE r1 == [t[p] EXCEPT !.bytes = b]
             r2 == [r1 EXCEPT !.dirs = d]
             r3 == [r2 EXCEPT !.complete = c]
             t1 == [t EXCEPT ![p].bytes = @ + t[i].bytes]
             t2 == [t1 EXCEPT ![p].dirs = @ + t[i].dirs + 1]
             t3 == [t2 EXCEPT ![p].complete = @ /\ t[i].complete]
  <2>2. r1.dirs = t[p].dirs /\ r1.complete = t[p].complete
    BY <1>2 DEF Total
  <2>3. r2.complete = t[p].complete
    <3> HIDE DEF d
    <3> QED
      BY <1>2 DEF Total
  <2>4. t1 = [t EXCEPT ![p] = r1]
    BY <1>1
  <2>5. t2 = [t EXCEPT ![p] = r2]
    <3> HIDE DEF r1, p, t1
    <3>1. t1[p] = r1
      BY <1>1, <2>4
    <3>2. t2 = [t1 EXCEPT ![p] = r2]
      BY <3>1, <2>2
    <3> HIDE DEF r2, t2
    <3> QED
      BY <3>2, <2>4, <1>1
  <2>6. t3 = [t EXCEPT ![p] = r3]
    <3> HIDE DEF r2, p, t2
    <3>1. t2[p] = r2
      BY <1>1, <2>5
    <3>2. t3 = [t2 EXCEPT ![p] = r3]
      BY <3>1, <2>3
    <3> HIDE DEF r3, t3
    <3> QED
      BY <3>2, <2>5, <1>1
  <2> QED
    BY <2>1, <2>6
<1> HIDE DEF b, d, c, p
<1>7. /\ RollInto(t, i) = [t EXCEPT ![p] = r]
      /\ r \in Total /\ r.bytes = b /\ r.dirs = d /\ r.complete = c
  <2>1. RollInto(t, i) = [t EXCEPT ![p] = r]
    BY <1>6 DEF Updated
  <2> QED
    BY <1>2, <1>4, <1>5, <2>1, TotalUpdate
<1> HIDE DEF r
<1>9. RollInto(t, i) \in Totals(n) /\ RollInto(t, i)[p] = r /\ \A k \in 1..n : k # p => RollInto(t, i)[k] = t[k]
  BY <1>1, <1>7 DEF Totals
<1> QED
  BY <1>7, <1>9 DEF b, d, c, p

-----------------------------------------------------------------------------
(***************************************************************************)
(* What the walk has let in, and what it has not.                          *)
(***************************************************************************)

(* Everything that was let in was met in the listing of its parent. *)
FoundFrom == \A x \in Found \ {Root} : x \in Dirs /\ Parent(x) \in Started \ Unreadable

(* Without a cancel, a sub-directory of a directory whose listing has      *)
(* begun is still to come, let in, or passed over for its target.          *)
NoneUnseen ==
  ~cancelled =>
    \A y \in Started \ (Unreadable \cup Flaky) : \A c \in Children(y) :
      ToCome(c) \/ c \in Found \/ (Follow /\ Target[c] \in seen)

(* A target that was seen is that of a directory that was let in. *)
SeenFound == ~cancelled /\ Follow => \A t \in seen : \E y \in Found : Target[y] = t

WalkInv == FoundFrom /\ NoneUnseen /\ SeenFound

(* A step that lets in the directories of D. *)
LetsIn(D) ==
  /\ Found' \subseteq Found \cup D
  /\ \A x \in D : x \in Dirs /\ Parent(x) \in Started \ Unreadable
  /\ Started \subseteq Started' /\ seen \subseteq seen'
  /\ cancelled => cancelled'
  /\ ~cancelled' =>
       /\ Found \subseteq Found'
       /\ Follow => \A t \in seen' \ seen : \E y \in Found' : Target[y] = t
       /\ \A c : ToCome(c) /\ Parent(c) \notin Flaky =>
            ToCome(c)' \/ c \in Found' \/ (Follow /\ Target[c] \in seen')
       /\ \A y \in Started' \ (Started \cup Unreadable) : \A c \in Children(y) : ToCome(c)'

LEMMA LetInKeeps ==
  ASSUME WalkInv, NEW D, LetsIn(D)
  PROVE  WalkInv'
<1>1. FoundFrom'
  BY DEF WalkInv, FoundFrom, LetsIn
<1>2. NoneUnseen'
  <2> SUFFICES ASSUME ~cancelled', NEW y \in Started' \ (Unreadable \cup Flaky), NEW c \in Children(y)
               PROVE  ToCome(c)' \/ c \in Found' \/ (Follow /\ Target[c] \in seen')
    BY DEF NoneUnseen
  <2>1. CASE y \in Started
    <3>1. ToCome(c) \/ c \in Found \/ (Follow /\ Target[c] \in seen)
      BY <2>1 DEF WalkInv, NoneUnseen, LetsIn
    <3>2. Parent(c) \notin Flaky
      BY DEF Children
    <3> QED
      BY <3>1, <3>2 DEF LetsIn
  <2>2. CASE y \notin Started
    BY <2>2 DEF LetsIn
  <2> QED
    BY <2>1, <2>2
<1>3. SeenFound'
  <2> SUFFICES ASSUME ~cancelled', Follow, NEW t \in seen' PROVE \E y \in Found' : Target[y] = t
    BY DEF SeenFound
  <2>1. CASE t \in seen
    <3>1. PICK y \in Found : Target[y] = t
      BY <2>1 DEF WalkInv, SeenFound, LetsIn
    <3> QED
      BY <3>1 DEF LetsIn
  <2>2. CASE t \notin seen
    BY <2>2 DEF LetsIn
  <2> QED
    BY <2>1, <2>2
<1> QED
  BY <1>1, <1>2, <1>3 DEF WalkInv

(* What a step must keep for nothing let in to be forgotten. *)
LEMMA FoundKept ==
  ASSUME queue \subseteq queue' \cup Started', Started \subseteq Started',
         Batched \subseteq Found', \A i \in DOMAIN nodes : nodes[i].dir \in Found'
  PROVE  Found \subseteq Found'
BY DEF Found

LEMMA QuietLetsIn ==
  ASSUME UNCHANGED <<queue, at, seen, chan, nodes>>, cancelled => cancelled'
  PROVE  LetsIn({})
<1>1. InListing' = InListing /\ InChan' = InChan /\ Listed' = Listed /\ Started' = Started
  BY DEF InListing, InChan, Listed, Started
<1>2. Batched' = Batched
  BY DEF Batched
<1>3. Found' = Found
  BY <1>1, <1>2 DEF Found
<1>4. \A c : ToCome(c) => ToCome(c)'
  BY DEF ToCome
<1> QED
  BY <1>1, <1>3, <1>4 DEF LetsIn

LEMMA DropLetsIn ==
  ASSUME ContractInv, NEW w \in Workers, NEW d \in queue, Drop(w, d), UNCHANGED buildVars
  PROVE  LetsIn({})
<1>1. Started' = Started /\ Batched' \subseteq Batched
  BY DropStep DEF ContractInv
<1>2. cancelled' /\ queue' \subseteq queue /\ seen' = seen /\ nodes' = nodes
  BY DEF Drop, buildVars
<1>3. Found' \subseteq Found
  BY <1>1, <1>2 DEF Found
<1> QED
  BY <1>1, <1>2, <1>3 DEF LetsIn

(* A batch at the end of the channel leaves the others where they are. *)
LEMMA SentBatch ==
  ASSUME NEW S, NEW s \in Seq(S), NEW b, NEW t, t = Append(s, b)
  PROVE  /\ \A i \in DOMAIN s : i \in DOMAIN t /\ t[i] = s[i]
         /\ Len(s) + 1 \in DOMAIN t /\ t[Len(s) + 1] = b
         /\ \A i \in DOMAIN t : t[i] = b \/ (i \in DOMAIN s /\ t[i] = s[i])
<1>1. DOMAIN s = 1..Len(s) /\ Len(s) \in Nat /\ DOMAIN t = 1..(Len(s) + 1)
  OBVIOUS
<1>2. t[Len(s) + 1] = b /\ \A i \in 1..Len(s) : t[i] = s[i]
  OBVIOUS
<1> QED
  BY <1>1, <1>2

LEMMA ListFailsLetsIn ==
  ASSUME ContractInv, NEW w \in Workers, NEW d \in queue, ListFails(w, d), UNCHANGED buildVars
  PROVE  LetsIn({})
<1>1. Started' = Started \cup {d} /\ Batched' \subseteq Batched
  BY ListFailsStep DEF ContractInv
<1>2. /\ d \in Unreadable /\ queue' = queue \ {d} /\ seen' = seen /\ nodes' = nodes
      /\ at' = at /\ cancelled' = cancelled
  BY DEF ListFails, buildVars
<1>3. \A i \in DOMAIN chan : i \in DOMAIN chan' /\ chan'[i] = chan[i]
  <2>1. PICK b : chan' = Append(chan, b)
    BY DEF ListFails
  <2>2. chan \in Seq(Batch)
    BY DEF ContractInv, BuildInv, TypeOK, WalkTypeOK
  <2> QED
    BY <2>1, <2>2, SentBatch
<1>4. Batched \subseteq Batched'
  BY <1>2, <1>3 DEF Batched
<1>5. Found' = Found
  BY <1>1, <1>2, <1>4 DEF Found
<1>6. \A c : ToCome(c) => ToCome(c)'
  BY <1>2 DEF ToCome
<1> QED
  BY <1>1, <1>2, <1>5, <1>6 DEF LetsIn

LEMMA OpenLetsIn ==
  ASSUME ContractInv, NEW w \in Workers, at[w] = None, NEW d \in queue,
         Open(w, d), UNCHANGED buildVars
  PROVE  LetsIn({})
<1>1. /\ Started' = Started \cup {d} /\ Batched' \subseteq Batched
      /\ at'[w] # None /\ at'[w].batch.dir = d /\ at'[w].todo = Children(d)
      /\ \A v \in Workers \ {w} : at'[v] = at[v]
  BY OpenStep DEF ContractInv
<1>2. /\ queue' = queue \ {d} /\ seen' = seen /\ nodes' = nodes
      /\ cancelled' = cancelled /\ chan' = chan
  BY DEF Open, buildVars
<1>3. Batched \subseteq Batched'
  BY <1>1, <1>2 DEF Batched
<1>4. Found' = Found
  BY <1>1, <1>2, <1>3 DEF Found
<1>5. \A c : ToCome(c) => ToCome(c)'
  BY <1>1 DEF ToCome
<1>6. \A c \in Children(d) : ToCome(c)'
  BY <1>1 DEF ToCome, Children
<1> QED
  BY <1>1, <1>2, <1>4, <1>5, <1>6 DEF LetsIn

LEMMA FindDirLetsIn ==
  ASSUME ContractInv, NEW w \in Workers, at[w] # None, FindDir(w), UNCHANGED buildVars
  PROVE  \E D : LetsIn(D)
<1> DEFINE d == at[w].batch.dir
<1>1. OnlyListing(w) /\ nodes' = nodes
  BY FindDirStep DEF ContractInv, buildVars
<1>2. PICK c \in at[w].todo :
        LET subs == IF Follow /\ Target[c] \in seen THEN {} ELSE {c}
        IN /\ at'[w].todo = at[w].todo \ {c}
           /\ at'[w].batch.subdirs = at[w].batch.subdirs \cup subs
           /\ seen' = IF Follow THEN seen \cup {Target[c]} ELSE seen
           /\ queue' = IF Depth(d) + 1 < MaxDepth THEN queue \cup subs ELSE queue
  BY FindDirStep DEF ContractInv
<1> DEFINE subs == IF Follow /\ Target[c] \in seen THEN {} ELSE {c}
<1>3. d \in Started \ Unreadable /\ c \in Dirs /\ Parent(c) = d
  BY ListingFacts
<1>4. /\ at'[w] # None /\ at'[w].batch.dir = d /\ \A v \in Workers \ {w} : at'[v] = at[v]
      /\ chan' = chan /\ cancelled' = cancelled /\ Started' = Started
  BY <1>1 DEF OnlyListing
<1>5. /\ at'[w].todo = at[w].todo \ {c}
      /\ at'[w].batch.subdirs = at[w].batch.subdirs \cup subs
      /\ queue \subseteq queue' /\ queue' \subseteq queue \cup subs
  BY <1>2
<1>6. /\ seen \subseteq seen' /\ seen' \subseteq seen \cup {Target[c]}
      /\ subs \subseteq {c} /\ (subs = {} => Follow /\ Target[c] \in seen)
  BY <1>2
<1> HIDE DEF d, subs
<1>7. Batched' = Batched \cup subs
  <2>1. Batched' \subseteq Batched \cup subs
    <3>1. \A v \in Workers : at'[v] # None =>
            at[v] # None /\ at'[v].batch.subdirs \subseteq at[v].batch.subdirs \cup subs
      BY <1>4, <1>5
    <3> QED
      BY <3>1, <1>4 DEF Batched
  <2>2. Batched \subseteq Batched'
    <3>1. \A v \in Workers : at[v] # None =>
            at'[v] # None /\ at[v].batch.subdirs \subseteq at'[v].batch.subdirs
      BY <1>4, <1>5
    <3> QED
      BY <3>1, <1>4 DEF Batched
  <2>3. subs \subseteq Batched'
    BY <1>4, <1>5 DEF Batched
  <2> QED
    BY <2>1, <2>2, <2>3
<1>8. Found' = Found \cup subs
  BY <1>7, <1>1, <1>4, <1>5 DEF Found
<1>9. ASSUME NEW x, ToCome(x), x # c PROVE ToCome(x)'
  <2>1. PICK v \in Workers : at[v] # None /\ at[v].batch.dir = Parent(x) /\ x \in at[v].todo
    BY <1>9 DEF ToCome
  <2>2. at'[v] # None /\ at'[v].batch.dir = Parent(x) /\ x \in at'[v].todo
    BY <2>1, <1>9, <1>4, <1>5 DEF d
  <2> QED
    BY <2>2 DEF ToCome
<1>10. c \in Found' \/ (Follow /\ Target[c] \in seen)
  BY <1>6, <1>8
<1>11. \A x \in subs : x \in Dirs /\ Parent(x) \in Started \ Unreadable
  BY <1>3, <1>6
<1>12. \A t \in seen' \ seen : \E y \in Found' : Target[y] = t
  BY <1>6, <1>8
<1>13. LetsIn(subs)
  BY <1>4, <1>6, <1>8, <1>9, <1>10, <1>11, <1>12 DEF LetsIn
<1> QED
  BY <1>13

LEMMA SkipLetsIn ==
  ASSUME ContractInv, NEW w \in Workers, at[w] # None, ReadFiles(w) \/ EntryFails(w),
         UNCHANGED buildVars
  PROVE  LetsIn({})
<1>1. /\ OnlyListing(w) /\ nodes' = nodes
      /\ at'[w].batch.subdirs = at[w].batch.subdirs
      /\ at'[w].todo = at[w].todo \/ at[w].batch.dir \in Flaky
      /\ UNCHANGED <<queue, seen>>
  BY ReadFilesStep, EntryFailsStep DEF ContractInv, buildVars
<1>2. /\ at'[w] # None /\ at'[w].batch.dir = at[w].batch.dir
      /\ \A v \in Workers \ {w} : at'[v] = at[v]
      /\ chan' = chan /\ cancelled' = cancelled /\ Started' = Started
  BY <1>1 DEF OnlyListing
<1>3. ASSUME NEW c, Parent(c) \notin Flaky, ToCome(c) PROVE ToCome(c)'
  BY <1>1, <1>2, <1>3 DEF ToCome
<1>4. Batched' = Batched
  BY <1>1, <1>2 DEF Batched
<1>5. Found' = Found
  BY <1>1, <1>2, <1>4 DEF Found
<1> QED
  BY <1>1, <1>2, <1>3, <1>5 DEF LetsIn

LEMMA SendLetsIn ==
  ASSUME ContractInv, NEW w \in Workers, at[w] # None, Send(w), UNCHANGED buildVars
  PROVE  LetsIn({})
<1>1. /\ nodes' = nodes /\ Started' = Started /\ Batched' \subseteq Batched
      /\ at'[w] = None /\ \A v \in Workers \ {w} : at'[v] = at[v]
      /\ UNCHANGED <<cancelled, queue, seen>>
  BY SendStep DEF ContractInv, buildVars
<1>2. cancelled \/ at[w].todo = {}
  BY DEF Send
<1>3. ASSUME NEW c, ~cancelled, ToCome(c) PROVE ToCome(c)'
  BY <1>1, <1>2, <1>3 DEF ToCome
<1>4. /\ \A i \in DOMAIN chan : i \in DOMAIN chan' /\ chan'[i] = chan[i]
      /\ \E i \in DOMAIN chan' : chan'[i] = at[w].batch
  <2>1. chan' = Append(chan, at[w].batch) /\ chan \in Seq(Batch)
    BY DEF Send, ContractInv, BuildInv, TypeOK, WalkTypeOK
  <2> QED
    BY <2>1, SentBatch
<1>5. Batched \subseteq Batched'
  <2>1. \A v \in Workers : at[v] # None => at[v].batch.subdirs \subseteq Batched'
    BY <1>1, <1>4 DEF Batched
  <2>2. \A i \in DOMAIN chan : chan[i].subdirs \subseteq Batched'
    BY <1>4 DEF Batched
  <2> QED
    BY <2>1, <2>2 DEF Batched
<1>6. Found' = Found
  BY <1>1, <1>5 DEF Found
<1> QED
  BY <1>1, <1>3, <1>6 DEF LetsIn

LEMMA ReceiveLetsIn ==
  ASSUME ContractInv, Receive
  PROVE  LetsIn({})
<1> DEFINE b == Head(chan)
<1>1. /\ Started' = Started /\ Batched' \subseteq Batched
      /\ UNCHANGED <<cancelled, queue, at, seen>> /\ chan # <<>> /\ Add(b) /\ chan' = Tail(chan)
  BY ReceiveStep DEF ContractInv, Receive
<1>2. /\ \A i \in DOMAIN nodes : \E j \in DOMAIN nodes' : nodes'[j].dir = nodes[i].dir
      /\ \A y \in b.subdirs : \E j \in DOMAIN nodes' : nodes'[j].dir = y
  BY <1>1, AddStage DEF ContractInv
<1>3. b = chan[1] /\ \A i \in DOMAIN chan : i = 1 \/ \E j \in DOMAIN chan' : chan'[j] = chan[i]
  <2>1. b = chan[1] /\ chan \in Seq(Batch) /\ DOMAIN chan = 1..Len(chan) /\ Len(chan) \in Nat
    BY <1>1, HeadFacts, TypeFacts DEF ContractInv, BuildInv
  <2>2. ASSUME NEW i \in DOMAIN chan, i # 1 PROVE i - 1 \in DOMAIN chan' /\ chan'[i - 1] = chan[i]
    BY <2>1, <2>2, <1>1
  <2> QED
    BY <2>1, <2>2
<1>4. \A i \in DOMAIN nodes : nodes[i].dir \in Found'
  BY <1>2 DEF Found
<1>5. Batched \subseteq Found'
  <2>1. \A v \in Workers : at[v] # None => at[v].batch.subdirs \subseteq Batched'
    BY <1>1 DEF Batched
  <2>2. \A i \in DOMAIN chan : i # 1 => chan[i].subdirs \subseteq Batched'
    BY <1>3 DEF Batched
  <2>3. chan[1].subdirs \subseteq Found'
    BY <1>2, <1>3 DEF Found
  <2>4. Batched' \subseteq Found'
    BY DEF Found
  <2> QED
    BY <2>1, <2>2, <2>3, <2>4 DEF Batched
<1>6. Found \subseteq Found'
  BY <1>1, <1>4, <1>5, FoundKept
<1>7. Found' \subseteq Found
  BY <1>1, ReceiveFinds
<1>8. \A c : ToCome(c) => ToCome(c)'
  BY <1>1 DEF ToCome
<1> QED
  BY <1>1, <1>6, <1>7, <1>8 DEF LetsIn

LEMMA InitWalk == Init => WalkInv
<1> SUFFICES ASSUME Init PROVE WalkInv
  OBVIOUS
<1>1. /\ queue = {Root} /\ at = [w \in Workers |-> None] /\ chan = <<>>
      /\ seen = (IF Follow THEN {Target[Root]} ELSE {}) /\ nodes = <<NewNode(Root, 0)>>
  BY DEF Init, WalkInit, BuildInit
<1>2. DOMAIN nodes = {1} /\ nodes[1].dir = Root /\ ~nodes[1].listed
  BY <1>1 DEF NewNode
<1>3. Started = {} /\ Batched = {}
  BY <1>1, <1>2 DEF InListing, InChan, Listed, Started, Batched
<1>4. Found = {Root}
  BY <1>1, <1>2, <1>3 DEF Found
<1> QED
  BY <1>1, <1>3, <1>4 DEF WalkInv, FoundFrom, NoneUnseen, SeenFound

LEMMA NextLetsIn ==
  ASSUME ContractInv, [Next]_vars
  PROVE  \E D : LetsIn(D)
<1>1. CASE tree = None /\ Cancel /\ UNCHANGED buildVars
  BY <1>1, QuietLetsIn DEF Cancel, buildVars
<1>2. ASSUME NEW w \in Workers, WorkerStep(w), UNCHANGED buildVars PROVE \E D : LetsIn(D)
  <2>1. CASE TakeTask(w)
    <3>1. PICK d \in queue : Drop(w, d) \/ ListFails(w, d) \/ Open(w, d)
      BY <2>1 DEF TakeTask
    <3>2. at[w] = None
      BY <2>1 DEF TakeTask
    <3> QED
      BY <1>2, <3>1, <3>2, DropLetsIn, ListFailsLetsIn, OpenLetsIn
  <2>2. CASE ListStep(w)
    BY <1>2, <2>2, FindDirLetsIn, SkipLetsIn, SendLetsIn DEF ListStep
  <2> QED
    BY <1>2, <2>1, <2>2 DEF WorkerStep
<1>3. CASE Receive
  BY <1>3, ReceiveLetsIn
<1>4. CASE Finish
  BY <1>4, QuietLetsIn DEF Finish, walkVars
<1>5. CASE UNCHANGED vars
  BY <1>5, QuietLetsIn DEF vars, walkVars, buildVars
<1> QED
  BY <1>1, <1>2, <1>3, <1>4, <1>5 DEF Next, Returned

-----------------------------------------------------------------------------
(***************************************************************************)
(* The bytes of a listing, on their way into the arena.                    *)
(***************************************************************************)

(* What may be known of the files of d: nothing or all of them, nothing of *)
(* what cannot be read, and all once a listing without a fault is whole.   *)
BytesOf(d, b, whole) ==
  /\ b \in {0, Bytes[d]}
  /\ d \in Unreadable => b = 0
  /\ whole /\ ~cancelled /\ d \notin Unreadable \cup Flaky => b = Bytes[d]

ListingBytes ==
  \A w \in Workers : at[w] # None =>
    /\ BytesOf(at[w].batch.dir, at[w].batch.bytes, ~at[w].files)
    /\ at[w].files => at[w].batch.bytes = 0

ChanBytes == \A i \in DOMAIN chan : BytesOf(chan[i].dir, chan[i].bytes, TRUE)

NodeBytes ==
  \A i \in DOMAIN nodes :
    IF nodes[i].listed THEN BytesOf(nodes[i].dir, nodes[i].bytes, TRUE) ELSE nodes[i].bytes = 0

BytesInv == ListingBytes /\ ChanBytes /\ NodeBytes

LEMMA QuietBytes ==
  ASSUME BytesInv, UNCHANGED <<at, chan, nodes>>, cancelled => cancelled'
  PROVE  BytesInv'
BY DEF BytesInv, ListingBytes, ChanBytes, NodeBytes, BytesOf

LEMMA TakeBytes ==
  ASSUME ContractInv, BytesInv, NEW w \in Workers, TakeTask(w), UNCHANGED buildVars
  PROVE  BytesInv'
<1>1. PICK d \in queue : Drop(w, d) \/ ListFails(w, d) \/ Open(w, d)
  BY DEF TakeTask
<1>2. at[w] = None /\ nodes' = nodes
  BY DEF TakeTask, buildVars
<1>3. CASE Drop(w, d)
  BY <1>2, <1>3, QuietBytes DEF Drop
<1>4. CASE ListFails(w, d)
  <2> DEFINE b == [EmptyBatch(d) EXCEPT !.skipped = 1]
  <2>1. b.dir = d /\ b.bytes = 0
    BY DEF EmptyBatch
  <2>2. /\ d \in Unreadable /\ at' = at /\ cancelled' = cancelled
        /\ chan' = Append(chan, b) /\ chan \in Seq(Batch)
    BY <1>4 DEF ListFails, ContractInv, BuildInv, TypeOK, WalkTypeOK
  <2> HIDE DEF b
  <2>3. \A i \in DOMAIN chan' : chan'[i] = b \/ (i \in DOMAIN chan /\ chan'[i] = chan[i])
    BY <2>2, SentBatch
  <2>4. ChanBytes'
    BY <2>1, <2>2, <2>3 DEF BytesInv, ChanBytes, BytesOf
  <2>5. ListingBytes' /\ NodeBytes'
    BY <2>2, <1>2 DEF BytesInv, ListingBytes, NodeBytes, BytesOf
  <2> QED
    BY <2>4, <2>5 DEF BytesInv
<1>5. CASE Open(w, d)
  <2>1. /\ at'[w].files = TRUE /\ at'[w].batch.bytes = 0
        /\ \A v \in Workers \ {w} : at'[v] = at[v]
    BY <1>2, <1>5, OpenStep DEF ContractInv
  <2>2. cancelled' = cancelled /\ chan' = chan
    BY <1>5 DEF Open
  <2>3. ListingBytes'
    BY <2>1, <2>2 DEF BytesInv, ListingBytes, BytesOf
  <2>4. ChanBytes' /\ NodeBytes'
    BY <2>2, <1>2 DEF BytesInv, ChanBytes, NodeBytes, BytesOf
  <2> QED
    BY <2>3, <2>4 DEF BytesInv
<1> QED
  BY <1>1, <1>3, <1>4, <1>5

LEMMA ListBytes ==
  ASSUME ContractInv, BytesInv, NEW w \in Workers, ListStep(w), UNCHANGED buildVars
  PROVE  BytesInv'
<1>1. at[w] # None /\ nodes' = nodes
  BY DEF ListStep, buildVars
<1>2. at[w].batch.dir \notin Unreadable /\ at[w].files \in BOOLEAN
  BY <1>1, ListingFacts, TypeFacts DEF ContractInv, BuildInv
<1>3. CASE Send(w)
  <2>1. /\ chan' = Append(chan, at[w].batch) /\ chan \in Seq(Batch)
        /\ ~at[w].files \/ cancelled
    BY <1>3 DEF Send, ContractInv, BuildInv, TypeOK, WalkTypeOK
  <2>2. /\ at'[w] = None /\ \A v \in Workers \ {w} : at'[v] = at[v]
        /\ cancelled' = cancelled
    BY <1>1, <1>3, SendStep DEF ContractInv
  <2>3. \A i \in DOMAIN chan' : chan'[i] = at[w].batch \/ (i \in DOMAIN chan /\ chan'[i] = chan[i])
    BY <2>1, SentBatch
  <2>4. BytesOf(at[w].batch.dir, at[w].batch.bytes, TRUE)
    BY <1>1, <2>1 DEF BytesInv, ListingBytes, BytesOf
  <2>5. ChanBytes'
    BY <2>2, <2>3, <2>4 DEF BytesInv, ChanBytes, BytesOf
  <2>6. ListingBytes' /\ NodeBytes'
    BY <2>2, <1>1 DEF BytesInv, ListingBytes, NodeBytes, BytesOf
  <2> QED
    BY <2>5, <2>6 DEF BytesInv
<1>4. CASE FindDir(w) \/ ReadFiles(w) \/ EntryFails(w)
  <2>1. OnlyListing(w)
    BY <1>1, <1>4, FindDirStep, ReadFilesStep, EntryFailsStep DEF ContractInv
  <2>2. \/ at'[w].files = at[w].files /\ at'[w].batch.bytes = at[w].batch.bytes
        \/ at'[w].files = FALSE /\ at'[w].batch.bytes = Bytes[at[w].batch.dir]
        \/ /\ at[w].batch.dir \in Flaky /\ at'[w].batch.bytes = at[w].batch.bytes
           /\ at'[w].files => at[w].files
    BY <1>1, <1>4, FindDirStep, ReadFilesStep, EntryFailsStep DEF ContractInv
  <2>3. /\ at'[w] # None /\ at'[w].batch.dir = at[w].batch.dir
        /\ \A v \in Workers \ {w} : at'[v] = at[v]
        /\ chan' = chan /\ cancelled' = cancelled
    BY <2>1 DEF OnlyListing
  <2>4. /\ BytesOf(at[w].batch.dir, at[w].batch.bytes, ~at[w].files)
        /\ at[w].files => at[w].batch.bytes = 0
    BY <1>1 DEF BytesInv, ListingBytes
  <2>5. /\ BytesOf(at'[w].batch.dir, at'[w].batch.bytes, ~at'[w].files)
        /\ at'[w].files => at'[w].batch.bytes = 0
    BY <2>2, <2>3, <2>4, <1>2 DEF BytesOf
  <2>6. ListingBytes'
    BY <2>3, <2>5 DEF BytesInv, ListingBytes, BytesOf
  <2>7. ChanBytes' /\ NodeBytes'
    BY <2>3, <1>1 DEF BytesInv, ChanBytes, NodeBytes, BytesOf
  <2> QED
    BY <2>6, <2>7 DEF BytesInv
<1> QED
  BY <1>3, <1>4 DEF ListStep

LEMMA ReceiveBytes ==
  ASSUME ContractInv, BytesInv, Receive
  PROVE  BytesInv'
<1>1. /\ chan # <<>> /\ Add(Head(chan)) /\ chan' = Tail(chan)
      /\ at' = at /\ cancelled' = cancelled
  BY DEF Receive
<1>2. /\ Head(chan) = chan[1] /\ 1 \in DOMAIN chan /\ chan \in Seq(Batch)
  BY <1>1, HeadFacts, TypeFacts DEF ContractInv, BuildInv
<1>3. \A i \in DOMAIN nodes : ~nodes[i].listed => nodes[i].bytes = 0
  BY DEF BytesInv, NodeBytes
<1>4. \A j \in DOMAIN nodes' :
        \/ j \in DOMAIN nodes /\ nodes'[j] = nodes[j]
        \/ ~nodes'[j].listed /\ nodes'[j].bytes = 0
        \/ nodes'[j].listed /\ nodes'[j].dir = chan[1].dir /\ nodes'[j].bytes = chan[1].bytes
  BY <1>1, <1>2, <1>3, AddStage DEF ContractInv
<1>5. NodeBytes'
  BY <1>1, <1>2, <1>4 DEF BytesInv, NodeBytes, ChanBytes, BytesOf
<1>6. \A i \in DOMAIN chan' : i + 1 \in DOMAIN chan /\ chan'[i] = chan[i + 1]
  BY <1>1, <1>2
<1>7. ChanBytes'
  BY <1>1, <1>6 DEF BytesInv, ChanBytes, BytesOf
<1>8. ListingBytes'
  BY <1>1 DEF BytesInv, ListingBytes, BytesOf
<1> QED
  BY <1>5, <1>7, <1>8 DEF BytesInv

(* A tree is computed from an arena that no longer changes. *)
TreeOK ==
  tree # None =>
    /\ WalkOver /\ chan = <<>>
    /\ tree = [cancelled |-> cancelled, totals |-> RollUp(cancelled)]

TotalsInv == ContractInv /\ WalkInv /\ BytesInv /\ TreeOK

LEMMA InitTotals == Init => TotalsInv
<1> SUFFICES ASSUME Init PROVE TotalsInv
  OBVIOUS
<1>1. ContractInv /\ WalkInv
  BY InitContract, InitWalk
<1>2. /\ at = [w \in Workers |-> None] /\ chan = <<>> /\ nodes = <<NewNode(Root, 0)>> /\ tree = None
  BY DEF Init, WalkInit, BuildInit
<1>3. DOMAIN nodes = {1} /\ ~nodes[1].listed /\ nodes[1].bytes = 0
  <2>1. DOMAIN nodes = {1} /\ nodes[1] = NewNode(Root, 0)
    BY <1>2
  <2> QED
    BY <2>1 DEF NewNode
<1>4. ListingBytes /\ ChanBytes /\ NodeBytes
  <2>1. ListingBytes
    BY <1>2 DEF ListingBytes
  <2>2. DOMAIN chan = {}
    BY <1>2
  <2>3. ChanBytes
    BY <2>2 DEF ChanBytes
  <2>4. NodeBytes
    BY <1>3 DEF NodeBytes
  <2> QED
    BY <2>1, <2>3, <2>4
<1> QED
  BY <1>1, <1>2, <1>4 DEF TotalsInv, BytesInv, TreeOK

LEMMA NextTotals == TotalsInv /\ [Next]_vars => TotalsInv'
<1> SUFFICES ASSUME TotalsInv, [Next]_vars PROVE TotalsInv'
  OBVIOUS
<1>1. ContractInv'
  BY NextContract DEF TotalsInv
<1>2. WalkInv'
  BY NextLetsIn, LetInKeeps DEF TotalsInv
<1>3. BytesInv'
  <2>1. CASE tree = None /\ Cancel /\ UNCHANGED buildVars
    BY <2>1, QuietBytes DEF TotalsInv, Cancel, buildVars
  <2>2. ASSUME NEW w \in Workers, WorkerStep(w), UNCHANGED buildVars PROVE BytesInv'
    BY <2>2, TakeBytes, ListBytes DEF TotalsInv, WorkerStep
  <2>3. CASE Receive
    BY <2>3, ReceiveBytes DEF TotalsInv
  <2>4. CASE Finish
    BY <2>4, QuietBytes DEF TotalsInv, Finish, walkVars
  <2>5. CASE UNCHANGED vars
    BY <2>5, QuietBytes DEF TotalsInv, vars, walkVars, buildVars
  <2> QED
    BY <2>1, <2>2, <2>3, <2>4, <2>5 DEF Next, Returned
<1>4. TreeOK'
  <2>1. CASE tree # None
    <3>1. WalkOver /\ chan = <<>>
      BY <2>1 DEF TotalsInv, TreeOK
    <3>2. ASSUME NEW w \in Workers, WorkerStep(w) PROVE FALSE
      BY <3>1, <3>2 DEF WorkerStep, TakeTask, ListStep, WalkOver
    <3>3. UNCHANGED vars
      BY <2>1, <3>1, <3>2 DEF Next, Receive, Finish, Returned
    <3>4. UNCHANGED <<tree, cancelled, queue, at, chan, nodes>>
      BY <3>3 DEF vars, walkVars, buildVars
    <3>5. RollUp(cancelled)' = RollUp(cancelled)
      BY <3>4 DEF RollUp, OwnTotals, RollInto
    <3> QED
      BY <3>4, <3>5 DEF TotalsInv, TreeOK, WalkOver
  <2>2. CASE tree = None /\ Finish
    <3>1. /\ WalkOver /\ chan = <<>> /\ tree' = [cancelled |-> cancelled, totals |-> RollUp(cancelled)]
          /\ UNCHANGED <<cancelled, queue, at, chan, nodes>>
      BY <2>2 DEF Finish, walkVars
    <3>3. nodes' = nodes /\ cancelled' = cancelled
      BY <3>1
    <3>2. RollUp(cancelled)' = RollUp(cancelled)
      BY <3>3 DEF RollUp, OwnTotals, RollInto
    <3> QED
      BY <3>1, <3>2 DEF TreeOK, WalkOver
  <2>3. CASE tree = None /\ ~Finish
    <3>1. tree' = None
      BY <2>3 DEF Next, Receive, Returned, vars, buildVars
    <3> QED
      BY <3>1 DEF TreeOK
  <2> QED
    BY <2>1, <2>2, <2>3
<1> QED
  BY <1>1, <1>2, <1>3, <1>4 DEF TotalsInv

-----------------------------------------------------------------------------
(***************************************************************************)
(* What the roll-up adds up.                                               *)
(***************************************************************************)
NodeDirs == {nodes[i].dir : i \in DOMAIN nodes}

NodeAt(x) == CHOOSE i \in DOMAIN nodes : nodes[i].dir = x

(* The bytes the arena has for a directory. *)
Weight == [x \in NodeDirs |-> nodes[NodeAt(x)].bytes]

(* The directories with a node in the subtree of node j. *)
Under(j) == {x \in NodeDirs : IsPrefix(nodes[j].dir, x)}

(* Those whose own totals are in the totals of node j when all nodes above *)
(* k have been rolled up.                                                  *)
Rolled(k, j) ==
  {nodes[j].dir} \cup
    {x \in NodeDirs : \E c \in (k + 1)..Len(nodes) :
                        nodes[c].parent = j /\ IsPrefix(nodes[c].dir, x)}

LEMMA PrefixFacts ==
  ASSUME NEW x \in Dirs, NEW a \in Dirs
  PROVE  /\ IsPrefix(x, x)
         /\ IsPrefix(a, x) /\ IsPrefix(x, a) => a = x
         /\ IsPrefix(a, x) => \A b \in Dirs : /\ IsPrefix(b, a) => IsPrefix(b, x)
                                              /\ IsPrefix(b, x) /\ Len(Path[b]) = Len(Path[a]) => b = a
<1>1. /\ Len(Path[x]) \in Nat /\ Path[x][Len(Path[x])] = x
      /\ Len(Path[a]) \in Nat /\ Len(Path[a]) >= 1 /\ Path[a][Len(Path[a])] = a
  BY PathFacts
<1>2. ASSUME IsPrefix(a, x), NEW b \in Dirs, IsPrefix(b, a) PROVE IsPrefix(b, x)
  <2>1. Len(Path[b]) \in Nat /\ Len(Path[b]) >= 1
    BY PathFacts
  <2>2. Len(Path[a]) \in 1..Len(Path[x]) /\ Path[x][Len(Path[a])] = a
    BY <1>1, <1>2 DEF IsPrefix
  <2>3. Len(Path[b]) \in 1..Len(Path[a]) /\ Path[a][Len(Path[b])] = b
    BY <1>1, <1>2, <2>1 DEF IsPrefix
  <2>4. Path[x][Len(Path[b])] = b
    BY <2>2, <2>3, PathFacts
  <2> QED
    BY <1>1, <2>1, <2>2, <2>3, <2>4 DEF IsPrefix
<1> QED
  BY <1>1, <1>2 DEF IsPrefix

(* What the invariant says of the arena. *)
LEMMA ArenaFacts ==
  ASSUME BuildInv
  PROVE  /\ DOMAIN nodes = 1..Len(nodes) /\ Len(nodes) \in Nat /\ Len(nodes) >= 1
         /\ nodes[1].dir = Root
         /\ \A i \in 1..Len(nodes) :
              /\ nodes[i].dir \in Dirs /\ nodes[i].dir \in NodeDirs
              /\ nodes[i].listed \in BOOLEAN /\ nodes[i].bytes \in Nat
              /\ NodeAt(nodes[i].dir) = i
              /\ nodes[i].dir \in Listed <=> nodes[i].listed
              /\ i # 1 => /\ nodes[i].parent \in 1..(i - 1) /\ nodes[i].dir # Root
                          /\ nodes[nodes[i].parent].dir = Parent(nodes[i].dir)
<1>1. DOMAIN nodes = 1..Len(nodes) /\ Len(nodes) \in Nat /\ \A i \in DOMAIN nodes : nodes[i] \in Node
  BY TypeFacts DEF BuildInv
<1>2. Len(nodes) >= 1 /\ nodes[1].dir = Root
  BY <1>1 DEF BuildInv, ParentBeforeChild
<1>3. ASSUME NEW i \in 1..Len(nodes)
      PROVE  /\ nodes[i].dir \in Dirs /\ nodes[i].listed \in BOOLEAN /\ nodes[i].bytes \in Nat
  BY <1>1 DEF Node
<1>4. ASSUME NEW i \in 1..Len(nodes) PROVE NodeAt(nodes[i].dir) = i
  BY <1>1 DEF NodeAt, BuildInv, OneNodePerDir
<1>5. ASSUME NEW i \in 1..Len(nodes) PROVE nodes[i].dir \in Listed <=> nodes[i].listed
  BY <1>1 DEF Listed, BuildInv, OneNodePerDir
<1>6. ASSUME NEW i \in 1..Len(nodes), i # 1
      PROVE  /\ nodes[i].parent \in 1..(i - 1) /\ nodes[i].dir # Root
             /\ nodes[nodes[i].parent].dir = Parent(nodes[i].dir)
  BY <1>1, <1>6 DEF BuildInv, ParentBeforeChild
<1>7. ASSUME NEW i \in 1..Len(nodes) PROVE nodes[i].dir \in NodeDirs
  BY <1>1 DEF NodeDirs
<1> QED
  BY <1>1, <1>2, <1>3, <1>4, <1>5, <1>6, <1>7

(* Each directory has its weight, and there are finitely many. *)
LEMMA WeightFacts ==
  ASSUME BuildInv
  PROVE  /\ NodeDirs \subseteq Dirs /\ IsFiniteSet(NodeDirs)
         /\ \A x \in NodeDirs : Weight[x] \in Nat
         /\ \A i \in 1..Len(nodes) : Weight[nodes[i].dir] = nodes[i].bytes
<1>1. NodeDirs \subseteq Dirs
  BY ArenaFacts DEF NodeDirs
<1>2. IsFiniteSet(NodeDirs)
  BY <1>1, ScanAssumption, FS_Subset
<1>3. \A i \in 1..Len(nodes) : Weight[nodes[i].dir] = nodes[i].bytes
  BY ArenaFacts DEF Weight
<1>4. ASSUME NEW x \in NodeDirs PROVE Weight[x] \in Nat
  <2>1. PICK i \in 1..Len(nodes) : x = nodes[i].dir
    BY ArenaFacts DEF NodeDirs
  <2> QED
    BY <2>1, <1>3, ArenaFacts
<1> QED
  BY <1>1, <1>2, <1>3, <1>4

(* What is below node j, and not j itself, is below one of its children. *)
LEMMA UnderChild ==
  ASSUME BuildInv, NEW j \in 1..Len(nodes), NEW x \in Under(j), x # nodes[j].dir
  PROVE  \E c \in 1..Len(nodes) : nodes[c].parent = j /\ IsPrefix(nodes[c].dir, x)
<1> DEFINE n == Len(nodes)
           Fine(i) == IsPrefix(nodes[j].dir, nodes[i].dir) /\ nodes[i].dir # nodes[j].dir =>
                        \E c \in 1..n : nodes[c].parent = j /\ IsPrefix(nodes[c].dir, nodes[i].dir)
           S == {i \in 1..n : Fine(i)}
<1>1. ASSUME NEW i \in 1..n, \A k \in 1..(i - 1) : Fine(k) PROVE Fine(i)
  <2> SUFFICES ASSUME IsPrefix(nodes[j].dir, nodes[i].dir), nodes[i].dir # nodes[j].dir
               PROVE  \E c \in 1..n : nodes[c].parent = j /\ IsPrefix(nodes[c].dir, nodes[i].dir)
    OBVIOUS
  <2> DEFINE d == nodes[i].dir
             p == nodes[i].parent
  <2>1. d \in Dirs /\ nodes[j].dir \in Dirs
    BY ArenaFacts
  <2>2. i # 1
    BY <2>1, ArenaFacts, RootOnTop
  <2>3. p \in 1..(i - 1) /\ p \in 1..n /\ d # Root /\ nodes[p].dir = Parent(d)
    BY <2>2, ArenaFacts
  <2>4. IsPrefix(nodes[j].dir, nodes[p].dir)
    BY <2>1, <2>3, PrefixOfChild
  <2>5. IsPrefix(d, d) /\ \A b \in Dirs : IsPrefix(b, nodes[p].dir) => IsPrefix(b, d)
    BY <2>1, <2>3, PrefixOfChild, PrefixFacts
  <2>6. CASE nodes[p].dir = nodes[j].dir
    <3>1. p = j
      BY <2>3, <2>6, ArenaFacts
    <3> QED
      BY <2>5, <3>1
  <2>7. CASE nodes[p].dir # nodes[j].dir
    <3>1. PICK c \in 1..n : nodes[c].parent = j /\ IsPrefix(nodes[c].dir, nodes[p].dir)
      BY <2>3, <2>4, <2>7, <1>1
    <3> QED
      BY <3>1, <2>5, ArenaFacts
  <2> QED
    BY <2>6, <2>7
<1> HIDE DEF Fine
<1>2. ASSUME \E i \in 1..n : i \notin S PROVE FALSE
  <2>1. PICK m \in 1..n : m \notin S /\ \A k \in 1..(m - 1) : k \in S
    <3> HIDE DEF S
    <3>1. n \in Nat
      BY ArenaFacts
    <3> QED
      BY <1>2, <3>1, FirstMissing
  <2> QED
    BY <2>1, <1>1
<1>3. PICK i \in 1..n : x = nodes[i].dir
  BY ArenaFacts DEF Under, NodeDirs
<1>4. Fine(i)
  BY <1>2
<1> QED
  BY <1>3, <1>4 DEF Fine, Under

(* Two children of a node have nothing in common, and neither the node. *)
LEMMA ChildrenApart ==
  ASSUME BuildInv, NEW c \in 1..Len(nodes), NEW e \in 1..Len(nodes), c # 1, e # 1,
         nodes[e].parent = nodes[c].parent, NEW x \in Dirs,
         IsPrefix(nodes[c].dir, x)
  PROVE  /\ x # nodes[nodes[c].parent].dir
         /\ IsPrefix(nodes[e].dir, x) => e = c
<1> DEFINE d == nodes[c].dir
           g == nodes[e].dir
           q == nodes[nodes[c].parent].dir
<1>1. d \in Dirs /\ g \in Dirs /\ d # Root /\ g # Root /\ q = Parent(d) /\ q = Parent(g)
  BY ArenaFacts
<1>2. /\ Len(Path[d]) \in Nat /\ Len(Path[q]) \in Nat
      /\ Len(Path[q]) = Len(Path[d]) - 1 /\ Len(Path[q]) = Len(Path[g]) - 1
      /\ Len(Path[g]) \in Nat
  <2>1. Len(Path[d]) \in Nat /\ Len(Path[d]) >= 2 /\ Len(Path[Parent(d)]) = Len(Path[d]) - 1
    BY <1>1, ParentPath
  <2>2. Len(Path[g]) \in Nat /\ Len(Path[g]) >= 2 /\ Len(Path[Parent(g)]) = Len(Path[g]) - 1
    BY <1>1, ParentPath
  <2> HIDE DEF d, g, q
  <2> QED
    BY <1>1, <2>1, <2>2
<1>3. x # q
  BY <1>2 DEF IsPrefix
<1>4. IsPrefix(g, x) => g = d
  BY <1>1, <1>2, PrefixFacts
<1>5. g = d => e = c
  BY ArenaFacts
<1> QED
  BY <1>3, <1>4, <1>5

(* Nothing is rolled up at first. *)
LEMMA RolledNone ==
  ASSUME BuildInv, NEW j \in 1..Len(nodes)
  PROVE  Rolled(Len(nodes), j) = {nodes[j].dir}
BY ArenaFacts DEF Rolled

(* A node whose children are all rolled up has its whole subtree. *)
LEMMA RolledAll ==
  ASSUME BuildInv, NEW k \in Nat, NEW j \in 1..Len(nodes),
         \A c \in 1..Len(nodes) : c # 1 /\ nodes[c].parent = j => c > k
  PROVE  Rolled(k, j) = Under(j)
<1>1. nodes[j].dir \in Dirs /\ nodes[j].dir \in NodeDirs /\ IsPrefix(nodes[j].dir, nodes[j].dir)
  BY ArenaFacts, PrefixFacts
<1>2. ASSUME NEW x \in Rolled(k, j) PROVE x \in Under(j)
  <2>1. CASE x = nodes[j].dir
    BY <2>1, <1>1 DEF Under
  <2>2. CASE x # nodes[j].dir
    <3>1. PICK c \in (k + 1)..Len(nodes) : nodes[c].parent = j /\ IsPrefix(nodes[c].dir, x)
      BY <1>2, <2>2 DEF Rolled
    <3>2. c \in 1..Len(nodes) /\ c # 1 /\ x \in NodeDirs
      <4>1. c \in 1..Len(nodes) /\ nodes[1].parent = 0
        BY <3>1, ArenaFacts DEF BuildInv, ParentBeforeChild
      <4> QED
        BY <4>1, <3>1, <1>2, <2>2 DEF Rolled
    <3>3. nodes[c].dir \in Dirs /\ nodes[c].dir # Root /\ nodes[j].dir = Parent(nodes[c].dir)
      BY <3>1, <3>2, ArenaFacts
    <3>4. IsPrefix(nodes[j].dir, nodes[c].dir)
      BY <3>3, <1>1, PrefixOfChild
    <3>5. x \in Dirs
      BY <3>2, WeightFacts
    <3>6. IsPrefix(nodes[j].dir, x)
      BY <3>1, <3>3, <3>4, <3>5, <1>1, PrefixFacts
    <3> QED
      BY <3>2, <3>6 DEF Under
  <2> QED
    BY <2>1, <2>2
<1>3. ASSUME NEW x \in Under(j) PROVE x \in Rolled(k, j)
  <2>1. CASE x = nodes[j].dir
    BY <2>1 DEF Rolled
  <2>2. CASE x # nodes[j].dir
    <3>1. PICK c \in 1..Len(nodes) : nodes[c].parent = j /\ IsPrefix(nodes[c].dir, x)
      BY <1>3, <2>2, UnderChild
    <3>2. c # 1
      BY <3>1 DEF BuildInv, ParentBeforeChild
    <3>3. c \in (k + 1)..Len(nodes)
      BY <3>1, <3>2, ArenaFacts
    <3> QED
      BY <3>1, <3>3, <1>3 DEF Rolled, Under
  <2> QED
    BY <2>1, <2>2
<1> QED
  BY <1>2, <1>3

(* Rolling up one more node adds its subtree to what its parent has, which *)
(* had nothing of it; the other nodes keep what they have.                 *)
LEMMA RolledOne ==
  ASSUME BuildInv, NEW k \in 1..(Len(nodes) - 1), NEW j \in 1..Len(nodes)
  PROVE  LET c == k + 1
             p == nodes[c].parent
         IN /\ Rolled(k, p) = Rolled(c, p) \cup Under(c)
            /\ Rolled(c, p) \cap Under(c) = {}
            /\ j # p => Rolled(k, j) = Rolled(c, j)
<1> DEFINE n == Len(nodes)
           c == k + 1
           p == nodes[c].parent
<1>1. /\ n \in Nat /\ c \in 2..n /\ p \in 1..k /\ p \in 1..n
      /\ (k + 1)..n = {c} \cup ((c + 1)..n)
  BY ArenaFacts
<1> HIDE DEF n, c
<1>2. ASSUME NEW i \in 1..n
      PROVE  Rolled(k, i) = Rolled(c, i) \cup (IF i = p THEN Under(c) ELSE {})
  BY <1>1 DEF Rolled, Under, n
<1>3. Rolled(c, p) \cap Under(c) = {}
  <2> SUFFICES ASSUME NEW x \in Rolled(c, p), x \in Under(c) PROVE FALSE
    OBVIOUS
  <2>1. x \in NodeDirs /\ x \in Dirs /\ IsPrefix(nodes[c].dir, x)
    BY WeightFacts DEF Under
  <2>2. c \in 1..n /\ c # 1
    BY <1>1
  <2>3. x # nodes[p].dir
    BY <2>1, <2>2, ChildrenApart DEF n
  <2>4. PICK e \in (c + 1)..n : nodes[e].parent = p /\ IsPrefix(nodes[e].dir, x)
    BY <2>3 DEF Rolled, n
  <2>5. e \in 1..n /\ e # 1 /\ e # c
    BY <1>1, <2>4
  <2> QED
    BY <2>1, <2>2, <2>4, <2>5, ChildrenApart DEF n
<1> QED
  BY <1>1, <1>2, <1>3 DEF n, c

(* t is what the totals have to be when all nodes above k are rolled up. *)
StageOK(t, k, cut) ==
  /\ t \in Totals(Len(nodes))
  /\ \A j \in 1..Len(nodes) :
       /\ t[j].bytes = Sum(Weight, Rolled(k, j))
       /\ t[j].dirs = Cardinality(Rolled(k, j)) - 1
       /\ t[j].complete <=> ~cut /\ Rolled(k, j) \subseteq Listed

LEMMA RolledFacts ==
  ASSUME BuildInv, NEW k, NEW j \in 1..Len(nodes)
  PROVE  /\ Rolled(k, j) \subseteq NodeDirs /\ IsFiniteSet(Rolled(k, j))
         /\ Cardinality(Rolled(k, j)) \in Nat /\ Cardinality(Rolled(k, j)) >= 1
         /\ Under(j) \subseteq NodeDirs /\ IsFiniteSet(Under(j))
<1>1. Rolled(k, j) \subseteq NodeDirs /\ Under(j) \subseteq NodeDirs
  BY ArenaFacts DEF Rolled, Under
<1>2. IsFiniteSet(Rolled(k, j)) /\ IsFiniteSet(Under(j))
  BY <1>1, WeightFacts, FS_Subset
<1>3. nodes[j].dir \in Rolled(k, j)
  BY DEF Rolled
<1> HIDE DEF Rolled
<1>4. Cardinality(Rolled(k, j)) \in Nat /\ Cardinality(Rolled(k, j)) # 0
  BY <1>2, <1>3, FS_CardinalityType, FS_EmptySet
<1> QED
  BY <1>1, <1>2, <1>4

LEMMA StageFirst ==
  ASSUME BuildInv, NEW cut \in BOOLEAN
  PROVE  StageOK(OwnTotals(cut), Len(nodes), cut)
<1> DEFINE n == Len(nodes)
           t == OwnTotals(cut)
<1>1. /\ DOMAIN nodes = 1..n /\ n \in Nat
      /\ \A j \in 1..n : nodes[j].bytes \in Nat /\ nodes[j].listed \in BOOLEAN
  BY ArenaFacts
<1>2. /\ t \in Totals(n)
      /\ \A j \in 1..n : /\ t[j].bytes = nodes[j].bytes /\ t[j].dirs = 0
                         /\ t[j].complete = (nodes[j].listed /\ ~cut)
  BY <1>1 DEF OwnTotals, Totals, Total
<1> HIDE DEF t
<1>3. ASSUME NEW j \in 1..n
      PROVE  /\ t[j].bytes = Sum(Weight, Rolled(n, j))
             /\ t[j].dirs = Cardinality(Rolled(n, j)) - 1
             /\ t[j].complete <=> ~cut /\ Rolled(n, j) \subseteq Listed
  <2> DEFINE d == nodes[j].dir
  <2>1. Rolled(n, j) = {d}
    BY RolledNone
  <2>2. Weight[d] = nodes[j].bytes /\ (d \in Listed <=> nodes[j].listed)
    BY ArenaFacts, WeightFacts
  <2> HIDE DEF d
  <2>3. Sum(Weight, {d}) = nodes[j].bytes
    BY <1>1, <2>2, SumOfOne
  <2>4. Cardinality({d}) = 1
    BY FS_Singleton
  <2>5. t[j].bytes = nodes[j].bytes /\ t[j].dirs = 0 /\ t[j].complete = (nodes[j].listed /\ ~cut)
    BY <1>2
  <2>6. {d} \subseteq Listed <=> nodes[j].listed
    BY <2>2
  <2>7. t[j].dirs = Cardinality(Rolled(n, j)) - 1
    BY <2>1, <2>4, <2>5
  <2>8. t[j].complete <=> ~cut /\ Rolled(n, j) \subseteq Listed
    BY <2>1, <2>5, <2>6
  <2> QED
    BY <2>1, <2>3, <2>5, <2>7, <2>8
<1> QED
  BY <1>2, <1>3 DEF StageOK, t

LEMMA StageStep ==
  ASSUME BuildInv, NEW cut \in BOOLEAN, NEW k \in 1..(Len(nodes) - 1), NEW t,
         StageOK(t, k + 1, cut)
  PROVE  StageOK(RollInto(t, k + 1), k, cut)
<1> DEFINE n == Len(nodes)
           c == k + 1
           p == nodes[c].parent
           u == RollInto(t, c)
           R == Rolled(c, p)
           U == Under(c)
<1>1. /\ n \in Nat /\ c \in 1..n /\ p \in 1..(c - 1) /\ p \in 1..n
  BY ArenaFacts
<1>2. /\ t \in Totals(n)
      /\ \A j \in 1..n : /\ t[j].bytes = Sum(Weight, Rolled(c, j))
                         /\ t[j].dirs = Cardinality(Rolled(c, j)) - 1
                         /\ t[j].complete <=> ~cut /\ Rolled(c, j) \subseteq Listed
  BY DEF StageOK
<1>3. /\ u \in Totals(n)
      /\ u[p].bytes = t[p].bytes + t[c].bytes
      /\ u[p].dirs = t[p].dirs + t[c].dirs + 1
      /\ u[p].complete = (t[p].complete /\ t[c].complete)
      /\ \A j \in 1..n : j # p => u[j] = t[j]
  BY <1>1, <1>2, RollIntoFields
<1>4. Rolled(c, c) = U
  <2>1. \A e \in 1..n : e # 1 /\ nodes[e].parent = c => e > c
    BY ArenaFacts
  <2>2. c \in Nat /\ c \in 1..Len(nodes)
    BY <1>1
  <2> HIDE DEF c
  <2> QED
    BY <2>1, <2>2, RolledAll
<1>5. /\ Rolled(k, p) = R \cup U /\ R \cap U = {}
      /\ \A j \in 1..n : j # p => Rolled(k, j) = Rolled(c, j)
  BY <1>1, RolledOne
<1>6. /\ R \subseteq NodeDirs /\ IsFiniteSet(R) /\ Cardinality(R) \in Nat
      /\ U \subseteq NodeDirs /\ IsFiniteSet(U)
  BY <1>1, RolledFacts
<1>7. /\ t[p].bytes = Sum(Weight, R) /\ t[p].dirs = Cardinality(R) - 1
      /\ t[p].complete <=> ~cut /\ R \subseteq Listed
      /\ t[c].bytes = Sum(Weight, U) /\ t[c].dirs = Cardinality(U) - 1
      /\ t[c].complete <=> ~cut /\ U \subseteq Listed
  BY <1>1, <1>2, <1>4
<1> HIDE DEF R, U, u, c, p
<1>8. Sum(Weight, R \cup U) = Sum(Weight, R) + Sum(Weight, U)
  BY <1>5, <1>6, WeightFacts, SumUnion
<1>9. Cardinality(R \cup U) = Cardinality(R) + Cardinality(U) /\ Cardinality(U) \in Nat
  <2>1. Cardinality(R \cup U) = Cardinality(R) + Cardinality(U) - Cardinality(R \cap U)
    BY <1>6, FS_Union
  <2>2. Cardinality(R \cap U) = 0
    BY <1>5, FS_EmptySet
  <2>3. Cardinality(U) \in Nat
    BY <1>6, FS_CardinalityType
  <2> QED
    BY <2>1, <2>2, <2>3, <1>6
<1>10. ASSUME NEW j \in 1..n
       PROVE  /\ u[j].bytes = Sum(Weight, Rolled(k, j))
              /\ u[j].dirs = Cardinality(Rolled(k, j)) - 1
              /\ u[j].complete <=> ~cut /\ Rolled(k, j) \subseteq Listed
  <2>1. CASE j = p
    <3>1. u[p].bytes = Sum(Weight, R \cup U)
      BY <1>3, <1>7, <1>8
    <3>2. u[p].dirs = Cardinality(R \cup U) - 1
      BY <1>3, <1>6, <1>7, <1>9
    <3>3. u[p].complete <=> ~cut /\ R \cup U \subseteq Listed
      BY <1>3, <1>7
    <3> QED
      BY <2>1, <3>1, <3>2, <3>3, <1>5
  <2>2. CASE j # p
    BY <2>2, <1>2, <1>3, <1>5
  <2> QED
    BY <2>1, <2>2
<1> QED
  BY <1>3, <1>10 DEF StageOK, u, c

(* Once finish has rolled all nodes up, a node has what is in its subtree. *)
LEMMA RollUpAdds ==
  ASSUME BuildInv, NEW cut \in BOOLEAN, NEW j \in 1..Len(nodes)
  PROVE  /\ RollUp(cut)[j].bytes = Sum(Weight, Under(j))
         /\ RollUp(cut)[j].dirs = Cardinality(Under(j)) - 1
         /\ RollUp(cut)[j].complete <=> ~cut /\ Under(j) \subseteq Listed
<1> DEFINE n == Len(nodes)
<1>1. n \in Nat /\ n >= 1
  BY ArenaFacts
<1>2. PICK f : /\ f[n] = OwnTotals(cut)
               /\ \A i \in 1..(n - 1) : f[i] = RollInto(f[i + 1], i + 1)
               /\ RollUp(cut) = f[1]
  BY <1>1, RollUpStages
<1> DEFINE S == {i \in 1..n : StageOK(f[i], i, cut)}
<1>3. ASSUME \E i \in 1..n : i \notin S PROVE FALSE
  <2>1. PICK m \in 1..n : m \notin S /\ \A i \in (m + 1)..n : i \in S
    <3> HIDE DEF S
    <3> QED
      BY <1>1, <1>3, LastMissing
  <2>2. m # n
    BY <2>1, <1>2, StageFirst
  <2>3. m \in 1..(n - 1) /\ m + 1 \in (m + 1)..n
    BY <2>2, <1>1
  <2>4. StageOK(f[m + 1], m + 1, cut)
    BY <2>1, <2>3
  <2>5. StageOK(RollInto(f[m + 1], m + 1), m, cut)
    BY <2>3, <2>4, StageStep
  <2> QED
    BY <2>1, <2>3, <2>5, <1>2
<1>4. StageOK(RollUp(cut), 1, cut)
  BY <1>1, <1>2, <1>3
<1>5. Rolled(1, j) = Under(j)
  <2>1. \A c \in 1..n : c # 1 /\ nodes[c].parent = j => c > 1
    OBVIOUS
  <2> QED
    BY <2>1, RolledAll
<1> QED
  BY <1>4, <1>5 DEF StageOK

-----------------------------------------------------------------------------
(***************************************************************************)
(* What a returned tree says.                                              *)
(***************************************************************************)

LEMMA ReturnedTree ==
  ASSUME TotalsInv, tree # None
  PROVE  /\ Found = NodeDirs /\ Started = Listed /\ \A c : ~ToCome(c)
         /\ Listed \subseteq Visible \cap NodeDirs
         /\ \A j \in 1..Len(nodes) :
              /\ tree.totals[j].bytes = Sum(Weight, Under(j))
              /\ tree.totals[j].dirs = Cardinality(Under(j)) - 1
              /\ tree.totals[j].complete <=> ~cancelled /\ Under(j) \subseteq Listed
<1>1. /\ WalkOver /\ chan = <<>>
      /\ tree = [cancelled |-> cancelled, totals |-> RollUp(cancelled)]
  BY DEF TotalsInv, TreeOK
<1>2. queue = {} /\ (\A w \in Workers : at[w] = None) /\ DOMAIN chan = {}
  BY <1>1 DEF WalkOver
<1>3. InListing = {} /\ InChan = {} /\ Batched = {} /\ Started = Listed
  BY <1>2 DEF InListing, InChan, Batched, Started
<1>4. Listed \subseteq NodeDirs
  BY DEF Listed, NodeDirs
<1>5. Root \in NodeDirs
  BY ArenaFacts DEF TotalsInv, ContractInv, NodeDirs
<1>6. Found = NodeDirs
  BY <1>2, <1>3, <1>4, <1>5 DEF Found, NodeDirs
<1>7. Listed \subseteq Visible
  BY <1>3 DEF TotalsInv, ContractInv, OnlyVisible
<1>8. \A c : ~ToCome(c)
  BY <1>2 DEF ToCome
<1>9. BuildInv /\ cancelled \in BOOLEAN
  BY DEF TotalsInv, ContractInv, BuildInv, TypeOK, WalkTypeOK
<1>10. tree.totals = RollUp(cancelled)
  BY <1>1
<1>11. ASSUME NEW j \in 1..Len(nodes)
       PROVE  /\ tree.totals[j].bytes = Sum(Weight, Under(j))
              /\ tree.totals[j].dirs = Cardinality(Under(j)) - 1
              /\ tree.totals[j].complete <=> ~cancelled /\ Under(j) \subseteq Listed
  BY <1>9, <1>10, RollUpAdds
<1> QED
  BY <1>3, <1>4, <1>6, <1>7, <1>8, <1>11

(* The bytes a directory counts for. *)
LEMMA WeightOf ==
  ASSUME TotalsInv, NEW x \in NodeDirs
  PROVE  /\ x \in Dirs /\ Weight[x] \in {0, Bytes[x]} /\ Bytes[x] \in Nat
         /\ x \notin Listed \/ x \in Unreadable => Weight[x] = 0
         /\ x \in Listed \ (Unreadable \cup Flaky) /\ ~cancelled => Weight[x] = Bytes[x]
<1>1. PICK i \in DOMAIN nodes : x = nodes[i].dir
  BY DEF NodeDirs
<1>2. BuildInv
  BY DEF TotalsInv, ContractInv
<1>3. i \in 1..Len(nodes)
  BY <1>1, <1>2, ArenaFacts
<1>4. /\ x \in Dirs /\ Weight[x] = nodes[i].bytes /\ (x \in Listed <=> nodes[i].listed)
  BY <1>1, <1>2, <1>3, ArenaFacts, WeightFacts
<1>5. IF nodes[i].listed THEN BytesOf(x, nodes[i].bytes, TRUE) ELSE nodes[i].bytes = 0
  BY <1>1 DEF TotalsInv, BytesInv, NodeBytes
<1>6. Bytes[x] \in Nat
  BY <1>4, ScanAssumption
<1> QED
  BY <1>4, <1>5, <1>6 DEF BytesOf

(* Links not followed: below a node marked complete, the nodes are the     *)
(* directories that a scan is shown.                                       *)
LEMMA CompleteShows ==
  ASSUME TotalsInv, tree # None, ~Follow, NEW j \in 1..Len(nodes),
         tree.totals[j].complete, Below(nodes[j].dir) \cap Flaky = {}
  PROVE  Under(j) = {x \in Below(nodes[j].dir) : \A u \in Unreadable : IsPrefix(u, x) => u = x}
<1> DEFINE d == nodes[j].dir
           shown == {x \in Below(d) : \A u \in Unreadable : IsPrefix(u, x) => u = x}
<1>1. BuildInv /\ d \in Dirs /\ d \in NodeDirs /\ NodeDirs \subseteq Dirs
  BY ArenaFacts, WeightFacts DEF TotalsInv, ContractInv
<1>2. ~cancelled /\ Under(j) \subseteq Listed
  BY ReturnedTree
<1>3. Unreadable \subseteq Dirs
  BY ScanAssumption
<1>4. ASSUME NEW x \in Under(j) PROVE x \in shown
  <2>1. x \in Visible
    BY <1>2, ReturnedTree
  <2> QED
    BY <2>1, <1>1 DEF Under, Below, Visible
<1>5. ASSUME NEW x \in shown PROVE x \in NodeDirs
  <2>1. x \in Dirs /\ IsPrefix(d, x)
    BY DEF Below
  <2>2. ASSUME NEW c \in Dirs \ {Root}, IsPrefix(d, Parent(c)), IsPrefix(c, x), Parent(c) \in NodeDirs
        PROVE  c \in NodeDirs
    <3> DEFINE p == Parent(c)
    <3>1. p \in Dirs /\ c \in Children(p) /\ p # c /\ IsPrefix(p, c)
      <4>1. p \in Dirs /\ c \in Children(p) /\ p # c
        BY ParentPath
      <4> QED
        BY <4>1, PrefixOfChild, PrefixFacts
    <3>2. IsPrefix(p, x) /\ p # x
      <4>1. IsPrefix(p, x)
        BY <2>1, <2>2, <3>1, PrefixFacts
      <4> QED
        BY <2>1, <2>2, <3>1, <4>1, PrefixFacts
    <3>3. p \notin Unreadable
      BY <3>2
    <3>4. p \in Under(j) /\ p \in Below(d)
      BY <2>2, <3>1 DEF Under, Below
    <3>5. p \in Started \ (Unreadable \cup Flaky)
      BY <3>3, <3>4, <1>2, ReturnedTree
    <3>6. ToCome(c) \/ c \in Found
      BY <3>1, <3>5, <1>2 DEF TotalsInv, WalkInv, NoneUnseen
    <3> QED
      BY <3>6, ReturnedTree
  <2> HIDE DEF d, shown
  <2> QED
    BY <2>1, <2>2, <1>1, AlongPath
<1>6. ASSUME NEW x \in shown PROVE x \in Under(j)
  BY <1>5, <1>6 DEF Under, Below
<1> QED
  BY <1>4, <1>6

(* A node marked complete has the totals of all readable directories below *)
(* it, none counted twice and none left out, whatever the order in which   *)
(* the batches arrive, however many nodes are made ahead of their batch,   *)
(* and wherever a cancel falls.                                            *)
THEOREM CompleteTotalsAreExact == Spec => []CompleteIsExact
<1>1. TotalsInv => CompleteIsExact
  <2> SUFFICES ASSUME TotalsInv, tree # None, ~Follow, NEW i \in DOMAIN nodes,
                      tree.totals[i].complete, Below(nodes[i].dir) \cap Flaky = {}
               PROVE  LET below == Below(nodes[i].dir)
                          read  == {x \in below : \A u \in Unreadable : ~IsPrefix(u, x)}
                          shown == {x \in below : \A u \in Unreadable : IsPrefix(u, x) => u = x}
                      IN /\ tree.totals[i].bytes = MapThenSumSet(LAMBDA x : Bytes[x], read)
                         /\ tree.totals[i].dirs = Cardinality(shown) - 1
    BY DEF CompleteIsExact
  <2> DEFINE below == Below(nodes[i].dir)
             read  == {x \in below : \A u \in Unreadable : ~IsPrefix(u, x)}
             shown == {x \in below : \A u \in Unreadable : IsPrefix(u, x) => u = x}
  <2>1. BuildInv /\ i \in 1..Len(nodes)
    BY ArenaFacts DEF TotalsInv, ContractInv
  <2>2. /\ tree.totals[i].bytes = Sum(Weight, Under(i))
        /\ tree.totals[i].dirs = Cardinality(Under(i)) - 1
        /\ ~cancelled /\ Under(i) \subseteq Listed
    BY <2>1, ReturnedTree
  <2>3. Under(i) = shown
    BY <2>1, CompleteShows
  <2>4. IsFiniteSet(shown) /\ shown \subseteq NodeDirs
    BY <2>1, <2>3, RolledFacts
  <2>5. read \subseteq shown /\ read \cap Unreadable = {} /\ shown \ read \subseteq Unreadable
    <3>1. \A x \in below : x \in Dirs /\ IsPrefix(x, x)
      BY PrefixFacts DEF Below
    <3> QED
      BY <3>1
  <2>6. \A x \in shown : x \notin Flaky /\ x \in Listed
    BY <2>2, <2>3
  <2> HIDE DEF read, shown
  <2>7. \A x \in shown : Weight[x] \in Nat /\ (x \notin read => Weight[x] = 0)
    BY <2>1, <2>4, <2>5, WeightFacts, WeightOf
  <2>8. \A x \in read : Weight[x] \in Nat /\ Bytes[x] = Weight[x]
    BY <2>2, <2>4, <2>5, <2>6, <2>7, WeightOf
  <2>9. IsFiniteSet(read) /\ Sum(Weight, shown) = Sum(Weight, read)
    BY <2>4, <2>5, <2>7, SumNonZero
  <2>10. Sum(Weight, read) = Sum(Bytes, read)
    BY <2>8, <2>9, SumEqual
  <2> QED
    BY <2>2, <2>3, <2>9, <2>10 DEF Sum, read, shown
<1> QED
  BY <1>1, InitTotals, NextTotals, PTL DEF Spec

(* The sum over the targets, in the form that the lemmas are about. *)
BytesAt == [t \in {Target[d] : d \in Dirs \ Unreadable} |-> Bytes[CHOOSE d \in Dirs : Target[d] = t]]

LEMMA TargetSum ==
  ASSUME NEW T, IsFiniteSet(T), T = {Target[d] : d \in Dirs \ Unreadable}
  PROVE  MapThenSumSet(LAMBDA t : Bytes[CHOOSE d \in Dirs : Target[d] = t], T) = Sum(BytesAt, T)
<1> DEFINE Is(g) == g = [s \in SUBSET T |->
                           IF s = {} THEN 0
                           ELSE Bytes[CHOOSE d \in Dirs : Target[d] = Pick(s)] + g[s \ {Pick(s)}]]
           G == CHOOSE g : Is(g)
<1>1. MapThenSumSet(LAMBDA t : Bytes[CHOOSE d \in Dirs : Target[d] = t], T) = G[T]
  BY DEF MapThenSumSet, MapThenFoldSet, Pick
<1>2. ASSUME NEW s \in SUBSET T, s # {}
      PROVE  BytesAt[Pick(s)] = Bytes[CHOOSE d \in Dirs : Target[d] = Pick(s)]
  <2>1. IsFiniteSet(s)
    BY FS_Subset
  <2>2. Pick(s) \in T
    BY <1>2, <2>1, PickFacts
  <2> QED
    BY <2>2 DEF BytesAt
<1>3. ASSUME NEW g PROVE IsSum(g, BytesAt, T) <=> Is(g)
  <2>1. [s \in SUBSET T |-> IF s = {} THEN 0 ELSE BytesAt[Pick(s)] + g[s \ {Pick(s)}]]
          = [s \in SUBSET T |->
               IF s = {} THEN 0
               ELSE Bytes[CHOOSE d \in Dirs : Target[d] = Pick(s)] + g[s \ {Pick(s)}]]
    BY <1>2
  <2> QED
    BY <2>1 DEF IsSum
<1> HIDE DEF Is
<1>4. Is(G)
  BY <1>3, SumExists
<1>5. Sum(BytesAt, T) = G[T]
  <2> HIDE DEF G
  <2>1. IsSum(G, BytesAt, T) /\ T \in SUBSET T
    BY <1>3, <1>4
  <2> QED
    BY <2>1, SumAgrees
<1> QED
  BY <1>1, <1>5

(* No total is ever more than what a scan with these options can see: a    *)
(* directory is not counted twice, neither by two batches nor, following   *)
(* links, by two links that lead to it.                                    *)
THEOREM NothingCountedTwice == Spec => []NeverOvercounts
<1>1. ASSUME TotalsInv, tree # None, NEW i \in DOMAIN nodes
      PROVE  tree.totals[i].bytes <=
               MapThenSumSet(LAMBDA x : Bytes[x], Below(nodes[i].dir) \cap (Visible \ Unreadable))
  <2> DEFINE all == Below(nodes[i].dir) \cap (Visible \ Unreadable)
             A   == {x \in Under(i) : Weight[x] # 0}
  <2>1. BuildInv /\ i \in 1..Len(nodes)
    BY <1>1, ArenaFacts DEF TotalsInv, ContractInv
  <2>2. tree.totals[i].bytes = Sum(Weight, Under(i))
    BY <1>1, <2>1, ReturnedTree
  <2>3. IsFiniteSet(Under(i)) /\ Under(i) \subseteq NodeDirs /\ \A x \in Under(i) : Weight[x] \in Nat
    BY <2>1, RolledFacts, WeightFacts
  <2>4. \A x \in A : /\ x \in Dirs /\ x \in Listed \ Unreadable
                     /\ Weight[x] \in Nat /\ Bytes[x] = Weight[x]
    BY <1>1, <2>3, WeightOf
  <2>5. A \subseteq all
    BY <1>1, <2>4, ReturnedTree DEF Under, Below
  <2>6. IsFiniteSet(all) /\ \A x \in all : Bytes[x] \in Nat
    <3>1. all \subseteq Dirs
      BY DEF Below
    <3> QED
      BY <3>1, ScanAssumption, FS_Subset
  <2>7. IsFiniteSet(A) /\ Sum(Weight, Under(i)) = Sum(Weight, A)
    <3>1. A \in SUBSET Under(i) /\ \A x \in Under(i) \ A : Weight[x] = 0
      OBVIOUS
    <3> HIDE DEF A
    <3> QED
      BY <2>3, <3>1, SumNonZero
  <2> HIDE DEF A, all
  <2>8. Sum(Weight, A) = Sum(Bytes, A)
    BY <2>4, <2>7, SumEqual
  <2>9. Sum(Bytes, A) <= Sum(Bytes, all)
    BY <2>5, <2>6, SumSubset
  <2> QED
    BY <2>2, <2>7, <2>8, <2>9 DEF Sum, all
<1>2. ASSUME TotalsInv, tree # None, Follow
      PROVE  tree.totals[1].bytes <=
               MapThenSumSet(LAMBDA t : Bytes[CHOOSE d \in Dirs : Target[d] = t],
                             {Target[d] : d \in Dirs \ Unreadable})
  <2> DEFINE T == {Target[d] : d \in Dirs \ Unreadable}
             A == {x \in Under(1) : Weight[x] # 0}
  <2>1. BuildInv /\ 1 \in 1..Len(nodes)
    BY <1>2, ArenaFacts DEF TotalsInv, ContractInv
  <2>2. tree.totals[1].bytes = Sum(Weight, Under(1))
    BY <1>2, <2>1, ReturnedTree
  <2>3. IsFiniteSet(Under(1)) /\ Under(1) \subseteq NodeDirs /\ \A x \in Under(1) : Weight[x] \in Nat
    BY <2>1, RolledFacts, WeightFacts
  <2>4. \A x \in A : x \in Dirs \ Unreadable /\ Weight[x] \in Nat /\ Bytes[x] = Weight[x]
    BY <1>2, <2>3, WeightOf
  <2>5. IsFiniteSet(A) /\ Sum(Weight, Under(1)) = Sum(Weight, A)
    <3>1. A \in SUBSET Under(1) /\ \A x \in Under(1) \ A : Weight[x] = 0
      OBVIOUS
    <3> HIDE DEF A
    <3> QED
      BY <2>3, <3>1, SumNonZero
  <2>6. \A x, y \in A : Target[x] = Target[y] => x = y
    <3>1. A \subseteq Found
      BY <1>2, <2>3, ReturnedTree
    <3> QED
      BY <1>2, <3>1 DEF TotalsInv, ContractInv, TargetsApart
  <2>7. \A t \in T : BytesAt[t] \in Nat /\ \A x \in Dirs : Target[x] = t => BytesAt[t] = Bytes[x]
    <3> SUFFICES ASSUME NEW t \in T
                 PROVE  BytesAt[t] \in Nat /\ \A x \in Dirs : Target[x] = t => BytesAt[t] = Bytes[x]
      OBVIOUS
    <3> DEFINE e == CHOOSE d \in Dirs : Target[d] = t
    <3>1. e \in Dirs /\ Target[e] = t
      OBVIOUS
    <3>2. BytesAt[t] = Bytes[e]
      BY DEF BytesAt
    <3> HIDE DEF e
    <3> QED
      BY <1>2, <3>1, <3>2, LinkAssumption, ScanAssumption
  <2>8. IsFiniteSet(T)
    <3>1. [d \in Dirs |-> Target[d]] \in Surjection(Dirs, {Target[d] : d \in Dirs})
      BY DEF Surjection
    <3>2. IsFiniteSet({Target[d] : d \in Dirs})
      BY <3>1, ScanAssumption, FS_Surjection
    <3>3. T \subseteq {Target[d] : d \in Dirs}
      OBVIOUS
    <3> QED
      BY <3>2, <3>3, FS_Subset
  <2>9. MapThenSumSet(LAMBDA t : Bytes[CHOOSE d \in Dirs : Target[d] = t], T) = Sum(BytesAt, T)
    BY <2>8, TargetSum
  <2>10. {Target[x] : x \in A} \subseteq T /\ \A x \in A : BytesAt[Target[x]] = Weight[x]
    BY <2>4, <2>7
  <2> HIDE DEF A, T
  <2>11. Sum(Weight, A) = Sum(BytesAt, {Target[x] : x \in A})
    BY <2>4, <2>5, <2>6, <2>10, SumImage
  <2>12. Sum(BytesAt, {Target[x] : x \in A}) <= Sum(BytesAt, T)
    BY <2>7, <2>8, <2>10, SumSubset
  <2> QED
    BY <2>2, <2>5, <2>9, <2>11, <2>12 DEF T
<1>3. TotalsInv => NeverOvercounts
  BY <1>1, <1>2 DEF NeverOvercounts
<1> QED
  BY <1>3, InitTotals, NextTotals, PTL DEF Spec

(* Following links, a complete tree has a node for every canonical         *)
(* directory that some path leads to: of two threads that reach one by two *)
(* links, the one that comes second passes it over only because the other  *)
(* has let it in.                                                          *)
THEOREM CompleteFollowsEveryLink == Spec => []FollowReachesEverything
<1>1. TotalsInv => FollowReachesEverything
  <2> SUFFICES ASSUME TotalsInv, tree # None, Follow, Flaky = {}, tree.totals[1].complete,
                      NEW d \in Visible
               PROVE  \E i \in DOMAIN nodes : Target[nodes[i].dir] = Target[d]
    BY DEF FollowReachesEverything
  <2> DEFINE S == {c \in Dirs : \E y \in NodeDirs : Target[y] = Target[c]}
  <2>1. /\ BuildInv /\ 1 \in 1..Len(nodes) /\ nodes[1].dir = Root
        /\ NodeDirs \subseteq Dirs /\ Root \in NodeDirs
    BY ArenaFacts, WeightFacts DEF TotalsInv, ContractInv
  <2>2. d \in Dirs /\ Root \in Dirs /\ \A u \in Unreadable : IsPrefix(u, d) => u = d
    BY PathAssumption DEF Visible
  <2>3. ASSUME NEW x \in Dirs PROVE IsPrefix(Root, x)
    <3>1. Len(Path[Root]) = 1
      BY <2>2, RootLevel
    <3>2. Path[x][1] = Root /\ Len(Path[x]) \in Nat /\ Len(Path[x]) >= 1
      BY PathFacts
    <3> QED
      BY <3>1, <3>2 DEF IsPrefix
  <2>4. ~cancelled /\ NodeDirs = Listed
    <3>1. Under(1) = NodeDirs
      BY <2>1, <2>3 DEF Under
    <3> QED
      BY <2>1, <3>1, ReturnedTree
  <2>5. Found = NodeDirs /\ Started = NodeDirs /\ \A c : ~ToCome(c)
    BY <2>4, ReturnedTree
  (* What is above a directory with a node has one, and another target. *)
  <2>6. ASSUME NEW y \in NodeDirs, NEW a \in Dirs, IsPrefix(a, y), Target[a] = Target[y]
        PROVE  a = y
    <3>1. a \in NodeDirs
      <4>1. /\ Len(Path[y]) \in Nat /\ Path[y][Len(Path[y])] = y
            /\ Len(Path[a]) \in 1..Len(Path[y]) /\ Path[y][Len(Path[a])] = a
        BY <2>1, <2>6, PathFacts DEF IsPrefix
      <4>2. CASE Len(Path[a]) = Len(Path[y])
        BY <4>1, <4>2
      <4>3. CASE Len(Path[a]) # Len(Path[y])
        <5>1. Len(Path[a]) \in 1..(Len(Path[y]) - 1)
          BY <4>1, <4>3
        <5>2. Path[y][Len(Path[a])] \in Started
          BY <5>1, <2>5 DEF TotalsInv, ContractInv, BuildInv, Announced
        <5> QED
          BY <5>2, <4>1, <2>5
      <4> QED
        BY <4>2, <4>3
    <3> QED
      BY <3>1, <2>5, <2>6 DEF TotalsInv, ContractInv, TargetsApart
  <2>7. ASSUME NEW c \in Dirs \ {Root}, IsPrefix(c, d), Parent(c) \in S PROVE c \in S
    <3> DEFINE p == Parent(c)
    <3>1. p \in Dirs /\ c \in Children(p) /\ p # c
      BY ParentPath
    <3>2. p \notin Unreadable
      <4>1. IsPrefix(p, c) /\ ~IsPrefix(c, p)
        BY <3>1, PrefixOfChild, PrefixFacts
      <4>2. IsPrefix(p, d) /\ p # d
        BY <4>1, <3>1, <2>2, <2>7, PrefixFacts
      <4> QED
        BY <4>2, <2>2
    <3>3. PICK y \in NodeDirs : Target[y] = Target[p]
      BY <2>7
    <3>4. PICK e \in Children(y) : Target[e] = Target[c]
      BY <2>1, <2>6, <3>1, <3>3, LinkAssumption
    <3>5. y \in Started \ (Unreadable \cup Flaky)
      BY <2>1, <2>5, <3>1, <3>2, <3>3, LinkAssumption
    <3>6. e \in Found \/ Target[e] \in seen
      BY <3>4, <3>5, <2>4, <2>5 DEF TotalsInv, WalkInv, NoneUnseen
    <3>7. \E z \in Found : Target[z] = Target[c]
      BY <3>4, <3>6, <2>4 DEF TotalsInv, WalkInv, SeenFound
    <3> QED
      BY <3>7, <2>5
  <2>8. d \in S
    <3>1. Root \in S
      BY <2>1
    <3> HIDE DEF S
    <3> QED
      BY <2>2, <2>3, <2>7, <3>1, AlongPath
  <2> QED
    BY <2>8 DEF NodeDirs
<1> QED
  BY <1>1, InitTotals, NextTotals, PTL DEF Spec

=============================================================================
