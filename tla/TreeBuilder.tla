---------------------------- MODULE TreeBuilder ----------------------------
(***************************************************************************)
(* The tree being built while the walk is still running (`Builder` and     *)
(* ScanTree::build in crates/diskghost-core/src/tree.rs).  The caller's    *)
(* thread takes batches off the channel.  A directory's batch is sent only *)
(* at the end of its listing, after its sub-directories were spawned, so a *)
(* batch may arrive before the one of its parent: missing ancestors are    *)
(* created on the spot and kept in `pending` until their own batch comes.  *)
(***************************************************************************)
EXTENDS ParallelWalk

VARIABLES
  nodes,    \* the arena: node 1 is the root
  pending,  \* directory -> node created but not listed yet, 0 if none
  skipped,  \* ScanTree::skipped
  tree      \* what finish computes; None while the walk runs

buildVars == <<nodes, pending, skipped, tree>>
vars == <<walkVars, buildVars>>

Node == [dir : Dirs, parent : Nat, listed : BOOLEAN, bytes : Nat]

NewNode(d, p) == [dir |-> d, parent |-> p, listed |-> FALSE, bytes |-> 0]

BuildInit ==
  /\ nodes = <<NewNode(Root, 0)>>
  /\ pending = [d \in Dirs |-> 0]
  /\ skipped = 0
  /\ tree = None

-----------------------------------------------------------------------------
(* Builder::dir_id.  The recursion climbs from d to the nearest directory  *)
(* it can look up, and creates what lies below on the way back.            *)

Known(d, k) == k = 1 \/ pending[Path[d][k]] # 0

(* The level of the nearest known directory on the path to d. *)
KnownLevel(d) ==
  CHOOSE k \in 1..Len(Path[d]) :
    Known(d, k) /\ \A j \in 1..Len(Path[d]) : Known(d, j) => j <= k

IdOf(d) == IF d = Root THEN 1 ELSE pending[d]

(* Node number of the directory at level i on the path to d, once the ones *)
(* below level k are created at the end of the arena.                      *)
ChainId(d, k, i) == IF i <= k THEN IdOf(Path[d][i]) ELSE Len(nodes) + (i - k)

Created(d) ==
  LET k == KnownLevel(d)
  IN [i \in 1..(Len(Path[d]) - k) |->
        NewNode(Path[d][k + i], ChainId(d, k, k + i - 1))]

DirId(d) == ChainId(d, KnownLevel(d), Len(Path[d]))

(* `pending` after dir_id(d) entered what it created. *)
PendingWithChain(d) ==
  LET k == KnownLevel(d)
  IN [x \in Dirs |-> IF IsPrefix(x, d) /\ Len(Path[x]) > k
                       THEN ChainId(d, k, Len(Path[x]))
                       ELSE pending[x]]

-----------------------------------------------------------------------------
(* Builder::add: one batch into the tree.                                  *)

(* The orders in which a listing may name a set of sub-directories. *)
Orders(S) ==
  {s \in [1..Cardinality(S) -> S] :
     /\ \A i, j \in DOMAIN s : s[i] = s[j] => i = j
     /\ \A x \in S : \E i \in DOMAIN s : s[i] = x}

(* Mutant: children created early are not looked for. *)
EarlyIgnored(arena, id) == {}

(* The names of the children node id has already. *)
Early(arena, id) == {arena[i].dir : i \in {j \in DOMAIN arena : arena[j].parent = id}}

PushSubdirs(arena, id, s) == arena \o [i \in 1..Len(s) |-> NewNode(s[i], id)]

Fill(arena, id, b) ==
  [arena EXCEPT ![id].listed = TRUE, ![id].bytes = @ + b.bytes]

(* `pending` once d is listed and the sub-directories s are pushed. *)
PendingAfter(p, d, s, base) ==
  [x \in Dirs |->
     IF \E i \in DOMAIN s : s[i] = x THEN base + (CHOOSE i \in DOMAIN s : s[i] = x)
     ELSE IF x = d THEN 0
     ELSE p[x]]

Add(b) ==
  LET id    == DirId(b.dir)
      arena == nodes \o Created(b.dir)
  IN \E s \in Orders(b.subdirs \ Early(arena, id)) :
       /\ nodes' = Fill(PushSubdirs(arena, id, s), id, b)
       /\ pending' = PendingAfter(PendingWithChain(b.dir), b.dir, s, Len(arena))

Receive ==
  /\ tree = None
  /\ chan # <<>>
  /\ Add(Head(chan))
  /\ skipped' = skipped + Head(chan).skipped
  /\ chan' = Tail(chan)
  /\ UNCHANGED <<cancelled, queue, at, seen, tree>>

-----------------------------------------------------------------------------
(* Builder::finish.  The roll-up runs backwards over the arena: at node i  *)
(* the totals of i are added to those of its parent.                       *)

(* Mutant: a cancelled walk counts as a finished one. *)
OwnTotalsUncut(cut) ==
  [i \in DOMAIN nodes |->
     [bytes |-> nodes[i].bytes, dirs |-> 0, complete |-> nodes[i].listed]]

OwnTotals(cut) ==
  [i \in DOMAIN nodes |-> [bytes    |-> nodes[i].bytes,
                           dirs     |-> 0,
                           complete |-> nodes[i].listed /\ ~cut]]

(* Mutant: the root is given every total, its children their own as well. *)
RollIntoRootToo(t, i) ==
  LET p == nodes[i].parent
      u == [t EXCEPT ![p].bytes    = @ + t[i].bytes,
                     ![p].dirs     = @ + t[i].dirs + 1,
                     ![p].complete = @ /\ t[i].complete]
  IN [u EXCEPT ![1].bytes = @ + t[i].bytes]

(* Mutant: a directory that was not listed leaves its parent complete. *)
RollIntoComplete(t, i) ==
  LET p == nodes[i].parent
  IN [t EXCEPT ![p].bytes    = @ + t[i].bytes,
               ![p].dirs     = @ + t[i].dirs + 1]

RollInto(t, i) ==
  LET p == nodes[i].parent
  IN [t EXCEPT ![p].bytes    = @ + t[i].bytes,
               ![p].dirs     = @ + t[i].dirs + 1,
               ![p].complete = @ /\ t[i].complete]

RollUp(cut) ==
  LET n == Len(nodes)
      totals[i \in 1..n] ==   \* totals once nodes n, n-1, .., i+1 are rolled up
        IF i = n THEN OwnTotals(cut) ELSE RollInto(totals[i + 1], i + 1)
  IN totals[1]

(* Mutant: a cancelled tree is not marked as one. *)
FinishUnmarked ==
  /\ tree = None
  /\ WalkOver
  /\ chan = <<>>
  /\ tree' = [cancelled |-> FALSE, totals |-> RollUp(cancelled)]
  /\ UNCHANGED <<walkVars, nodes, pending, skipped>>

Finish ==
  /\ tree = None
  /\ WalkOver
  /\ chan = <<>>
  /\ tree' = [cancelled |-> cancelled, totals |-> RollUp(cancelled)]
  /\ UNCHANGED <<walkVars, nodes, pending, skipped>>

(* build has returned the tree. *)
Returned == tree # None /\ UNCHANGED vars

-----------------------------------------------------------------------------
Init == WalkInit /\ BuildInit

Next ==
  \/ tree = None /\ Cancel /\ UNCHANGED buildVars
  \/ \E w \in Workers : WorkerStep(w) /\ UNCHANGED buildVars
  \/ Receive
  \/ Finish
  \/ Returned

Spec == Init /\ [][Next]_vars

(* Every thread of the pool, and the thread that builds the tree, keeps    *)
(* running; nobody has to cancel.                                          *)
Fairness ==
  /\ \A w \in Workers : WF_vars(WorkerStep(w) /\ UNCHANGED buildVars)
  /\ WF_vars(Receive)
  /\ WF_vars(Finish)

FairSpec == Spec /\ Fairness

TypeOK ==
  /\ WalkTypeOK
  /\ nodes \in Seq(Node)
  /\ pending \in [Dirs -> Nat]
  /\ skipped \in Nat
  /\ tree = None \/ tree.cancelled \in BOOLEAN

-----------------------------------------------------------------------------
(* Safety.                                                                 *)

(* A directory is created once, however its batch and those of the         *)
(* directories above and below it interleave: dir_id and add never make    *)
(* two nodes for one path.                                                 *)
OneNodePerDir ==
  \A i, j \in DOMAIN nodes : nodes[i].dir = nodes[j].dir => i = j

(* Every node hangs under the node of its parent directory, which was      *)
(* created before it: what the backward roll-up in finish relies on.       *)
ParentBeforeChild ==
  /\ 1 \in DOMAIN nodes
  /\ \A i \in DOMAIN nodes :
       IF i = 1 THEN nodes[i].dir = Root /\ nodes[i].parent = 0
       ELSE /\ nodes[i].dir # Root
            /\ nodes[i].parent \in 1..(i - 1)
            /\ nodes[nodes[i].parent].dir = Parent(nodes[i].dir)

(* `pending` finds exactly the directories created and not yet listed.     *)
PendingIsUnlisted ==
  \A d \in Dirs :
    /\ pending[d] # 0 => /\ pending[d] \in DOMAIN nodes
                         /\ nodes[pending[d]].dir = d
                         /\ d # Root
                         /\ ~nodes[pending[d]].listed
    /\ \A i \in DOMAIN nodes :
         nodes[i].dir = d /\ d # Root /\ ~nodes[i].listed => pending[d] = i

(* Where a directory can be between its discovery and its node being       *)
(* listed.                                                                 *)
InListing == {at[w].batch.dir : w \in {v \in Workers : at[v] # None}}
InChan == {chan[i].dir : i \in DOMAIN chan}
Listed == {nodes[i].dir : i \in {j \in DOMAIN nodes : nodes[j].listed}}
Started == InListing \cup InChan \cup Listed

(* A directory is in one place at a time: no two tasks, batches or nodes   *)
(* stand for the same one.                                                 *)
OnePlace ==
  /\ \A v, w \in Workers :
       at[v] # None /\ at[w] # None /\ at[v].batch.dir = at[w].batch.dir => v = w
  /\ \A i, j \in DOMAIN chan : chan[i].dir = chan[j].dir => i = j
  /\ queue \cap Started = {}
  /\ InListing \cap InChan = {}
  /\ InListing \cap Listed = {}
  /\ InChan \cap Listed = {}

(* A directory is reached only from its parent, whose batch names it.      *)
Announced ==
  \A d \in queue \cup Started :
    /\ \A i \in 1..(Len(Path[d]) - 1) : Path[d][i] \in Started
    /\ d # Root =>
         /\ \A w \in Workers :
              at[w] # None /\ at[w].batch.dir = Parent(d) =>
                d \in at[w].batch.subdirs \ at[w].todo
         /\ \A i \in DOMAIN chan : chan[i].dir = Parent(d) => d \in chan[i].subdirs
         /\ Parent(d) \in Listed => \E i \in DOMAIN nodes : nodes[i].dir = d

(* A listing and a batch name sub-directories of their own directory only. *)
OwnChildren ==
  /\ \A w \in Workers :
       at[w] # None => at[w].todo \cup at[w].batch.subdirs \subseteq Children(at[w].batch.dir)
  /\ \A i \in DOMAIN chan : chan[i].subdirs \subseteq Children(chan[i].dir)

(* Together they are preserved by every step.                              *)
BuildInv ==
  /\ TypeOK
  /\ OneNodePerDir
  /\ ParentBeforeChild
  /\ PendingIsUnlisted
  /\ OnePlace
  /\ Announced
  /\ OwnChildren

(* What a complete listing of d and of everything below it adds up to.     *)
TrueBytes(d) == MapThenSumSet(LAMBDA x : Bytes[x], Below(d))

(* "set once the walk is done: this directory and everything below it was  *)
(* read, so its totals are exact".  A node marked complete has the totals  *)
(* of the readable directories below it, none counted twice and none left  *)
(* out, whatever the order of the batches and wherever a cancel fell.      *)
(* (Links are not followed; an entry that failed is not a directory read.) *)
CompleteIsExact ==
  tree # None /\ ~Follow =>
    \A i \in DOMAIN nodes :
      LET below == Below(nodes[i].dir)
          read  == {x \in below : \A u \in Unreadable : ~IsPrefix(u, x)}
          shown == {x \in below : \A u \in Unreadable : IsPrefix(u, x) => u = x}
      IN tree.totals[i].complete /\ below \cap Flaky = {} =>
           /\ tree.totals[i].bytes = MapThenSumSet(LAMBDA x : Bytes[x], read)
           /\ tree.totals[i].dirs = Cardinality(shown) - 1

(* The same sentence of ScanTree::complete taken at its word: "true if     *)
(* every directory was read ... only then are the totals exact".  It is    *)
(* not so when a directory cannot be listed: its batch is empty.           *)
CompleteMeansEveryDirectoryRead ==
  tree # None =>
    \A i \in DOMAIN nodes :
      tree.totals[i].complete => tree.totals[i].bytes = TrueBytes(nodes[i].dir)

(* No total is ever more than what a scan with these options can see: a    *)
(* directory is not counted twice, neither by two batches nor (following   *)
(* links) by two links that lead to it.                                    *)
NeverOvercounts ==
  tree # None =>
    /\ \A i \in DOMAIN nodes :
         tree.totals[i].bytes <=
           MapThenSumSet(LAMBDA x : Bytes[x], Below(nodes[i].dir) \cap (Visible \ Unreadable))
    /\ Follow =>
         tree.totals[1].bytes <= MapThenSumSet(LAMBDA t : Bytes[CHOOSE d \in Dirs : Target[d] = t],
                       {Target[d] : d \in Dirs \ Unreadable})

(* Following links, each canonical directory is entered at most once, so   *)
(* a link back up the tree, or two threads reaching one directory by two   *)
(* links at the same time, give it one node.                               *)
TargetsOnce ==
  Follow => \A i, j \in DOMAIN nodes : Target[nodes[i].dir] = Target[nodes[j].dir] => i = j

(* A walk that was not cancelled has a node for every target it can reach, *)
(* so a complete tree of followed links leaves no directory out either.    *)
FollowReachesEverything ==
  tree # None /\ Follow /\ Flaky = {} /\ tree.totals[1].complete =>
      \A d \in Visible : \E i \in DOMAIN nodes : Target[nodes[i].dir] = Target[d]

-----------------------------------------------------------------------------
(* Liveness: build returns, cancelled or not (the walk never waits for a   *)
(* reader, the reader stops when every sender is gone).                    *)
BuildReturns == <>(tree # None)

-----------------------------------------------------------------------------
(* The contract the builder keeps towards everything that uses a tree.     *)
Outcome ==
  IF tree = None THEN "running" ELSE IF tree.cancelled THEN "cut" ELSE "whole"

Contract == INSTANCE ScanContract WITH listed <- Listed, outcome <- Outcome

(* Batch by batch the build lists each visible directory once, and what it *)
(* returns as not cancelled lists them all.                                *)
ImplementsContract == Contract!Spec

=============================================================================
