---------------------------- MODULE ScannedTree ----------------------------
(***************************************************************************)
(* A finished scan (ScanTree, crates/diskghost-core/src/tree.rs) and what  *)
(* is done with it: removal in place, and a tree made from the entries of  *)
(* a snapshot.  A path is the sequence of names from the root, which is    *)
(* <<>>; a name is any value.  The arena and its roll-up from the back are *)
(* TreeBuilder's; here a node is its path.                                 *)
(***************************************************************************)
EXTENDS Naturals, FiniteSets, Sequences, SequencesExt, TLC

(* Of the paths S, those directly in folder d, and those in it at any      *)
(* depth, d included.                                                      *)
In(S, d) == {p \in S : p # <<>> /\ Front(p) = d}
Within(S, d) == {p \in S : IsPrefix(d, p)}

SumOver(f, S) == MapThenSumSet(LAMBDA x : f[x], S)

(* Builder::finish: what folder d gets from what the folders in it have,   *)
(* from `listed` (of every folder) and `file` (the size of every file).    *)
TotalsOf(node, listed, file, cancelled, d) ==
  LET kids == In(DOMAIN listed, d)
      own  == In(DOMAIN file, d)
  IN [listed   |-> listed[d],
      complete |-> listed[d] /\ ~cancelled /\ \A k \in kids : node[k].complete,
      size     |-> SumOver([k \in kids |-> node[k].size], kids) + SumOver(file, own),
      files    |-> SumOver([k \in kids |-> node[k].files], kids) + Cardinality(own),
      dirs     |-> SumOver([k \in kids |-> node[k].dirs + 1], kids)]

Finished(listed, file, cancelled) ==
  LET node[d \in DOMAIN listed] == TotalsOf(node, listed, file, cancelled, d)
  IN [dir |-> node, file |-> file, cancelled |-> cancelled]

ListedIn(t) == [d \in DOMAIN t.dir |-> t.dir[d].listed]

(* ScanTree::mark_cancelled. *)
MarkCancelled(t) ==
  [t EXCEPT !.cancelled = TRUE,
            !.dir = [d \in DOMAIN t.dir |-> [t.dir[d] EXCEPT !.complete = FALSE]]]

-----------------------------------------------------------------------------
(* ScanTree::subtract, from folder d and every ancestor (saturating). *)
Subtract(dir, d, gone) ==
  LET Minus(x, y) == IF x > y THEN x - y ELSE 0
  IN [x \in DOMAIN dir |->
        IF IsPrefix(x, d)
          THEN [dir[x] EXCEPT !.size = Minus(@, gone.size), !.files = Minus(@, gone.files),
                              !.dirs = Minus(@, gone.dirs)]
          ELSE dir[x]]

(* Mutant: completeness is not looked at again. *)
RecheckNothing(dir, d, cancelled) == dir

(* ScanTree::recheck_complete: d, then its ancestors, from what their      *)
(* children say.                                                           *)
Recheck(dir, d, cancelled) ==
  LET again[x \in DOMAIN dir] ==
        IF IsPrefix(x, d)
          THEN dir[x].listed /\ ~cancelled /\ \A k \in In(DOMAIN dir, x) : again[k]
          ELSE dir[x].complete
  IN [x \in DOMAIN dir |-> [dir[x] EXCEPT !.complete = again[x]]]

RemoveDir(t, d) ==
  LET kept == Restrict(t.dir, DOMAIN t.dir \ Within(DOMAIN t.dir, d))
      gone == [t.dir[d] EXCEPT !.dirs = @ + 1]
  IN [t EXCEPT !.dir = Recheck(Subtract(kept, Front(d), gone), Front(d), t.cancelled),
               !.file = Restrict(@, DOMAIN @ \ Within(DOMAIN @, d))]

RemoveFile(t, f) ==
  [t EXCEPT !.dir = Subtract(@, Front(f), [size |-> t.file[f], files |-> 1, dirs |-> 0]),
            !.file = Restrict(@, DOMAIN @ \ {f})]

(* ScanTree::remove. *)
RemoveFromTree(t, p) ==
  IF p = <<>> THEN t
  ELSE IF p \in DOMAIN t.dir THEN RemoveDir(t, p)
  ELSE IF p \in DOMAIN t.file THEN RemoveFile(t, p)
  ELSE t

-----------------------------------------------------------------------------
(* ScanTree::from_entries: `entries` are [path, kind, size] in the order   *)
(* of the snapshot.  Where an entry belongs is told by its depth and the   *)
(* folders open at that point; of its path only the name is used, which    *)
(* comes in converted (ToTree of SnapshotDiff).  Of the two sizes a file   *)
(* has only the one on disk is in a snapshot, as it is here: the logical   *)
(* one, which only reports show, is set to it.  Two entries that have one  *)
(* path would be two nodes of the arena; here they are one.                *)
PutIn(b, e) ==
  LET With(f, x, v) == [y \in DOMAIN f \cup {x} |-> IF y = x THEN v ELSE f[y]]
      open == SubSeq(b.open, 1, Min({Len(e.path), Len(b.open)}))
      p    == Append(Last(open), Last(e.path))
  IN IF e.kind = "file"
       THEN [b EXCEPT !.open = open, !.file = With(@, p, e.size)]
       ELSE [b EXCEPT !.open = Append(open, p), !.listed = With(@, p, e.kind = "dir")]

FromEntries(entries) ==
  LET all == FoldLeft(PutIn, [open |-> <<<<>>>>, listed |-> [d \in {<<>>} |-> TRUE], file |-> <<>>], entries)
  IN Finished(all.listed, all.file, FALSE)

=============================================================================
