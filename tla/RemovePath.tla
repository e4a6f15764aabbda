----------------------------- MODULE RemovePath -----------------------------
(***************************************************************************)
(* remove_path (crates/diskghost-core/src/lib.rs) on a disk that was       *)
(* scanned before, and what the window does with the scan afterwards: the  *)
(* path is taken out of the tree instead of scanning again.  Files are     *)
(* removed by several threads, then folders, the deepest first; a cancel   *)
(* or a file that cannot be removed may come anywhere.                     *)
(***************************************************************************)
EXTENDS MftScan

CONSTANTS
  Targets,     \* the paths that are removed
  MaxErrors    \* how often the system refuses to remove an item

ASSUME RemoveAssumption == MaxErrors \in Nat

VARIABLES
  there,    \* the paths on the disk
  rm,       \* the removal: [st, path, mode, files, dirs, todo, removed, bytes, errors, refused]
  stop      \* its cancel flag

rmVars == <<there, rm, stop>>
vars == <<mftVars, rmVars>>

-----------------------------------------------------------------------------
RemoveInit ==
  /\ there = DOMAIN disk.at
  /\ rm = [st |-> "none", path |-> <<>>, mode |-> "dry", files |-> {}, dirs |-> {}, todo |-> {},
           removed |-> 0, bytes |-> 0, errors |-> 0, refused |-> 0]
  /\ stop = FALSE

(* remove_path_cmd. *)
StartRemoval ==
  /\ phase = "done" /\ ~cancelled /\ rm.st = "none"
  /\ \E p \in Targets \cap there, mode \in {"dry", "trash", "delete"} :
       rm' = [rm EXCEPT !.st = "list", !.path = p, !.mode = mode]
  /\ UNCHANGED <<there, stop>>

StopRemoval ==
  /\ rm.st \notin {"none", "done"} /\ ~stop
  /\ stop' = TRUE
  /\ UNCHANGED <<there, rm>>

(* Mutant: links to folders are followed. *)
EntriesFollowed(d) ==
  In(there, d) \cup UNION {In(there, disk.target[l]) : l \in In(there, d) \cap DOMAIN disk.target}

(* What a listing of folder d has: links are entries. *)
Entries(d) == In(there, d)

(* A walk of folder p that reads the folders `read`. *)
ListedBy(p, read) ==
  LET found == UNION {Entries(d) : d \in read}
  IN [dirs |-> {p} \cup {q \in found : IsDir(disk, q)}, files |-> {q \in found : ~IsDir(disk, q)}]

(* Links count no bytes. *)
BytesOf(files) ==
  SumOver([f \in files |-> IF IsFile(disk, f) THEN OnDisk(disk.about[disk.at[f]]) ELSE 0], files)

(* The walk reads every folder below the path; after a cancel, any of them *)
(* that it can have reached.                                               *)
List ==
  /\ rm.st = "list"
  /\ LET p == rm.path
         folders == {d \in Within(there, p) : IsDir(disk, d)}
         With(l) == rm' = [rm EXCEPT !.st = "listed", !.dirs = l.dirs, !.files = l.files,
                                     !.bytes = BytesOf(l.files)]
     IN \/ ~IsDir(disk, p) /\ With([dirs |-> {}, files |-> {p}])
        \/ IsDir(disk, p) /\ ~stop /\ With(ListedBy(p, folders))
        \/ /\ IsDir(disk, p) /\ stop
           /\ \E read \in SUBSET folders :
                /\ \A d \in read \ {p} : Front(d) \in read
                /\ With(ListedBy(p, read))
  /\ UNCHANGED <<there, stop>>

DryRun ==
  /\ rm.st = "listed" /\ rm.mode = "dry"
  /\ rm' = [rm EXCEPT !.st = "done"]
  /\ UNCHANGED <<there, stop>>

(* The whole path in one call of the system, cancelled or not. *)
Trash ==
  /\ rm.st = "listed" /\ rm.mode = "trash"
  /\ \/ /\ there' = there \ Within(there, rm.path)
        /\ rm' = [rm EXCEPT !.st = "done", !.removed = Cardinality(rm.files)]
     \/ /\ rm.refused < MaxErrors
        /\ rm' = [rm EXCEPT !.st = "done", !.errors = 1, !.refused = @ + 1]
        /\ UNCHANGED there
  /\ UNCHANGED stop

StartUnlinking ==
  /\ rm.st = "listed" /\ rm.mode = "delete"
  /\ rm' = [rm EXCEPT !.st = "files", !.todo = rm.files]
  /\ UNCHANGED <<there, stop>>

(* One file by one thread, which looks at the flag first. *)
Unlink ==
  /\ rm.st = "files"
  /\ \E f \in rm.todo :
       \/ /\ stop
          /\ rm' = [rm EXCEPT !.todo = @ \ {f}] /\ UNCHANGED there
       \/ /\ ~stop
          /\ there' = there \ {f}
          /\ rm' = [rm EXCEPT !.todo = @ \ {f}, !.removed = @ + 1]
       \/ /\ ~stop /\ rm.refused < MaxErrors
          /\ rm' = [rm EXCEPT !.todo = @ \ {f}, !.errors = @ + 1, !.refused = @ + 1]
          /\ UNCHANGED there
  /\ UNCHANGED stop

(* Mutant: the shallowest folders go first. *)
LevelTop(dirs) == {d \in dirs : \A e \in dirs : Len(d) <= Len(e)}

Level(dirs) == {d \in dirs : \A e \in dirs : Len(d) >= Len(e)}

StartRmdir ==
  /\ rm.st = "files" /\ rm.todo = {}
  /\ rm' = [rm EXCEPT !.st = "dirs", !.todo = rm.dirs]
  /\ UNCHANGED <<there, stop>>

(* The deepest folders that are left, none within another.  The system     *)
(* removes only empty ones, and of these it may refuse some.  The flag is  *)
(* not looked at.                                                          *)
RemoveLevel ==
  LET level == Level(rm.todo)
      empty == {d \in level : In(there, d) = {}}
  IN /\ rm.st = "dirs" /\ rm.todo # {}
     /\ \E gone \in SUBSET empty :
          LET refused == Cardinality(empty \ gone)
          IN /\ rm.refused + refused <= MaxErrors
             /\ there' = there \ gone
             /\ rm' = [rm EXCEPT !.todo = @ \ level, !.errors = @ + Cardinality(level \ gone),
                                 !.refused = @ + refused]
     /\ UNCHANGED stop

RemovalEnds ==
  /\ rm.st = "dirs" /\ rm.todo = {}
  /\ rm' = [rm EXCEPT !.st = "done"]
  /\ UNCHANGED <<there, stop>>

RemoveNext ==
  \/ StartRemoval \/ StopRemoval \/ List \/ DryRun \/ Trash \/ StartUnlinking
  \/ Unlink \/ StartRmdir \/ RemoveLevel \/ RemovalEnds

Init == MftInit /\ RemoveInit

Next ==
  \/ MftNext /\ UNCHANGED rmVars
  \/ RemoveNext /\ UNCHANGED mftVars

Spec == Init /\ [][Next]_vars

-----------------------------------------------------------------------------
(* A removal touches nothing outside its path, links in it included ("can  *)
(* never escape `path`", lib.rs:548-549), a dry run nothing at all, and at *)
(* no moment, whatever fails, does an item lose the folder it is in.       *)
NothingElseGoes ==
  /\ \A p \in DOMAIN disk.at \ there : rm.mode # "dry" /\ IsPrefix(rm.path, p)
  /\ \A p \in there \ {<<>>} : Front(p) \in there

(* When the path is gone, the scan without it is the scan one would get    *)
(* now: its totals, the folders that are complete again included, at any   *)
(* depth limit, also one that left the path itself out.  (forget_paths     *)
(* takes only paths that are gone out of the trees.)                       *)
RemoveIsRescan ==
  (rm.st = "done" /\ rm.path \notin there /\ IsStrictPrefix(start, rm.path)) =>
    RemoveFromTree(Tree, SubSeq(rm.path, Len(start) + 1, Len(rm.path)))
      = Walked(disk, there, start, depth, excluded)

(* Unless the removal was cancelled its report has an error exactly when   *)
(* something is left of the path, and none of its own making.              *)
ErrorsAreTrue ==
  rm.st = "done" /\ rm.mode # "dry" /\ ~stop =>
    /\ rm.errors = 0 <=> Within(there, rm.path) = {}
    /\ rm.refused = 0 => rm.errors = 0

(* The numbers of the RemoveReport: those of the listing, whatever came of *)
(* it.                                                                     *)
Report == [files |-> Cardinality(rm.files), dirs |-> Cardinality(rm.dirs), bytes |-> rm.bytes]

(* What the removal took away, counted in the same way. *)
Gone ==
  LET gone == DOMAIN disk.at \ there
      files == {p \in gone : ~IsDir(disk, p)}
  IN [files |-> Cardinality(files), dirs |-> Cardinality(gone \ files), bytes |-> BytesOf(files)]

(* The report of a removal that was not cancelled and has no error counts  *)
(* what went, that of any deletion at least that.                          *)
CountsAreTrue ==
  rm.st = "done" /\ rm.mode # "dry" =>
    /\ ~stop /\ rm.errors = 0 => Report = Gone
    /\ rm.mode = "delete" =>
         Gone.files <= Report.files /\ Gone.dirs <= Report.dirs /\ Gone.bytes <= Report.bytes

(* The files that went are counted one by one for the display (Progress),  *)
(* not for the report, and that count is right whatever comes in between.  *)
ProgressIsTrue ==
  rm.st = "done" /\ rm.mode = "delete" =>
    rm.removed = Cardinality({p \in DOMAIN disk.at \ there : ~IsDir(disk, p)})

(* A listing that was not cancelled has the totals a scan of the path      *)
(* shows, so what the user confirms is what the removal does.              *)
ListingIsTrue ==
  rm.st = "done" /\ IsDir(disk, rm.path) /\ ~stop =>
    LET deepest == Max({Len(p) : p \in DOMAIN disk.at})
        seen == Walked(disk, DOMAIN disk.at, rm.path, deepest, {}).dir[<<>>]
    IN /\ rm.bytes = seen.size /\ Cardinality(rm.dirs) = seen.dirs + 1
       /\ Cardinality({f \in rm.files : IsFile(disk, f)}) = seen.files

(* What the user is told of a removal is so. *)
ReportIsTrue == ErrorsAreTrue /\ CountsAreTrue /\ ProgressIsTrue /\ ListingIsTrue

(* RemoveReport has "Files removed", "Directories removed" and "Total      *)
(* bytes freed" (lib.rs 280-285): the report of a deletion counts what     *)
(* went.                                                                   *)
ReportIsWhatWent == rm.st = "done" /\ rm.mode = "delete" => Report = Gone

=============================================================================
