--------------------------- MODULE SnapshotStore ---------------------------
(***************************************************************************)
(* The snapshots the window keeps of one root (gui/src-tauri/src/main.rs,  *)
(* Snapshot::save and load, autoCompare in app.js).  A snapshot is a file  *)
(* named by the second its tree was captured in.  The background threads   *)
(* of several scans save and clear the folder, while comparisons and the   *)
(* user list, read and delete what is in it; the process may die anywhere. *)
(* A scan is numbered: a rescan of a tab is another scan.                  *)
(***************************************************************************)
EXTENDS Naturals, FiniteSets, Functions, FiniteSetsExt

CONSTANTS
  MaxScans, MaxClock, MaxDeletes, MaxCrashes,   \* bounds
  Watched,     \* the scans whose comparisons are looked at
  Keep,        \* keep_snapshots as it was set when each scan began
  Bytes,       \* how long the snapshot of each scan is
  LegacyAt     \* the second of a snapshot of an older version (JSON), or 0

Scans == 1..MaxScans

ASSUME StoreAssumption ==
  /\ {MaxScans, MaxClock, MaxDeletes, MaxCrashes} \subseteq Nat
  /\ Watched \subseteq Scans
  /\ Keep \in [Scans -> Nat]
  /\ Bytes \in [0..MaxScans -> Nat \ {0}]
  /\ LegacyAt \in Nat

VARIABLES
  clock,   \* in seconds
  scan,    \* of each scan: [st, unix (when it started)]
  taken,   \* when its tree was captured (Cached.current), 0 before
  saver,   \* its background thread: [at, file, drop]
  comp,    \* its comparison: [st, history, asked, name, from]
  files,   \* the folder: from names to files
  data,    \* of each file: [by, len], the last writer and the length
  hist     \* [stored, deleted, crashes, messy, keep], for bounds and properties

vars == <<clock, scan, taken, saver, comp, files, data, hist>>

-----------------------------------------------------------------------------
(* Mutant: the snapshot is written where it is to be. *)
TmpIsTarget(s) == <<s, "dgs">>

Target(s) == <<s, "dgs">>
TmpOf(s) == <<s, "tmp">>

(* The folder with file f under name n. *)
With(dir, n, f) == [m \in DOMAIN dir \cup {n} |-> IF m = n THEN f ELSE dir[m]]

(* snapshot_files. *)
Stored(dir) == {n \in dir : n[2] \in {"dgs", "json"}}
Seconds(dir) == {n[1] : n \in Stored(dir)}

(* Mutant: the newest are dropped. *)
SurplusNewest(dir, keep) ==
  {n \in Stored(dir) : Cardinality({m \in Stored(dir) : m[1] < n[1]}) >= Max({keep, 1})}

(* Mutant: one too many is kept. *)
SurplusLess(dir, keep) ==
  {n \in Stored(dir) : Cardinality({m \in Stored(dir) : m[1] > n[1]}) > Max({keep, 1})}

(* What store_snapshot removes: all but the newest. *)
Surplus(dir, keep) ==
  {n \in Stored(dir) : Cardinality({m \in Stored(dir) : m[1] > n[1]}) >= Max({keep, 1})}

(* Mutant: the snapshot of the scan itself may count as an older one. *)
OlderOrSame(history, unix) == {s \in history : s <= unix}

(* The snapshots a scan that started at `unix` can be compared with. *)
Older(history, unix) == {s \in history : s < unix}

(* Snapshot::decode accepts a file only when its length is what its header *)
(* says.                                                                   *)
IsWhole(content) == content.len = Bytes[content.by]

NoSaver == [at |-> "idle", file |-> 0, drop |-> {}]
NoName == <<0, "none">>
NoComp == [st |-> "none", history |-> {}, asked |-> 0, name |-> NoName, from |-> 0]

Init ==
  /\ clock = LegacyAt + 1
  /\ scan = [j \in Scans |-> [st |-> "none", unix |-> 0]]
  /\ taken = [j \in Scans |-> 0]
  /\ saver = [j \in Scans |-> NoSaver]
  /\ comp = [j \in Scans |-> NoComp]
  /\ files = [n \in {<<s, "json">> : s \in {LegacyAt} \ {0}} |-> 0]
  /\ data = [f \in 0..MaxScans |-> [by |-> f, len |-> IF f = 0 THEN Bytes[0] ELSE 0]]
  /\ hist = [stored |-> {LegacyAt} \ {0}, deleted |-> {}, crashes |-> 0, messy |-> FALSE, keep |-> 1]

Tick ==
  /\ clock < MaxClock
  /\ clock' = clock + 1
  /\ UNCHANGED <<scan, taken, saver, comp, files, data, hist>>

-----------------------------------------------------------------------------
(* A scan.                                                                 *)

StartScan(j) ==
  /\ scan[j].st = "none"
  /\ \A i \in Scans : i < j => scan[i].st # "none"
  /\ scan' = [scan EXCEPT ![j] = [st |-> "running", unix |-> clock]]
  /\ UNCHANGED <<clock, taken, saver, comp, files, data, hist>>

(* The tree is kept; a snapshot the elevated helper made comes with it.    *)
(* A thread saves the snapshot, and the window starts a comparison.  Of a  *)
(* tree that is not complete neither is done, and it is left out.          *)
EndScan(j) ==
  /\ scan[j].st = "running"
  /\ scan' = [scan EXCEPT ![j].st = "ended"]
  /\ \E t \in {0} \cup scan[j].unix..clock : taken' = [taken EXCEPT ![j] = t]
  /\ saver' = [saver EXCEPT ![j].at = "capture"]
  /\ comp' = IF j \in Watched THEN [comp EXCEPT ![j].st = "list"] ELSE comp
  /\ UNCHANGED <<clock, files, data, hist>>

(* current_snapshot: captured once, by who comes first. *)
Captured(j) == IF taken[j] = 0 THEN [taken EXCEPT ![j] = clock] ELSE taken

-----------------------------------------------------------------------------
(* Snapshot::save and store_snapshot.                                      *)

Capture(j) ==
  /\ saver[j].at = "capture"
  /\ taken' = Captured(j)
  /\ saver' = [saver EXCEPT ![j].at = "open"]
  /\ UNCHANGED <<clock, scan, comp, files, data, hist>>

(* fs::write opens the temporary file, emptying one that is there, ... *)
OpenTmp(j) ==
  LET tmp  == TmpOf(taken[j])
      file == IF tmp \in DOMAIN files THEN files[tmp] ELSE j
  IN /\ saver[j].at = "open"
     /\ files' = With(files, tmp, file)
     /\ data' = [data EXCEPT ![file] = [by |-> j, len |-> 0]]
     /\ saver' = [saver EXCEPT ![j].at = "write", ![j].file = file]
     /\ UNCHANGED <<clock, scan, taken, comp, hist>>

(* ... and writes over what its file holds by now. *)
WriteTmp(j) ==
  LET file == saver[j].file
  IN /\ saver[j].at = "write"
     /\ data' = [data EXCEPT ![file] = [by |-> j, len |-> Max({data[file].len, Bytes[j]})]]
     /\ saver' = [saver EXCEPT ![j].at = "rename"]
     /\ UNCHANGED <<clock, scan, taken, comp, files, hist>>

RenameTmp(j) ==
  LET tmp == TmpOf(taken[j])
  IN /\ saver[j].at = "rename" /\ tmp \in DOMAIN files
     /\ files' = With(Restrict(files, DOMAIN files \ {tmp}), Target(taken[j]), files[tmp])
     /\ hist' = [hist EXCEPT !.stored = @ \cup {taken[j]}]
     /\ saver' = [saver EXCEPT ![j] = [NoSaver EXCEPT !.at = "clear"]]
     /\ UNCHANGED <<clock, scan, taken, comp, data>>

(* The file cannot be opened or written (what is there of it stays), or not *)
(* renamed: another thread that saved in the same second took it away.      *)
SaveFails(j) ==
  /\ saver[j].at \in {"open", "write", "rename"}
  /\ saver' = [saver EXCEPT ![j] = NoSaver]
  /\ UNCHANGED <<clock, scan, taken, comp, files, data, hist>>

ListStore(j) ==
  /\ saver[j].at = "clear"
  /\ saver' = [saver EXCEPT ![j].at = "idle", ![j].drop = Surplus(DOMAIN files, Keep[j])]
  /\ hist' = [hist EXCEPT !.messy = FALSE, !.keep = Max({Keep[j], 1})]
  /\ UNCHANGED <<clock, scan, taken, comp, files, data>>

(* The newest first; that a file cannot be removed is ignored. *)
DropOld(j) ==
  /\ saver[j].drop # {}
  /\ \E n \in saver[j].drop :
       /\ \A m \in saver[j].drop : m[1] <= n[1]
       /\ saver' = [saver EXCEPT ![j].drop = @ \ {n}]
       /\ \/ files' = Restrict(files, DOMAIN files \ {n}) /\ UNCHANGED hist
          \/ n \in DOMAIN files /\ hist' = [hist EXCEPT !.messy = TRUE] /\ UNCHANGED files
  /\ UNCHANGED <<clock, scan, taken, comp, data>>

-----------------------------------------------------------------------------
(* Comparing and deleting, in the window of scan j.                        *)

(* list_snapshots.  autoCompare asks for the newest older snapshot. *)
ListHistory(j) ==
  LET history == Seconds(DOMAIN files)
      older   == Older(history, scan[j].unix)
  IN /\ \/ /\ comp[j].st = "list"
           /\ \E s \in older :
                /\ \A t \in older : t <= s
                /\ comp' = [comp EXCEPT ![j].st = "find", ![j].history = history, ![j].asked = s]
        \/ /\ comp[j].st = "relist" \/ (comp[j].st = "list" /\ older = {})
           /\ comp' = [comp EXCEPT ![j].st = "listed", ![j].history = history]
     /\ UNCHANGED <<clock, scan, taken, saver, files, data, hist>>

Answered == {"listed", "gone", "corrupt", "done"}

(* showChanges: any snapshot of the list on the page. *)
ShowChanges(j) ==
  /\ comp[j].st \in Answered
  /\ \E s \in Older(comp[j].history, scan[j].unix) :
       comp' = [comp EXCEPT ![j].st = "find", ![j].asked = s]
  /\ UNCHANGED <<clock, scan, taken, saver, files, data, hist>>

(* diff_since: find the file, read it, capture the tree and compare. *)
FindAsked(j) ==
  LET there == {n \in Stored(DOMAIN files) : n[1] = comp[j].asked}
  IN /\ comp[j].st = "find"
     /\ \/ there = {} /\ comp' = [comp EXCEPT ![j].st = "gone"]
        \/ \E n \in there : comp' = [comp EXCEPT ![j].st = "load", ![j].name = n]
     /\ UNCHANGED <<clock, scan, taken, saver, files, data, hist>>

LoadAsked(j) ==
  LET n == comp[j].name
  IN /\ comp[j].st = "load"
     /\ \/ n \notin DOMAIN files /\ comp' = [comp EXCEPT ![j].st = "gone", ![j].name = NoName]
        \/ /\ n \in DOMAIN files /\ ~IsWhole(data[files[n]])
           /\ comp' = [comp EXCEPT ![j].st = "corrupt", ![j].name = NoName]
        \/ /\ n \in DOMAIN files /\ IsWhole(data[files[n]])
           /\ comp' = [comp EXCEPT ![j].st = "diff", ![j].name = NoName, ![j].from = data[files[n]].by]
     /\ UNCHANGED <<clock, scan, taken, saver, files, data, hist>>

DiffAsked(j) ==
  /\ comp[j].st = "diff"
  /\ taken' = Captured(j)
  /\ comp' = [comp EXCEPT ![j].st = "done"]
  /\ UNCHANGED <<clock, scan, saver, files, data, hist>>

(* delete_snapshot, and the list is asked for again. *)
DeleteSnapshot(j) ==
  /\ comp[j].st \in Answered
  /\ Cardinality(hist.deleted) < MaxDeletes
  /\ \E s \in comp[j].history :
       /\ files' = Restrict(files, {n \in DOMAIN files : n \notin Stored(DOMAIN files) \/ n[1] # s})
       /\ hist' = [hist EXCEPT !.deleted = @ \cup {s}]
  /\ comp' = [comp EXCEPT ![j] = [NoComp EXCEPT !.st = "relist"]]
  /\ UNCHANGED <<clock, scan, taken, saver, data>>

(* The process dies; what is in the folder stays. *)
Crash ==
  /\ hist.crashes < MaxCrashes
  /\ hist' = [hist EXCEPT !.crashes = @ + 1, !.messy = TRUE]
  /\ scan' = [j \in Scans |-> IF scan[j].st = "none" THEN scan[j] ELSE [scan[j] EXCEPT !.st = "lost"]]
  /\ saver' = [j \in Scans |-> NoSaver]
  /\ comp' = [j \in Scans |-> NoComp]
  /\ UNCHANGED <<clock, taken, files, data>>

Next ==
  \/ Tick \/ Crash
  \/ \E j \in Scans :
       \/ StartScan(j) \/ EndScan(j)
       \/ Capture(j) \/ OpenTmp(j) \/ WriteTmp(j) \/ RenameTmp(j) \/ SaveFails(j)
       \/ ListStore(j) \/ DropOld(j)
       \/ ListHistory(j) \/ ShowChanges(j) \/ FindAsked(j) \/ LoadAsked(j) \/ DiffAsked(j)
       \/ DeleteSnapshot(j)

Spec == Init /\ [][Next]_vars

-----------------------------------------------------------------------------
TakenIn(s) == {j \in Scans : taken[j] = s}

(* A snapshot in the folder is whole, at any moment and after a crash at   *)
(* any moment, where only one scan was captured in its second: it is       *)
(* renamed into place complete.  Two scans captured in one second share    *)
(* the temporary file.                                                     *)
WholeSnapshots ==
  \A n \in Stored(DOMAIN files) :
    Cardinality(TakenIn(n[1])) <= 1 =>
      /\ IsWhole(data[files[n]])
      /\ TakenIn(n[1]) \subseteq {data[files[n]].by}

(* A snapshot that was stored and is not there any more was deleted by the *)
(* user, or as many newer ones were stored as one of the scans was told to *)
(* keep.                                                                   *)
NewestStay ==
  \A s \in hist.stored \ (hist.deleted \cup Seconds(DOMAIN files)) :
    \E j \in Scans : /\ scan[j].st # "none"
                     /\ Cardinality({t \in hist.stored : t > s}) >= Max({Keep[j], 1})

(* When nothing is being saved there are no more snapshots than the last   *)
(* scan that saved one was told to keep, unless since then the process     *)
(* died or a file could not be removed: the next save makes up for that.   *)
StoreBounded ==
  ((\A j \in Scans : saver[j] = NoSaver) /\ ~hist.messy) =>
    Cardinality(Stored(DOMAIN files)) <= hist.keep

(* A comparison is with the whole snapshot of the second asked for, of     *)
(* another scan that was captured before this one began.  It fails only if *)
(* that snapshot was deleted, made room for newer ones, or shared its      *)
(* second with another.                                                    *)
ComparesAsked ==
  \A j \in Scans :
    LET c == comp[j] IN
    /\ c.st \in {"diff", "done"} =>
         /\ c.asked < scan[j].unix /\ c.from # j
         /\ c.asked = IF c.from = 0 THEN LegacyAt ELSE taken[c.from]
    /\ c.st = "gone" =>
         \/ c.asked \in hist.deleted
         \/ \E i \in Scans : /\ scan[i].st # "none"
                             /\ Cardinality({t \in hist.stored : t > c.asked}) >= Max({Keep[i], 1})
    /\ c.st = "corrupt" => Cardinality(TakenIn(c.asked)) > 1

=============================================================================
