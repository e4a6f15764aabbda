# diskghost in TLA+

diskghost finds out where the space on a disk went: it walks a directory tree
with many threads, keeps snapshots to compare against, finds duplicate files,
and can delete or hard-link what the user picks. This directory holds TLA+
models of the parts of it where order, failure and timing decide what the user
sees or loses, the TLC configurations that check them on small instances, and
proofs that TLAPS checks for every instance.

## 1. The system

| part | where | state it keeps | operations |
| --- | --- | --- | --- |
| directory walk | `crates/diskghost-core/src/walk.rs` | tasks in a rayon pool, the directory each thread is listing, the set of canonical directories entered, a channel of batches, the sticky cancel flag | `visit` (list one directory, spawn its sub-directories, send one batch), `walk_dyn`, `first_visit`, `Progress::cancel` |
| tree builder | `tree.rs` `Builder` | the node arena, `pending` (created, not yet listed), the skipped count | `dir_id`, `add`, `finish`, `ScanTree::build` |
| scanned tree | `tree.rs` `ScanTree` | node totals, `listed`/`complete` flags, `cancelled` | `find`, `report_of`, `file_stats`, `dir_sizes`, `remove`, `recheck_complete`, `from_entries` |
| MFT engine | `mft.rs` (Windows) | the decoded file table, the cloud folders left to the walk | `parse`, `runs`, `fixup`, `read_table`, `walk`, `walk_cloud` |
| snapshots | `snapshot.rs` | one file per scan (write to a temporary, rename) | `capture`, `save`, `load`, `decode`, `to_tree`, `diff` |
| duplicate search | `dupes.rs` | size buckets, samples, hashes, the hash cache and its file | `find`, `HashCache::{get, replace_under, load, save}` |
| reclaim and delete | `lib.rs` | the file system | `reclaim` (delete, trash, hard-link), `remove_path` |
| elevated helper | `gui/src-tauri/src/helper.rs` | a shared directory of request, progress, cancel, result and done files; heart beats on both sides | `Helper::start`, `alive`, `scan`; `serve`, `handle` |
| GUI backend | `gui/src-tauri/src/main.rs` | running jobs, one cached tree per job with its views and its current snapshot, the snapshot store | `scan_dir`, `view`, `forget_tree`, `diff_since`, `find_dupes`, `reclaim_dupes`, `remove_path_cmd`, `cancel` |
| GUI front end | `gui/ui/app.js`, `lib.js` | the job list, per-job view cache and history, the duplicate groups shown | `enqueue`, `pump`, `runJob`, `cancelJob`, `closeJob`, `rescan`, `navigate`, `reclaimShown`, `deletePath` |
| PATH editing | `gui/src-tauri/src/path_env.rs` | a list of directories in an environment value | `with_dir`, `without_dir`, `update` |
| CLI | `crates/diskghost-cli/src/main.rs` | none beyond one command | `scan`, `dupes`, `rm`, `diff` |

### How the parts interact

A scan job of the window (`runJob`) is a `scan_dir` command of the backend. It
registers a `Progress` (`Running::start`) that `cancel` can flag, and builds a
tree: through the elevated helper when the Ultra engine is asked for, else, or
when anything goes wrong there, by the directory walk. The walk is a rayon pool
of `visit` tasks that send one batch per directory over a channel to the thread
that owns the `Builder`. The finished tree is kept for the job; a background
thread captures it as a snapshot and stores it. `view`, `diff_since`,
`reclaim_dupes` and `remove_path_cmd` find the trees through one map and answer
from caches (views, one captured snapshot) that a change of the tree clears; the
window keeps a cache of views of its own per job. `find_dupes` shares one hash
cache, kept in memory and saved in the background. The helper is another process
with which the app shares the files of one folder and nothing else.

### What is hard

* **Order of batches.** Directories arrive in any order, a child's batch before
  its parent's; the arena, the `pending` map and the backward roll-up must come
  out the same.
* **Cancel.** A sticky flag seen by every task at another moment: some
  directories are dropped, some half listed, and `complete` must not claim them.
* **Two processes and a folder.** Files named by job id, ids that come back on
  a rescan and after a restart, heart beats that age, processes that are killed.
* **Caches.** Hashes outlive the files they were made from; views and captures
  outlive the tree; the window's views outlive the backend's.
* **Destructive steps.** Reclaim and removal act on what an earlier search or
  view said, while other tabs and other programs change the same files.
* **Several commands at once.** Every Tauri command is a task of its own, and
  locks are released between the steps of one command.
* **Files shared by name.** Snapshots are named by the second they were captured
  in, and so are their temporary files; several scans of one root store, clear,
  list, read and delete them, and the process may die in between.
* **Two streams read once.** A comparison keeps no entry: it is right only if
  both snapshots were written in the order it goes by, and if what an encoder
  shares with the previous key is what the decoder still has.
* **Two engines, one tree.** The file table knows hard links, 8.3 names,
  extension records, sparse files and cloud folders in ways a listing does not.

### What makes each part correct

| part | correctness |
| --- | --- |
| directory walk | every directory that can be read is listed once, also when links lead to it twice; the walk ends, cancelled or not |
| tree builder | one node per directory, parents before children; totals called complete are exact; nothing is counted twice |
| scanned tree | `remove` leaves the tree a scan without the path would have built |
| MFT engine | the tree of the table is that of the directory walk; records, runs and fix-ups decode what NTFS encodes |
| snapshots | capture, save, load and `to_tree` give the tree back; `diff` reports exactly the differences, a rename of kind as one gone and one new |
| snapshot store | a stored snapshot is whole or absent; the newest `keep` stay; a comparison uses the snapshot asked for |
| duplicate search | groups are of equal content and of separate physical files; none is missed; the cache never changes an answer |
| reclaim | what is removed has its content elsewhere; hard linking never leaves the path empty; one file of each content stays |
| recursive removal | nothing outside the path is touched, links are not followed, what is left after an error or a cancel is a tree |
| helper | an answer belongs to its scan, every scan ends, no elevated process outlives the app, one prompt at a time |
| GUI backend | caches agree with the trees, trees with the disk, closed trees are freed |
| window | what is shown is what the tree holds; the parallel limit holds; a queued job starts |
| PATH editing | adding twice is adding once, removing restores, other entries and their order stay |

## 2. The modules

| module | models | uses |
| --- | --- | --- |
| `DirTree` | the directory hierarchy and the scan options: the world a scan reads | |
| `ParallelWalk` | `walk.rs`: threads, tasks, listings, the channel, `seen`, cancel | `DirTree` |
| `TreeBuilder` | `tree.rs` `Builder` and `ScanTree::build`, receiving from the walk | `ParallelWalk`, `ScanContract` |
| `ScanContract` | what a scan promises, without threads, channel or arena | `DirTree` |
| `ScannedTree` | a finished `ScanTree`: `finish`, `remove`, `from_entries`, `mark_cancelled`, on trees whose nodes are paths (operators only) | |
| `TreeReports` | what a finished tree is asked: the report of any folder, its files by size range, the list of folders (operators only) | `ScannedTree` |
| `NtfsVolume` | what is on a disk, how NTFS lays it out in its table, the scan a walk makes of it (external: not the program's code) | `ScannedTree` |
| `MftScan` | `mft.rs` and `Builder::add_mft`: the Ultra engine, with cloud folders, exclusions and the fall back | `NtfsVolume` |
| `RemovePath` | `remove_path` in `lib.rs` on the disk that was scanned, and `ScanTree::remove` after it | `MftScan` |
| `SnapshotDiff` | `snapshot.rs`: capture, coding, cursor, `to_tree`, `diff` | `TreeReports` |
| `SnapshotDiffProofs` | the theorems about `SnapshotDiff` and the operators it is built from | `SnapshotDiff`, `FiniteSums` |
| `SnapshotStore` | `Snapshot::save`/`load`, `store_snapshot` and the snapshot commands of `main.rs`, `autoCompare` and the changes tab | |
| `SnapshotStoreProofs` | the theorems about `SnapshotStore` | `SnapshotStore` |
| `FiniteSums` | lemmas about least and greatest numbers and sums over finite sets (no theorem of its own) | |
| `TreeBuilderProofs` | the theorems about `TreeBuilder`: the arena, the contract, links entered once, the totals | `TreeBuilder`, `FiniteSums` |
| `RemovePathProofs` | the theorems about `RemovePath` | `RemovePath`, `FiniteSums` |
| `HelperProtocol` | `helper.rs` and `build_tree`/`mft_helper` of `main.rs`: both processes and the folder between them | |
| `HelperProtocolProofs` | the theorems about `HelperProtocol` | `HelperProtocol` |
| `DuplicateSearch` | `dupes.rs`: several searches, the hash cache, a user who changes files | |
| `Reclaim` | `reclaim` in `lib.rs`, `reclaim_dupes`, `dropReclaimed`, the saved cache, crashes | `DuplicateSearch` |
| `ReclaimProofs` | the theorems about `DuplicateSearch` and, from them, about `Reclaim` | `Reclaim` |
| `OpenScans` | the commands on trees in `main.rs` and the job list, folders and deletions of `app.js` | |
| `OpenScansProofs` | the theorems about `OpenScans` | `OpenScans` |
| `MC...` | small instances for TLC, one or more `.cfg` each | |

### The walk and the builder

A directory is an opaque value; `Path[d]` is the chain from the root to it, the
only thing the code asks of a `PathBuf`. `at[w]` is the listing thread `w` is in:
`visit` is split where other threads may act, at each entry (`FindDir`,
`ReadFiles`, `EntryFails`) and at `tx.send` (`Send`). A task is spawned in the
step that finds the sub-directory, as in the code, so that a child may be
listed and sent before its parent's batch. `Drop`, `ListFails` and the early
`Send` are the three early exits. `Cancel` may fall anywhere; the flag is sticky.
The files of one directory are one step; names, sizes on disk, extensions and
exclusion globs are data.

`Receive` is one iteration of the receiver loop, the whole of `Builder::add`
with the `dir_id` calls it makes (`Early` is a batch whose node is not there
yet: the chain of missing ancestors is created). `Finish` is `Builder::finish`
with the backward roll-up, written as a fold over the arena. `tree # None` is
`build` having returned.

`ScanContract` has two variables, the set of listed directories and an outcome.
`TreeBuilder` maps `Listed` and `Outcome` onto them (`ImplementsContract`).

### The helper

One action per step between two accesses to shared files: `Wipe` (the old folder
goes), `Launch` (the new one, `alive` touched, the process started or the prompt
declined), `HelperReady`, `StartTimesOut` (`CONSENT_TIMEOUT` is over: the start fails and
the process is left to itself, so that it may still come up, in whatever folder there is
by then), `SendRequest`, the poll rounds `PollCancel`, `GiveUp`
and `Take`, and `Walk` for the fall back. On the other side `Boot`, `Look` (top
of the loop), `PickUp` (read and remove the next request, whoever it is for),
`Report`, `Built`, `Save`, `Outcome`. File ages are `fresh`, `stale` (older than
`HELPER_TIMEOUT`) and `missing`; `BeatAges` and `AliveAges` let time pass for a
file nobody is touching. Every scan has a number, which the code does not have,
so that a property can tell whose answer is whose. `world`, chosen once from
`Worlds`, says what may happen in a behaviour: whether the app may be started
again while an old helper runs, whether a save may outlast the time-out, whether a
helper may come up after its start has timed out, whether
processes may be killed, and which jobs there are. In a `Quick` one the first two
do not happen, in a `Calm` one the first three. A `Stranger` is a helper that is up but
is neither the one this run of the app uses nor one it waits for.

Assumed: a job that still waits for the previous helper polls every 120 ms, so
it has given up before a user has answered the consent prompt of a new one
(guard of `Boot`, for a helper a start still waits for); the machine does not sleep while one process runs and the
other does not.

### Duplicates

A search goes file by file through its phases (`ListFile`, `CompareSizes`,
`SampleFile`, `CompareSamples`, `HashFile`, `Finish`), with the user changing
files in between. What the cache holds is what was known when it was read:
`Lookup` and `Replaced` are `HashCache::get` and `replace_under`. A content is
small (the sample covers it) or large (two contents with equal ends have equal
samples). A hash stands for its content: BLAKE3 is taken to be injective. A
modification time of 0 is a file system without times; otherwise an edit gives
a new time, and only `Restore` (bound `MayRestore`) makes a copy with an old
one. The minimum size is left out.

`Reclaim` takes a group shown by a tab and acts path by path. Hard linking is two
steps, `Link` (to `p.dghtmp`) and `Rename`, with the error path that removes the
temporary; `Posix` says that renaming one link of a file over another does
nothing. A command acts on one group, where the code goes through the groups in
turn; only paths that have a temporary path in the instance are reclaimed.
`saved` is the cache file, and `Crash` ends everything in memory.

### Snapshots and their comparison

A name is a sequence of bytes, because what can go wrong are orders of bytes:
`capture_node` merges the sub-folders and files of a folder by `cmp_name`, and
`diff` goes by `cmp_key`, in which the separator comes before every other byte.
`Encoded` shares with the key before, `Advance` is the cursor, numbers are
`Varint`s. `diff` is `Start` (headers, formats, the first entries), one action
per arm of the merge (`OnlyOld`, `OnlyNew`, `InBoth`) with `Acc::one_side` and
`Acc::both` whole, and `Finish`. `FromLegacy` is a format 1 snapshot, which
has folders only. `ToTree` with `FromEntries` is how the elevated helper hands
a tree over. zstd, the header's bytes and the texts of times are data.

Names are bytes when they are written and compared, and text when they are shown: what is
made from a key, a path of a report (`path_of_key`) and an item of a tree (`from_entries`),
goes through `String::from_utf8_lossy`, the constant `Lossy`. `NamesOf` are the bytes, `Shown`
converts them. Two items that become one path are two nodes or two lines of a list in the code
and one in the model; `RoundTrip` excepts them. A snapshot records no logical sizes
(`snapshot.rs:501`), and a rebuilt tree has the sizes on disk in their place (`tree.rs:442`); the
model's trees have none.

The trees compared here are also asked for their reports (`TreeReports`).
`ReportOf` is `report_of`: the folders of a folder by `BiggestDirs`, the files by
`BiggestFiles`, one pass of a bounded heap in the order of `Subtree`. The heap
compares arena numbers where sizes are equal, and those depend on the order in
which batches arrived, so `nr` is any numbering with parents before children.

### The snapshot store

One action per access to the file system: `Capture`, `OpenTmp`, `WriteTmp`,
`RenameTmp` or `SaveFails`, `ListStore`, `DropOld`. A name leads to a file and
a file to what is in it (`files`, `data`), so that two threads which open one
temporary file write into each other's, and one that still has it open after the
rename writes into the stored snapshot. A comparison is `ListHistory` (which also
picks the newest older snapshot, as `autoCompare` does), `FindAsked`, `LoadAsked`,
`DiffAsked`; `ShowChanges` is the user's pick and `DeleteSnapshot` the user's
deletion. `Crash` ends the process and leaves the folder. A scan that is not
complete is neither stored nor compared and is left out. Assumed: the clock does
not go back; what was written is on the disk (`save` has no fsync, so
that a loss of power is another matter).

### The file table and the removal

`NtfsVolume` turns a disk (paths to records, hard links sharing one) into records
with attributes, the runs of the table into bytes, and any disk into the tree a
walk makes of it (`Walked`). `MftScan` reads it back: `RunsOf` decodes the runs,
`ReadChunk` is one chunk by any thread, `Parse` one record, `Index` the merge of
the extension records and the index by parent, `VisitDir` one turn of `add_mft`'s
loop, `EmitDir` one of `walk`'s, which takes its place when something is excluded,
`WalkCloud` the walk of one cloud folder. An exclusion is a set of names; globs that
match a whole path are left out. `ReadFails` and a folder that is
not found lead to `fallback`, where the directory walk takes over. Where a size on disk has
to be asked for (`OnDisk`) the answer is always had: that the call fails, and each engine then
takes the logical size it read (`lib.rs:357-361`, `tree.rs:269`, `mft.rs:725`), is left out.

`RemovePath` goes on from the tree of that scan. `List`, then one of `DryRun`,
`Trash` and the deletion: `Unlink` is one file by one thread, `RemoveLevel` one
level of folders, the deepest first. `StopRemoval` is the cancel, refusals of
the system are bounded by `MaxErrors`. What the window then does with the tree
(`ScanTree::remove`, with `subtract` and `recheck_complete`) is `RemoveFromTree`.

Abstracted: the listing is one step, which after a cancel reads any folders it
can have reached (`ParallelWalk` has its threads); one removal at a time; a cloud
folder is walked in one step; which folder of the queue comes next is left open;
a read gives whole records (fix-ups, the boot sector, byte offsets are not there);
names differ in more than case.

### Open scans

A tree is the set of items it holds, a view of folder `p` those below `p`. The
trees have numbers, so that an `Arc` a command still holds and the tree in the
job's slot can be told apart. `scan_dir` is `Register`, `Build`, `Keep`,
`SaveSnapshot` (its background thread); `view` is `LookUp`, `Compute`,
`Remember`, one action per lock taken; `remove_path_cmd` is `RemovePath`,
`CollectTrees`, and `ForgetPath` per tree. In the window each handler up to its
first `await` is one action and what follows the answer another (`Navigate` and
`ViewAnswer`, `Rescan` and `ScanAnswer`, `DeletePath` and `RemovalAnswer`). They
end with `RenderMain`, because what a user can click is what is on the page, and
the page deliberately stays while a folder loads.

Abstracted: the walk is one step (`Build`; a cancelled one reads any part); only
the app changes the disk; one removal at a time; all tabs scan one root on one
drive; the parallel setting stays as it is; an error answer of `scan_dir` is left out; `tree_of` and the first read
of the views are one step.

`Waits` describes the user: with it, deletions and rescans are not started while
another request they could mix with is under way. The code enforces none of
this. Properties that hold only then say so (`Waits => ...`), and section 5
names what happens otherwise.

## 3. What the runs check

Each run is `tlc -config MC<module>_<suffix>.cfg MC<module>`; `dup_search`,
`snap_diff` and `snap_store` have a `.cfg` without suffix.

| run | instance | shows |
| --- | --- | --- |
| `tree_deep` | six directories in two chains below the root, depth limit 3 that cuts off the last, one folder whose entries may fail, two threads | `BuildInv` (one node per directory, parents first, `pending` exact), `CompleteIsExact`, `NeverOvercounts`, `BuildReturns`, `ImplementsContract` |
| `tree_links` | links followed by three threads: two links to one directory, one to the root, an unreadable target | `TargetsOnce`, `FollowReachesEverything`, `NeverOvercounts` |
| `helper_timely` | four worlds: two jobs and three scans in a calm one; two jobs and helpers that come up late; restarts of the app; restarts, slow saves and late helpers. Crashes in all | `PromptsOnlyWithoutHelper` in the calm one; `OwnAnswer` there and with late helpers; `OnlyStrangersHang`, `HelperQuits`, `ProtocolInv` in all |
| `helper_hang` (violation) | one job, the app started again | `EveryScanEnds` fails |
| `dup_search` | three paths, two inodes, a hard link, a file without times, two tabs one searching below the other | `GroupsIdentical`, `HardLinksNotDuplicates`, `NoDuplicateMissed` |
| `reclaim_crash` | two copies of different times and their temporary paths; delete and hard link, failures, crashes, one edit | `FileStaysInPlace`, `KeepsACopy`, `ReclaimInv` (types, and that what a command has to do, has done and keeps are apart), `HardLinksNotDuplicates` |
| `reclaim_tabs` (violation) | two tabs showing one group | `OneFileKept` fails |
| `scans_browse` | two tabs, one scan at a time, a folder and an item in it | `ViewsAreCurrent`, `CurrentMatchesTree`, `GoneFromOpenScans`, `OneScanEach`, `ClosedIsFreed`, `ParallelLimit`, `QueuedStarts` |
| `snap_store` | three scans of a root that has one old snapshot, a clock of three seconds, retention 2, 1, 2, one comparison, one deletion, one crash | `WholeSnapshots`, `NewestStay`, `StoreBounded`, `ComparesAsked` |
| `snap_diff` | every pair of scans with up to four items, three folders, both formats, a name that is not UTF-8; for each scan every numbering of its folders, lists of one and of two | `DiffIsExact`, `UnchangedMeansSame`, `RoundTrip`, `ReportsAreScans` |
| `disk` | a disk of 18 records in three runs, records split in seven ways, three starts, three depth limits, with two sets of excluded names and without; then seven targets, three modes, two refusals | `EnginesAgree`, `NothingElseGoes`, `RemoveIsRescan`, `ReportIsTrue` |
| `disk_split` (violation) | a sparse file whose data attribute is in an extension record | `EnginesAgree` fails |

Four more configurations stand beside the runs. TLC refutes the property of each, which
says what the code documents or a reader expects (section 5):

| configuration | instance | refuted |
| --- | --- | --- |
| `MCHelperProtocol_late` | one job, two scans, a prompt accepted after the app gave it up | `OneHelper` |
| `MCReclaim_temp` | two copies, and a file with the name of the temporary link of one | `FailedLinkLosesNothing` |
| `MCRemovePath_report` | the disk of `disk_split`, any deletion with at most one refusal | `ReportIsWhatWent` |
| `MCSnapshotDiff_names` | scans with a name that is not UTF-8 | `SameTree` |

Every property of a passing run has a mutant: a definition changed the way a
bug would change the code (`(* Mutant: ... *)` operators, listed in
`PROJECT.json`), under which TLC finds the property violated.

### Bounds, and why they are enough

* Walk: `Dirs` and `Workers`. The builder's hard case needs a batch before its
  parent's and grandparent's, hence chains of three and two threads; two chains
  let a third batch fall between. `tree_links` needs two threads at two links
  to one target and a third at the link to the root.
* Helper: `MaxScans` and `MaxHelpers`. A rescan of one job while another job
  waits takes three scans; a helper and its replacement take two processes.
  Ids are not symmetric in the code's files, so no symmetry is used.
* Duplicates: `MaxEdits`, `MaxSearches`. A stale cache entry takes one search
  to make, an edit or reclaim, and one search to use. `dup_search` has two
  edits, so that one can hit a file between two steps of one search and another
  undo it. Two inodes and three paths are two files and a hard link. No two files
  start with the same time there: with two, one race more is possible, which the
  code loses (section 5).
* Snapshot store: `MaxScans`, `MaxClock`, `MaxDeletes`, `MaxCrashes`, `Watched`.
  Three scans in three seconds can end in one second, in two or in three; with the
  old snapshot and retention 1 or 2, two are dropped at a time, by two threads at
  once. The scan compared is the last one started, which has the others as
  history. The first scan's snapshot is the longest, so that a shorter one
  written over it is not whole.
* Comparison: the items are `a`, `a!`, `a/a`, `a/a!`, each absent, a folder, an
  unread folder or a file, and `!` sorts before the separator: the smallest names
  whose order as bytes is not their order as keys. The sizes 1 and 128 take one
  and two bytes; `DiffFileLimit` 1 makes the list of changes overflow. Each is
  compared at the root, at `a`, and at `a!`, whose key has that of `a` as a prefix.
  Two more scans have files in two folders, equal and unequal ones, so that a list of
  `Tops` 1 or 2 has to choose between folders; `Bounds` has a range below, between and
  above the sizes.
* Disk: `Chunk` 4 against runs of 6, 6 and 8 records of 18, so that chunks end
  inside runs and the table inside the last. The runs' distances need one byte,
  are negative, and need two. The layouts move the name, all names, the data, a
  later piece of it or the reparse point into the extension record. Two refusals
  are one of a file and one of the folder above it, or of two levels. The excluded names
  take away folders with something in them, a link, one name of a file with two, a
  folder of the cloud, or one inside it.
* Open scans: `MaxJobs`, `MaxScans`, `MaxCalls`. Two tabs are one on screen and
  one behind; two scans with one place are one that waits; `MaxCalls` 1 means
  one folder request at a time, which is enough to break each property; that
  more change nothing is what the theorems of section 4 are for. `MayScan` keeps a scan in reserve for every queued job, so
  that the bound never keeps one from starting.

`CHECK_DEADLOCK FALSE` is set where the system may really stop: nobody has to
click, and the bounds run out.

### Fairness

`SnapshotStore`, `SnapshotDiff` and `RemovePath` have safety properties only and no
fairness. `TreeBuilder`: every thread of the pool and the receiver keep running; nobody has
to cancel. `HelperProtocol`: the app's threads and a running helper go on, the
prompt is answered one way or the other or times out, time passes; asking, cancelling,
quitting and crashing are not fair. `OpenScans`: the backend's threads and the
window's event loop go on; the answer of a scan and that of a removal are strongly fair
only because of the bound `MaxCalls`, which the code does not have: they ask
for a folder, which has to wait here for a free place.

## 4. What is proved

TLAPS checks these for every value of the constants that satisfies the named
assumptions (`PathAssumption`, `ScanAssumption`, `LinkAssumption`, `WorkersAssumption`;
`MftAssumption`, `VolumeAssumption`, `RemoveAssumption`; `OpenScansAssumption`;
`StoreAssumption`; `HelperAssumption`; `DupAssumption`, `ReclaimAssumption`; `DiffAssumption`).
`DiffAssumption` is about scans: finitely many items, each a folder or a file and but for the
root in a folder, names of any bytes but 0 and the separator, any conversion of names that makes
names of them, and a root that only a cancel
leaves unread (a directory that cannot be listed, too, sends its batch). `VolumeAssumption`
is about disks: finitely many items, each but the root in a folder, and sizes that are
numbers. `MftAssumption` asks of a start that it is a path.

**`ArenaStaysInOrder`**: `Spec => []BuildInv`, for every directory hierarchy,
number of threads, set of unreadable or flaky directories, links followed or
not, and every depth limit. That no path has two nodes is not inductive: whether
`dir_id` may create a node depends on whether that directory's batch has been
seen. `BuildInv` therefore follows a directory through its life. `OnePlace`: it
is in the queue, in a listing, in the channel or in the arena as listed, never in
two. `Announced`: if it is in any of them, all its ancestors have been started,
and its parent's listing, batch or node already names it. `OwnChildren`: a batch names
children of its directory only. With these, `PendingIsUnlisted` says `pending` finds
exactly the nodes not listed yet, and `Receive` splits into the batch of a known
directory and an early one, whose chain of missing ancestors is new. The
proof has one step per action and, for `Receive`, lemmas on what one `dir_id`
chain and one `fill` do to the arena. **`NoDirectoryTwice`** is the part a
reader wants.

**`BuildKeepsContract`**: `~Follow => (Spec => ImplementsContract)`: `Receive` is a `List` of
the contract and `Finish` its `Cut` or its `Whole`. On top of
`BuildInv` it needs `OnlyVisible` (all that is walked can be seen from the root) and
`NothingLost`: until someone cancels, a visible directory whose parent's listing has
begun is still to be found in it, queued, or on its way to the arena. At `Finish`
there is nothing left on its way, so that every visible directory is listed, from the
root down.

**`LinksEnteredOnce`**: `Spec => []TargetsOnce`, for any options. A directory is entered
once because its target is put into `seen` in the step that looks, and `TargetsApart`
says of every directory that was let in that its target is there and is no other's.

**`CompleteTotalsAreExact`** and **`NothingCountedTwice`**: `Spec => []CompleteIsExact` and
`Spec => []NeverOvercounts`, with links followed or not as far as the properties speak of
it. The invariant is `TotalsInv`, on top of what the contract needs:

* `WalkInv` says what the walk has let in (`Found`) and what it has passed over: what is
  let in was met in the listing of its parent (`FoundFrom`), and until someone cancels a
  sub-directory is still to come, let in, or passed over for a target that was seen
  (`NoneUnseen`), which then is one that was let in (`SeenFound`). `LetsIn(D)` is what any
  step does to these; each action is shown to be one.
* `BytesInv` follows the bytes of a directory through the listing, the channel and the
  arena: none before its files were read, then all of them.
* `TreeOK`: the totals are the roll-up of the arena, which no longer changes.

What is left is about the roll-up alone. `Rolled(k, j)` is the set of directories node
`j` stands for when every node above `k` is rolled up; it begins as the node itself and ends
as all that is below it (`Under`). One stage gives a parent what its child has, and that
these two are apart is where parents before children and one node per directory are needed.
`StageOK` says that bytes, folders and the mark are those of `Rolled`. A fold and a sum over a
set are recursive functions, whose equations are proved by way of a least counterexample
(`SmallestSet`, `FirstMissing`, `LastMissing` in `FiniteSums`), not by the library's induction
theorems.

**`CompleteFollowsEveryLink`**: `Spec => []FollowReachesEverything`, from the same
invariant. A complete tree has listed all it found; were a visible directory's target not
among theirs, there would be a first one on its path that is not, and the
directory with the target of the one above it would lead there too. That is what
`LinkAssumption` is for, a fact about file systems that `canonicalize` rests on: paths to one
canonical directory have the same bytes, can be read or not alike, and lead on to the same
directories. `Dirs` are paths, so those that go round a loop may end where they come back
to a directory they have passed.

**`ProtocolHolds`**: `Spec => []ProtocolInv`, in any world. The slot's lock is all it rests
on: `StartInv` adds that no job is left when the app is gone, that the processes started
are the first ones, and that the folder is there while one is awaited.

**`AnswersAreOwn`** and **`OnePrompt`**: `Spec => []OwnAnswer` and `Spec =>
PromptsOnlyWithoutHelper`. An answer is a file found under the job's number, so that
`OwnAnswer` says nothing of the next one. `HelperInv` follows the folder. `Heard`: the
helper of the slot is heard as long as it is up, so nobody wipes the folder under it.
`OneWorks`: it alone works, since requests carry its token; a helper that comes up late
only takes requests away. `FreshFolder`: while one is started the folder is empty and that
of the slot is gone. `OnlyWaiting`: while the helper of the slot is up, there is nothing in
the folder about a job that does not wait, so that a new scan begins with a clean slate.
`OwnFiles`: for a job that waits there is one request, one tree being built or one
answer, of its present scan. All this holds where the app is started once and saves are
quick (`QuickInv`). `OneRuns`, which `OnePrompt` needs, only where no helper comes up late
too: what runs is the helper of the slot, or the one being started. When the app is gone
the helper may still be there: the theorems say what the run's properties say.

**`RemovalStaysOnPath`** and **`ErrorsAreReported`**: `Spec => []NothingElseGoes` and
`Spec => [](ErrorsAreTrue /\ ProgressIsTrue)`, two of the four parts of `ReportIsTrue`, for any
disk, any target, any number of refusals and any order of the threads; the scan before
it may be anything. **`RemovalIsSound`** is their invariant, `RemovalInv`. `ListingOK`: what was
listed is at or below the path, all of it unless a cancel cut the listing short; a link's
target is not, because a link is an entry and is never entered. `Contained`: what is gone
is on the path, and what is there has its folder. `DeletionOK` is about `Settled`, the
listed items that have been tried: all that is gone is among them, `removed` is the number
of files among them that are gone and, without a cancel, `errors` the number of those that
are still there. So at the end, when all of the path is settled, no error means that
nothing is left. The hard part is the converse, that an error is never of the removal's own
making: as long as the system has refused nothing, each of the deepest folders still to be
removed is empty (`DeepestAreEmpty`), since what is left in it would be deeper and
settled, thus an error.

**`RemovalIsRescan`**: `Spec /\ []EnginesAgree => []RemoveIsRescan`. The hypothesis is the
engine's part: the tree the window has is the one of a directory walk (`disk` checks it,
`disk_split` shows a disk for which it is false). What is left is what `ScanTree::remove` rests
on, in three steps, for any disk, start, options, path and any way the removal went:

* What a finished tree is. `Finished` asks for totals that agree with `TotalsOf` at every
  folder, so it must be shown that there are such totals and no others. `AllBelow` gives
  each folder the sizes and numbers of all that is below it: `BelowSolves` says that
  this agrees, `OnlyBelowSolves` that nothing else does (of the folders where two
  solutions differ take a deepest one: they agree on all that is in it).
* What removing does to it (`RemovedFromTree`). Above the item, subtracting its totals leaves
  the sum of the rest, and nowhere else is anything below it; `Recheck` sets a folder's mark from
  its own listing and the marks that are left, the lowest first, which is what the marks
  of the rest are (`RecheckIs`).
* What a walk sees of what is left (`WalkWithout`): what the walk before saw, without
  what is below the item. Where the path was out of sight, behind the depth limit, an
  excluded name or as a link, both walks see the same and the tree stays
  (`NothingToRemove`). `WhatIsLeft` takes from `RemovalInv` that a path that is gone took all
  below it, and nothing else, with it.

**`ReportCountsRight`**: `Spec => []CountsAreTrue`. The report's files, directories and bytes are
those of the listing. Without a cancel or an error they are what went: by `ErrorsZero`
nothing is left of the path, and by `Contained` nothing else went. Of any other
deletion they are only at least what went, because all that went had been listed
(`DeletionOK`); that they may be more is shown by `MCRemovePath_report`.

**`ReportIsRight`**: `Spec => []ReportIsTrue`, the listing included: what a removal says it will
free is what a scan of its path, without limit and exclusions, has as totals. Paths are
those of the disk in the listing and relative to the path in the scan: the sums are equal as
sums over renamed sets (`Renamed`, `AsMany`). `ScannedInv` carries the bytes of the
listing through the removal (`BytesListed`) and the scan's tree past it.

**`ScansType`**: `Spec => []ScansTypeOK`: no command answers into a job or a tree
that does not exist. It holds with `Waits` or without.

**`CaptureIsCurrent`**: `Spec => []CurrentMatchesTree`, with `Waits` or without: a
capture kept for the next comparison is of the tree as it is. It is
inductive given the types: only `Without` changes items, and drops the capture.

**`ClosedTreesAreFreed`**: `Spec => [](OneScanEach /\ ClosedIsFreed)`. That a closed
job keeps no tree is not inductive: a scan still under way would bring one back.
The strengthening is `OneScanEach`: every scan under way belongs to a job
the window shows as running, and to no other scan's job. Then `Keep` writes to a
running job, `CloseJob` closes one that is not, and `Pump` starts a scan only
for a job that has none.

**`ScansAreLimited`**: `Spec => []ParallelLimit`. Only `Pump` makes one more job running,
and only below the limit; `OneScanEach` makes the job of a scan an injection of the scans
under way into the jobs shown as running, so that there are no more of the former.
**`OneScanAtATime`** is `OneScanEach` by itself.

**`RemovalsReachAllScans`**: `~Partial => (Spec => []GoneFromOpenScans)`. A removal goes
through the trees that are there, so it must be shown that no scan is about to keep
another one. `JobsInv` does it: a job waits only while as many run as may
(`QueueWaits`), each running job has a scan under way (`Pending`), hence while no scan is
under way none can be started, and `Undisturbed` (no scan is, during a removal) is kept by
every step, the answers that call `Pump` included. `TreesFit` then says of every tree in a
slot what it holds: nothing but the disk, except, for those on the removal's list, the
items the disk has lost. `WholeInv` is what `Without` needs: a tree
has the folders above everything in it.

**`KeptViewsAreCurrent`**: `Spec => []ViewsAreCurrent`, for any number of folder requests
under way. `ViewsInv` says it of every place a view can be: `ViewsFit` of those
a tree remembers, `CallFits` of one that is computed and not yet remembered or answered
(its tree is still the job's, and no removal is going on), `TabFits` of the page and of
the folders the window keeps, and `SlotsFit` that a tree in a slot is that of a
scan that is over. The page is left out while its job has a request under way or is
marked stale. The first of these read "while its page is loading" until the proof failed:
with two requests under way the one a removal sent can still be out when a later one
has ended the loading, and the page shows a folder that is gone; `MaxCalls` 1 had hidden it.

**`StoreInvariant`**: `Spec => []StoreInv`, for any number of scans, deletions and
crashes, any retention setting of each scan and snapshots of any length. The four
properties of the run follow from it.

* **`StoredAreWhole`** (`WholeSnapshots`). That a stored file is whole says nothing of
  the next rename, so `WrittenOK` follows a file from its opening: everyone who
  wrote to it was captured in its second, and where that was one scan alone it holds
  nothing, then all. `FilesOK` says that a file has one name and was made by a scan of that
  name's second, so that no other writer gets at it.
* **`StoredStay`** (`NewestStay`). A thread lists, then drops one by one while
  others store, drop and delete. `StaysOK` says of each name to be dropped that it has made
  room (`MadeRoom`: so many newer ones were stored as some scan keeps), which stays
  true because what was stored only grows. That the surplus of a listing has made room
  is an injection of names into seconds (`SurplusMadeRoom`): the one json file
  has a second of its own.
* **`ComparedAsAsked`** (`ComparesAsked`). `ComparedOK` carries through list, find, load and
  diff that the second asked for was stored and is older than the scan, and that
  the name found is the one file of that second. `Clocks` gives that the scan itself
  was captured later.

* **`StoreStaysBounded`** (`StoreBounded`) adds `BoundedOK`: when every thread that stored
  a snapshot has listed the folder, what is stored and on nobody's list of files to drop
  (`Left`) is no more than may be kept. A listing establishes it, whatever the lists
  of other threads hold: of the files it keeps no two have equally many newer
  ones, and each has fewer than it may keep (`KeptAreFew`). Every other step only makes
  `Left` smaller, or marks that a file stayed.

The proof has a lemma per action on what it changes, one per conjunct on how the
conjunct survives, and the few facts about cardinalities as lemmas of their own.

**`SearchTypes`**: `Spec => []DupTypeOK`, in every world. **`GroupsAreIdentical`**,
**`LinksAreCollapsed`**, **`NoneIsMissed`**: `(Cached => ~MayRestore) => (Spec =>
[]GroupsIdentical)`, and so for `HardLinksNotDuplicates` and `NoDuplicateMissed`. They are
for any finite set of paths and any files, contents, nested or disjoint tabs, and any numbers of
edits and searches. The hypothesis is needed: the cache goes by size and time, and a file
put in the place of another with its time is taken for it (section 5). `DupInv` has
one part per question. `Past`: no file has a time of the future, so that what is
written from now on has a new one. `EntriesRight`: as long as the file at a path has the
time of its entry, the entry is right; an edit makes it wrong and gives the file another
time in one step. `CandRight`: what a search knows of a path is right if the path is
still the same since it began, and is fit for the cache even if it is not, because
it will be stored there under the time the walk saw. `LinksApart`: what is compared to the end
is one link of each file. `GroupsRight` is the promise. These are `DupSafe`; `NoneLost` is
about a search and not about what it shows: if nobody interferes, of two copies one
link each is among what is left after every phase, and in the end in one
group. There is one lemma per action; `OneTab` says that a step of one search
touches another only through the cache. What the user does is proved about as `FilesChange`,
any change of files that marks the paths it changes, so that what commands do falls under it.

**`CommandsAreFit`**: `ReclaimSpec => []ReclaimInv`, and **`NoGap`**: `ReclaimSpec =>
FileStaysInPlace`, whatever fails, with any commands at work on the same
files and the app going down at any moment. `ReclaimAssumption` does not keep the names of files and
temporary paths apart, since nothing in the code does. So the property excepts a file that
has the name of another with `.dghtmp`: where linking the other one fails, `lib.rs:524` removes
it (`MCReclaim_temp`, section 5). For all others, a step of a command empties one path, or
changes a temporary path, or puts what is at the temporary path in the place of its file
(`Moves`).

**`RightGroupsKeepACopy`**: `ReclaimSpec /\ []GroupsIdentical => KeepsACopy`, in every world.
`PairsRight` is what the groups' promise becomes once a command is under way and the
groups have changed: a path it still has to deal with, and the one to keep, are copies as
long as neither was changed since the search began. With it nobody can take the content of
such a path away: not the user, not another command, not one that is
putting a third file in its place, since each of them changes one file of the pair at most
or copies one over the other.

**`GroupsStayIdentical`**, **`LinksStayCollapsed`**, **`ACopyIsKept`**: under
`Cached => ~MayRestore /\ "hardlink" \notin Actions`, `GroupsIdentical`,
`HardLinksNotDuplicates` and, with no assumption on the groups, `KeepsACopy` hold of
`ReclaimSpec`. `DupSafe` is kept by what commands do, by the groups they shrink and by a crash,
given that the cache on disk is right as well (`ReclaimSafe`). The hypothesis is needed again: a
hard link, too, puts a file in the place of another with its time, and with a cache TLC
refutes both properties (section 5). For the app with its cache and with
hard links, `RightGroupsKeepACopy` is what is proved: a reclaim loses nothing that the
groups shown do not get wrong.

**`DiffExact`**, **`UnchangedSame`**: `Spec => []DiffIsExact` and `Spec =>
[]UnchangedMeansSame`, for any two trees, any directory, and both formats. `diff` never sees
two items of one name together unless the two streams are in one order, and what orders them
are bytes, not names. So there are four layers.

* *Orders.* `LexPairs(R, B)` is the order of sequences that an order `R` of their
  elements gives. Names, paths and keys are all ordered so: bytes make names, names make
  paths, and bytes with the separator before all others make keys. **`KeysOrdered`** says
  that the last two agree: `KeyBefore(KeyOf(p), KeyOf(q))` exactly if `p` is before `q`, because
  where two paths part, either one ends (and its key does, or has the separator where the
  other has a byte of a name) or their names part at a byte that is not the separator.
* *Capture.* A sort is a function without a recursion (`InOrder`), and what it returns is the
  one listing of its set (`InOrderLists`, `ListingUnique`). The entries of a folder are those
  of the items in it, in path order: each sub-folder, then what is in it, before the next name
  (`CaptureNodeIs`). A finished tree has in each folder what is below it (`FinishedIs`). These
  recursive functions are determined by their equations, which a least path at which
  two solutions differ would refute.
* *Coding.* **`VarintReads`**: every number is read back as written, 7 bits at a time. `AdvanceIs`:
  the cursor on an encoded list is at its next entry, as it holds the key that the
  encoder shared with.
* *Merging.* `MergeInv` (**`DiffMerges`**): while it reads there is one set `W` of items such
  that both cursors are at the first of their own items outside `W` (`Reads`), and `acc` is what
  the trees say of `W` (`Gathered`): totals, folders that came, went, grew and shrank, and the
  counts, sums and biggest changes of the files in `W`. One set for both cursors is what
  makes it inductive: an item read from one side puts nothing of the other side into `W`, since
  the other cursor is past it (`NotInOther`), so it is in one tree only. `PushLists` is the
  bounded list: without the least of its changes it still has the biggest ones.

When both streams are at their end `W` is everything (`BothRead`), which is `DiffIsExact`.
`UnchangedMeansSame` follows from it: no folder was gathered and no file counted.

**`SnapshotRoundTrip`**: `Spec => []RoundTrip`: `from_entries` of what was captured is the
tree that was captured, with its names converted: the same tree when they are all UTF-8. Nothing
is said when two items become one path. `from_entries` never looks at a path but for its
depth and last name, so that where an entry goes hangs on the folders open at that point. After the first `i` entries, `ShownTo`:
the open folders are the prefixes of the last entry's folder, and the tree has the first `i`
items, as they are shown (`AsShown`). The next item's folder is one of them, because
everything between a folder and an item
in it is in this folder (`Between`). `from_entries` takes the root for read, which the property
spells out; it differs in a cancelled tree only.

Only model-checked: liveness (`BuildReturns`, `OnlyStrangersHang`, `HelperQuits`,
`QueuedStarts`), which is out of the prover's reach; the
contract where links are followed; the duplicates where files of equal time take each other's
place and there is a cache; the reports of a tree (`ReportsAreScans`); and `EnginesAgree` of
`MftScan`. The last two are about algorithms on tables and lists, made of recursive
functions and folds that are nested: induction over data is out of the provers' reach, and
the way round it taken for the builder's totals and for snapshots (least counterexamples)
would have to be gone for each.

## 5. What was found

Disagreements between the code and what it says, each a run or a configuration that TLC
refutes:

1. **The last copy can go** (`reclaim_tabs`, `lib.rs:504`): `reclaim` does not look at the
   file to keep, so two tabs showing one group delete all of it.
2. **A scan that hangs** (`helper_hang`, `helper.rs:112`): after a restart of the app the
   old helper removes the new one's request and keeps the beat fresh.
3. **Two helpers in one session** (`MCHelperProtocol_late`, `helper.rs:241`): a prompt the app has
   given up can still be accepted. That helper, which has no slot, is up beside the one the
   next scan starts, with a second consent, and takes its requests away.
4. **A report of what was listed** (`MCRemovePath_report`, `lib.rs:667`): after a refusal or a cancel
   the report's files, directories and bytes, documented as removed and freed
   (`lib.rs:280-285`) and shown so (`app.js:1533`), include what is still there.
5. **A sparse file counted at its logical size** (`disk_split`, `mft.rs:517`): when its data
   attribute is in an extension record, the flags that tell it is sparse are not.
6. **A name that is not UTF-8** (`MCSnapshotDiff_names`, `tree.rs:425`): in the tree made of a snapshot,
   documented as "the same folders, files and sizes" (`snapshot.rs:499-500`), it is another name.
   The path of such an item in a tree from the elevated helper is not one on the disk.
7. **A failed link removes another file** (`MCReclaim_temp`, `lib.rs:524`): when `p.dghtmp` is a
   file of the user's, `hard_link` fails and the error path, meant for `reclaim`'s own temporary
   link, removes that file, against "no data-loss window" (`lib.rs:516-517`).

Not runs of their own, but refuted when a run is changed as the first column says:

| change | refuted | scenario |
| --- | --- | --- |
| a restart or a slow save in a `Quick` world | `OwnAnswer` | a slow helper answers the next scan of the same job |
| a late helper in a `Calm` world | `PromptsOnlyWithoutHelper` | a second process is started beside one that was given up |
| `EveryScanEnds` in `MCHelperProtocol_late` | itself | the late helper removes the request meant for the next one and keeps the beat fresh |
| `CancelOnlyOwn` in `helper_timely` | `CancelOnlyOwn` | a cancel passed on just after the folder was wiped cuts the job's next scan short |
| `CompleteMeansEveryDirectoryRead` in `tree_deep`, with an unreadable directory | itself | `complete` is true although a directory could not be listed (`tree.rs:174`, `:521`) |
| two equal-time copies in `reclaim_crash`, hard linked, searched again | `HardLinksNotDuplicates` | the cached file id is not that of the path any more (`dupes.rs:353`) |
| the two equal-time files of `reclaim_tabs`, one tab, no action, `MayRestore`, `MaxEdits` 2 | `NoDuplicateMissed` | a file changes between its listing and its hashing, so its new hash is cached under its old time, which a copy then gives back to it |
| three files, two of one time and size but not of one content, searched by two tabs with a cache; one edit, one hard link | `GroupsIdentical` | a search stores the old hash of a file after it was edited; linked to a file of its old time, the path gets that hash back |
| the two equal-time files with `MaxEdits` 3 | `GroupsIdentical` | both files are changed like that and one is put back |
| `OnScreenIsCurrent` in `scans_browse` | itself | `closeJob` activates the neighbouring tab without re-reading its folder when it is stale (`app.js:649`): it shows a deleted path |
| `Waits = FALSE` in `scans_browse` | `ViewsAreCurrent` | a view computed before a removal is remembered after it |
| | `GoneFromOpenScans` | a scan that passed the path before its removal keeps its tree after it |
| | `OneScanEach`, `ParallelLimit`, `ClosedIsFreed` | Rescan pressed twice while a folder loads |
| `ListNeverReshuffles` in `snap_diff` | itself | which of equally big files at the end of the biggest files is listed depends on the order in which folders arrived (`tree.rs:647`, against `:665`) |
| `Partial = TRUE` in `scans_browse` | `GoneFromOpenScans` | a folder removed in part stays in the trees whole |

`WholeSnapshots` says "where one scan alone was captured in that second". Without
that, "a crash never leaves a half-written snapshot behind" (`snapshot.rs:456-457`) is
refuted: two scans captured in one second share the temporary file, one renames
what the other is still writing, and a crash leaves it so. A temporary file left by a
crash or a failed write (`SaveFails`) is never removed.

Seen while modelling, and stated by no run:

* Removal and reclaim: where the file to keep and the copy are links of one file
  already, POSIX `rename` does nothing and `p.dghtmp` stays; a copy with
  another hard link outside the group frees no space when it is deleted, although
  README.md:237-238 calls the number the space one gets back (`dupes.rs:369`). A trash
  run and the removal of folders do not look at the cancel flag. `remove_path_cmd` asks
  whether the path exists by following it, so that a dangling link is refused.
* Snapshots: a scan that keeps one snapshot (`app.js:478`) drops the one its own
  comparison is about to read. `is_unchanged` (`snapshot.rs:660`) does not see a new empty
  folder below the first level. A format 1 snapshot always counts as complete.
* The file table: an 8.3 name that is alone in an extension record becomes a second
  name of the file (`mft.rs:326`, `:515`); runs of the table itself that are in an extension
  record are not read; clusters smaller than a record, in extents of odd length,
  shift the numbers of records; a torn record is passed over and the tree still called
  complete; a scan started inside a folder OneDrive syncs is read from the
  table, as only the folder it starts at is asked about; a depth limit of 0, which the
  command line allows, is understood differently by the two engines.

## 6. Not modelled

`PROJECT.json` lists every component with its status.

* **PATH editing**: `with_dir` and `without_dir` are list edits of a line each between a
  read and a write of the registry or a shell profile; a model would repeat them.
* **Command line**: argument handling and output, one command per process; its `dupes`,
  `rm` and `diff` use what `Reclaim`, `RemovePath` and `SnapshotDiff` model.
* **Presentation** (treemap, formatting, translations, settings), **build scripts**,
  **benches**, **schemas**: no behaviour a model would add to.
* **Of queries**: statistics by extension, which count as those by size do, and free space.
* **Bytes**: fix-ups, the boot sector and attribute offsets; zstd and headers; the cache
  file's encoding. Losing power, which may undo writes that were never synced.
* **External**: NTFS, the registry, the trash, the consent prompt, the cloud filter.

## 7. Plan

What could still be modelled: the file table feeding `DuplicateSearch`'s listing;
error answers of `scan_dir` and a changing parallel limit in `OpenScans`; several
groups in one reclaim command.

Theorems worth proving next:

* `MftScan`: parts of `EnginesAgree`. That what is emitted is on the disk, below the start and
  emitted once is about `queue`, `listed` and `file` and could do without the decoding of the
  runs, given what `table` holds; the decoding is one recursive function.
* `SnapshotDiff`: `ReportsAreScans`. What sorts and sums return is proved in
  `SnapshotDiffProofs`, and so is what a folder of a finished tree has; what is missing is that a
  part of a tree, moved to the root, has the totals it has in place, and the bounded heap.
