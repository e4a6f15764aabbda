----------------------------- MODULE OpenScans -----------------------------
(***************************************************************************)
(* The open scans of the app: the trees the backend keeps, one per scan    *)
(* job (gui/src-tauri/src/main.rs), and what the window shows of them      *)
(* (gui/ui/app.js).  The backend answers a folder from the views it has    *)
(* computed, the window from those it has been sent; a deletion has to     *)
(* reach the disk, the trees and both of these caches.                     *)
(*                                                                         *)
(* A tree is the set of items it holds, a view of a folder those below it. *)
(* The walk is one step (see TreeBuilder).  Jobs are numbered in the order *)
(* of the sidebar; they scan one folder with different options, which make *)
(* no difference here.                                                     *)
(***************************************************************************)
EXTENDS Naturals, FiniteSets

CONSTANTS
  MaxJobs,     \* bound on the tabs opened
  MaxScans,    \* bound on the scans asked for
  MaxCalls,    \* bound on the `view` commands under way
  Parallel,    \* the setting: scans at a time
  Root,        \* the folder scanned
  Items,       \* the files and folders below it
  Sub,         \* Sub[p]: p and what is below it
  Folders,     \* the folders that can be shown, Root among them
  Up,          \* Up[p]: the folder p is in
  Partial,     \* a removal may leave a part of a folder
  Waits,       \* a deletion or a rescan is not mixed with another request
  None

ASSUME OpenScansAssumption ==
  /\ {MaxJobs, MaxScans, MaxCalls, Parallel} \subseteq Nat \ {0}
  /\ Root \in Folders /\ Root \notin Items
  /\ Folders \subseteq Items \cup {Root}
  /\ \A s \in SUBSET Items : s # None
  /\ \A p \in Folders \cup Items : Sub[p] \subseteq Items
  /\ Sub[Root] = Items
  /\ \A p \in Items : /\ p \in Sub[p] /\ \A q \in Sub[p] : Sub[q] \subseteq Sub[p]
                      /\ Up[p] \in Folders /\ p \in Sub[Up[p]] /\ Up[p] \notin Sub[p]
  /\ Partial \in BOOLEAN /\ Waits \in BOOLEAN

VARIABLES
  disk,      \* the items on disk
  slot,      \* AppState::trees: the number of the scan each job's tree is of, or 0
  tree,      \* tree[n]: the Cached of scan number n
  running,   \* AppState::jobs: the scan each job can be cancelled by, or 0
  scan,      \* scan[n]: the scan_dir command number n
  call,      \* call[c]: a `view` command
  removal,   \* the remove_path_cmd command
  tab,       \* tab[j]: the job as the window has it
  active,    \* the job selected, or 0
  page       \* what the main area shows: the job, and whether its result

backend == <<slot, tree, running>>
vars == <<disk, backend, scan, call, removal, tab, active, page>>

Jobs == 1..MaxJobs
Scans == 1..MaxScans
Calls == 1..MaxCalls

NoViews == [p \in Folders |-> None]
NoTree == [items |-> {}, views |-> NoViews, current |-> None, complete |-> FALSE, save |-> FALSE]
NoScan == [st |-> "unused", job |-> 0, stop |-> FALSE, items |-> {}]
NoCall == [st |-> "free", job |-> 0, path |-> Root, n |-> 0, view |-> None]
NoRemoval == [st |-> "free", item |-> None, todo |-> {}]
NewTab == [st |-> "queued", view |-> None, path |-> Root, loading |-> FALSE,
           cache |-> NoViews, stale |-> FALSE, back |-> None]
Unopened == [NewTab EXCEPT !.st = "unopened"]
Closed == [NewTab EXCEPT !.st = "closed"]

Init ==
  /\ disk = Items
  /\ slot = [j \in Jobs |-> 0]
  /\ tree = [n \in Scans |-> NoTree]
  /\ running = [j \in Jobs |-> 0]
  /\ scan = [n \in Scans |-> NoScan]
  /\ call = [c \in Calls |-> NoCall]
  /\ removal = NoRemoval
  /\ tab = [j \in Jobs |-> Unopened]
  /\ active = 0
  /\ page = [job |-> 0, result |-> FALSE]

Listed(j) == tab[j].st \notin {"unopened", "closed"}
UnderWay(n) == scan[n].st \in {"sent", "building", "built", "answer"}
Asking(j) == \E c \in Calls : call[c].st # "free" /\ call[c].job = j
Removing == removal.st # "free"

(* The view of folder p in tree number n, None if it does not have p. *)
ViewOf(n, p) ==
  IF p = Root \/ p \in tree[n].items THEN tree[n].items \cap Sub[p] ELSE None

Lowest(S) == {i \in S : \A k \in S : i <= k}

(* Sets of items no item of which is in a folder that is missing. *)
WholePaths(S) == {s \in SUBSET S : \A x \in Items \ s : s \cap Sub[x] = {}}

-----------------------------------------------------------------------------
(* The backend: scan_dir.                                                  *)

(* Running::start. *)
Register(n) ==
  /\ scan[n].st = "sent"
  /\ running' = [running EXCEPT ![scan[n].job] = n]
  /\ scan' = [scan EXCEPT ![n].st = "building"]
  /\ UNCHANGED <<disk, slot, tree, call, removal, tab, active, page>>

(* build_tree, and Running is dropped, whatever scan it was that the job   *)
(* could be cancelled by.                                                  *)
Build(n) ==
  /\ scan[n].st = "building"
  /\ running' = [running EXCEPT ![scan[n].job] = 0]
  /\ \E read \in IF scan[n].stop THEN WholePaths(disk) ELSE {disk} :
       scan' = [scan EXCEPT ![n].st = "built", ![n].items = read]
  /\ UNCHANGED <<disk, slot, tree, call, removal, tab, active, page>>

(* The tree is kept for the job.  That of a complete scan is captured and  *)
(* saved in the background.                                                *)
Keep(n) ==
  /\ scan[n].st = "built"
  /\ slot' = [slot EXCEPT ![scan[n].job] = n]
  /\ tree' = [tree EXCEPT ![n] = [NoTree EXCEPT !.items = scan[n].items,
                                    !.complete = ~scan[n].stop, !.save = ~scan[n].stop]]
  /\ scan' = [scan EXCEPT ![n].st = "answer"]
  /\ UNCHANGED <<disk, running, call, removal, tab, active, page>>

(* current_snapshot: a capture is kept for the next caller. *)
CurrentSnapshot(n) ==
  [tree[n] EXCEPT !.current = IF @ = None THEN tree[n].items ELSE @]

(* The background thread of scan_dir. *)
SaveSnapshot(n) ==
  /\ tree[n].save
  /\ tree' = [tree EXCEPT ![n] = [CurrentSnapshot(n) EXCEPT !.save = FALSE]]
  /\ UNCHANGED <<disk, slot, running, scan, call, removal, tab, active, page>>

(* diff_since, for autoCompare or the Compare button. *)
DiffSince(j) ==
  /\ tab[j].st = "done" /\ slot[j] # 0 /\ tree[slot[j]].complete
  /\ tree' = [tree EXCEPT ![slot[j]] = CurrentSnapshot(slot[j])]
  /\ UNCHANGED <<disk, slot, running, scan, call, removal, tab, active, page>>

-----------------------------------------------------------------------------
(* The backend: view.  The locks are let go of between its three steps.    *)

(* tree_of, and the views it has. *)
LookUp(c) ==
  LET n == slot[call[c].job]
      answer(v) == [call[c] EXCEPT !.st = "answer", !.view = v]
  IN /\ call[c].st = "sent"
     /\ call' = [call EXCEPT ![c] =
          IF n = 0 THEN answer(None)
          ELSE IF tree[n].views[call[c].path] # None THEN answer(tree[n].views[call[c].path])
          ELSE [@ EXCEPT !.st = "missed", !.n = n]]
     /\ UNCHANGED <<disk, backend, scan, removal, tab, active, page>>

(* view_of. *)
Compute(c) ==
  LET v == ViewOf(call[c].n, call[c].path)
  IN /\ call[c].st = "missed"
     /\ call' = [call EXCEPT ![c].view = v, ![c].st = IF v = None THEN "answer" ELSE "computed"]
     /\ UNCHANGED <<disk, backend, scan, removal, tab, active, page>>

Remember(c) ==
  /\ call[c].st = "computed"
  /\ tree' = [tree EXCEPT ![call[c].n].views[call[c].path] = call[c].view]
  /\ call' = [call EXCEPT ![c].st = "answer"]
  /\ UNCHANGED <<disk, slot, running, scan, removal, tab, active, page>>

-----------------------------------------------------------------------------
(* The backend: remove_path_cmd and forget_paths.                          *)

(* remove_path: all of it goes, nothing does, or a part is left. *)
RemovePath ==
  LET had == disk \cap Sub[removal.item]
  IN /\ removal.st = "sent"
     /\ \E left \in SUBSET had :
          /\ disk \ (had \ left) \in WholePaths(Items)
          /\ Partial \/ left \in {{}, had}
          /\ disk' = disk \ (had \ left)
     /\ removal' = [removal EXCEPT !.st = "removed"]
     /\ UNCHANGED <<backend, scan, call, tab, active, page>>

(* Mutant: jobs without a tree are not passed over. *)
CollectAllSlots ==
  /\ removal.st = "removed"
  /\ removal' = [removal EXCEPT !.st = "forgetting",
       !.todo = IF removal.item \in disk THEN {} ELSE {slot[j] : j \in Jobs}]
  /\ UNCHANGED <<disk, backend, scan, call, tab, active, page>>

(* Mutant: only the tree of the page is changed. *)
CollectOwnTree ==
  /\ removal.st = "removed"
  /\ removal' = [removal EXCEPT !.st = "forgetting",
       !.todo = IF removal.item \in disk THEN {} ELSE {slot[j] : j \in Jobs \cap {page.job}} \ {0}]
  /\ UNCHANGED <<disk, backend, scan, call, tab, active, page>>

(* all_trees; only a path that is gone is taken out of them. *)
CollectTrees ==
  /\ removal.st = "removed"
  /\ removal' = [removal EXCEPT !.st = "forgetting",
       !.todo = IF removal.item \in disk THEN {} ELSE {slot[j] : j \in Jobs} \ {0}]
  /\ UNCHANGED <<disk, backend, scan, call, tab, active, page>>

(* Mutant: the capture of a tree is kept when the tree changes. *)
WithoutItem(n, x) ==
  IF x \in tree[n].items
    THEN [tree[n] EXCEPT !.items = @ \ Sub[x], !.views = NoViews]
    ELSE tree[n]

(* ScanTree::remove, and Cached::changed if the path was there. *)
Without(n, x) ==
  IF x \in tree[n].items
    THEN [tree[n] EXCEPT !.items = @ \ Sub[x], !.views = NoViews, !.current = None]
    ELSE tree[n]

ForgetPath(n) ==
  /\ removal.st = "forgetting" /\ n \in removal.todo
  /\ tree' = [tree EXCEPT ![n] = Without(n, removal.item)]
  /\ removal' = [removal EXCEPT !.todo = @ \ {n}]
  /\ UNCHANGED <<disk, slot, running, scan, call, tab, active, page>>

-----------------------------------------------------------------------------
(* The window: what every handler of it ends with.                         *)

(* renderMain: while a folder loads the page stays as it is, buttons and   *)
(* all.                                                                    *)
RenderMain ==
  page' = IF active' # 0 /\ tab'[active'].loading /\ tab'[active'].view # None THEN page
          ELSE [job |-> active', result |-> active' # 0 /\ tab'[active'].st = "done"]

(* Mutant: a scan that is done keeps its place. *)
PumpCountsDone(t, s) ==
  LET queue == {j \in Jobs : t[j].st = "queued"}
      unused == {n \in Scans : s[n].st = "unused"}
  IN IF queue # {} /\ Cardinality({j \in Jobs : t[j].st \in {"running", "done"}}) < Parallel
       THEN \E first \in Lowest(queue), n \in Lowest(unused) :
              /\ tab' = [t EXCEPT ![first].st = "running"]
              /\ scan' = [s EXCEPT ![n] = [NoScan EXCEPT !.st = "sent", !.job = first]]
       ELSE tab' = t /\ scan' = s

(* Mutant: one scan more than the setting allows. *)
PumpOneMore(t, s) ==
  LET queue == {j \in Jobs : t[j].st = "queued"}
      unused == {n \in Scans : s[n].st = "unused"}
  IN IF queue # {} /\ Cardinality({j \in Jobs : t[j].st = "running"}) <= Parallel
       THEN \E first \in Lowest(queue), n \in Lowest(unused) :
              /\ tab' = [t EXCEPT ![first].st = "running"]
              /\ scan' = [s EXCEPT ![n] = [NoScan EXCEPT !.st = "sent", !.job = first]]
       ELSE tab' = t /\ scan' = s

(* Mutant: the job that starts stays in the queue. *)
PumpKeepsQueued(t, s) ==
  LET queue == {j \in Jobs : t[j].st = "queued"}
      unused == {n \in Scans : s[n].st = "unused"}
  IN IF queue # {} /\ Cardinality({j \in Jobs : t[j].st = "running"}) < Parallel
       THEN \E first \in Lowest(queue), n \in Lowest(unused) :
              /\ tab' = t
              /\ scan' = [s EXCEPT ![n] = [NoScan EXCEPT !.st = "sent", !.job = first]]
       ELSE tab' = t /\ scan' = s

(* pump and jobsToStart, on the tabs t and the scans s: one change lets    *)
(* one job start at most.                                                  *)
Pump(t, s) ==
  LET queue == {j \in Jobs : t[j].st = "queued"}
      unused == {n \in Scans : s[n].st = "unused"}
  IN IF queue # {} /\ Cardinality({j \in Jobs : t[j].st = "running"}) < Parallel
       THEN \E first \in Lowest(queue), n \in Lowest(unused) :
              /\ tab' = [t EXCEPT ![first].st = "running"]
              /\ scan' = [s EXCEPT ![n] = [NoScan EXCEPT !.st = "sent", !.job = first]]
       ELSE tab' = t /\ scan' = s

(* The bound on scans: one is left for each job queued and for this one. *)
MayScan ==
  Cardinality({j \in Jobs : tab[j].st = "queued"}) < Cardinality({n \in Scans : scan[n].st = "unused"})

(* What a user who waits for the answers of the app does not do. *)
Apart(b) == Waits => ~b

-----------------------------------------------------------------------------
(* The window: folders.                                                    *)

(* The end of navigate: view v of folder p is shown. *)
Show(j, v, p) == [tab[j] EXCEPT !.view = v, !.path = p, !.loading = FALSE]

(* The `view` command is sent. *)
Ask(j, p) ==
  \E c \in Lowest({d \in Calls : call[d].st = "free"}) :
    call' = [call EXCEPT ![c] = [NoCall EXCEPT !.st = "sent", !.job = j, !.path = p]]

(* A folder of the page, or by key the one above the job's folder. *)
Reachable(j, p) ==
  \/ page = [job |-> j, result |-> TRUE]
  \/ j = active /\ tab[j].path # Root /\ p = Up[tab[j].path]

Navigate(j, p) ==
  /\ Listed(j) /\ tab[j].view # None /\ p # tab[j].path /\ Reachable(j, p)
  /\ IF tab[j].cache[p] # None
       THEN tab' = [tab EXCEPT ![j] = Show(j, tab[j].cache[p], p)] /\ UNCHANGED call
       ELSE tab' = [tab EXCEPT ![j].loading = TRUE] /\ Ask(j, p)
  /\ Apart(Removing \/ tab[j].st # "done")
  /\ UNCHANGED <<disk, backend, scan, removal, active>>
  /\ RenderMain

(* The answer of `view` goes into the cache the job has by now. *)
ViewAnswer(c) ==
  LET j == call[c].job
      p == call[c].path
      v == call[c].view
  IN /\ call[c].st = "answer"
     /\ tab' = IF ~Listed(j) THEN tab
               ELSE IF v = None THEN [tab EXCEPT ![j].loading = FALSE]
               ELSE [tab EXCEPT ![j] = [Show(j, v, p) EXCEPT !.cache[p] = v]]
     /\ call' = [call EXCEPT ![c] = NoCall]
     /\ UNCHANGED <<disk, backend, scan, removal, active>>
     /\ RenderMain

(* A job that is out of date reads its folder again. *)
SelectJob(j) ==
  /\ Listed(j) /\ active # j
  /\ active' = j
  /\ IF tab[j].stale /\ tab[j].view # None
       THEN tab' = [tab EXCEPT ![j].stale = FALSE, ![j].loading = TRUE] /\ Ask(j, tab[j].path)
       ELSE UNCHANGED <<tab, call>>
  /\ Apart(tab[j].stale /\ (Removing \/ tab[j].st # "done"))
  /\ UNCHANGED <<disk, backend, scan, removal>>
  /\ RenderMain

-----------------------------------------------------------------------------
(* The window: jobs.                                                       *)

Enqueue(j) ==
  /\ tab[j].st = "unopened" /\ \A i \in 1..(j - 1) : tab[i].st # "unopened"
  /\ MayScan
  /\ Pump([tab EXCEPT ![j] = NewTab], scan)
  /\ active' \in {active, j}
  /\ Apart(Removing)
  /\ UNCHANGED <<disk, backend, call, removal>>
  /\ RenderMain

(* The button of the page, which a scan that loads a folder still shows. *)
Rescan(j) ==
  /\ page = [job |-> j, result |-> TRUE] /\ Listed(j)
  /\ MayScan
  /\ Pump([tab EXCEPT ![j].st = "queued", ![j].back = tab[j].path], scan)
  /\ Apart(Removing \/ Asking(j) \/ tab[j].st # "done")
  /\ UNCHANGED <<disk, backend, call, removal, active>>
  /\ RenderMain

Returns(j) == tab[j].back \notin {None, Root}

(* What a scan's answer makes of its job: a cache that starts anew with    *)
(* the root, which is shown unless it was another folder before.           *)
Scanned(j, v) ==
  [tab[j] EXCEPT !.st = "done", !.view = v, !.path = Root, !.back = None,
                 !.cache = [NoViews EXCEPT ![Root] = v], !.loading = @ \/ Returns(j)]

(* The answer of scan_dir, in runJob. *)
ScanAnswer(n) ==
  LET j == scan[n].job
  IN /\ scan[n].st = "answer"
     /\ Pump(IF Listed(j) THEN [tab EXCEPT ![j] = Scanned(j, scan[n].items)] ELSE tab,
             [scan EXCEPT ![n] = [NoScan EXCEPT !.st = "over"]])
     /\ IF Listed(j) /\ Returns(j) THEN Ask(j, tab[j].back) ELSE UNCHANGED call
     /\ UNCHANGED <<disk, backend, removal, active>>
     /\ RenderMain

(* cancelJob and the `cancel` command, which before Running::start finds   *)
(* nothing to flag.                                                        *)
CancelJob(j) ==
  /\ tab[j].st = "running"
  /\ running[j] # 0
  /\ scan' = [scan EXCEPT ![running[j]].stop = TRUE]
  /\ UNCHANGED <<disk, backend, call, removal, tab, active, page>>

(* Mutant: the tree of a closed job stays. *)
CloseJobKeepsTree(j) ==
  /\ tab[j].st \in {"done", "queued"}
  /\ Pump([tab EXCEPT ![j] = Closed], scan)
  /\ active' = active
  /\ UNCHANGED <<disk, slot, tree, running, call, removal>>
  /\ RenderMain

(* The job below the one closed in the list, or else the one above. *)
Neighbour(j) ==
  LET others == {i \in Jobs : Listed(i)} \ {j}
  IN IF others = {} THEN {0}
     ELSE IF \E i \in others : i > j THEN Lowest({i \in others : i > j})
     ELSE {i \in others : \A k \in others : i >= k}

(* closeJob and forget_tree; a running job is cancelled instead. *)
CloseJob(j) ==
  /\ tab[j].st \in {"done", "queued"}
  /\ Pump([tab EXCEPT ![j] = Closed], scan)
  /\ slot' = [slot EXCEPT ![j] = 0]
  /\ active' \in IF active = j THEN Neighbour(j) ELSE {active}
  /\ UNCHANGED <<disk, tree, running, call, removal>>
  /\ RenderMain

-----------------------------------------------------------------------------
(* The window: deletePath.                                                 *)

(* Of something on the page.  One that is gone already is refused.         *)
DeletePath(x) ==
  /\ ~Removing
  /\ page.result /\ Listed(page.job)
  /\ tab[page.job].view # None /\ x \in tab[page.job].view \cap disk
  /\ removal' = [NoRemoval EXCEPT !.st = "sent", !.item = x]
  /\ Apart((\E n \in Scans : UnderWay(n)) \/ \E j \in Jobs : Asking(j))
  /\ UNCHANGED <<disk, backend, scan, call, tab, active, page>>

(* Mutant: the views the window has been sent are kept. *)
OutdatedKeepsCache(j, x) ==
  [tab[j] EXCEPT !.path = IF @ \in Sub[x] THEN Up[x] ELSE @,
                 !.stale = @ \/ j # active,
                 !.loading = @ \/ j = active]

(* What becomes of a job that shows the folder the path was in: its views  *)
(* are forgotten, it leaves a folder that may be gone, and it reads its    *)
(* folder again, at once or when it is selected.                           *)
Outdated(j, x) ==
  [tab[j] EXCEPT !.cache = NoViews,
                 !.path = IF @ \in Sub[x] THEN Up[x] ELSE @,
                 !.stale = @ \/ j # active,
                 !.loading = @ \/ j = active]

RemovalAnswer ==
  LET open == {j \in Jobs : Listed(j) /\ tab[j].view # None}
  IN /\ removal.st = "forgetting" /\ removal.todo = {}
     /\ tab' = [j \in Jobs |-> IF j \in open THEN Outdated(j, removal.item) ELSE tab[j]]
     /\ IF active \in open THEN Ask(active, tab'[active].path) ELSE UNCHANGED call
     /\ removal' = NoRemoval
     /\ UNCHANGED <<disk, backend, scan, active, page>>

-----------------------------------------------------------------------------
Backend ==
  \/ \E n \in Scans : Register(n) \/ Build(n) \/ Keep(n) \/ SaveSnapshot(n) \/ ForgetPath(n)
  \/ \E c \in Calls : LookUp(c) \/ Compute(c) \/ Remember(c)
  \/ RemovePath
  \/ CollectTrees

Answers ==
  \/ \E n \in Scans : ScanAnswer(n)
  \/ \E c \in Calls : ViewAnswer(c)
  \/ RemovalAnswer

User ==
  \/ \E j \in Jobs : Enqueue(j) \/ Rescan(j) \/ CancelJob(j) \/ CloseJob(j) \/ SelectJob(j) \/ DiffSince(j)
  \/ \E j \in Jobs, p \in Folders : Navigate(j, p)
  \/ \E x \in Items : DeletePath(x)

Next == Backend \/ Answers \/ User

Spec == Init /\ [][Next]_vars

(* The runtime's threads and the window's event loop keep running; nobody  *)
(* has to click.  (Strong for an answer that asks for a folder: without    *)
(* the bound MaxCalls it would always be possible.)                        *)
Fairness ==
  /\ \A n \in Scans : /\ WF_vars(Register(n) \/ Build(n) \/ Keep(n))
                      /\ WF_vars(ForgetPath(n))
                      /\ SF_vars(ScanAnswer(n))
  /\ \A c \in Calls : WF_vars(LookUp(c) \/ Compute(c) \/ Remember(c) \/ ViewAnswer(c))
  /\ WF_vars(RemovePath \/ CollectTrees)
  /\ SF_vars(RemovalAnswer)

FairSpec == Spec /\ Fairness

-----------------------------------------------------------------------------
(* What may be in the variables, and that a command under way belongs to a *)
(* job, a view being computed to a tree, a removal to an item.             *)
View == (SUBSET Items) \cup {None}
Cached == [items : SUBSET Items, views : [Folders -> View], current : View,
           complete : BOOLEAN, save : BOOLEAN]
ScanCommand == [st : {"unused", "sent", "building", "built", "answer", "over"},
                job : Jobs \cup {0}, stop : BOOLEAN, items : SUBSET Items]
ViewCommand == [st : {"free", "sent", "missed", "computed", "answer"}, job : Jobs \cup {0},
                path : Folders, n : Scans \cup {0}, view : View]
Removal == [st : {"free", "sent", "removed", "forgetting"}, item : Items \cup {None},
            todo : SUBSET Scans]
Tab == [st : {"unopened", "queued", "running", "done", "closed"}, view : View, path : Folders,
        loading : BOOLEAN, cache : [Folders -> View], stale : BOOLEAN, back : Folders \cup {None}]

BackendOK ==
  /\ slot \in [Jobs -> Scans \cup {0}] /\ running \in [Jobs -> Scans \cup {0}]
  /\ tree \in [Scans -> Cached]

CommandsOK ==
  /\ scan \in [Scans -> ScanCommand]
  /\ \A n \in Scans : UnderWay(n) => scan[n].job \in Jobs
  /\ call \in [Calls -> ViewCommand]
  /\ \A c \in Calls : /\ call[c].st # "free" => call[c].job \in Jobs
                      /\ call[c].st \in {"missed", "computed"} => call[c].n \in Scans
  /\ removal \in Removal
  /\ Removing => removal.item \in Items

WindowOK ==
  /\ tab \in [Jobs -> Tab]
  /\ active \in Jobs \cup {0}
  /\ page \in [job : Jobs \cup {0}, result : BOOLEAN]

ScansTypeOK == disk \subseteq Items /\ BackendOK /\ CommandsOK /\ WindowOK

(* A comparison always uses the tree as it is: what a capture kept for the *)
(* next caller holds is what the tree holds, although the background save, *)
(* the comparisons and the removals take their locks in any order          *)
(* ("Forget everything derived from the tree (it was changed)").           *)
CurrentMatchesTree ==
  \A n \in Scans : tree[n].current \in {None, tree[n].items}

(* As long as deletions and rescans wait for what is under way, every view *)
(* kept anywhere is the view of the tree: those the backend answers from,  *)
(* those the window goes back to, and, once what the job has asked for is  *)
(* there, the one on screen.                                               *)
ViewsAreCurrent ==
  Waits /\ ~Removing =>
    \A j \in Jobs :
      Listed(j) /\ slot[j] # 0 /\ (\A n \in Scans : UnderWay(n) => scan[n].job # j) =>
        /\ \A p \in Folders : {tree[slot[j]].views[p], tab[j].cache[p]} \subseteq {None, ViewOf(slot[j], p)}
        /\ ~Asking(j) /\ ~tab[j].stale => tab[j].view = ViewOf(slot[j], tab[j].path)

(* "The views just re-read their folder (instant) and show the freed       *)
(* space": the result on screen is what the tree holds.  It is not after   *)
(* CloseJob has brought up a stale tab.                                    *)
OnScreenIsCurrent ==
  Waits /\ ~Removing /\ page = [job |-> active, result |-> TRUE] /\ ~tab[active].loading =>
    tab[active].view = ViewOf(slot[active], tab[active].path)

(* "Whatever is gone afterwards is taken out of every open scan in place": *)
(* once a removal has answered, the open trees hold nothing that is not on *)
(* disk, and a complete one all there is.                                  *)
GoneFromOpenScans ==
  Waits /\ ~Removing =>
    \A j \in Jobs : slot[j] # 0 =>
      /\ tree[slot[j]].items \subseteq disk
      /\ tree[slot[j]].complete => tree[slot[j]].items = disk

(* While the user waits for the answers a job has one scan at a time, and  *)
(* the window shows it as running.                                         *)
OneScanEach ==
  Waits => \A n \in Scans : UnderWay(n) =>
             /\ tab[scan[n].job].st = "running"
             /\ \A m \in Scans : UnderWay(m) /\ scan[m].job = scan[n].job => m = n

(* The memory of a closed scan is freed: no tree stays for a job that is   *)
(* not in the list.                                                        *)
ClosedIsFreed ==
  Waits => \A j \in Jobs : tab[j].st = "closed" => slot[j] = 0

(* "no more than maxParallel run at once": counted by the scans the        *)
(* backend runs, not by the states of the jobs.                            *)
ParallelLimit ==
  Waits => Cardinality({n \in Scans : UnderWay(n)}) <= Parallel

(* A queued job starts: every change that frees a place calls pump, and a  *)
(* scan that runs always ends.                                             *)
QueuedStarts ==
  \A j \in Jobs : tab[j].st = "queued" ~> tab[j].st # "queued"

=============================================================================
