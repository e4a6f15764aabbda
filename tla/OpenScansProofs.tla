-------------------------- MODULE OpenScansProofs --------------------------
(***************************************************************************)
(* Proofs about OpenScans, for any number of jobs, scans and commands, any *)
(* folders and items, and a user who waits for the answers or does not.    *)
(***************************************************************************)
EXTENDS OpenScans, Functions, FiniteSetTheorems, TLAPS

(* The variables are of their types, and no command under way is without   *)
(* its job, tree or item.                                                  *)

LEMMA InitTypeOK == Init => ScansTypeOK
  <1> SUFFICES ASSUME Init PROVE ScansTypeOK
    OBVIOUS
  <1> USE OpenScansAssumption DEF Init
  <1>1. NoViews \in [Folders -> View] /\ Root \in Folders
    BY DEF NoViews, View
  <1>2. BackendOK
    <2>1. NoTree \in Cached
      BY <1>1 DEF NoTree, Cached, View
    <2> QED BY <2>1 DEF BackendOK
  <1>3. CommandsOK
    <2>1. NoScan \in ScanCommand
      BY DEF NoScan, ScanCommand
    <2>2. NoCall \in ViewCommand
      BY <1>1 DEF NoCall, ViewCommand, View
    <2>3. NoRemoval \in Removal
      BY DEF NoRemoval, Removal
    <2> QED BY <2>1, <2>2, <2>3 DEF CommandsOK, UnderWay, Removing, NoScan, NoCall, NoRemoval
  <1>4. WindowOK
    <2>1. Unopened \in Tab
      BY <1>1 DEF Unopened, NewTab, Tab, View
    <2> QED BY <2>1 DEF WindowOK
  <1> QED BY <1>2, <1>3, <1>4 DEF ScansTypeOK

LEMMA ViewOfType ==
  ASSUME ScansTypeOK, NEW n \in Scans, NEW p \in Folders
  PROVE  ViewOf(n, p) \in View
  BY DEF ScansTypeOK, BackendOK, Cached, ViewOf, View

(* The steps of the backend that only touch its own state. *)
LEMMA BackendType ==
  ASSUME ScansTypeOK, Backend
  PROVE  ScansTypeOK'
  <1> USE DEF ScansTypeOK
  <1>1. ASSUME NEW n \in Scans, Register(n) PROVE ScansTypeOK'
    BY <1>1 DEF Register, BackendOK, CommandsOK, WindowOK, ScanCommand, UnderWay, Removing
  <1>2. ASSUME NEW n \in Scans, Build(n) PROVE ScansTypeOK'
    <2>1. PICK read \in SUBSET disk :
            scan' = [scan EXCEPT ![n].st = "built", ![n].items = read]
      BY <1>2 DEF Build, WholePaths
    <2> DEFINE built == [scan[n] EXCEPT !.st = "built", !.items = read]
    <2>a. scan[n] \in ScanCommand /\ read \in SUBSET Items
      BY DEF CommandsOK
    <2>b. built \in ScanCommand /\ built.job = scan[n].job
      BY <2>a DEF ScanCommand
    <2>c. scan' = [scan EXCEPT ![n] = built]
      BY <2>1
    <2>2. scan' \in [Scans -> ScanCommand] /\ \A m \in Scans : scan'[m].job = scan[m].job
      <3> HIDE DEF built
      <3> QED BY <2>b, <2>c DEF CommandsOK
    <2>3. \A m \in Scans : UnderWay(m)' => UnderWay(m)
      BY <1>2, <2>1 DEF Build, CommandsOK, ScanCommand, UnderWay
    <2>4. CommandsOK'
      BY <1>2, <2>2, <2>3 DEF Build, CommandsOK, Removing
    <2> QED BY <1>2, <2>4 DEF Build, BackendOK, WindowOK
  <1>3. ASSUME NEW n \in Scans, Keep(n) PROVE ScansTypeOK'
    <2>1. [NoTree EXCEPT !.items = scan[n].items, !.complete = ~scan[n].stop,
                         !.save = ~scan[n].stop] \in Cached
      BY DEF CommandsOK, ScanCommand, Cached, NoTree, NoViews, View
    <2>2. BackendOK'
      BY <1>3, <2>1 DEF Keep, BackendOK, CommandsOK
    <2>3. CommandsOK' /\ WindowOK' /\ disk' \subseteq Items
      BY <1>3 DEF Keep, CommandsOK, WindowOK, ScanCommand, UnderWay, Removing
    <2> QED BY <2>2, <2>3
  <1>4. ASSUME NEW n \in Scans, SaveSnapshot(n) PROVE ScansTypeOK'
    <2>1. [CurrentSnapshot(n) EXCEPT !.save = FALSE] \in Cached
      BY DEF BackendOK, CurrentSnapshot, Cached, View
    <2>2. BackendOK'
      BY <1>4, <2>1 DEF SaveSnapshot, BackendOK
    <2> QED BY <1>4, <2>2 DEF SaveSnapshot, CommandsOK, WindowOK, UnderWay, Removing
  <1>5. ASSUME NEW n \in Scans, ForgetPath(n) PROVE ScansTypeOK'
    <2>1. Without(n, removal.item) \in Cached
      BY DEF BackendOK, Without, Cached, View, NoViews
    <2>2. BackendOK'
      BY <1>5, <2>1 DEF ForgetPath, BackendOK
    <2> QED BY <1>5, <2>2 DEF ForgetPath, CommandsOK, WindowOK, UnderWay, Removing, Removal
  <1>6. ASSUME NEW c \in Calls, LookUp(c) PROVE ScansTypeOK'
    <2>1. call[c].job \in Jobs /\ call[c].path \in Folders /\ call[c] \in ViewCommand
      BY <1>6 DEF LookUp, CommandsOK, ViewCommand
    <2>2. slot[call[c].job] # 0 => /\ slot[call[c].job] \in Scans
                                   /\ tree[slot[call[c].job]].views[call[c].path] \in View
      BY <2>1 DEF BackendOK, Cached
    <2>3. call' \in [Calls -> ViewCommand]
      BY <1>6, <2>1, <2>2 DEF LookUp, CommandsOK, ViewCommand, View
    <2>4. \A d \in Calls : /\ call'[d].st # "free" => call'[d].job \in Jobs
                           /\ call'[d].st \in {"missed", "computed"} => call'[d].n \in Scans
      BY <1>6, <2>1, <2>2 DEF LookUp, CommandsOK, ViewCommand
    <2> QED BY <1>6, <2>3, <2>4 DEF LookUp, backend, BackendOK, CommandsOK, WindowOK, UnderWay, Removing
  <1>7. ASSUME NEW c \in Calls, Compute(c) PROVE ScansTypeOK'
    <2>1. /\ call[c].job \in Jobs /\ call[c].path \in Folders /\ call[c].n \in Scans
          /\ call[c] \in ViewCommand
      BY <1>7 DEF Compute, CommandsOK, ViewCommand
    <2>2. ViewOf(call[c].n, call[c].path) \in View
      BY <2>1, ViewOfType
    <2>3. call' \in [Calls -> ViewCommand]
      BY <1>7, <2>1, <2>2 DEF Compute, CommandsOK, ViewCommand
    <2>4. \A d \in Calls : /\ call'[d].st # "free" => call'[d].job \in Jobs
                           /\ call'[d].st \in {"missed", "computed"} => call'[d].n \in Scans
      BY <1>7, <2>1, <2>2 DEF Compute, CommandsOK, ViewCommand
    <2> QED BY <1>7, <2>3, <2>4 DEF Compute, backend, BackendOK, CommandsOK, WindowOK, UnderWay, Removing
  <1>8. ASSUME NEW c \in Calls, Remember(c) PROVE ScansTypeOK'
    <2>1. call[c] \in ViewCommand /\ call[c].n \in Scans /\ call[c].job \in Jobs
      BY <1>8 DEF Remember, CommandsOK
    <2>2. tree' \in [Scans -> Cached]
      BY <1>8, <2>1, ZenonT(30) DEF Remember, BackendOK, Cached, ViewCommand
    <2>3. call' \in [Calls -> ViewCommand]
      BY <1>8, <2>1 DEF Remember, CommandsOK, ViewCommand
    <2>4. \A d \in Calls : /\ call'[d].st # "free" => call'[d].job \in Jobs
                           /\ call'[d].st \in {"missed", "computed"} => call'[d].n \in Scans
      BY <1>8, <2>1 DEF Remember, CommandsOK, ViewCommand
    <2> QED BY <1>8, <2>2, <2>3, <2>4 DEF Remember, BackendOK, CommandsOK, WindowOK, UnderWay, Removing
  <1>9. ASSUME RemovePath PROVE ScansTypeOK'
    BY <1>9 DEF RemovePath, backend, BackendOK, CommandsOK, WindowOK, UnderWay, Removing, Removal
  <1>10. ASSUME CollectTrees PROVE ScansTypeOK'
    <2>1. {slot[j] : j \in Jobs} \ {0} \subseteq Scans
      BY DEF BackendOK
    <2> QED BY <1>10, <2>1 DEF CollectTrees, backend, BackendOK, CommandsOK, WindowOK, UnderWay, Removing, Removal
  <1> QED BY <1>1, <1>2, <1>3, <1>4, <1>5, <1>6, <1>7, <1>8, <1>9, <1>10 DEF Backend

(* What the helpers of the window return. *)
LEMMA PumpType ==
  ASSUME NEW t \in [Jobs -> Tab], NEW s \in [Scans -> ScanCommand], Pump(t, s),
         \A n \in Scans : s[n].st \in {"sent", "building", "built", "answer"} => s[n].job \in Jobs
  PROVE  /\ tab' \in [Jobs -> Tab]
         /\ scan' \in [Scans -> ScanCommand]
         /\ \A n \in Scans : UnderWay(n)' => scan'[n].job \in Jobs
  <1>1. CASE tab' = t /\ scan' = s
    BY <1>1 DEF UnderWay
  <1>2. CASE \E first \in Jobs, n \in Scans :
               /\ tab' = [t EXCEPT ![first].st = "running"]
               /\ scan' = [s EXCEPT ![n] = [NoScan EXCEPT !.st = "sent", !.job = first]]
    <2>1. PICK first \in Jobs, n \in Scans :
            /\ tab' = [t EXCEPT ![first].st = "running"]
            /\ scan' = [s EXCEPT ![n] = [NoScan EXCEPT !.st = "sent", !.job = first]]
      BY <1>2
    <2>2. [NoScan EXCEPT !.st = "sent", !.job = first] \in ScanCommand
      BY DEF NoScan, ScanCommand
    <2>3. tab' \in [Jobs -> Tab]
      BY <2>1, ZenonT(30) DEF Tab
    <2> QED BY <2>1, <2>2, <2>3 DEF UnderWay, NoScan
  <1> QED BY <1>1, <1>2 DEF Pump, Lowest

LEMMA AskType ==
  ASSUME CommandsOK, NEW j \in Jobs, NEW p \in Folders, Ask(j, p)
  PROVE  /\ call' \in [Calls -> ViewCommand]
         /\ \A c \in Calls : /\ call'[c].st # "free" => call'[c].job \in Jobs
                             /\ call'[c].st \in {"missed", "computed"} => call'[c].n \in Scans
  <1>1. PICK c \in Calls :
          call' = [call EXCEPT ![c] = [NoCall EXCEPT !.st = "sent", !.job = j, !.path = p]]
    BY DEF Ask, Lowest
  <1>2. [NoCall EXCEPT !.st = "sent", !.job = j, !.path = p] \in ViewCommand
    BY DEF NoCall, ViewCommand, View
  <1> QED BY <1>1, <1>2 DEF CommandsOK, NoCall

LEMMA RenderMainType ==
  ASSUME page \in [job : Jobs \cup {0}, result : BOOLEAN], active' \in Jobs \cup {0}, RenderMain
  PROVE  page' \in [job : Jobs \cup {0}, result : BOOLEAN]
  BY DEF RenderMain

LEMMA TabTypes == NoViews \in [Folders -> View] /\ Closed \in Tab /\ NewTab \in Tab
  <1>1. NoViews \in [Folders -> View] /\ Root \in Folders
    BY OpenScansAssumption DEF NoViews, View
  <1> QED BY <1>1 DEF Closed, NewTab, Tab, View

LEMMA ShowType ==
  ASSUME WindowOK, NEW j \in Jobs, NEW v \in View, NEW p \in Folders
  PROVE  Show(j, v, p) \in Tab
  BY ZenonT(30) DEF WindowOK, Show, Tab

LEMMA TabUpdates ==
  ASSUME NEW r \in Tab, NEW v \in View, NEW p \in Folders
  PROVE  /\ \A b \in BOOLEAN : [r EXCEPT !.loading = b] \in Tab
         /\ [r EXCEPT !.cache[p] = v] \in Tab
         /\ [r EXCEPT !.stale = FALSE, !.loading = TRUE] \in Tab
         /\ [r EXCEPT !.st = "queued", !.back = r.path] \in Tab
         /\ \A c \in [Folders -> View], b \in BOOLEAN :
              [r EXCEPT !.st = "done", !.view = v, !.path = p, !.back = None,
                 !.cache = c, !.loading = @ \/ b] \in Tab
  <1>1. \A b \in BOOLEAN : [r EXCEPT !.loading = b] \in Tab
    BY DEF Tab
  <1>2. [r EXCEPT !.cache[p] = v] \in Tab
    BY DEF Tab
  <1>3. [r EXCEPT !.stale = FALSE, !.loading = TRUE] \in Tab
    BY DEF Tab
  <1>4. [r EXCEPT !.st = "queued", !.back = r.path] \in Tab
    BY DEF Tab
  <1>5. ASSUME NEW c \in [Folders -> View], NEW b \in BOOLEAN
        PROVE  [r EXCEPT !.st = "done", !.view = v, !.path = p, !.back = None,
                  !.cache = c, !.loading = @ \/ b] \in Tab
    BY DEF Tab
  <1> QED BY <1>1, <1>2, <1>3, <1>4, <1>5

LEMMA TabSteps ==
  ASSUME WindowOK, NEW j \in Jobs, NEW v \in View, NEW p \in Folders
  PROVE  /\ [tab EXCEPT ![j].loading = TRUE] \in [Jobs -> Tab]
         /\ [tab EXCEPT ![j].loading = FALSE] \in [Jobs -> Tab]
         /\ [tab EXCEPT ![j].stale = FALSE, ![j].loading = TRUE] \in [Jobs -> Tab]
         /\ [tab EXCEPT ![j].st = "queued", ![j].back = tab[j].path] \in [Jobs -> Tab]
         /\ [Show(j, v, p) EXCEPT !.cache[p] = v] \in Tab
  <1>1. tab \in [Jobs -> Tab] /\ tab[j] \in Tab
    BY DEF WindowOK
  <1>2. [tab[j] EXCEPT !.loading = TRUE] \in Tab /\ [tab[j] EXCEPT !.loading = FALSE] \in Tab
    BY <1>1, TabUpdates
  <1>3. [tab[j] EXCEPT !.stale = FALSE, !.loading = TRUE] \in Tab
    BY <1>1, TabUpdates
  <1>4. [tab[j] EXCEPT !.st = "queued", !.back = tab[j].path] \in Tab
    BY <1>1, TabUpdates
  <1>5. [Show(j, v, p) EXCEPT !.cache[p] = v] \in Tab
    <2>1. Show(j, v, p) \in Tab
      BY ShowType
    <2> HIDE DEF Show
    <2> QED BY <2>1, TabUpdates
  <1>6. [tab EXCEPT ![j].loading = TRUE] \in [Jobs -> Tab]
    BY <1>1, <1>2
  <1>7. [tab EXCEPT ![j].loading = FALSE] \in [Jobs -> Tab]
    BY <1>1, <1>2
  <1>8. [tab EXCEPT ![j].stale = FALSE, ![j].loading = TRUE] \in [Jobs -> Tab]
    BY <1>1, <1>3
  <1>9. [tab EXCEPT ![j].st = "queued", ![j].back = tab[j].path] \in [Jobs -> Tab]
    BY <1>1, <1>4
  <1> QED BY <1>5, <1>6, <1>7, <1>8, <1>9

(* The steps of the window. *)
LEMMA WindowType ==
  ASSUME ScansTypeOK, Answers \/ User
  PROVE  ScansTypeOK'
  <1> USE DEF ScansTypeOK
  <1>1. ASSUME NEW j \in Jobs, NEW p \in Folders, Navigate(j, p) PROVE ScansTypeOK'
    <2>1. tab' \in [Jobs -> Tab]
      <3>1. CASE tab[j].cache[p] # None
        <4>1. Show(j, tab[j].cache[p], p) \in Tab
          BY ShowType DEF WindowOK, Tab
        <4> QED BY <1>1, <3>1, <4>1 DEF Navigate, WindowOK
      <3>2. CASE tab[j].cache[p] = None
        <4>1. None \in View
          BY DEF View
        <4> QED BY <1>1, <3>2, <4>1, TabSteps DEF Navigate
      <3> QED BY <3>1, <3>2
    <2>2. CASE call' = call
      BY <1>1, <2>1, <2>2, RenderMainType DEF Navigate, backend, BackendOK, CommandsOK, WindowOK, UnderWay, Removing
    <2>3. CASE Ask(j, p)
      BY <1>1, <2>1, <2>3, RenderMainType, AskType DEF Navigate, backend, BackendOK, CommandsOK, WindowOK, UnderWay, Removing
    <2> QED BY <1>1, <2>2, <2>3 DEF Navigate
  <1>2. ASSUME NEW c \in Calls, ViewAnswer(c) PROVE ScansTypeOK'
    <2>1. call[c].job \in Jobs /\ call[c].path \in Folders /\ call[c].view \in View
      BY <1>2 DEF ViewAnswer, CommandsOK, ViewCommand
    <2>2. [Show(call[c].job, call[c].view, call[c].path)
             EXCEPT !.cache[call[c].path] = call[c].view] \in Tab
      BY <2>1, TabSteps
    <2>3. tab' \in [Jobs -> Tab]
      <3>1. CASE tab' = tab
        BY <3>1 DEF WindowOK
      <3>2. CASE tab' = [tab EXCEPT ![call[c].job].loading = FALSE]
        BY <2>1, <3>2, TabSteps
      <3>3. CASE tab' = [tab EXCEPT ![call[c].job] =
                           [Show(call[c].job, call[c].view, call[c].path)
                              EXCEPT !.cache[call[c].path] = call[c].view]]
        BY <2>1, <2>2, <3>3 DEF WindowOK
      <3> QED BY <1>2, <3>1, <3>2, <3>3 DEF ViewAnswer
    <2>4. /\ call' \in [Calls -> ViewCommand]
          /\ \A d \in Calls : /\ call'[d].st # "free" => call'[d].job \in Jobs
                              /\ call'[d].st \in {"missed", "computed"} => call'[d].n \in Scans
      <3>1. NoCall \in ViewCommand
        BY OpenScansAssumption DEF NoCall, ViewCommand, View
      <3> QED BY <1>2, <3>1 DEF ViewAnswer, CommandsOK, NoCall
    <2> QED BY <1>2, <2>3, <2>4, RenderMainType DEF ViewAnswer, backend, BackendOK, CommandsOK, WindowOK, UnderWay, Removing
  <1>3. ASSUME NEW j \in Jobs, SelectJob(j) PROVE ScansTypeOK'
    <2>1. tab[j].path \in Folders /\ None \in View
      BY DEF WindowOK, Tab, View
    <2>4. tab' \in [Jobs -> Tab]
      <3>1. CASE tab' = tab
        BY <3>1 DEF WindowOK
      <3>2. CASE tab' = [tab EXCEPT ![j].stale = FALSE, ![j].loading = TRUE]
        BY <2>1, <3>2, TabSteps
      <3> QED BY <1>3, <3>1, <3>2 DEF SelectJob
    <2>2. CASE call' = call
      BY <1>3, <2>4, <2>2, RenderMainType DEF SelectJob, backend, BackendOK, CommandsOK, WindowOK, UnderWay, Removing
    <2>3. CASE Ask(j, tab[j].path)
      BY <1>3, <2>1, <2>4, <2>3, RenderMainType, AskType DEF SelectJob, backend, BackendOK, CommandsOK, WindowOK, UnderWay, Removing
    <2> QED BY <1>3, <2>2, <2>3 DEF SelectJob
  <1>4. ASSUME NEW j \in Jobs, Enqueue(j) PROVE ScansTypeOK'
    <2>1. [tab EXCEPT ![j] = NewTab] \in [Jobs -> Tab]
      BY TabTypes DEF WindowOK
    <2>2. /\ tab' \in [Jobs -> Tab]
          /\ scan' \in [Scans -> ScanCommand]
          /\ \A n \in Scans : UnderWay(n)' => scan'[n].job \in Jobs
      BY <1>4, <2>1, PumpType DEF Enqueue, CommandsOK, UnderWay
    <2> QED BY <1>4, <2>2, RenderMainType DEF Enqueue, backend, BackendOK, CommandsOK, WindowOK, Removing
  <1>5. ASSUME NEW j \in Jobs, Rescan(j) PROVE ScansTypeOK'
    <2>1. [tab EXCEPT ![j].st = "queued", ![j].back = tab[j].path] \in [Jobs -> Tab]
      <3>1. tab[j].path \in Folders /\ None \in View
        BY DEF WindowOK, Tab, View
      <3> QED BY <3>1, TabSteps
    <2>2. /\ tab' \in [Jobs -> Tab]
          /\ scan' \in [Scans -> ScanCommand]
          /\ \A n \in Scans : UnderWay(n)' => scan'[n].job \in Jobs
      BY <1>5, <2>1, PumpType DEF Rescan, CommandsOK, UnderWay
    <2> QED BY <1>5, <2>2, RenderMainType DEF Rescan, backend, BackendOK, CommandsOK, WindowOK, Removing
  <1>6. ASSUME NEW n \in Scans, ScanAnswer(n) PROVE ScansTypeOK'
    <2> DEFINE j == scan[n].job
               t == [tab EXCEPT ![j] = Scanned(j, scan[n].items)]
               s == [scan EXCEPT ![n] = [NoScan EXCEPT !.st = "over"]]
    <2>1. j \in Jobs /\ scan[n].items \in View /\ tab[j].back \in Folders \cup {None}
      BY <1>6 DEF ScanAnswer, CommandsOK, ScanCommand, UnderWay, WindowOK, Tab, View
    <2>2. t \in [Jobs -> Tab]
      <3>1. [NoViews EXCEPT ![Root] = scan[n].items] \in [Folders -> View]
        BY <2>1, TabTypes
      <3>2. Root \in Folders /\ Returns(j) \in BOOLEAN /\ tab[j] \in Tab
        BY <2>1, OpenScansAssumption DEF Returns, WindowOK
      <3>3. Scanned(j, scan[n].items) \in Tab
        BY <2>1, <3>1, <3>2 DEF Scanned, Tab
      <3> QED BY <3>3 DEF WindowOK
    <2>3. s \in [Scans -> ScanCommand] /\ \A m \in Scans :
            s[m].st \in {"sent", "building", "built", "answer"} => s[m].job \in Jobs
      BY DEF CommandsOK, UnderWay, NoScan, ScanCommand
    <2>4. Pump(t, s) \/ Pump(tab, s)
      BY <1>6 DEF ScanAnswer
    <2>5. /\ tab' \in [Jobs -> Tab]
          /\ scan' \in [Scans -> ScanCommand]
          /\ \A m \in Scans : UnderWay(m)' => scan'[m].job \in Jobs
      <3> HIDE DEF t, s
      <3> QED BY <2>2, <2>3, <2>4, PumpType DEF WindowOK
    <2>6. /\ call' \in [Calls -> ViewCommand]
          /\ \A c \in Calls : /\ call'[c].st # "free" => call'[c].job \in Jobs
                              /\ call'[c].st \in {"missed", "computed"} => call'[c].n \in Scans
      <3>1. CASE call' = call
        BY <3>1 DEF CommandsOK
      <3>2. CASE Ask(j, tab[j].back) /\ Returns(j)
        BY <2>1, <3>2, AskType DEF Returns
      <3> QED BY <1>6, <3>1, <3>2 DEF ScanAnswer
    <2> HIDE DEF t, s, j
    <2> QED BY <1>6, <2>5, <2>6, RenderMainType DEF ScanAnswer, backend, BackendOK, CommandsOK, WindowOK, Removing
  <1>7. ASSUME NEW j \in Jobs, CancelJob(j) PROVE ScansTypeOK'
    <2>1. running[j] \in Scans
      BY <1>7 DEF CancelJob, BackendOK
    <2>2. /\ scan' \in [Scans -> ScanCommand]
          /\ \A n \in Scans : scan'[n].st = scan[n].st /\ scan'[n].job = scan[n].job
      BY <1>7, <2>1, ZenonT(30) DEF CancelJob, CommandsOK, ScanCommand
    <2> QED BY <1>7, <2>2 DEF CancelJob, backend, BackendOK, CommandsOK, WindowOK, UnderWay, Removing
  <1>8. ASSUME NEW j \in Jobs, CloseJob(j) PROVE ScansTypeOK'
    <2>1. [tab EXCEPT ![j] = Closed] \in [Jobs -> Tab]
      BY TabTypes DEF WindowOK
    <2>2. /\ tab' \in [Jobs -> Tab]
          /\ scan' \in [Scans -> ScanCommand]
          /\ \A n \in Scans : UnderWay(n)' => scan'[n].job \in Jobs
      BY <1>8, <2>1, PumpType DEF CloseJob, CommandsOK, UnderWay
    <2>3. active' \in Jobs \cup {0}
      BY <1>8 DEF CloseJob, Neighbour, Lowest, WindowOK
    <2> QED BY <1>8, <2>2, <2>3, RenderMainType DEF CloseJob, BackendOK, CommandsOK, WindowOK, Removing
  <1>9. ASSUME NEW j \in Jobs, DiffSince(j) PROVE ScansTypeOK'
    <2>1. slot[j] \in Scans
      BY <1>9 DEF DiffSince, BackendOK
    <2>2. CurrentSnapshot(slot[j]) \in Cached
      BY <2>1 DEF BackendOK, CurrentSnapshot, Cached, View
    <2>3. BackendOK'
      BY <1>9, <2>2 DEF DiffSince, BackendOK
    <2> QED BY <1>9, <2>3 DEF DiffSince, CommandsOK, WindowOK, UnderWay, Removing
  <1>10. ASSUME NEW x \in Items, DeletePath(x) PROVE ScansTypeOK'
    <2>1. removal' \in Removal /\ Removing' /\ removal'.item \in Items
      BY <1>10 DEF DeletePath, NoRemoval, Removal, Removing
    <2> QED BY <1>10, <2>1 DEF DeletePath, backend, BackendOK, CommandsOK, WindowOK, UnderWay
  <1>11. ASSUME RemovalAnswer PROVE ScansTypeOK'
    <2>1. removal.item \in Items /\ Up[removal.item] \in Folders
      BY <1>11, OpenScansAssumption DEF RemovalAnswer, CommandsOK, Removing
    <2>2. \A j \in Jobs : Outdated(j, removal.item) \in Tab
      BY <2>1, TabTypes, ZenonT(30) DEF WindowOK, Outdated, Tab
    <2>3. tab' \in [Jobs -> Tab]
      BY <1>11, <2>2 DEF RemovalAnswer, WindowOK
    <2>4. /\ call' \in [Calls -> ViewCommand]
          /\ \A c \in Calls : /\ call'[c].st # "free" => call'[c].job \in Jobs
                              /\ call'[c].st \in {"missed", "computed"} => call'[c].n \in Scans
      <3>1. CASE call' = call
        BY <3>1 DEF CommandsOK
      <3>2. CASE active \in Jobs /\ Ask(active, tab'[active].path)
        <4>1. tab'[active].path \in Folders
          BY <2>3, <3>2 DEF Tab
        <4> QED BY <3>2, <4>1, AskType
      <3> QED BY <1>11, <3>1, <3>2 DEF RemovalAnswer
    <2>5. removal' \in Removal /\ ~Removing'
      BY <1>11 DEF RemovalAnswer, NoRemoval, Removal, Removing
    <2> QED BY <1>11, <2>3, <2>4, <2>5 DEF RemovalAnswer, backend, BackendOK, CommandsOK, WindowOK, UnderWay
  <1> QED
    BY <1>1, <1>2, <1>3, <1>4, <1>5, <1>6, <1>7, <1>8, <1>9, <1>10, <1>11 DEF Answers, User

(* The types of the state, for every behaviour. *)
THEOREM ScansType == Spec => []ScansTypeOK
  <1>1. ScansTypeOK /\ [Next]_vars => ScansTypeOK'
    <2> SUFFICES ASSUME ScansTypeOK, [Next]_vars PROVE ScansTypeOK'
      OBVIOUS
    <2>1. CASE UNCHANGED vars
      BY <2>1 DEF vars, backend, ScansTypeOK, BackendOK, CommandsOK, WindowOK, UnderWay, Removing
    <2> QED BY <2>1, BackendType, WindowType DEF Next
  <1> QED BY <1>1, InitTypeOK, PTL DEF Spec

-----------------------------------------------------------------------------
(* A kept capture is always the tree's own, however the saves, comparisons *)
(* and removals interleave, and even if the user does not wait.            *)
LEMMA CaptureStep ==
  ASSUME ScansTypeOK, CurrentMatchesTree, [Next]_vars
  PROVE  CurrentMatchesTree'
  <1> USE DEF ScansTypeOK, BackendOK
  <1>2. ASSUME NEW n \in Scans, Keep(n) PROVE CurrentMatchesTree'
    BY <1>2 DEF Keep, CurrentMatchesTree, NoTree
  <1>3. \A n \in Scans : CurrentSnapshot(n).current \in {None, CurrentSnapshot(n).items}
    BY DEF CurrentMatchesTree, CurrentSnapshot, Cached
  <1>4. ASSUME NEW n \in Scans, SaveSnapshot(n) PROVE CurrentMatchesTree'
    BY <1>4, <1>3 DEF SaveSnapshot, CurrentMatchesTree, CurrentSnapshot, Cached
  <1>5. ASSUME NEW j \in Jobs, DiffSince(j) PROVE CurrentMatchesTree'
    BY <1>5, <1>3 DEF DiffSince, CurrentMatchesTree
  <1>6. ASSUME NEW n \in Scans, ForgetPath(n) PROVE CurrentMatchesTree'
    BY <1>6 DEF ForgetPath, CurrentMatchesTree, Without, Cached
  <1>7. ASSUME NEW c \in Calls, Remember(c) PROVE CurrentMatchesTree'
    BY <1>7 DEF Remember, CurrentMatchesTree, Cached
  <1>8. CASE UNCHANGED tree
    BY <1>8 DEF CurrentMatchesTree
  <1> QED
    BY <1>2, <1>4, <1>5, <1>6, <1>7, <1>8
    DEF Next, Backend, Answers, User, vars, backend, Register, Build, LookUp, Compute, RemovePath,
        CollectTrees, ScanAnswer, ViewAnswer, RemovalAnswer, Enqueue, Rescan, CancelJob, CloseJob,
        SelectJob, Navigate, DeletePath

THEOREM CaptureIsCurrent == Spec => []CurrentMatchesTree
  <1>1. Init => CurrentMatchesTree
    BY DEF Init, CurrentMatchesTree, NoTree
  <1>2. ScansTypeOK /\ CurrentMatchesTree /\ [Next]_vars => CurrentMatchesTree'
    BY CaptureStep
  <1> QED BY <1>1, <1>2, ScansType, PTL DEF Spec

-----------------------------------------------------------------------------
(* The trees of closed jobs.  That a job is closed only when no scan of it *)
(* can still bring a tree takes OneScanEach.                               *)
LiveIn(s) == {n \in Scans : s[n].st \in {"sent", "building", "built", "answer"}}

OneEach(t, s) ==
  \A n \in LiveIn(s) :
    /\ t[s[n].job].st = "running"
    /\ \A m \in LiveIn(s) : s[m].job = s[n].job => m = n

LEMMA OneEachIs == OneScanEach <=> (Waits => OneEach(tab, scan))
  BY DEF OneScanEach, OneEach, LiveIn, UnderWay

LEMMA PumpKeeps ==
  ASSUME NEW t \in [Jobs -> Tab], NEW s \in [Scans -> ScanCommand], Pump(t, s),
         \A n \in LiveIn(s) : s[n].job \in Jobs
  PROVE  /\ OneEach(t, s) => OneEach(tab', scan')
         /\ \A j \in Jobs : tab'[j].st = "closed" => t[j].st = "closed"
  <1>1. CASE tab' = t /\ scan' = s
    BY <1>1
  <1>2. CASE \E first \in {j \in Jobs : t[j].st = "queued"}, n \in Scans :
               /\ s[n].st = "unused"
               /\ tab' = [t EXCEPT ![first].st = "running"]
               /\ scan' = [s EXCEPT ![n] = [NoScan EXCEPT !.st = "sent", !.job = first]]
    <2>1. PICK first \in Jobs, n \in Scans :
            /\ t[first].st = "queued" /\ s[n].st = "unused"
            /\ tab' = [t EXCEPT ![first].st = "running"]
            /\ scan' = [s EXCEPT ![n] = [NoScan EXCEPT !.st = "sent", !.job = first]]
      BY <1>2
    <2>2. /\ tab'[first].st = "running"
          /\ \A j \in Jobs \ {first} : tab'[j] = t[j]
      BY <2>1 DEF Tab
    <2>3. /\ scan'[n].job = first /\ scan'[n].st = "sent"
          /\ \A m \in Scans \ {n} : scan'[m] = s[m]
      BY <2>1 DEF NoScan
    <2>4. LiveIn(scan') = LiveIn(s) \cup {n} /\ n \notin LiveIn(s)
      BY <2>1, <2>3 DEF LiveIn
    <2>5. OneEach(t, s) => OneEach(tab', scan')
      <3> SUFFICES ASSUME OneEach(t, s), NEW m \in LiveIn(scan')
                   PROVE  /\ tab'[scan'[m].job].st = "running"
                          /\ \A k \in LiveIn(scan') : scan'[k].job = scan'[m].job => k = m
        BY DEF OneEach
      <3>1. \A k \in LiveIn(s) : /\ scan'[k] = s[k] /\ s[k].job \in Jobs \ {first}
                                /\ t[s[k].job].st = "running"
        BY <2>1, <2>3, <2>4 DEF OneEach, LiveIn
      <3>2. CASE m = n
        BY <2>2, <2>3, <2>4, <3>1, <3>2
      <3>3. CASE m \in LiveIn(s)
        BY <2>2, <2>3, <2>4, <3>1, <3>3 DEF OneEach
      <3> QED BY <2>4, <3>2, <3>3
    <2> QED BY <2>2, <2>5
  <1> QED BY <1>1, <1>2 DEF Pump, Lowest

(* Only five steps of the window change the states of its jobs. *)
LEMMA StatesStay ==
  ASSUME ScansTypeOK, [Next]_vars
  PROVE  \/ \E j \in Jobs : Enqueue(j) \/ Rescan(j) \/ CloseJob(j)
         \/ \E n \in Scans : ScanAnswer(n)
         \/ \A j \in Jobs : tab'[j].st = tab[j].st
  <1> USE DEF ScansTypeOK, CommandsOK, WindowOK
  <1>1. ASSUME NEW j \in Jobs, NEW p \in Folders, Navigate(j, p)
         PROVE  \A i \in Jobs : tab'[i].st = tab[i].st
    <2>1. CASE tab' = [tab EXCEPT ![j] = Show(j, tab[j].cache[p], p)]
      <3>1. tab[j] \in Tab /\ tab \in [Jobs -> Tab]
        BY TabTypes
      <3>2. Show(j, tab[j].cache[p], p).st = tab[j].st
        BY <3>1 DEF Show, Tab
      <3> QED BY <2>1, <3>1, <3>2
    <2>2. CASE tab' = [tab EXCEPT ![j].loading = TRUE]
      BY <2>2, TabTypes DEF Tab
    <2> QED BY <1>1, <2>1, <2>2 DEF Navigate
  <1>2. ASSUME NEW c \in Calls, ViewAnswer(c) PROVE \A i \in Jobs : tab'[i].st = tab[i].st
    <2> DEFINE j == call[c].job
               p == call[c].path
               v == call[c].view
    <2>1. CASE tab' = tab
      BY <2>1
    <2>2. CASE tab' = [tab EXCEPT ![j].loading = FALSE] /\ j \in Jobs
      BY <2>2, TabTypes DEF Tab
    <2>3. CASE tab' = [tab EXCEPT ![j] = [Show(j, v, p) EXCEPT !.cache[p] = v]] /\ j \in Jobs
      <3>1. tab[j] \in Tab /\ tab \in [Jobs -> Tab]
        BY <2>3, TabTypes
      <3>2. [Show(j, v, p) EXCEPT !.cache[p] = v].st = tab[j].st
        BY <3>1 DEF Show, Tab
      <3> QED BY <2>3, <3>1, <3>2
    <2>4. j \in Jobs
      BY <1>2 DEF ViewAnswer, ScansTypeOK, CommandsOK
    <2> QED BY <1>2, <2>1, <2>2, <2>3, <2>4 DEF ViewAnswer
  <1>3. ASSUME NEW j \in Jobs, SelectJob(j) PROVE \A i \in Jobs : tab'[i].st = tab[i].st
    <2>1. CASE tab' = [tab EXCEPT ![j].stale = FALSE, ![j].loading = TRUE]
      BY <2>1, TabTypes DEF Tab
    <2>2. CASE tab' = tab
      BY <2>2
    <2> QED BY <1>3, <2>1, <2>2 DEF SelectJob
  <1>4. ASSUME RemovalAnswer PROVE \A i \in Jobs : tab'[i].st = tab[i].st
    <2> SUFFICES ASSUME NEW i \in Jobs PROVE tab'[i].st = tab[i].st
      OBVIOUS
    <2>1. tab'[i] \in {tab[i], Outdated(i, removal.item)}
      BY <1>4 DEF RemovalAnswer
    <2>2. Outdated(i, removal.item).st = tab[i].st
      BY TabTypes DEF Outdated, Tab
    <2> QED BY <2>1, <2>2
  <1> QED
    BY <1>1, <1>2, <1>3, <1>4
    DEF Next, Backend, Answers, User, vars, backend, Register, Build, Keep, SaveSnapshot, ForgetPath,
        LookUp, Compute, Remember, RemovePath, CollectTrees, DiffSince, DeletePath, CancelJob

LEMMA JobsStep ==
  ASSUME ScansTypeOK, Waits, OneEach(tab, scan), ClosedIsFreed, [Next]_vars
  PROVE  OneEach(tab', scan') /\ ClosedIsFreed'
  <1> USE DEF ScansTypeOK, CommandsOK, WindowOK, BackendOK, ClosedIsFreed
  <1>1. ASSUME \A j \in Jobs : tab'[j].st = tab[j].st,
               \A n \in Scans : scan'[n].job = scan[n].job, LiveIn(scan') = LiveIn(scan)
        PROVE  OneEach(tab', scan')
    <2>1. \A n \in LiveIn(scan) : scan[n].job \in Jobs
      BY DEF LiveIn, UnderWay
    <2> QED BY <1>1, <2>1 DEF OneEach, LiveIn
  <1>2. ASSUME NEW n \in Scans, Register(n) PROVE OneEach(tab', scan') /\ ClosedIsFreed'
    <2>1. /\ \A m \in Scans : scan'[m].job = scan[m].job
          /\ LiveIn(scan') = LiveIn(scan)
      BY <1>2 DEF Register, LiveIn, ScanCommand
    <2> QED BY <1>1, <1>2, <2>1 DEF Register
  <1>3. ASSUME NEW n \in Scans, Build(n) PROVE OneEach(tab', scan') /\ ClosedIsFreed'
    <2>1. /\ \A m \in Scans : scan'[m].job = scan[m].job
          /\ LiveIn(scan') = LiveIn(scan)
      <3>1. PICK read : scan' = [scan EXCEPT ![n].st = "built", ![n].items = read]
        BY <1>3 DEF Build
      <3> QED BY <1>3, <3>1 DEF Build, LiveIn, ScanCommand
    <2> QED BY <1>1, <1>3, <2>1 DEF Build
  <1>4. ASSUME NEW n \in Scans, Keep(n) PROVE OneEach(tab', scan') /\ ClosedIsFreed'
    <2>1. /\ \A m \in Scans : scan'[m].job = scan[m].job
          /\ LiveIn(scan') = LiveIn(scan)
      BY <1>4 DEF Keep, LiveIn, ScanCommand
    <2>2. scan[n].job \in Jobs /\ tab[scan[n].job].st = "running"
      BY <1>4 DEF Keep, OneEach, LiveIn, UnderWay
    <2> QED BY <1>1, <1>4, <2>1, <2>2 DEF Keep
  <1>5. ASSUME NEW j \in Jobs, CancelJob(j) PROVE OneEach(tab', scan') /\ ClosedIsFreed'
    <2>1. running[j] \in Scans
      BY <1>5 DEF CancelJob
    <2>2. /\ \A m \in Scans : scan'[m].job = scan[m].job
          /\ LiveIn(scan') = LiveIn(scan)
      BY <1>5, <2>1 DEF CancelJob, LiveIn, ScanCommand
    <2> QED BY <1>1, <1>5, <2>2 DEF CancelJob, backend
  <1>6. \A n \in LiveIn(scan) : scan[n].job \in Jobs
    BY DEF LiveIn, UnderWay
  <1>7. ASSUME NEW j \in Jobs, Enqueue(j) PROVE OneEach(tab', scan') /\ ClosedIsFreed'
    <2> DEFINE t == [tab EXCEPT ![j] = NewTab]
    <2>1. t \in [Jobs -> Tab] /\ t[j].st = "queued"
      BY TabTypes DEF NewTab
    <2>2. OneEach(t, scan)
      BY <1>6, <1>7 DEF OneEach, Enqueue
    <2>3. \A i \in Jobs : t[i].st = "closed" => tab[i].st = "closed"
      BY <2>1
    <2>4. Pump(t, scan)
      BY <1>7 DEF Enqueue
    <2> HIDE DEF t
    <2>5. OneEach(tab', scan') /\ \A i \in Jobs : tab'[i].st = "closed" => t[i].st = "closed"
      BY <1>6, <2>1, <2>2, <2>4, PumpKeeps
    <2> QED BY <1>7, <2>3, <2>5 DEF Enqueue, backend
  <1>8. ASSUME NEW j \in Jobs, Rescan(j) PROVE OneEach(tab', scan') /\ ClosedIsFreed'
    <2> DEFINE t == [tab EXCEPT ![j].st = "queued", ![j].back = tab[j].path]
    <2>1. t \in [Jobs -> Tab] /\ tab[j].st = "done"
      <3>1. tab[j].path \in Folders /\ None \in View
        BY DEF Tab, View
      <3> QED BY <1>8, <3>1, TabSteps DEF Rescan, Apart
    <2>2. t[j].st = "queued" /\ \A i \in Jobs \ {j} : t[i] = tab[i]
      BY DEF Tab
    <2>3. Pump(t, scan)
      BY <1>8 DEF Rescan
    <2> HIDE DEF t
    <2>4. OneEach(t, scan)
      BY <1>6, <2>1, <2>2 DEF OneEach
    <2>5. OneEach(tab', scan') /\ \A i \in Jobs : tab'[i].st = "closed" => t[i].st = "closed"
      BY <1>6, <2>1, <2>3, <2>4, PumpKeeps
    <2> QED BY <1>8, <2>2, <2>5 DEF Rescan, backend
  <1>9. ASSUME NEW n \in Scans, ScanAnswer(n) PROVE OneEach(tab', scan') /\ ClosedIsFreed'
    <2> DEFINE j == scan[n].job
               t == [tab EXCEPT ![j] = Scanned(j, scan[n].items)]
               s == [scan EXCEPT ![n] = [NoScan EXCEPT !.st = "over"]]
    <2>1. n \in LiveIn(scan) /\ j \in Jobs /\ tab[j].st = "running"
      BY <1>6, <1>9 DEF ScanAnswer, OneEach, LiveIn
    <2>2. Pump(t, s)
      BY <1>9, <2>1 DEF ScanAnswer, Listed
    <2>3. t \in [Jobs -> Tab]
      <3>1. [NoViews EXCEPT ![Root] = scan[n].items] \in [Folders -> View]
        BY <2>1, TabTypes DEF View, ScanCommand
      <3>2. Root \in Folders /\ Returns(j) \in BOOLEAN /\ tab[j] \in Tab /\ scan[n].items \in View
        BY <2>1, OpenScansAssumption DEF Returns, ScanCommand, View
      <3>3. Scanned(j, scan[n].items) \in Tab
        BY <2>1, <3>1, <3>2 DEF Scanned, Tab
      <3> QED BY <3>3
    <2>4. s \in [Scans -> ScanCommand]
      BY DEF NoScan, ScanCommand
    <2>5. t[j].st = "done" /\ \A i \in Jobs \ {j} : t[i] = tab[i]
      BY <2>1 DEF Scanned, Tab
    <2>6. LiveIn(s) = LiveIn(scan) \ {n} /\ \A m \in LiveIn(s) : s[m] = scan[m]
      BY DEF LiveIn, NoScan
    <2> HIDE DEF t, s
    <2>7. \A m \in LiveIn(s) : s[m].job \in Jobs \ {j}
      BY <1>6, <2>1, <2>6 DEF OneEach
    <2>8. OneEach(t, s)
      BY <2>5, <2>6, <2>7 DEF OneEach
    <2>9. OneEach(tab', scan') /\ \A i \in Jobs : tab'[i].st = "closed" => t[i].st = "closed"
      BY <2>2, <2>3, <2>4, <2>7, <2>8, PumpKeeps
    <2> QED BY <1>9, <2>1, <2>5, <2>9 DEF ScanAnswer, backend
  <1>10. ASSUME NEW j \in Jobs, CloseJob(j) PROVE OneEach(tab', scan') /\ ClosedIsFreed'
    <2> DEFINE t == [tab EXCEPT ![j] = Closed]
    <2>1. t \in [Jobs -> Tab] /\ \A i \in Jobs \ {j} : t[i] = tab[i]
      BY TabTypes
    <2>2. Pump(t, scan) /\ tab[j].st # "running"
      BY <1>10 DEF CloseJob
    <2> HIDE DEF t
    <2>3. OneEach(t, scan)
      BY <1>6, <2>1, <2>2 DEF OneEach
    <2>4. OneEach(tab', scan') /\ \A i \in Jobs : tab'[i].st = "closed" => t[i].st = "closed"
      BY <1>6, <2>1, <2>2, <2>3, PumpKeeps
    <2>5. slot' = [slot EXCEPT ![j] = 0]
      BY <1>10 DEF CloseJob
    <2> QED BY <2>1, <2>4, <2>5
  <1>11. CASE UNCHANGED <<scan, slot>> /\ \A j \in Jobs : tab'[j].st = tab[j].st
    BY <1>1, <1>11
  <1> QED
    BY <1>2, <1>3, <1>4, <1>5, <1>7, <1>8, <1>9, <1>10, <1>11, StatesStay
    DEF Next, Backend, Answers, User, vars, backend, SaveSnapshot, ForgetPath, LookUp, Compute,
        Remember, RemovePath, CollectTrees, DiffSince, DeletePath, Navigate, ViewAnswer, SelectJob,
        RemovalAnswer, Enqueue, Rescan, CloseJob, ScanAnswer

(* No tree stays for a closed job. *)
THEOREM ClosedTreesAreFreed == Spec => [](OneScanEach /\ ClosedIsFreed)
  <1> DEFINE Inv == OneScanEach /\ ClosedIsFreed
  <1>1. Init => Inv
    BY DEF Init, OneScanEach, ClosedIsFreed, UnderWay, NoScan
  <1>2. ScansTypeOK /\ Inv /\ [Next]_vars => Inv'
    <2> SUFFICES ASSUME ScansTypeOK, Inv, [Next]_vars, Waits PROVE Inv'
      BY DEF OneScanEach, ClosedIsFreed
    <2>1. OneEach(tab, scan) /\ ClosedIsFreed
      BY OneEachIs
    <2>2. OneEach(tab', scan') /\ ClosedIsFreed'
      BY <2>1, JobsStep
    <2>3. OneScanEach'
      BY <2>2 DEF OneScanEach, OneEach, LiveIn, UnderWay
    <2> QED BY <2>2, <2>3
  <1> QED BY <1>1, <1>2, ScansType, PTL DEF Spec

-----------------------------------------------------------------------------
(* The limit on scans at a time.  Pump counts the jobs the window shows as *)
(* running; OneScanEach makes that a bound on the scans under way.         *)
RunningIn(t) == {j \in Jobs : t[j].st = "running"}

Limited(t) == Cardinality(RunningIn(t)) <= Parallel

LEMMA RunningFinite ==
  ASSUME NEW t
  PROVE  IsFiniteSet(RunningIn(t)) /\ Cardinality(RunningIn(t)) \in Nat
  <1>1. IsFiniteSet(Jobs)
    BY OpenScansAssumption, FS_Interval DEF Jobs
  <1>2. IsFiniteSet(RunningIn(t))
    BY <1>1, FS_Subset DEF RunningIn
  <1> QED BY <1>2, FS_CardinalityType

LEMMA FewerRun ==
  ASSUME NEW t, NEW u, RunningIn(u) \subseteq RunningIn(t), Limited(t)
  PROVE  Limited(u)
  <1>1. Cardinality(RunningIn(u)) <= Cardinality(RunningIn(t))
    BY RunningFinite, FS_Subset
  <1> QED BY <1>1, RunningFinite, OpenScansAssumption DEF Limited

LEMMA PumpLimits ==
  ASSUME NEW t \in [Jobs -> Tab], NEW s, Pump(t, s), Limited(t)
  PROVE  Limited(tab')
  <1>1. CASE tab' = t
    BY <1>1
  <1>2. CASE \E first \in Jobs : /\ tab' = [t EXCEPT ![first].st = "running"]
                                 /\ Cardinality(RunningIn(t)) < Parallel
    <2>1. PICK first \in Jobs : /\ tab' = [t EXCEPT ![first].st = "running"]
                                /\ Cardinality(RunningIn(t)) < Parallel
      BY <1>2
    <2>2. RunningIn(tab') \subseteq RunningIn(t) \cup {first}
      BY <2>1 DEF RunningIn
    <2>3. /\ IsFiniteSet(RunningIn(t) \cup {first})
          /\ Cardinality(RunningIn(t) \cup {first}) \in {Cardinality(RunningIn(t)), Cardinality(RunningIn(t)) + 1}
      BY RunningFinite, FS_AddElement
    <2>4. Cardinality(RunningIn(tab')) <= Cardinality(RunningIn(t) \cup {first})
      BY <2>2, <2>3, FS_Subset
    <2> QED BY <2>1, <2>3, <2>4, RunningFinite, OpenScansAssumption DEF Limited
  <1> QED BY <1>1, <1>2 DEF Pump, Lowest, RunningIn

LEMMA LimitStep ==
  ASSUME ScansTypeOK, Limited(tab), [Next]_vars
  PROVE  Limited(tab')
  <1> USE DEF ScansTypeOK, CommandsOK, WindowOK
  <1>1. CASE \A j \in Jobs : tab'[j].st = tab[j].st
    BY <1>1, FewerRun DEF RunningIn
  <1>2. ASSUME NEW t \in [Jobs -> Tab], NEW s, Pump(t, s),
               \A j \in Jobs : t[j].st = "running" => tab[j].st = "running"
        PROVE  Limited(tab')
    <2>1. Limited(t)
      BY <1>2, FewerRun DEF RunningIn
    <2> QED BY <1>2, <2>1, PumpLimits
  <1>3. ASSUME NEW j \in Jobs, Enqueue(j) PROVE Limited(tab')
    <2> DEFINE t == [tab EXCEPT ![j] = NewTab]
    <2>1. /\ t \in [Jobs -> Tab] /\ t[j].st = "queued"
          /\ \A i \in Jobs \ {j} : t[i] = tab[i]
      BY TabTypes DEF NewTab
    <2>2. Pump(t, scan)
      BY <1>3 DEF Enqueue
    <2> HIDE DEF t
    <2> QED BY <1>2, <2>1, <2>2
  <1>4. ASSUME NEW j \in Jobs, Rescan(j) PROVE Limited(tab')
    <2> DEFINE t == [tab EXCEPT ![j].st = "queued", ![j].back = tab[j].path]
    <2>1. tab[j].path \in Folders /\ None \in View
      BY TabTypes DEF Tab, View
    <2>2. t \in [Jobs -> Tab]
      BY <1>4, <2>1, TabSteps DEF Rescan
    <2>3. t[j].st = "queued" /\ \A i \in Jobs \ {j} : t[i] = tab[i]
      BY TabTypes DEF Tab
    <2>4. Pump(t, scan)
      BY <1>4 DEF Rescan
    <2> HIDE DEF t
    <2> QED BY <1>2, <2>2, <2>3, <2>4
  <1>5. ASSUME NEW n \in Scans, ScanAnswer(n) PROVE Limited(tab')
    <2> DEFINE j == scan[n].job
               t == [tab EXCEPT ![j] = Scanned(j, scan[n].items)]
               s == [scan EXCEPT ![n] = [NoScan EXCEPT !.st = "over"]]
    <2>1. j \in Jobs /\ scan[n].items \in View
      BY <1>5 DEF ScanAnswer, UnderWay, ScanCommand, View
    <2>2. Pump(IF Listed(j) THEN t ELSE tab, s)
      BY <1>5 DEF ScanAnswer
    <2>3. t \in [Jobs -> Tab]
      <3>1. [NoViews EXCEPT ![Root] = scan[n].items] \in [Folders -> View]
        BY <2>1, TabTypes
      <3>2. Root \in Folders /\ Returns(j) \in BOOLEAN /\ tab[j] \in Tab
        BY <2>1, TabTypes, OpenScansAssumption DEF Returns
      <3>3. Scanned(j, scan[n].items) \in Tab
        BY <2>1, <3>1, <3>2 DEF Scanned, Tab
      <3> QED BY <3>3, TabTypes
    <2>4. t[j].st = "done" /\ \A i \in Jobs \ {j} : t[i] = tab[i]
      BY <2>1, TabTypes DEF Scanned, Tab
    <2> HIDE DEF t, s
    <2>5. CASE Listed(j)
      BY <1>2, <2>2, <2>3, <2>4, <2>5
    <2>6. CASE ~Listed(j)
      BY <1>2, <2>2, <2>6, TabTypes
    <2> QED BY <2>5, <2>6
  <1>6. ASSUME NEW j \in Jobs, CloseJob(j) PROVE Limited(tab')
    <2> DEFINE t == [tab EXCEPT ![j] = Closed]
    <2>1. t \in [Jobs -> Tab] /\ t[j].st = "closed" /\ \A i \in Jobs \ {j} : t[i] = tab[i]
      BY TabTypes DEF Closed, NewTab
    <2>2. Pump(t, scan)
      BY <1>6 DEF CloseJob
    <2> HIDE DEF t
    <2> QED BY <1>2, <2>1, <2>2
  <1>7. \/ \E j \in Jobs : Enqueue(j) \/ Rescan(j) \/ CloseJob(j)
        \/ \E n \in Scans : ScanAnswer(n)
        \/ \A j \in Jobs : tab'[j].st = tab[j].st
    BY StatesStay
  <1> QED BY <1>1, <1>3, <1>4, <1>5, <1>6, <1>7

(* No more scans are under way in the backend than the setting allows.     *)
THEOREM ScansAreLimited == Spec => []ParallelLimit
  <1> DEFINE Inv == Limited(tab)
  <1>1. Init => Inv
    <2> SUFFICES ASSUME Init PROVE Limited(tab)
      OBVIOUS
    <2>1. RunningIn(tab) = {}
      BY DEF Init, RunningIn, Unopened, NewTab
    <2> QED BY <2>1, FS_EmptySet, OpenScansAssumption DEF Limited
  <1>2. ScansTypeOK /\ Inv /\ [Next]_vars => Inv'
    BY LimitStep
  <1>3. ScansTypeOK /\ OneScanEach /\ Inv => ParallelLimit
    <2> SUFFICES ASSUME ScansTypeOK, OneScanEach, Limited(tab), Waits
                 PROVE  Cardinality({n \in Scans : UnderWay(n)}) <= Parallel
      BY DEF ParallelLimit
    <2> DEFINE live == {n \in Scans : UnderWay(n)}
               job == [n \in live |-> scan[n].job]
    <2>1. IsFiniteSet(live)
      <3>1. IsFiniteSet(Scans)
        BY OpenScansAssumption, FS_Interval DEF Scans
      <3> QED BY <3>1, FS_Subset
    <2>2. \A n \in live : scan[n].job \in RunningIn(tab)
      BY DEF OneScanEach, RunningIn, ScansTypeOK, CommandsOK
    <2>3. job \in Injection(live, RunningIn(tab))
      BY <2>2 DEF OneScanEach, Injection, IsInjective
    <2> HIDE DEF live, job
    <2>4. Cardinality(live) <= Cardinality(RunningIn(tab)) /\ Cardinality(live) \in Nat
      BY <2>1, <2>3, RunningFinite, FS_Injection, FS_CardinalityType
    <2>5. Cardinality(live) <= Parallel
      BY <2>4, RunningFinite, OpenScansAssumption DEF Limited
    <2> QED BY <2>5 DEF live
  <1> QED BY <1>1, <1>2, <1>3, ScansType, ClosedTreesAreFreed, PTL DEF Spec

-----------------------------------------------------------------------------
(* One scan of a job at a time, as a result of its own.                    *)
THEOREM OneScanAtATime == Spec => []OneScanEach
  BY ClosedTreesAreFreed, PTL

-----------------------------------------------------------------------------
(* A deletion is left alone.  It starts when no scan is under way, and     *)
(* none starts while it goes on: a job waits in the queue only while       *)
(* others run (QueueWaits), and one that runs has its scan (Pending), so   *)
(* that no job is in the queue then, and closing one starts none.          *)
Queue(t) == {j \in Jobs : t[j].st = "queued"}

QueueWaits(t) == Queue(t) # {} => Cardinality(RunningIn(t)) >= Parallel

Pending(t, s) == \A j \in RunningIn(t) : \E n \in LiveIn(s) : s[n].job = j

Undisturbed == Removing => LiveIn(scan) = {}

(* What pump does when it starts a job: one of the queue, in a scan that   *)
(* was not used yet.                                                       *)
Starts(t, s, first, n) ==
  /\ s[n].st = "unused" /\ Cardinality(RunningIn(t)) < Parallel
  /\ tab'[first].st = "running" /\ \A j \in Jobs \ {first} : tab'[j] = t[j]
  /\ scan'[n] = [NoScan EXCEPT !.st = "sent", !.job = first]
  /\ \A m \in Scans \ {n} : scan'[m] = s[m]

NoneStarts(t, s) ==
  tab' = t /\ scan' = s /\ (Queue(t) # {} => ~(Cardinality(RunningIn(t)) < Parallel))

LEMMA PumpDoes ==
  ASSUME NEW t \in [Jobs -> Tab], NEW s \in [Scans -> ScanCommand], Pump(t, s)
  PROVE  NoneStarts(t, s) \/ \E first \in Queue(t), n \in Scans : Starts(t, s, first, n)
  <1>1. CASE tab' = t /\ scan' = s /\ ~(Queue(t) # {} /\ Cardinality(RunningIn(t)) < Parallel)
    BY <1>1 DEF NoneStarts
  <1>2. CASE \E first \in Queue(t), n \in Scans :
               /\ s[n].st = "unused" /\ Cardinality(RunningIn(t)) < Parallel
               /\ tab' = [t EXCEPT ![first].st = "running"]
               /\ scan' = [s EXCEPT ![n] = [NoScan EXCEPT !.st = "sent", !.job = first]]
    <2>1. PICK first \in Queue(t), n \in Scans :
            /\ s[n].st = "unused" /\ Cardinality(RunningIn(t)) < Parallel
            /\ tab' = [t EXCEPT ![first].st = "running"]
            /\ scan' = [s EXCEPT ![n] = [NoScan EXCEPT !.st = "sent", !.job = first]]
      BY <1>2
    <2>2. tab'[first].st = "running" /\ \A j \in Jobs \ {first} : tab'[j] = t[j]
      BY <2>1 DEF Tab, Queue
    <2>3. /\ scan'[n] = [NoScan EXCEPT !.st = "sent", !.job = first]
          /\ \A m \in Scans \ {n} : scan'[m] = s[m]
      BY <2>1
    <2> QED BY <2>1, <2>2, <2>3 DEF Starts
  <1> QED BY <1>1, <1>2 DEF Pump, Lowest, Queue, RunningIn

LEMMA PumpPending ==
  ASSUME NEW t \in [Jobs -> Tab], NEW s \in [Scans -> ScanCommand], Pump(t, s), Pending(t, s)
  PROVE  Pending(tab', scan')
  <1>1. CASE NoneStarts(t, s)
    BY <1>1 DEF NoneStarts
  <1>2. ASSUME NEW first \in Queue(t), NEW n \in Scans, Starts(t, s, first, n)
        PROVE  Pending(tab', scan')
    <2>1. /\ s[n].st = "unused"
          /\ \A j \in Jobs \ {first} : tab'[j] = t[j]
          /\ scan'[n] = [NoScan EXCEPT !.st = "sent", !.job = first]
          /\ \A m \in Scans \ {n} : scan'[m] = s[m]
      BY <1>2 DEF Starts
    <2>2. scan'[n].job = first /\ n \in LiveIn(scan') /\ LiveIn(s) \subseteq LiveIn(scan') \ {n}
      BY <2>1 DEF NoScan, LiveIn
    <2>3. RunningIn(tab') \subseteq RunningIn(t) \cup {first}
      BY <2>1 DEF RunningIn
    <2>4. \A j \in RunningIn(t) : \E m \in LiveIn(s) : s[m].job = j
      BY DEF Pending
    <2>5. \A m \in LiveIn(s) : m \in LiveIn(scan') /\ scan'[m].job = s[m].job
      BY <2>1, <2>2 DEF LiveIn
    <2>6. \A j \in RunningIn(t) : \E m \in LiveIn(scan') : scan'[m].job = j
      BY <2>4, <2>5
    <2> QED BY <2>2, <2>3, <2>6 DEF Pending
  <1> QED BY <1>1, <1>2, PumpDoes

(* After pump the queue waits, if at most one place was free or at most    *)
(* one job in the queue.                                                   *)
LEMMA PumpFills ==
  ASSUME NEW t \in [Jobs -> Tab], NEW s \in [Scans -> ScanCommand], Pump(t, s),
         \/ Cardinality(RunningIn(t)) >= Parallel - 1
         \/ \E j \in Jobs : Queue(t) \subseteq {j}
  PROVE  QueueWaits(tab')
  <1>1. CASE NoneStarts(t, s)
    BY <1>1, RunningFinite, OpenScansAssumption DEF QueueWaits, NoneStarts
  <1>2. ASSUME NEW first \in Queue(t), NEW n \in Scans, Starts(t, s, first, n)
        PROVE  QueueWaits(tab')
    <2>1. tab'[first].st = "running" /\ \A j \in Jobs \ {first} : tab'[j] = t[j]
      BY <1>2 DEF Starts
    <2>2. /\ RunningIn(tab') = RunningIn(t) \cup {first} /\ first \notin RunningIn(t)
          /\ Queue(tab') = Queue(t) \ {first}
      BY <2>1 DEF RunningIn, Queue
    <2>3. Cardinality(RunningIn(tab')) = Cardinality(RunningIn(t)) + 1
      BY <2>2, RunningFinite, FS_AddElement
    <2> QED BY <2>2, <2>3, RunningFinite, OpenScansAssumption DEF QueueWaits
  <1> QED BY <1>1, <1>2, PumpDoes

(* Steps other than the four that call pump leave the scans under way, the *)
(* jobs they are of and the states of the tabs.                            *)
Pumping == \/ \E j \in Jobs : Enqueue(j) \/ Rescan(j) \/ CloseJob(j)
           \/ \E n \in Scans : ScanAnswer(n)

LiveUnchanged == LiveIn(scan') = LiveIn(scan) /\ \A n \in Scans : scan'[n].job = scan[n].job

LEMMA LiveStays ==
  ASSUME ScansTypeOK, [Next]_vars
  PROVE  Pumping \/ (LiveUnchanged /\ \A j \in Jobs : tab'[j].st = tab[j].st)
  <1>0. /\ scan \in [Scans -> ScanCommand] /\ running \in [Jobs -> Scans \cup {0}]
    BY DEF ScansTypeOK, CommandsOK, BackendOK
  <1>1. ASSUME NEW n \in Scans, Register(n) PROVE LiveUnchanged
    BY <1>0, <1>1 DEF Register, LiveIn, ScanCommand, LiveUnchanged
  <1>2. ASSUME NEW n \in Scans, Build(n) PROVE LiveUnchanged
    <2>1. PICK read : scan' = [scan EXCEPT ![n].st = "built", ![n].items = read]
      BY <1>2 DEF Build
    <2> QED BY <1>0, <1>2, <2>1 DEF Build, LiveIn, ScanCommand, LiveUnchanged
  <1>3. ASSUME NEW n \in Scans, Keep(n) PROVE LiveUnchanged
    BY <1>0, <1>3 DEF Keep, LiveIn, ScanCommand, LiveUnchanged
  <1>4. ASSUME NEW j \in Jobs, CancelJob(j) PROVE LiveUnchanged
    <2>1. running[j] \in Scans
      BY <1>0, <1>4 DEF CancelJob
    <2> QED BY <1>0, <1>4, <2>1 DEF CancelJob, LiveIn, ScanCommand, LiveUnchanged
  <1>5. ASSUME scan' = scan PROVE LiveUnchanged
    BY <1>5 DEF LiveUnchanged
  <1>6. Pumping \/ LiveUnchanged
    <2>1. CASE Backend
      BY <1>1, <1>2, <1>3, <1>5, <2>1
      DEF Backend, SaveSnapshot, ForgetPath, LookUp, Compute, Remember, RemovePath, CollectTrees
    <2>2. CASE Answers
      BY <1>5, <2>2 DEF Answers, ViewAnswer, RemovalAnswer, Pumping
    <2>3. CASE User
      BY <1>4, <1>5, <2>3 DEF User, DiffSince, DeletePath, Navigate, SelectJob, Pumping
    <2>4. CASE UNCHANGED vars
      BY <1>5, <2>4 DEF vars
    <2> QED BY <2>1, <2>2, <2>3, <2>4 DEF Next
  <1>7. Pumping \/ \A j \in Jobs : tab'[j].st = tab[j].st
    BY StatesStay DEF Pumping
  <1> QED BY <1>6, <1>7

(* The tabs and scans the four steps hand to pump.                         *)
Retabbed(t, j, r) == t \in [Jobs -> Tab] /\ t[j] = r /\ \A i \in Jobs \ {j} : t[i] = tab[i]

Over(s, n) ==
  /\ s \in [Scans -> ScanCommand] /\ s[n] = [NoScan EXCEPT !.st = "over"]
  /\ \A m \in Scans \ {n} : s[m] = scan[m]

Requeued(j) == [tab[j] EXCEPT !.st = "queued", !.back = tab[j].path]

LEMMA EnqueuePumps ==
  ASSUME ScansTypeOK, NEW j \in Jobs, Enqueue(j)
  PROVE  \E t : Pump(t, scan) /\ Retabbed(t, j, NewTab)
  <1>1. Retabbed([tab EXCEPT ![j] = NewTab], j, NewTab)
    BY TabTypes DEF Retabbed, ScansTypeOK, WindowOK
  <1> QED BY <1>1 DEF Enqueue

LEMMA RescanPumps ==
  ASSUME ScansTypeOK, NEW j \in Jobs, Rescan(j)
  PROVE  \E t : Pump(t, scan) /\ Retabbed(t, j, Requeued(j))
  <1> DEFINE t == [tab EXCEPT ![j].st = "queued", ![j].back = tab[j].path]
  <1>1. tab \in [Jobs -> Tab] /\ tab[j].path \in Folders /\ None \in View
    BY DEF ScansTypeOK, WindowOK, Tab, View
  <1>2. t \in [Jobs -> Tab]
    BY <1>1, TabSteps DEF ScansTypeOK
  <1>3. t[j] = Requeued(j) /\ \A i \in Jobs \ {j} : t[i] = tab[i]
    BY <1>1 DEF Requeued
  <1>4. Pump(t, scan)
    BY DEF Rescan
  <1> HIDE DEF t
  <1> QED BY <1>2, <1>3, <1>4 DEF Retabbed

LEMMA ClosePumps ==
  ASSUME ScansTypeOK, NEW j \in Jobs, CloseJob(j)
  PROVE  \E t : Pump(t, scan) /\ Retabbed(t, j, Closed)
  <1>1. Retabbed([tab EXCEPT ![j] = Closed], j, Closed)
    BY TabTypes DEF Retabbed, ScansTypeOK, WindowOK
  <1> QED BY <1>1 DEF CloseJob

LEMMA AnswerPumps ==
  ASSUME ScansTypeOK, NEW n \in Scans, ScanAnswer(n), Listed(scan[n].job)
  PROVE  /\ scan[n].job \in Jobs
         /\ \E t, s : /\ Pump(t, s) /\ Over(s, n)
                      /\ Retabbed(t, scan[n].job, Scanned(scan[n].job, scan[n].items))
  <1> DEFINE j == scan[n].job
             t == [tab EXCEPT ![j] = Scanned(j, scan[n].items)]
             s == [scan EXCEPT ![n] = [NoScan EXCEPT !.st = "over"]]
  <1>1. /\ tab \in [Jobs -> Tab] /\ scan \in [Scans -> ScanCommand]
        /\ j \in Jobs /\ scan[n].items \in View
    BY DEF ScansTypeOK, CommandsOK, WindowOK, ScanAnswer, UnderWay, ScanCommand, View
  <1>2. Pump(t, s)
    BY DEF ScanAnswer
  <1>3. Scanned(j, scan[n].items) \in Tab
    <2>1. [NoViews EXCEPT ![Root] = scan[n].items] \in [Folders -> View]
      BY <1>1, TabTypes
    <2>2. Root \in Folders /\ Returns(j) \in BOOLEAN /\ tab[j] \in Tab
      BY <1>1, OpenScansAssumption DEF Returns
    <2> QED BY <1>1, <2>1, <2>2 DEF Scanned, Tab
  <1>4. Retabbed(t, j, Scanned(j, scan[n].items))
    BY <1>1, <1>3 DEF Retabbed
  <1>5. Over(s, n)
    BY <1>1 DEF Over, NoScan, ScanCommand
  <1> HIDE DEF t, s
  <1> QED BY <1>1, <1>2, <1>4, <1>5

LEMMA JobsInvStep ==
  ASSUME ScansTypeOK, Waits, OneEach(tab, scan), QueueWaits(tab), Pending(tab, scan), Undisturbed,
         [Next]_vars
  PROVE  QueueWaits(tab') /\ Pending(tab', scan') /\ Undisturbed'
  <1>0. /\ tab \in [Jobs -> Tab] /\ scan \in [Scans -> ScanCommand]
        /\ \A n \in LiveIn(scan) : scan[n].job \in Jobs /\ tab[scan[n].job].st = "running"
    BY DEF ScansTypeOK, WindowOK, CommandsOK, LiveIn, UnderWay, OneEach
  <1>1. ASSUME LiveUnchanged, \A j \in Jobs : tab'[j].st = tab[j].st
        PROVE  QueueWaits(tab') /\ Pending(tab', scan')
    <2>1. Queue(tab') = Queue(tab) /\ RunningIn(tab') = RunningIn(tab)
      BY <1>1 DEF Queue, RunningIn
    <2> QED BY <1>1, <2>1 DEF LiveUnchanged, QueueWaits, Pending, LiveIn
  <1>2. ASSUME NEW j \in Jobs, NEW t, Pump(t, scan), t \in [Jobs -> Tab], t[j].st = "queued",
               tab[j].st # "running", \A i \in Jobs \ {j} : t[i] = tab[i]
        PROVE  QueueWaits(tab') /\ Pending(tab', scan')
    <2>1. RunningIn(t) = RunningIn(tab) /\ Queue(t) = Queue(tab) \cup {j}
      BY <1>2 DEF RunningIn, Queue
    <2>2. Pending(t, scan)
      BY <2>1 DEF Pending
    <2>3. Cardinality(RunningIn(t)) >= Parallel - 1 \/ Queue(t) \subseteq {j}
      BY <2>1, RunningFinite, OpenScansAssumption DEF QueueWaits
    <2> QED BY <1>0, <1>2, <2>2, <2>3, PumpPending, PumpFills
  <1>3. ASSUME NEW j \in Jobs, Enqueue(j) PROVE QueueWaits(tab') /\ Pending(tab', scan') /\ Undisturbed'
    <2>1. PICK t : Pump(t, scan) /\ Retabbed(t, j, NewTab)
      BY <1>3, EnqueuePumps
    <2>2. tab[j].st # "running" /\ ~Removing /\ ~Removing'
      BY <1>3 DEF Enqueue, Apart, Removing
    <2> QED BY <1>2, <2>1, <2>2 DEF Retabbed, NewTab, Undisturbed
  <1>4. ASSUME NEW j \in Jobs, Rescan(j) PROVE QueueWaits(tab') /\ Pending(tab', scan') /\ Undisturbed'
    <2>1. PICK t : Pump(t, scan) /\ Retabbed(t, j, Requeued(j))
      BY <1>4, RescanPumps
    <2>2. tab[j].st # "running" /\ ~Removing /\ ~Removing'
      BY <1>4 DEF Rescan, Apart, Removing
    <2>3. t[j].st = "queued"
      BY <1>0, <2>1 DEF Retabbed, Requeued, Tab
    <2> QED BY <1>2, <2>1, <2>2, <2>3 DEF Retabbed, Undisturbed
  <1>5. ASSUME NEW n \in Scans, ScanAnswer(n) PROVE QueueWaits(tab') /\ Pending(tab', scan') /\ Undisturbed'
    <2> DEFINE j == scan[n].job
    <2>1. n \in LiveIn(scan) /\ j \in Jobs /\ tab[j].st = "running"
      BY <1>0, <1>5 DEF ScanAnswer, LiveIn
    <2>2. PICK t, s : /\ Pump(t, s) /\ Over(s, n)
                      /\ Retabbed(t, j, Scanned(j, scan[n].items))
      BY <1>5, <2>1, AnswerPumps DEF Listed
    <2>3. t \in [Jobs -> Tab] /\ t[j].st = "done" /\ \A i \in Jobs \ {j} : t[i] = tab[i]
      BY <1>0, <2>1, <2>2 DEF Retabbed, Scanned, Tab
    <2>4. RunningIn(t) = RunningIn(tab) \ {j} /\ j \in RunningIn(tab) /\ Queue(t) = Queue(tab)
      BY <2>1, <2>3 DEF RunningIn, Queue
    <2>5. Cardinality(RunningIn(tab)) = Cardinality(RunningIn(t)) + 1
      <3>1. RunningIn(tab) = RunningIn(t) \cup {j} /\ j \notin RunningIn(t)
        BY <2>4
      <3> HIDE DEF j
      <3> QED BY <3>1, RunningFinite, FS_AddElement
    <2>6. Cardinality(RunningIn(t)) >= Parallel - 1 \/ Queue(t) \subseteq {j}
      <3>1. Cardinality(RunningIn(t)) \in Nat /\ Parallel \in Nat
        BY RunningFinite, OpenScansAssumption
      <3>2. Queue(t) # {} => Cardinality(RunningIn(tab)) >= Parallel
        BY <2>4 DEF QueueWaits
      <3> QED BY <2>5, <3>1, <3>2
    <2>7. s \in [Scans -> ScanCommand] /\ \A m \in LiveIn(scan) \ {n} : m \in LiveIn(s) /\ s[m] = scan[m]
      BY <2>2 DEF Over, LiveIn
    <2>8. Pending(t, s)
      BY <2>4, <2>7 DEF Pending
    <2>9. QueueWaits(tab') /\ Pending(tab', scan')
      BY <2>1, <2>2, <2>3, <2>6, <2>7, <2>8, PumpPending, PumpFills
    <2>10. ~Removing'
      BY <1>5, <2>1 DEF ScanAnswer, Undisturbed, Removing
    <2> QED BY <2>9, <2>10 DEF Undisturbed
  <1>6. ASSUME NEW j \in Jobs, CloseJob(j) PROVE QueueWaits(tab') /\ Pending(tab', scan') /\ Undisturbed'
    <2>1. PICK t : Pump(t, scan) /\ Retabbed(t, j, Closed)
      BY <1>6, ClosePumps
    <2>2. t \in [Jobs -> Tab] /\ t[j].st = "closed" /\ tab[j].st # "running" /\ removal' = removal
      BY <1>6, <2>1 DEF Retabbed, Closed, CloseJob
    <2>3. RunningIn(t) = RunningIn(tab) /\ Queue(t) \subseteq Queue(tab)
      BY <2>1, <2>2 DEF Retabbed, RunningIn, Queue
    <2>4. Pending(t, scan)
      BY <2>3 DEF Pending
    <2>5. Cardinality(RunningIn(t)) >= Parallel - 1 \/ Queue(t) \subseteq {j}
      BY <2>3, RunningFinite, OpenScansAssumption DEF QueueWaits
    <2>6. QueueWaits(tab') /\ Pending(tab', scan')
      BY <1>0, <2>1, <2>2, <2>4, <2>5, PumpPending, PumpFills
    <2>7. ASSUME Removing PROVE LiveIn(scan') = {}
      <3>1. LiveIn(scan) = {} /\ RunningIn(tab) = {}
        BY <2>7 DEF Undisturbed, Pending
      <3>2. Queue(t) = {}
        BY <2>3, <3>1, FS_EmptySet, OpenScansAssumption DEF QueueWaits
      <3>3. NoneStarts(t, scan)
        BY <1>0, <2>1, <2>2, <3>2, PumpDoes
      <3> QED BY <3>1, <3>3 DEF NoneStarts
    <2> QED BY <2>2, <2>6, <2>7 DEF Undisturbed, Removing
  <1>7. ASSUME LiveUnchanged PROVE Undisturbed' \/ \E x \in Items : DeletePath(x)
    <2>1. CASE removal' = removal
      BY <1>7, <2>1 DEF LiveUnchanged, Undisturbed, Removing
    <2>2. CASE Removing
      BY <1>7, <2>2 DEF LiveUnchanged, Undisturbed
    <2>3. CASE ~Removing'
      BY <2>3 DEF Undisturbed
    <2>4. (\E x \in Items : DeletePath(x)) \/ removal' = removal \/ Removing
      BY DEF Next, Backend, Answers, User, vars, backend, Register, Build, Keep, SaveSnapshot, ForgetPath,
             LookUp, Compute, Remember, RemovePath, CollectTrees, DiffSince, Navigate, ViewAnswer,
             SelectJob, RemovalAnswer, Enqueue, Rescan, CancelJob, CloseJob, ScanAnswer, Removing
    <2> QED BY <2>1, <2>2, <2>4
  <1>8. ASSUME NEW x \in Items, DeletePath(x) PROVE Undisturbed'
    BY <1>8 DEF DeletePath, Apart, Undisturbed, LiveIn, UnderWay
  <1> QED BY <1>1, <1>3, <1>4, <1>5, <1>6, <1>7, <1>8, LiveStays DEF Pumping

(* While a removal goes on no scan is under way, and a job waits in the    *)
(* queue only while as many run as may.                                    *)
JobsInv == Waits => QueueWaits(tab) /\ Pending(tab, scan) /\ Undisturbed

LEMMA JobsInvariant == Spec => []JobsInv
  <1>1. Init => JobsInv
    <2> SUFFICES ASSUME Init PROVE QueueWaits(tab) /\ Pending(tab, scan) /\ Undisturbed
      BY DEF JobsInv
    <2> QED BY DEF Init, QueueWaits, Queue, Pending, RunningIn, Undisturbed, Removing, NoRemoval, Unopened, NewTab
  <1>2. ScansTypeOK /\ OneScanEach /\ JobsInv /\ [Next]_vars => JobsInv'
    <2> SUFFICES ASSUME ScansTypeOK, OneScanEach, JobsInv, [Next]_vars, Waits PROVE JobsInv'
      BY DEF JobsInv
    <2>1. OneEach(tab, scan) /\ QueueWaits(tab) /\ Pending(tab, scan) /\ Undisturbed
      BY OneEachIs DEF JobsInv
    <2>2. QueueWaits(tab') /\ Pending(tab', scan') /\ Undisturbed'
      BY <2>1, JobsInvStep
    <2> QED BY <2>2 DEF JobsInv, QueueWaits, Queue, Pending, RunningIn, LiveIn
  <1> QED BY <1>1, <1>2, ScansType, OneScanAtATime, PTL DEF Spec

-----------------------------------------------------------------------------
(* What a step does to one scan, to one tree, to the tree of one job, and  *)
(* to the disk and the removal.                                            *)
SentNow(n) == \E j \in Jobs : scan'[n] = [NoScan EXCEPT !.st = "sent", !.job = j]

ScanMoves(n) ==
  \/ scan'[n] = scan[n]
  \/ Register(n) /\ scan'[n] = [scan[n] EXCEPT !.st = "building"]
  \/ /\ Build(n)
     /\ \E read \in IF scan[n].stop THEN WholePaths(disk) ELSE {disk} :
          scan'[n] = [scan[n] EXCEPT !.st = "built", !.items = read]
  \/ Keep(n) /\ scan'[n] = [scan[n] EXCEPT !.st = "answer"]
  \/ scan'[n] = [scan[n] EXCEPT !.stop = TRUE]
  \/ ScanAnswer(n) /\ scan'[n] = [NoScan EXCEPT !.st = "over"]
  \/ scan[n].st = "unused" /\ SentNow(n)

LEMMA PumpMoves ==
  ASSUME NEW t \in [Jobs -> Tab], NEW s \in [Scans -> ScanCommand], Pump(t, s), NEW n \in Scans
  PROVE  \/ scan'[n] = s[n]
         \/ s[n].st = "unused" /\ SentNow(n)
  <1>1. CASE NoneStarts(t, s)
    BY <1>1 DEF NoneStarts
  <1>2. ASSUME NEW first \in Queue(t), NEW m \in Scans, Starts(t, s, first, m)
        PROVE  \/ scan'[n] = s[n]
               \/ s[n].st = "unused" /\ SentNow(n)
    <2>1. CASE n = m
      BY <1>2, <2>1 DEF Starts, Queue, SentNow
    <2>2. CASE n # m
      BY <1>2, <2>2 DEF Starts
    <2> QED BY <2>1, <2>2
  <1> QED BY <1>1, <1>2, PumpDoes

LEMMA ScanStep ==
  ASSUME ScansTypeOK, [Next]_vars, NEW n \in Scans
  PROVE  ScanMoves(n)
  <1>0. /\ scan \in [Scans -> ScanCommand] /\ running \in [Jobs -> Scans \cup {0}]
        /\ tab \in [Jobs -> Tab]
    BY DEF ScansTypeOK, CommandsOK, BackendOK, WindowOK
  <1>1. ASSUME NEW m \in Scans, Register(m) PROVE ScanMoves(n)
    <2>1. scan' = [scan EXCEPT ![m] = [scan[m] EXCEPT !.st = "building"]]
      BY <1>1 DEF Register
    <2> QED BY <1>0, <1>1, <2>1 DEF ScanMoves
  <1>2. ASSUME NEW m \in Scans, Build(m) PROVE ScanMoves(n)
    <2>1. PICK read \in IF scan[m].stop THEN WholePaths(disk) ELSE {disk} :
            scan' = [scan EXCEPT ![m] = [scan[m] EXCEPT !.st = "built", !.items = read]]
      BY <1>2 DEF Build
    <2> QED BY <1>0, <1>2, <2>1 DEF ScanMoves
  <1>3. ASSUME NEW m \in Scans, Keep(m) PROVE ScanMoves(n)
    <2>1. scan' = [scan EXCEPT ![m] = [scan[m] EXCEPT !.st = "answer"]]
      BY <1>3 DEF Keep
    <2> QED BY <1>0, <1>3, <2>1 DEF ScanMoves
  <1>4. ASSUME NEW j \in Jobs, CancelJob(j) PROVE ScanMoves(n)
    <2>1. scan' = [scan EXCEPT ![running[j]] = [scan[running[j]] EXCEPT !.stop = TRUE]]
      BY <1>4 DEF CancelJob
    <2> QED BY <1>0, <2>1 DEF ScanMoves
  <1>5. CASE scan' = scan
    BY <1>5 DEF ScanMoves
  <1>6. ASSUME NEW t, t \in [Jobs -> Tab], Pump(t, scan) PROVE ScanMoves(n)
    BY <1>0, <1>6, PumpMoves DEF ScanMoves
  <1>7. ASSUME NEW m \in Scans, ScanAnswer(m) PROVE ScanMoves(n)
    <2>1. PICK t, s : Pump(t, s) /\ Over(s, m) /\ t \in [Jobs -> Tab]
      <3> DEFINE s == [scan EXCEPT ![m] = [NoScan EXCEPT !.st = "over"]]
      <3>1. CASE Listed(scan[m].job)
        BY <1>7, <3>1, AnswerPumps DEF Retabbed
      <3>2. CASE ~Listed(scan[m].job)
        <4>1. Pump(tab, s)
          BY <1>7, <3>2 DEF ScanAnswer
        <4>2. Over(s, m)
          BY <1>0 DEF Over, NoScan, ScanCommand
        <4> HIDE DEF s
        <4> QED BY <1>0, <4>1, <4>2
      <3> QED BY <3>1, <3>2
    <2>2. s \in [Scans -> ScanCommand] /\ s[m] = [NoScan EXCEPT !.st = "over"] /\ s[m].st # "unused"
          /\ \A k \in Scans \ {m} : s[k] = scan[k]
      BY <2>1 DEF Over, NoScan
    <2>3. \/ scan'[n] = s[n]
          \/ s[n].st = "unused" /\ SentNow(n)
      BY <2>1, <2>2, PumpMoves
    <2>4. CASE n = m
      BY <1>7, <2>2, <2>3, <2>4 DEF ScanMoves
    <2>5. CASE n # m
      BY <2>2, <2>3, <2>5 DEF ScanMoves
    <2> QED BY <2>4, <2>5
  <1>8. ASSUME Pumping PROVE ScanMoves(n)
    <2>1. ASSUME NEW j \in Jobs, Enqueue(j) PROVE ScanMoves(n)
      BY <1>6, <2>1, EnqueuePumps DEF Retabbed
    <2>2. ASSUME NEW j \in Jobs, Rescan(j) PROVE ScanMoves(n)
      BY <1>6, <2>2, RescanPumps DEF Retabbed
    <2>3. ASSUME NEW j \in Jobs, CloseJob(j) PROVE ScanMoves(n)
      BY <1>6, <2>3, ClosePumps DEF Retabbed
    <2> QED BY <1>7, <1>8, <2>1, <2>2, <2>3 DEF Pumping
  <1>9. CASE Backend
    BY <1>1, <1>2, <1>3, <1>5, <1>9
    DEF Backend, SaveSnapshot, ForgetPath, LookUp, Compute, Remember, RemovePath, CollectTrees
  <1>10. CASE Answers
    BY <1>5, <1>8, <1>10 DEF Answers, ViewAnswer, RemovalAnswer, Pumping
  <1>11. CASE User
    BY <1>4, <1>5, <1>8, <1>11 DEF User, DiffSince, DeletePath, Navigate, SelectJob, Pumping
  <1>12. CASE UNCHANGED vars
    BY <1>5, <1>12 DEF vars
  <1> QED BY <1>9, <1>10, <1>11, <1>12 DEF Next

SameFiles(n) == tree'[n].items = tree[n].items /\ tree'[n].complete = tree[n].complete

TreeMoves(n) ==
  \/ SameFiles(n) /\ tree'[n].views = tree[n].views
  \/ /\ Keep(n)
     /\ tree'[n].items = scan[n].items /\ tree'[n].complete = ~scan[n].stop /\ tree'[n].views = NoViews
  \/ \E c \in Calls : /\ Remember(c) /\ call[c].n = n /\ SameFiles(n)
                      /\ tree'[n].views = [tree[n].views EXCEPT ![call[c].path] = call[c].view]
  \/ ForgetPath(n) /\ tree'[n] = Without(n, removal.item)

LEMMA TreeStep ==
  ASSUME ScansTypeOK, [Next]_vars, NEW n \in Scans
  PROVE  TreeMoves(n)
  <1>0. tree \in [Scans -> Cached] /\ slot \in [Jobs -> Scans \cup {0}]
    BY DEF ScansTypeOK, BackendOK
  <1>1. ASSUME NEW m \in Scans, Keep(m) PROVE TreeMoves(n)
    <2>1. CASE n = m
      BY <1>0, <1>1, <2>1 DEF Keep, NoTree, TreeMoves
    <2>2. CASE n # m
      BY <1>0, <1>1, <2>2 DEF Keep, TreeMoves, SameFiles
    <2> QED BY <2>1, <2>2
  <1>2. ASSUME NEW m \in Scans, SaveSnapshot(m) PROVE TreeMoves(n)
    BY <1>0, <1>2 DEF SaveSnapshot, CurrentSnapshot, Cached, TreeMoves, SameFiles
  <1>3. ASSUME NEW j \in Jobs, DiffSince(j) PROVE TreeMoves(n)
    BY <1>0, <1>3 DEF DiffSince, CurrentSnapshot, Cached, TreeMoves, SameFiles
  <1>4. ASSUME NEW m \in Scans, ForgetPath(m) PROVE TreeMoves(n)
    BY <1>0, <1>4 DEF ForgetPath, TreeMoves, SameFiles
  <1>5. ASSUME NEW c \in Calls, Remember(c) PROVE TreeMoves(n)
    <2>1. tree' = [tree EXCEPT ![call[c].n] =
            [tree[call[c].n] EXCEPT !.views = [tree[call[c].n].views EXCEPT ![call[c].path] = call[c].view]]]
      BY <1>0, <1>5 DEF Remember
    <2>2. CASE call[c].n = n
      BY <1>0, <1>5, <2>1, <2>2 DEF Cached, TreeMoves, SameFiles
    <2>3. CASE call[c].n # n
      BY <1>0, <2>1, <2>3 DEF TreeMoves, SameFiles
    <2> QED BY <2>2, <2>3
  <1>6. CASE tree' = tree
    BY <1>6 DEF TreeMoves, SameFiles
  <1>7. CASE Backend
    BY <1>1, <1>2, <1>4, <1>5, <1>6, <1>7
    DEF Backend, backend, Register, Build, LookUp, Compute, RemovePath, CollectTrees
  <1>8. CASE Answers
    BY <1>6, <1>8 DEF Answers, backend, ScanAnswer, ViewAnswer, RemovalAnswer
  <1>9. CASE User
    BY <1>3, <1>6, <1>9
    DEF User, backend, DeletePath, Navigate, SelectJob, Enqueue, Rescan, CancelJob, CloseJob
  <1>10. CASE UNCHANGED vars
    BY <1>6, <1>10 DEF vars, backend
  <1> QED BY <1>7, <1>8, <1>9, <1>10 DEF Next

SlotMoves(j) ==
  \/ slot'[j] = slot[j]
  \/ slot'[j] \in Scans /\ Keep(slot'[j]) /\ scan[slot'[j]].job = j
  \/ slot'[j] = 0 /\ CloseJob(j)

LEMMA SlotStep ==
  ASSUME ScansTypeOK, [Next]_vars, NEW j \in Jobs
  PROVE  SlotMoves(j)
  <1>0. slot \in [Jobs -> Scans \cup {0}]
    BY DEF ScansTypeOK, BackendOK
  <1>1. ASSUME NEW n \in Scans, Keep(n) PROVE SlotMoves(j)
    BY <1>0, <1>1 DEF Keep, SlotMoves
  <1>2. ASSUME NEW i \in Jobs, CloseJob(i) PROVE SlotMoves(j)
    <2>1. slot' = [slot EXCEPT ![i] = 0]
      BY <1>2 DEF CloseJob
    <2> QED BY <1>0, <1>2, <2>1 DEF SlotMoves
  <1>3. CASE slot' = slot
    BY <1>3 DEF SlotMoves
  <1>4. CASE Backend
    BY <1>1, <1>3, <1>4
    DEF Backend, backend, Register, Build, SaveSnapshot, ForgetPath, LookUp, Compute, Remember, RemovePath, CollectTrees
  <1>5. CASE Answers
    BY <1>3, <1>5 DEF Answers, backend, ScanAnswer, ViewAnswer, RemovalAnswer
  <1>6. CASE User
    BY <1>2, <1>3, <1>6
    DEF User, backend, DeletePath, DiffSince, Navigate, SelectJob, Enqueue, Rescan, CancelJob
  <1>7. CASE UNCHANGED vars
    BY <1>3, <1>7 DEF vars, backend
  <1> QED BY <1>4, <1>5, <1>6, <1>7 DEF Next

RemovalMoves ==
  \/ removal' = removal /\ disk' = disk
  \/ RemovePath /\ removal' = [removal EXCEPT !.st = "removed"]
  \/ CollectTrees /\ disk' = disk
  \/ disk' = disk /\ \E n \in Scans : ForgetPath(n) /\ removal' = [removal EXCEPT !.todo = @ \ {n}]
  \/ disk' = disk /\ \E x \in Items : DeletePath(x) /\ removal' = [NoRemoval EXCEPT !.st = "sent", !.item = x]
  \/ disk' = disk /\ RemovalAnswer /\ removal' = NoRemoval

LEMMA RemovalStep ==
  ASSUME [Next]_vars
  PROVE  RemovalMoves
  <1>1. CASE removal' = removal /\ disk' = disk
    BY <1>1 DEF RemovalMoves
  <1>2. CASE Backend
    BY <1>1, <1>2
    DEF Backend, backend, Register, Build, Keep, SaveSnapshot, ForgetPath, LookUp, Compute, Remember,
        RemovePath, CollectTrees, RemovalMoves
  <1>3. CASE Answers
    BY <1>1, <1>3 DEF Answers, ScanAnswer, ViewAnswer, RemovalAnswer, RemovalMoves
  <1>4. CASE User
    BY <1>1, <1>4
    DEF User, DeletePath, DiffSince, Navigate, SelectJob, Enqueue, Rescan, CancelJob, CloseJob, RemovalMoves
  <1>5. CASE UNCHANGED vars
    BY <1>1, <1>5 DEF vars
  <1> QED BY <1>2, <1>3, <1>4, <1>5 DEF Next

-----------------------------------------------------------------------------
(* Whole paths.  A scan that is cancelled has read some of the folder, but *)
(* nothing without the folders it is in, and a removal takes all below it. *)
LEMMA WholeMinus ==
  ASSUME NEW s \in WholePaths(Items), NEW x \in Items
  PROVE  s \ Sub[x] \in WholePaths(Items)
  <1> SUFFICES ASSUME NEW y \in Items \ (s \ Sub[x]) PROVE (s \ Sub[x]) \cap Sub[y] = {}
    BY DEF WholePaths
  <1>1. CASE y \notin s
    BY <1>1 DEF WholePaths
  <1>2. CASE y \in Sub[x]
    BY <1>2, OpenScansAssumption
  <1> QED BY <1>1, <1>2

LEMMA WholeWithout ==
  ASSUME NEW s \in WholePaths(Items), NEW x \in Items, x \notin s
  PROVE  s \ Sub[x] = s
  BY DEF WholePaths

LEMMA WholeIn ==
  ASSUME NEW d \in WholePaths(Items)
  PROVE  d \in WholePaths(d) /\ WholePaths(d) \subseteq WholePaths(Items)
  BY DEF WholePaths

LEMMA WholeUp ==
  ASSUME NEW s \in WholePaths(Items), NEW x \in Items
  PROVE  /\ s \cap Sub[x] # {} => x \in s
         /\ x \in s => Up[x] \in s \cup {Root}
  <1>1. s \cap Sub[x] # {} => x \in s
    BY DEF WholePaths
  <1>2. ASSUME x \in s, Up[x] # Root PROVE Up[x] \in s
    <2>1. Up[x] \in Items /\ x \in Sub[Up[x]]
      BY <1>2, OpenScansAssumption
    <2> QED BY <1>2, <2>1 DEF WholePaths
  <1> QED BY <1>1, <1>2

WholeInv ==
  /\ disk \in WholePaths(Items)
  /\ \A n \in Scans : scan[n].items \in WholePaths(Items) /\ tree[n].items \in WholePaths(Items)

LEMMA WithoutTakesAll ==
  ASSUME ScansTypeOK, WholeInv, NEW n \in Scans, NEW x \in Items
  PROVE  /\ Without(n, x).items = tree[n].items \ Sub[x]
         /\ Without(n, x).complete = tree[n].complete
         /\ Without(n, x).views \in {tree[n].views, NoViews}
         /\ x \notin tree[n].items => Without(n, x) = tree[n]
  <1>1. tree[n] \in Cached
    BY DEF ScansTypeOK, BackendOK
  <1>2. CASE x \in tree[n].items
    BY <1>1, <1>2 DEF Without, Cached
  <1>3. CASE x \notin tree[n].items
    BY <1>1, <1>3, WholeWithout DEF Without, WholeInv
  <1> QED BY <1>2, <1>3

LEMMA WholeInvariant == Spec => []WholeInv
  <1>1. Init => WholeInv
    BY DEF Init, WholeInv, WholePaths, NoScan, NoTree
  <1>2. ScansTypeOK /\ WholeInv /\ [Next]_vars => WholeInv'
    <2> SUFFICES ASSUME ScansTypeOK, WholeInv, [Next]_vars PROVE WholeInv'
      OBVIOUS
    <2>0. /\ disk \in WholePaths(Items)
          /\ \A n \in Scans : scan[n].items \in WholePaths(Items) /\ tree[n].items \in WholePaths(Items)
          /\ {} \in WholePaths(Items)
      BY DEF WholeInv, WholePaths
    <2>1. disk' \in WholePaths(Items)
      <3>1. CASE RemovePath
        BY <3>1 DEF RemovePath
      <3> QED BY <2>0, <3>1, RemovalStep DEF RemovalMoves
    <2>2. ASSUME NEW n \in Scans PROVE scan'[n].items \in WholePaths(Items)
      <3>1. ScanMoves(n) /\ scan[n] \in ScanCommand
        BY ScanStep DEF ScansTypeOK, CommandsOK
      <3>2. CASE \E read \in IF scan[n].stop THEN WholePaths(disk) ELSE {disk} :
                   scan'[n] = [scan[n] EXCEPT !.st = "built", !.items = read]
        BY <2>0, <3>1, <3>2, WholeIn DEF ScanCommand
      <3>3. CASE scan'[n].items \in {{}, scan[n].items}
        BY <2>0, <3>3
      <3>4. SentNow(n) => scan'[n].items = {}
        BY DEF SentNow, NoScan
      <3> QED BY <3>1, <3>2, <3>3, <3>4 DEF ScanMoves, ScanCommand, NoScan
    <2>3. ASSUME NEW n \in Scans PROVE tree'[n].items \in WholePaths(Items)
      <3>1. TreeMoves(n)
        BY TreeStep
      <3>2. ASSUME ForgetPath(n) PROVE Without(n, removal.item).items \in WholePaths(Items)
        <4>1. removal.item \in Items
          BY <3>2 DEF ForgetPath, ScansTypeOK, CommandsOK, Removing
        <4> QED BY <2>0, <4>1, WithoutTakesAll, WholeMinus
      <3> QED BY <2>0, <3>1, <3>2 DEF TreeMoves, SameFiles
    <2> QED BY <2>1, <2>2, <2>3 DEF WholeInv
  <1> QED BY <1>1, <1>2, ScansType, PTL DEF Spec

-----------------------------------------------------------------------------
(* What the open trees hold.  Between a removal from the disk and the end  *)
(* of forget_paths a tree still holds what is gone, but nothing else that  *)
(* is not on disk.                                                         *)
Unforgotten(n) ==
  \/ removal.st = "removed" /\ removal.item \notin disk
  \/ removal.st = "forgetting" /\ n \in removal.todo

Holds(r, left, d) == r.items \ left \subseteq d /\ (r.complete => r.items \ left = d)

TreesFit ==
  /\ removal.st = "sent" => removal.item \in disk
  /\ removal.st = "forgetting" /\ removal.todo # {} => removal.item \notin disk
  /\ \A n \in Scans : scan[n].st = "built" =>
       scan[n].items \subseteq disk /\ (~scan[n].stop => scan[n].items = disk)
  /\ \A j \in Jobs, n \in Scans : slot[j] = n =>
       Holds(tree[n], IF Unforgotten(n) THEN Sub[removal.item] ELSE {}, disk)

LEMMA RemovalFits ==
  ASSUME ScansTypeOK, TreesFit, [Next]_vars
  PROVE  /\ removal'.st = "sent" => removal'.item \in disk'
         /\ removal'.st = "forgetting" /\ removal'.todo # {} => removal'.item \notin disk'
  <1>0. /\ removal.st = "sent" => removal.item \in disk
        /\ removal.st = "forgetting" /\ removal.todo # {} => removal.item \notin disk
        /\ removal \in Removal
    BY DEF TreesFit, ScansTypeOK, CommandsOK
  <1>1. CASE removal' = removal /\ disk' = disk
    BY <1>0, <1>1
  <1>2. CASE RemovePath
    BY <1>0, <1>2 DEF RemovePath, Removal
  <1>3. CASE CollectTrees
    BY <1>0, <1>3 DEF CollectTrees, Removal
  <1>4. ASSUME NEW n \in Scans, ForgetPath(n), disk' = disk, removal' = [removal EXCEPT !.todo = @ \ {n}]
        PROVE  removal'.st = removal.st /\ removal'.item = removal.item /\ removal'.todo \subseteq removal.todo
    BY <1>0, <1>4 DEF Removal
  <1>5. ASSUME NEW x \in Items, DeletePath(x) PROVE removal'.st = "sent" /\ removal'.item \in disk
    BY <1>5 DEF DeletePath, NoRemoval
  <1>6. RemovalAnswer => removal'.st = "free"
    BY DEF RemovalAnswer, NoRemoval
  <1>7. RemovalMoves
    BY RemovalStep
  <1> QED BY <1>0, <1>1, <1>2, <1>3, <1>4, <1>5, <1>6, <1>7 DEF RemovalMoves

LEMMA BuiltFits ==
  ASSUME ScansTypeOK, TreesFit, Undisturbed, [Next]_vars, NEW n \in Scans, scan'[n].st = "built"
  PROVE  scan'[n].items \subseteq disk' /\ (scan'[n].stop \/ scan'[n].items = disk')
  <1>0. /\ scan[n].st = "built" => scan[n].items \subseteq disk /\ (scan[n].stop \/ scan[n].items = disk)
        /\ scan[n] \in ScanCommand
    BY DEF TreesFit, ScansTypeOK, CommandsOK
  <1>1. CASE Build(n) /\ \E read \in IF scan[n].stop THEN WholePaths(disk) ELSE {disk} :
                            scan'[n] = [scan[n] EXCEPT !.st = "built", !.items = read]
    BY <1>0, <1>1 DEF Build, ScanCommand, WholePaths
  <1>2. CASE scan'[n] = scan[n]
    <2>1. ~Removing
      BY <1>2 DEF Undisturbed, LiveIn
    <2>2. disk' = disk
      BY <2>1, RemovalStep DEF RemovalMoves, RemovePath, Removing
    <2> QED BY <1>0, <1>2, <2>2
  <1>3. CASE scan'[n] = [scan[n] EXCEPT !.stop = TRUE]
    <2>1. scan[n].st = "built" /\ scan'[n].items = scan[n].items /\ scan'[n].stop
      BY <1>0, <1>3 DEF ScanCommand
    <2>2. ~Removing
      BY <2>1 DEF Undisturbed, LiveIn
    <2>3. disk' = disk
      BY <2>2, RemovalStep DEF RemovalMoves, RemovePath, Removing
    <2> QED BY <1>0, <2>1, <2>3
  <1>4. ScanMoves(n) /\ (SentNow(n) => scan'[n].st = "sent")
    BY ScanStep DEF SentNow, NoScan
  <1> QED BY <1>0, <1>1, <1>2, <1>3, <1>4 DEF ScanMoves, ScanCommand, NoScan

LEMMA SlotFits ==
  ASSUME ScansTypeOK, WholeInv, TreesFit, Undisturbed, ~Partial, [Next]_vars,
         NEW j \in Jobs, NEW n \in Scans, slot'[j] = n
  PROVE  Holds(tree'[n], IF Unforgotten(n)' THEN Sub[removal'.item] ELSE {}, disk')
  <1>0. /\ tree[n] \in Cached /\ removal \in Removal /\ disk \in SUBSET Items
        /\ Removing => removal.item \in Items
    BY DEF ScansTypeOK, BackendOK, CommandsOK
  <1>1. CASE Keep(n)
    <2>1. disk' = disk /\ removal' = removal /\ ~Removing
      BY <1>1 DEF Keep, Undisturbed, LiveIn
    <2>2. ~Unforgotten(n)'
      BY <2>1 DEF Unforgotten, Removing
    <2>3. scan[n].items \subseteq disk /\ (scan[n].stop \/ scan[n].items = disk)
      BY <1>1 DEF Keep, TreesFit
    <2>4. tree'[n].items = scan[n].items /\ tree'[n].complete = ~scan[n].stop
      BY <1>1 DEF Keep, ScansTypeOK, BackendOK, NoTree
    <2> QED BY <2>1, <2>2, <2>3, <2>4 DEF Holds
  <1>2. ASSUME slot[j] = n
        PROVE  Holds(tree[n], IF Unforgotten(n) THEN Sub[removal.item] ELSE {}, disk)
    BY <1>2 DEF TreesFit
  <1>3. CASE ForgetPath(n) /\ slot[j] = n
    <2>1. /\ removal.st = "forgetting" /\ n \in removal.todo /\ removal.item \in Items
          /\ tree'[n] = Without(n, removal.item) /\ disk' = disk
          /\ removal' = [removal EXCEPT !.todo = @ \ {n}]
      BY <1>0, <1>3 DEF ForgetPath, ScansTypeOK, BackendOK, Removing
    <2>2. Unforgotten(n) /\ ~Unforgotten(n)'
      BY <1>0, <2>1 DEF Unforgotten, Removal
    <2>3. Holds(tree[n], Sub[removal.item], disk)
      BY <1>2, <1>3, <2>2
    <2>4. tree'[n].items = tree[n].items \ Sub[removal.item] /\ tree'[n].complete = tree[n].complete
      BY <2>1, WithoutTakesAll
    <2> QED BY <2>1, <2>2, <2>3, <2>4 DEF Holds
  <1>4. CASE SameFiles(n) /\ slot[j] = n /\ ~ForgetPath(n)
    <2>0. Holds(tree[n], IF Unforgotten(n) THEN Sub[removal.item] ELSE {}, disk)
      BY <1>2, <1>4
    <2>1. \A left, d : Holds(tree[n], left, d) => Holds(tree'[n], left, d)
      BY <1>4 DEF Holds, SameFiles
    <2>2. CASE removal' = removal /\ disk' = disk
      <3>1. Unforgotten(n)' <=> Unforgotten(n)
        BY <2>2 DEF Unforgotten
      <3> QED BY <2>0, <2>1, <2>2, <3>1
    <2>3. CASE RemovePath /\ removal' = [removal EXCEPT !.st = "removed"]
      <3>1. /\ removal.st = "sent" /\ removal.item \in disk /\ removal.item \in Items
            /\ removal'.item = removal.item /\ removal'.st = "removed"
        BY <1>0, <2>3 DEF RemovePath, TreesFit, Removing, Removal
      <3>2. Holds(tree[n], {}, disk)
        BY <2>0, <3>1 DEF Unforgotten
      <3>3. disk' = disk \ Sub[removal.item] \/ disk' = disk
        <4>1. PICK left : /\ left \in {{}, disk \cap Sub[removal.item]}
                          /\ disk' = disk \ ((disk \cap Sub[removal.item]) \ left)
          BY <2>3 DEF RemovePath
        <4> QED BY <4>1
      <3>4. removal.item \in Sub[removal.item]
        BY <3>1, OpenScansAssumption
      <3>5. Unforgotten(n)' <=> disk' = disk \ Sub[removal.item]
        BY <3>1, <3>3, <3>4 DEF Unforgotten
      <3>6. Holds(tree'[n], {}, disk)
        BY <2>1, <3>2
      <3>7. CASE disk' = disk \ Sub[removal.item]
        <4>1. Holds(tree'[n], Sub[removal.item], disk')
          BY <3>6, <3>7 DEF Holds
        <4> QED BY <3>1, <3>5, <3>7, <4>1
      <3>8. CASE disk' = disk /\ disk' # disk \ Sub[removal.item]
        BY <3>5, <3>6, <3>8
      <3> QED BY <3>3, <3>7, <3>8
    <2>4. CASE CollectTrees /\ disk' = disk
      <3>1. /\ removal.st = "removed" /\ removal'.st = "forgetting" /\ removal'.item = removal.item
            /\ removal'.todo = IF removal.item \in disk THEN {} ELSE {slot[i] : i \in Jobs} \ {0}
        BY <1>0, <2>4 DEF CollectTrees, Removal
      <3>2. n \in {slot[i] : i \in Jobs} \ {0}
        BY <1>4 DEF Scans
      <3>3. Unforgotten(n)' <=> Unforgotten(n)
        BY <2>4, <3>1, <3>2 DEF Unforgotten
      <3> QED BY <2>0, <2>1, <2>4, <3>1, <3>3
    <2>5. ASSUME disk' = disk, NEW m \in Scans, ForgetPath(m), removal' = [removal EXCEPT !.todo = @ \ {m}]
          PROVE  Holds(tree'[n], IF Unforgotten(n)' THEN Sub[removal'.item] ELSE {}, disk')
      <3>1. removal'.st = removal.st /\ removal'.item = removal.item /\ (n \in removal'.todo <=> n \in removal.todo)
        BY <1>0, <1>4, <2>5 DEF Removal
      <3>2. Unforgotten(n)' <=> Unforgotten(n)
        BY <2>5, <3>1 DEF Unforgotten
      <3> QED BY <2>0, <2>1, <2>5, <3>1, <3>2
    <2>6. ASSUME disk' = disk, NEW x \in Items, DeletePath(x), removal' = [NoRemoval EXCEPT !.st = "sent", !.item = x]
          PROVE  Holds(tree'[n], IF Unforgotten(n)' THEN Sub[removal'.item] ELSE {}, disk')
      <3>1. ~Unforgotten(n) /\ ~Unforgotten(n)'
        BY <2>6 DEF DeletePath, Removing, NoRemoval, Unforgotten
      <3> QED BY <2>0, <2>1, <2>6, <3>1
    <2>7. CASE disk' = disk /\ RemovalAnswer /\ removal' = NoRemoval
      <3>1. ~Unforgotten(n) /\ ~Unforgotten(n)'
        BY <2>7 DEF RemovalAnswer, NoRemoval, Unforgotten
      <3> QED BY <2>0, <2>1, <2>7, <3>1
    <2>8. RemovalMoves
      BY RemovalStep
    <2> QED BY <2>2, <2>3, <2>4, <2>5, <2>6, <2>7, <2>8 DEF RemovalMoves
  <1>5. SlotMoves(j) /\ TreeMoves(n) /\ n # 0
    BY SlotStep, TreeStep DEF Scans
  <1> QED BY <1>1, <1>3, <1>4, <1>5 DEF SlotMoves, TreeMoves

(* Unless it can leave a part of a folder, what a removal takes from the   *)
(* disk is gone from every open tree when it answers, and a complete tree  *)
(* is what is on disk: for a user who waits no scan that overlaps a        *)
(* removal brings back what is gone, and no tree is passed over.           *)
THEOREM RemovalsReachAllScans ==
  ASSUME ~Partial
  PROVE  Spec => []GoneFromOpenScans
  <1> DEFINE Inv == Waits => TreesFit
  <1>1. Init => Inv
    <2> SUFFICES ASSUME Init PROVE TreesFit
      OBVIOUS
    <2>1. \A j \in Jobs : slot[j] \notin Scans
      BY DEF Init, Scans
    <2> QED BY <2>1 DEF Init, TreesFit, NoRemoval, NoScan
  <1>2. ScansTypeOK /\ WholeInv /\ JobsInv /\ Inv /\ [Next]_vars => Inv'
    <2> SUFFICES ASSUME ScansTypeOK, WholeInv, Undisturbed, TreesFit, [Next]_vars PROVE TreesFit'
      BY DEF JobsInv
    <2>1. /\ removal'.st = "sent" => removal'.item \in disk'
          /\ removal'.st = "forgetting" /\ removal'.todo # {} => removal'.item \notin disk'
      BY RemovalFits
    <2>2. \A n \in Scans : scan'[n].st = "built" =>
            scan'[n].items \subseteq disk' /\ (~scan'[n].stop => scan'[n].items = disk')
      BY BuiltFits
    <2>3. \A j \in Jobs, n \in Scans : slot'[j] = n =>
            Holds(tree'[n], IF Unforgotten(n)' THEN Sub[removal'.item] ELSE {}, disk')
      BY SlotFits
    <2> QED BY <2>1, <2>2, <2>3 DEF TreesFit
  <1>3. ScansTypeOK /\ Inv => GoneFromOpenScans
    <2> SUFFICES ASSUME ScansTypeOK, TreesFit, ~Removing, NEW j \in Jobs, slot[j] # 0
                 PROVE  /\ tree[slot[j]].items \subseteq disk
                        /\ tree[slot[j]].complete => tree[slot[j]].items = disk
      BY DEF GoneFromOpenScans
    <2>1. slot[j] \in Scans /\ ~Unforgotten(slot[j])
      BY DEF ScansTypeOK, BackendOK, Unforgotten, Removing
    <2>2. Holds(tree[slot[j]], {}, disk)
      BY <2>1 DEF TreesFit
    <2> QED BY <2>2 DEF Holds
  <1> QED BY <1>1, <1>2, <1>3, ScansType, WholeInvariant, JobsInvariant, PTL DEF Spec

-----------------------------------------------------------------------------
(* What a step does to one tab and to one `view` command.                  *)
Alike(j) ==
  tab'[j].view = tab[j].view /\ tab'[j].path = tab[j].path /\ tab'[j].cache = tab[j].cache

Shown(j, v, p) ==
  /\ v # None /\ tab'[j].view = v /\ tab'[j].path = p
  /\ tab'[j].st = tab[j].st /\ tab'[j].stale = tab[j].stale

Restarted(j, v) ==
  /\ tab'[j].st = "done" /\ tab'[j].view = v /\ tab'[j].path = Root
  /\ tab'[j].cache = [NoViews EXCEPT ![Root] = v]

LeftBehind(j, x) ==
  /\ tab'[j].st = tab[j].st /\ tab'[j].view = tab[j].view /\ tab'[j].cache = NoViews
  /\ tab'[j].path = IF tab[j].path \in Sub[x] THEN Up[x] ELSE tab[j].path
  /\ tab'[j].stale = (tab[j].stale \/ j # active)

TabMoves(j) ==
  \/ Alike(j) /\ tab'[j].st = tab[j].st /\ tab'[j].stale = tab[j].stale
  \/ Alike(j) /\ SelectJob(j) /\ tab[j].stale /\ Ask(j, tab[j].path) /\ tab'[j].st = tab[j].st
  \/ Alike(j) /\ Rescan(j) /\ tab'[j].st = "queued" /\ tab'[j].stale = tab[j].stale
  \/ \E p \in Folders : /\ Navigate(j, p) /\ tab'[j].cache = tab[j].cache
                         /\ Shown(j, tab[j].cache[p], p)
  \/ \E c \in Calls : /\ ViewAnswer(c) /\ call[c].job = j /\ Shown(j, call[c].view, call[c].path)
                      /\ tab'[j].cache = [tab[j].cache EXCEPT ![call[c].path] = call[c].view]
  \/ \E n \in Scans : ScanAnswer(n) /\ scan[n].job = j /\ Restarted(j, scan[n].items)
  \/ RemovalAnswer /\ LeftBehind(j, removal.item)
  \/ Enqueue(j) /\ tab'[j].st = "queued"
  \/ tab'[j].st = "running" /\ (tab[j].st = "queued" \/ Enqueue(j) \/ Rescan(j))
  \/ tab'[j].st = "closed" /\ CloseJob(j)

LEMMA PumpTabs ==
  ASSUME NEW t \in [Jobs -> Tab], NEW s \in [Scans -> ScanCommand], Pump(t, s), NEW j \in Jobs
  PROVE  tab'[j] = t[j] \/ (t[j].st = "queued" /\ tab'[j].st = "running")
  <1>1. CASE NoneStarts(t, s)
    BY <1>1 DEF NoneStarts
  <1>2. ASSUME NEW first \in Queue(t), NEW m \in Scans, Starts(t, s, first, m)
        PROVE  tab'[j] = t[j] \/ (t[j].st = "queued" /\ tab'[j].st = "running")
    BY <1>2 DEF Starts, Queue
  <1> QED BY <1>1, <1>2, PumpDoes

(* An answer that is a view is shown. *)
LEMMA AnswerShows ==
  ASSUME ScansTypeOK, NEW c \in Calls, ViewAnswer(c), call[c].view # None, Listed(call[c].job)
  PROVE  /\ Shown(call[c].job, call[c].view, call[c].path)
         /\ tab'[call[c].job].cache = [tab[call[c].job].cache EXCEPT ![call[c].path] = call[c].view]
  <1> DEFINE j == call[c].job
             p == call[c].path
             v == call[c].view
  <1>1. j \in Jobs /\ p \in Folders /\ tab \in [Jobs -> Tab]
    BY DEF ViewAnswer, ScansTypeOK, CommandsOK, ViewCommand, WindowOK
  <1>2. tab' = [tab EXCEPT ![j] = [Show(j, v, p) EXCEPT !.cache[p] = v]]
    BY DEF ViewAnswer
  <1>3. tab'[j] = [Show(j, v, p) EXCEPT !.cache[p] = v]
    BY <1>1, <1>2
  <1>4. Show(j, v, p) = [tab[j] EXCEPT !.view = v, !.path = p, !.loading = FALSE] /\ tab[j] \in Tab
    BY <1>1 DEF Show
  <1> HIDE DEF j, p, v
  <1>5. /\ tab'[j].view = v /\ tab'[j].path = p /\ tab'[j].st = tab[j].st /\ tab'[j].stale = tab[j].stale
        /\ tab'[j].cache = [tab[j].cache EXCEPT ![p] = v]
    BY <1>3, <1>4 DEF Tab
  <1> QED BY <1>5 DEF Shown, j, p, v

LEMMA TabStep ==
  ASSUME ScansTypeOK, [Next]_vars, NEW j \in Jobs
  PROVE  TabMoves(j)
  <1>0. tab \in [Jobs -> Tab] /\ tab[j] \in Tab /\ scan \in [Scans -> ScanCommand]
    BY DEF ScansTypeOK, WindowOK, CommandsOK
  <1>1. CASE tab'[j] = tab[j]
    BY <1>1 DEF TabMoves, Alike
  <1>2. ASSUME NEW i \in Jobs, NEW p \in Folders, Navigate(i, p) PROVE TabMoves(j)
    <2>1. CASE i # j
      <3>1. tab'[j] = tab[j]
        BY <1>0, <1>2, <2>1 DEF Navigate
      <3> QED BY <1>1, <3>1
    <2>2. CASE i = j /\ tab[j].cache[p] # None
      <3>1. tab'[j] = Show(j, tab[j].cache[p], p)
        BY <1>0, <1>2, <2>2 DEF Navigate
      <3>2. Shown(j, tab[j].cache[p], p) /\ tab'[j].cache = tab[j].cache
        BY <1>0, <2>2, <3>1 DEF Show, Shown, Tab
      <3> QED BY <1>2, <2>2, <3>2 DEF TabMoves
    <2>3. CASE i = j /\ tab[j].cache[p] = None
      <3>1. tab'[j] = [tab[j] EXCEPT !.loading = TRUE]
        BY <1>0, <1>2, <2>3 DEF Navigate
      <3>2. Alike(j) /\ tab'[j].st = tab[j].st /\ tab'[j].stale = tab[j].stale
        BY <1>0, <3>1 DEF Alike, Tab
      <3> QED BY <3>2 DEF TabMoves
    <2> QED BY <2>1, <2>2, <2>3
  <1>3. ASSUME NEW c \in Calls, ViewAnswer(c) PROVE TabMoves(j)
    <2>1. CASE ~Listed(call[c].job) \/ call[c].job # j
      <3>1. tab'[j] = tab[j]
        BY <1>0, <1>3, <2>1 DEF ViewAnswer
      <3> QED BY <1>1, <3>1
    <2>2. CASE Listed(call[c].job) /\ call[c].job = j /\ call[c].view = None
      <3>1. tab'[j] = [tab[j] EXCEPT !.loading = FALSE]
        BY <1>0, <1>3, <2>2 DEF ViewAnswer
      <3>2. Alike(j) /\ tab'[j].st = tab[j].st /\ tab'[j].stale = tab[j].stale
        BY <1>0, <3>1 DEF Alike, Tab
      <3> QED BY <3>2 DEF TabMoves
    <2>3. CASE Listed(call[c].job) /\ call[c].job = j /\ call[c].view # None
      BY <1>3, <2>3, AnswerShows DEF TabMoves
    <2> QED BY <2>1, <2>2, <2>3
  <1>4. ASSUME NEW i \in Jobs, SelectJob(i) PROVE TabMoves(j)
    <2>1. CASE tab' = tab \/ i # j
      <3>1. tab'[j] = tab[j]
        BY <1>0, <1>4, <2>1 DEF SelectJob
      <3> QED BY <1>1, <3>1
    <2>2. CASE tab' # tab /\ i = j
      <3>1. /\ tab' = [tab EXCEPT ![j].stale = FALSE, ![j].loading = TRUE]
            /\ tab[j].stale /\ Ask(j, tab[j].path)
        BY <1>4, <2>2 DEF SelectJob
      <3>2. Alike(j) /\ tab'[j].st = tab[j].st
        BY <1>0, <3>1 DEF Alike, Tab
      <3> QED BY <1>4, <2>2, <3>1, <3>2 DEF TabMoves
    <2> QED BY <2>1, <2>2
  <1>5. ASSUME RemovalAnswer PROVE TabMoves(j)
    <2>1. tab'[j] = tab[j] \/ tab'[j] = Outdated(j, removal.item)
      BY <1>5 DEF RemovalAnswer
    <2>2. CASE tab'[j] = Outdated(j, removal.item)
      <3>1. LeftBehind(j, removal.item)
        BY <1>0, <2>2 DEF Outdated, LeftBehind, Tab
      <3> QED BY <1>5, <3>1 DEF TabMoves
    <2> QED BY <1>1, <2>1, <2>2
  <1>6. ASSUME NEW i \in Jobs, Enqueue(i) PROVE TabMoves(j)
    <2>1. PICK t : Pump(t, scan) /\ Retabbed(t, i, NewTab)
      BY <1>6, EnqueuePumps
    <2>2. tab'[j] = t[j] \/ (t[j].st = "queued" /\ tab'[j].st = "running")
      BY <1>0, <2>1, PumpTabs DEF Retabbed
    <2>3. CASE i = j
      <3>1. t[j].st = "queued"
        BY <2>1, <2>3 DEF Retabbed, NewTab
      <3>2. tab'[j].st \in {"queued", "running"}
        BY <2>2, <3>1
      <3> QED BY <1>6, <2>3, <3>2 DEF TabMoves
    <2>4. CASE i # j
      <3>1. t[j] = tab[j]
        BY <2>1, <2>4 DEF Retabbed
      <3> QED BY <1>1, <2>2, <3>1 DEF TabMoves
    <2> QED BY <2>3, <2>4
  <1>7. ASSUME NEW i \in Jobs, Rescan(i) PROVE TabMoves(j)
    <2>1. PICK t : Pump(t, scan) /\ Retabbed(t, i, Requeued(i))
      BY <1>7, RescanPumps
    <2>2. tab'[j] = t[j] \/ (t[j].st = "queued" /\ tab'[j].st = "running")
      BY <1>0, <2>1, PumpTabs DEF Retabbed
    <2>3. CASE i = j /\ tab'[j] = t[j]
      <3>1. tab'[j] = Requeued(j)
        BY <2>1, <2>3 DEF Retabbed
      <3>2. Alike(j) /\ tab'[j].st = "queued" /\ tab'[j].stale = tab[j].stale
        BY <1>0, <3>1 DEF Requeued, Alike, Tab
      <3> QED BY <1>7, <2>3, <3>2 DEF TabMoves
    <2>4. CASE i = j /\ tab'[j].st = "running"
      BY <1>7, <2>4 DEF TabMoves
    <2>5. CASE i # j
      <3>1. t[j] = tab[j]
        BY <2>1, <2>5 DEF Retabbed
      <3> QED BY <1>1, <2>2, <3>1 DEF TabMoves
    <2> QED BY <2>2, <2>3, <2>4, <2>5
  <1>8. ASSUME NEW i \in Jobs, CloseJob(i) PROVE TabMoves(j)
    <2>1. PICK t : Pump(t, scan) /\ Retabbed(t, i, Closed)
      BY <1>8, ClosePumps
    <2>2. tab'[j] = t[j] \/ (t[j].st = "queued" /\ tab'[j].st = "running")
      BY <1>0, <2>1, PumpTabs DEF Retabbed
    <2>3. CASE i = j
      <3>1. t[j].st = "closed"
        BY <2>1, <2>3 DEF Retabbed, Closed, NewTab
      <3>2. tab'[j].st = "closed"
        BY <2>2, <3>1
      <3> QED BY <1>8, <2>3, <3>2 DEF TabMoves
    <2>4. CASE i # j
      <3>1. t[j] = tab[j]
        BY <2>1, <2>4 DEF Retabbed
      <3> QED BY <1>1, <2>2, <3>1 DEF TabMoves
    <2> QED BY <2>3, <2>4
  <1>9. ASSUME NEW n \in Scans, ScanAnswer(n) PROVE TabMoves(j)
    <2> DEFINE i == scan[n].job
    <2>1. CASE Listed(i)
      <3>1. PICK t, s : /\ Pump(t, s) /\ Over(s, n)
                        /\ Retabbed(t, i, Scanned(i, scan[n].items))
        BY <1>9, <2>1, AnswerPumps
      <3>2. tab'[j] = t[j] \/ (t[j].st = "queued" /\ tab'[j].st = "running")
        BY <3>1, PumpTabs DEF Retabbed, Over
      <3>3. CASE i = j
        <4>1. t[j] = Scanned(j, scan[n].items)
          BY <3>1, <3>3 DEF Retabbed
        <4>2. /\ t[j].st = "done" /\ t[j].view = scan[n].items /\ t[j].path = Root
              /\ t[j].cache = [NoViews EXCEPT ![Root] = scan[n].items]
          BY <1>0, <4>1 DEF Scanned, Tab
        <4>3. Restarted(j, scan[n].items)
          BY <3>2, <4>2 DEF Restarted
        <4> QED BY <1>9, <3>3, <4>3 DEF TabMoves
      <3>4. CASE i # j
        <4>1. t[j] = tab[j]
          BY <3>1, <3>4 DEF Retabbed
        <4> QED BY <1>1, <3>2, <4>1 DEF TabMoves
      <3> QED BY <3>3, <3>4
    <2>2. CASE ~Listed(i)
      <3> DEFINE s == [scan EXCEPT ![n] = [NoScan EXCEPT !.st = "over"]]
      <3>1. Pump(tab, s)
        BY <1>9, <2>2 DEF ScanAnswer
      <3>2. s \in [Scans -> ScanCommand]
        BY <1>0 DEF NoScan, ScanCommand
      <3> HIDE DEF s
      <3>3. tab'[j] = tab[j] \/ (tab[j].st = "queued" /\ tab'[j].st = "running")
        BY <1>0, <3>1, <3>2, PumpTabs
      <3> QED BY <1>1, <3>3 DEF TabMoves
    <2> QED BY <2>1, <2>2
  <1>10. CASE tab' = tab
    BY <1>1, <1>10
  <1>11. CASE Backend
    BY <1>10, <1>11
    DEF Backend, Register, Build, Keep, SaveSnapshot, ForgetPath, LookUp, Compute, Remember, RemovePath, CollectTrees
  <1>12. CASE Answers
    BY <1>3, <1>5, <1>9, <1>12 DEF Answers
  <1>13. CASE User
    BY <1>2, <1>4, <1>6, <1>7, <1>8, <1>10, <1>13 DEF User, DiffSince, DeletePath, CancelJob
  <1>14. CASE UNCHANGED vars
    BY <1>10, <1>14 DEF vars
  <1> QED BY <1>11, <1>12, <1>13, <1>14 DEF Next

Asked(c, j, p) ==
  call[c].st = "free" /\ call'[c] = [NoCall EXCEPT !.st = "sent", !.job = j, !.path = p]

(* The steps that ask for a folder of a job. *)
Asker(j) ==
  \/ \E p \in Folders : Navigate(j, p)
  \/ SelectJob(j) /\ tab[j].stale
  \/ \E n \in Scans : ScanAnswer(n) /\ scan[n].job = j /\ Listed(j)
  \/ RemovalAnswer /\ j = active /\ Listed(j) /\ tab[j].view # None

CallMoves(c) ==
  \/ call'[c] = call[c]
  \/ LookUp(c) \/ Compute(c) \/ ViewAnswer(c)
  \/ Remember(c) /\ call'[c] = [call[c] EXCEPT !.st = "answer"]
  \/ \E j \in Jobs, p \in Folders : Asked(c, j, p) /\ Asker(j)

LEMMA AskAsks ==
  ASSUME CommandsOK, NEW j \in Jobs, NEW p \in Folders, Ask(j, p), Asker(j), NEW c \in Calls
  PROVE  CallMoves(c)
  <1>1. PICK d \in Calls : call[d].st = "free" /\
          call' = [call EXCEPT ![d] = [NoCall EXCEPT !.st = "sent", !.job = j, !.path = p]]
    BY DEF Ask, Lowest
  <1>2. CASE c = d
    BY <1>1, <1>2 DEF Asked, CallMoves, CommandsOK
  <1>3. CASE c # d
    BY <1>1, <1>3 DEF CallMoves, CommandsOK
  <1> QED BY <1>2, <1>3

(* Ask sends a command, if it is possible at all.                          *)
LEMMA AskSends ==
  ASSUME CommandsOK, NEW j \in Jobs, NEW p \in Folders, Ask(j, p)
  PROVE  \E c \in Calls : Asked(c, j, p)
  BY DEF Ask, Lowest, Asked, CommandsOK

LEMMA CallStep ==
  ASSUME ScansTypeOK, [Next]_vars, NEW c \in Calls
  PROVE  CallMoves(c)
  <1>0. CommandsOK /\ call \in [Calls -> ViewCommand] /\ tab \in [Jobs -> Tab]
    BY DEF ScansTypeOK, CommandsOK, WindowOK
  <1>1. ASSUME NEW d \in Calls, LookUp(d) \/ Compute(d) \/ ViewAnswer(d) \/ Remember(d) PROVE CallMoves(c)
    <2>1. CASE c # d
      BY <1>0, <1>1, <2>1 DEF LookUp, Compute, ViewAnswer, Remember, CallMoves
    <2>2. CASE c = d
      BY <1>0, <1>1, <2>2 DEF Remember, CallMoves
    <2> QED BY <2>1, <2>2
  <1>2. CASE call' = call
    BY <1>2 DEF CallMoves
  <1>3. ASSUME NEW j \in Jobs, NEW p \in Folders, Navigate(j, p) PROVE CallMoves(c)
    BY <1>0, <1>2, <1>3, AskAsks DEF Navigate, Asker
  <1>4. ASSUME NEW j \in Jobs, SelectJob(j) PROVE CallMoves(c)
    <2>1. tab[j].path \in Folders
      BY <1>0 DEF Tab
    <2> QED BY <1>0, <1>2, <1>4, <2>1, AskAsks DEF SelectJob, Asker
  <1>5. ASSUME NEW n \in Scans, ScanAnswer(n) PROVE CallMoves(c)
    <2>1. scan[n].job \in Jobs /\ tab[scan[n].job].back \in Folders \cup {None}
      BY <1>0, <1>5 DEF ScanAnswer, CommandsOK, UnderWay, Tab
    <2>2. CASE Listed(scan[n].job) /\ Returns(scan[n].job)
      <3>1. Ask(scan[n].job, tab[scan[n].job].back) /\ tab[scan[n].job].back \in Folders
        BY <1>5, <2>1, <2>2 DEF ScanAnswer, Returns
      <3>2. Asker(scan[n].job)
        BY <1>5, <2>2 DEF Asker
      <3> QED BY <1>0, <2>1, <3>1, <3>2, AskAsks
    <2>3. CASE ~(Listed(scan[n].job) /\ Returns(scan[n].job))
      BY <1>2, <1>5, <2>3 DEF ScanAnswer
    <2> QED BY <2>2, <2>3
  <1>6. ASSUME RemovalAnswer PROVE CallMoves(c)
    <2>1. CASE active \in Jobs /\ Listed(active) /\ tab[active].view # None
      <3>1. Ask(active, tab'[active].path) /\ Asker(active)
        BY <1>6, <2>1 DEF RemovalAnswer, Asker
      <3>2. tab'[active].path \in Folders
        BY <2>1, WindowType, <1>6 DEF Answers, ScansTypeOK, WindowOK, Tab
      <3> QED BY <1>0, <2>1, <3>1, <3>2, AskAsks
    <2>2. CASE ~(active \in Jobs /\ Listed(active) /\ tab[active].view # None)
      BY <1>2, <1>6, <2>2 DEF RemovalAnswer
    <2> QED BY <2>1, <2>2
  <1>7. CASE Backend
    BY <1>1, <1>2, <1>7
    DEF Backend, Register, Build, Keep, SaveSnapshot, ForgetPath, RemovePath, CollectTrees
  <1>8. CASE Answers
    BY <1>1, <1>5, <1>6, <1>8 DEF Answers
  <1>9. CASE User
    BY <1>2, <1>3, <1>4, <1>9 DEF User, DiffSince, DeletePath, CancelJob, Enqueue, Rescan, CloseJob
  <1>10. CASE UNCHANGED vars
    BY <1>2, <1>10 DEF vars
  <1> QED BY <1>7, <1>8, <1>9, <1>10 DEF Next

-----------------------------------------------------------------------------
(* The views kept anywhere.  A view is computed, remembered and answered   *)
(* between deletions, and each is still that of the tree when it gets      *)
(* there; what a deletion makes out of date it clears.                     *)
Kept(s) == s.st \in {"answer", "over"}

ViewIn(t, p) == IF p = Root \/ p \in t.items THEN t.items \cap Sub[p] ELSE None

ViewsFit == \A n \in Scans, p \in Folders : tree[n].views[p] \in {None, ViewIn(tree[n], p)}

SlotsFit ==
  /\ \A j \in Jobs : /\ tab[j].st = "done" => slot[j] # 0
                     /\ tab[j].st = "unopened" => slot[j] = 0
  /\ \A j \in Jobs, n \in Scans : slot[j] = n => Kept(scan[n])
  /\ \A n \in Scans : scan[n].st = "answer" => slot[scan[n].job] = n /\ tree[n].items = scan[n].items

(* A command under way is of a job whose scan is over, and what it has is  *)
(* of the tree the job still has.                                          *)
CallFits(c) ==
  call[c].st # "free" =>
    /\ ~Removing
    /\ tab[call[c].job].st \in {"done", "closed"}
    /\ call[c].st \in {"missed", "computed"} =>
         /\ Kept(scan[call[c].n])
         /\ tab[call[c].job].st = "done" => slot[call[c].job] = call[c].n
    /\ call[c].st = "computed" => call[c].view # None /\ call[c].view = ViewIn(tree[call[c].n], call[c].path)
    /\ call[c].st = "answer" /\ tab[call[c].job].st = "done" =>
         call[c].view \in {None, ViewIn(tree[slot[call[c].job]], call[c].path)}

(* Command c will bring the folder its job shows. *)
Refreshes(c, j) ==
  /\ call[c].st # "free" /\ call[c].job = j /\ call[c].path = tab[j].path
  /\ call[c].st = "answer" => call[c].view # None

(* The folder a job shows is in its tree; when a removal answers, a folder *)
(* in what was to be removed is left for the one above.                    *)
PathFits(j, n) ==
  LET p == IF Removing /\ tab[j].path \in Sub[removal.item] THEN Up[removal.item] ELSE tab[j].path
  IN p \in tree[n].items \cup {Root}

ShowsTree(j, n) ==
  /\ \A p \in Folders : tab[j].cache[p] \in {None, ViewIn(tree[n], p)}
  /\ \/ tab[j].stale
     \/ tab[j].view = ViewIn(tree[n], tab[j].path)
     \/ \E c \in Calls : Refreshes(c, j)

TabFits(j, n) ==
  slot[j] = n /\ tab[j].st \in {"done", "queued"} =>
    /\ tab[j].view # None
    /\ PathFits(j, n)
    /\ ~Removing => ShowsTree(j, n)

ViewsInv ==
  /\ ViewsFit
  /\ SlotsFit
  /\ \A c \in Calls : CallFits(c)
  /\ \A j \in Jobs, n \in Scans : TabFits(j, n)

(* What is known of the state besides: types, whole trees, and a user who  *)
(* waits for scans and removals.                                           *)
Orderly ==
  /\ ScansTypeOK /\ WholeInv
  /\ OneEach(tab, scan) /\ QueueWaits(tab) /\ Pending(tab, scan) /\ Undisturbed

LEMMA ScanIsJobs ==
  ASSUME Orderly, NEW n \in Scans, scan[n].st \in {"sent", "building", "built", "answer"}
  PROVE  /\ scan[n].job \in Jobs /\ tab[scan[n].job].st = "running" /\ ~Removing
         /\ \A m \in Scans : scan[m].st \in {"sent", "building", "built", "answer"}
                              /\ scan[m].job = scan[n].job => m = n
  <1>1. n \in LiveIn(scan)
    BY DEF LiveIn
  <1>2. scan[n].job \in Jobs
    BY DEF Orderly, ScansTypeOK, CommandsOK, UnderWay
  <1> QED BY <1>1, <1>2 DEF Orderly, OneEach, LiveIn, Undisturbed

(* No job is in the queue while a removal goes on. *)
LEMMA NoneInQueue ==
  ASSUME Orderly, Removing, NEW j \in Jobs
  PROVE  tab[j].st \notin {"queued", "running"}
  <1>1. LiveIn(scan) = {} /\ RunningIn(tab) = {}
    BY DEF Orderly, Undisturbed, Pending
  <1>2. Queue(tab) = {}
    BY <1>1, FS_EmptySet, OpenScansAssumption DEF Orderly, QueueWaits
  <1> QED BY <1>1, <1>2 DEF RunningIn, Queue

LEMMA KeptStays ==
  ASSUME ScansTypeOK, [Next]_vars, NEW n \in Scans, Kept(scan[n])
  PROVE  Kept(scan'[n]) /\ ~Keep(n)
  <1>1. ScanMoves(n) /\ scan[n] \in ScanCommand
    BY ScanStep DEF ScansTypeOK, CommandsOK
  <1> QED BY <1>1 DEF ScanMoves, Kept, Register, Build, Keep, ScanCommand, NoScan

LEMMA TreeStays ==
  ASSUME ScansTypeOK, [Next]_vars, NEW n \in Scans, Kept(scan[n]), ~Removing
  PROVE  SameFiles(n)
  <1>1. TreeMoves(n) /\ ~Keep(n)
    BY TreeStep, KeptStays
  <1>2. ~ForgetPath(n)
    BY DEF ForgetPath, Removing
  <1> QED BY <1>1, <1>2 DEF TreeMoves

LEMMA SameView ==
  ASSUME NEW n \in Scans, SameFiles(n)
  PROVE  \A p : ViewIn(tree'[n], p) = ViewIn(tree[n], p)
  BY DEF SameFiles, ViewIn

LEMMA ViewIs ==
  ASSUME ScansTypeOK, NEW n \in Scans, NEW p \in Folders
  PROVE  /\ ViewIn(tree[n], p) # None <=> p \in tree[n].items \cup {Root}
         /\ ViewIn(tree[n], Root) = tree[n].items
  <1>1. tree[n].items \in SUBSET Items
    BY DEF ScansTypeOK, BackendOK, Cached
  <1>2. tree[n].items \cap Sub[p] \in SUBSET Items
    BY <1>1
  <1>3. tree[n].items \cap Sub[Root] = tree[n].items
    BY <1>1, OpenScansAssumption
  <1> QED BY <1>2, <1>3, OpenScansAssumption DEF ViewIn

(* The tree of a job stays while the window shows it as done.              *)
LEMMA SlotStays ==
  ASSUME Orderly, [Next]_vars, NEW j \in Jobs, tab'[j].st \in {"done", "queued"}
  PROVE  slot'[j] = slot[j]
  <1>1. SlotMoves(j) /\ tab \in [Jobs -> Tab]
    BY SlotStep DEF Orderly, ScansTypeOK, WindowOK
  <1>2. ASSUME NEW n \in Scans, Keep(n), scan[n].job = j PROVE FALSE
    <2>1. tab[j].st = "running" /\ tab' = tab
      BY <1>2, ScanIsJobs DEF Keep
    <2> QED BY <2>1
  <1>3. ASSUME CloseJob(j) PROVE FALSE
    <2>1. PICK t : Pump(t, scan) /\ Retabbed(t, j, Closed)
      BY <1>3, ClosePumps DEF Orderly
    <2>2. t[j].st = "closed" /\ tab'[j].st = "closed"
      <3>1. t[j].st = "closed"
        BY <2>1 DEF Retabbed, Closed, NewTab
      <3> QED BY <2>1, <3>1, PumpTabs DEF Retabbed, Orderly, ScansTypeOK, CommandsOK
    <2> QED BY <2>2
  <1> QED BY <1>1, <1>2, <1>3 DEF SlotMoves

(* A job is done because it was, or because its scan has answered; one     *)
(* that is done or closed stays so unless it is scanned again.             *)
LEMMA DoneMoves ==
  ASSUME Orderly, [Next]_vars, NEW j \in Jobs
  PROVE  /\ tab'[j].st = "done" => \/ tab[j].st = "done"
                                   \/ \E n \in Scans : ScanAnswer(n) /\ scan[n].job = j
         /\ tab[j].st \in {"done", "closed"} => tab'[j].st \in {"done", "closed"} \/ Rescan(j)
         /\ tab'[j].st = "unopened" => tab[j].st = "unopened"
  <1>1. TabMoves(j)
    BY TabStep DEF Orderly
  <1> QED BY <1>1 DEF TabMoves, Shown, Restarted, LeftBehind, Enqueue

LEMMA SlotsStep ==
  ASSUME Orderly, Waits, ViewsInv, [Next]_vars
  PROVE  SlotsFit'
  <1>0. /\ \A j \in Jobs : /\ tab[j].st = "done" => slot[j] # 0
                           /\ tab[j].st = "unopened" => slot[j] = 0
        /\ \A j \in Jobs, n \in Scans : slot[j] = n => Kept(scan[n])
        /\ \A n \in Scans : scan[n].st = "answer" => slot[scan[n].job] = n /\ tree[n].items = scan[n].items
        /\ ScansTypeOK /\ scan \in [Scans -> ScanCommand]
    BY DEF ViewsInv, SlotsFit, Orderly, ScansTypeOK, CommandsOK
  <1>1. ASSUME NEW j \in Jobs, tab'[j].st = "done" PROVE slot'[j] # 0
    <2>1. slot'[j] = slot[j]
      BY <1>1, SlotStays
    <2>2. CASE tab[j].st = "done"
      BY <1>0, <2>1, <2>2
    <2>3. ASSUME NEW n \in Scans, ScanAnswer(n), scan[n].job = j PROVE slot'[j] # 0
      BY <1>0, <2>1, <2>3 DEF ScanAnswer, Scans
    <2> QED BY <1>1, <2>2, <2>3, DoneMoves
  <1>2. ASSUME NEW j \in Jobs, tab'[j].st = "unopened" PROVE slot'[j] = 0
    <2>1. tab[j].st = "unopened" /\ slot[j] = 0
      BY <1>0, <1>2, DoneMoves
    <2>2. ASSUME NEW n \in Scans, Keep(n), scan[n].job = j PROVE FALSE
      BY <2>1, <2>2, ScanIsJobs DEF Keep
    <2> QED BY <1>0, <2>1, <2>2, SlotStep DEF SlotMoves
  <1>3. ASSUME NEW j \in Jobs, NEW n \in Scans, slot'[j] = n PROVE Kept(scan'[n])
    <2>1. CASE slot[j] = n
      BY <1>0, <2>1, KeptStays
    <2>2. CASE Keep(n)
      BY <1>0, <2>2 DEF Keep, Kept, ScanCommand
    <2> QED BY <1>0, <1>3, <2>1, <2>2, SlotStep DEF SlotMoves, Scans
  <1>4. ASSUME NEW n \in Scans, scan'[n].st = "answer"
        PROVE  slot'[scan'[n].job] = n /\ tree'[n].items = scan'[n].items
    <2>1. CASE Keep(n)
      <3>1. scan[n].job \in Jobs /\ slot \in [Jobs -> Scans \cup {0}] /\ tree \in [Scans -> Cached]
        BY <1>0, <2>1, ScanIsJobs DEF Keep, ScansTypeOK, BackendOK
      <3>2. scan'[n].job = scan[n].job /\ scan'[n].items = scan[n].items
        BY <1>0, <2>1 DEF Keep, ScanCommand
      <3>3. slot'[scan[n].job] = n
        BY <2>1, <3>1 DEF Keep
      <3>4. tree'[n].items = scan[n].items
        BY <2>1, <3>1 DEF Keep, NoTree
      <3> QED BY <3>2, <3>3, <3>4
    <2>2. CASE scan[n].st = "answer" /\ scan'[n].job = scan[n].job /\ scan'[n].items = scan[n].items
      <3> DEFINE j == scan[n].job
      <3>1. j \in Jobs /\ tab[j].st = "running" /\ ~Removing /\ slot[j] = n
        BY <1>0, <2>2, ScanIsJobs
      <3>2. SameFiles(n)
        BY <1>0, <2>2, <3>1, TreeStays DEF Kept
      <3>3. ASSUME NEW m \in Scans, Keep(m), scan[m].job = j PROVE FALSE
        BY <2>2, <3>3, ScanIsJobs DEF Keep
      <3>4. ~CloseJob(j)
        BY <3>1 DEF CloseJob
      <3>5. slot'[j] = n
        BY <1>0, <3>1, <3>3, <3>4, SlotStep DEF SlotMoves
      <3>6. tree'[n].items = scan'[n].items
        BY <1>0, <2>2, <3>2 DEF SameFiles
      <3>7. slot'[scan'[n].job] = n
        BY <2>2, <3>5
      <3> QED BY <3>6, <3>7
    <2>3. ScanMoves(n) /\ (SentNow(n) => scan'[n].st = "sent")
      BY <1>0, ScanStep DEF SentNow, NoScan
    <2>4. \/ Keep(n)
          \/ scan[n].st = "answer" /\ scan'[n].job = scan[n].job /\ scan'[n].items = scan[n].items
      BY <1>0, <1>4, <2>3, ZenonT(30) DEF ScanMoves, ScanCommand, NoScan
    <2> QED BY <2>1, <2>2, <2>4
  <1> QED BY <1>1, <1>2, <1>3, <1>4 DEF SlotsFit

LEMMA ViewsStep ==
  ASSUME Orderly, ViewsInv, [Next]_vars
  PROVE  ViewsFit'
  <1> SUFFICES ASSUME NEW n \in Scans, NEW p \in Folders PROVE tree'[n].views[p] \in {None, ViewIn(tree'[n], p)}
    BY DEF ViewsFit
  <1>0. /\ ScansTypeOK /\ tree[n] \in Cached /\ tree[n].views[p] \in {None, ViewIn(tree[n], p)}
    BY DEF Orderly, ScansTypeOK, BackendOK, ViewsInv, ViewsFit
  <1>1. CASE SameFiles(n) /\ tree'[n].views = tree[n].views
    BY <1>0, <1>1, SameView
  <1>2. CASE tree'[n].views = NoViews
    BY <1>2 DEF NoViews
  <1>3. ASSUME NEW c \in Calls, Remember(c), call[c].n = n, SameFiles(n),
               tree'[n].views = [tree[n].views EXCEPT ![call[c].path] = call[c].view]
        PROVE  tree'[n].views[p] \in {None, ViewIn(tree'[n], p)}
    <2>1. call[c].st = "computed"
      BY <1>3 DEF Remember
    <2>2. call[c].view = ViewIn(tree[n], call[c].path)
      BY <1>3, <2>1 DEF ViewsInv, CallFits
    <2>3. tree[n].views \in [Folders -> View]
      BY <1>0 DEF Cached
    <2> QED BY <1>0, <1>3, <2>2, <2>3, SameView
  <1>4. CASE ForgetPath(n) /\ tree'[n] = Without(n, removal.item)
    <2>1. tree'[n].views = NoViews \/ tree'[n] = tree[n]
      BY <1>0, <1>4 DEF Without, Cached
    <2> QED BY <1>1, <1>2, <2>1 DEF SameFiles
  <1> QED BY <1>0, <1>1, <1>2, <1>3, <1>4, TreeStep DEF TreeMoves

(* A command that is sent is of a job that is done, outside a removal.     *)
LEMMA AskedFits ==
  ASSUME Orderly, Waits, ViewsInv, [Next]_vars,
         NEW c \in Calls, NEW j \in Jobs, NEW p \in Folders, Asked(c, j, p), Asker(j)
  PROVE  /\ call'[c].st = "sent" /\ call'[c].job = j /\ call'[c].path = p
         /\ ~Removing' /\ tab'[j].st = "done"
  <1>0. ScansTypeOK /\ tab \in [Jobs -> Tab] /\ scan \in [Scans -> ScanCommand]
    BY DEF Orderly, ScansTypeOK, WindowOK, CommandsOK
  <1>1. call'[c].st = "sent" /\ call'[c].job = j /\ call'[c].path = p
    BY DEF Asked, NoCall
  <1>2. ASSUME ~Removing, tab[j].st = "done", removal' = removal, ~Rescan(j), ~CloseJob(j)
        PROVE  ~Removing' /\ tab'[j].st = "done"
    BY <1>0, <1>2, TabStep DEF Removing, TabMoves, Shown, Restarted, LeftBehind, Enqueue
  <1>3. ASSUME NEW q \in Folders, Navigate(j, q) PROVE ~Removing' /\ tab'[j].st = "done"
    <2>1. ~Removing /\ tab[j].st = "done" /\ removal' = removal /\ scan' = scan /\ slot' = slot
      BY <1>3 DEF Navigate, Apart, backend
    <2>2. tab'[j].st = tab[j].st
      <3>1. tab'[j] \in {Show(j, tab[j].cache[q], q), [tab[j] EXCEPT !.loading = TRUE]}
        BY <1>0, <1>3 DEF Navigate
      <3> QED BY <1>0, <3>1 DEF Show, Tab
    <2> QED BY <2>1, <2>2 DEF Removing
  <1>4. CASE SelectJob(j) /\ tab[j].stale
    <2>1. ~Removing /\ tab[j].st = "done" /\ removal' = removal
      BY <1>4 DEF SelectJob, Apart
    <2>2. tab'[j].st = tab[j].st
      BY <1>0, <1>4 DEF SelectJob, Tab
    <2> QED BY <1>1, <2>1, <2>2 DEF Removing
  <1>5. ASSUME NEW n \in Scans, ScanAnswer(n), scan[n].job = j, Listed(j)
        PROVE  ~Removing' /\ tab'[j].st = "done"
    <2>1. ~Removing /\ removal' = removal
      BY <1>5, ScanIsJobs DEF ScanAnswer
    <2>2. PICK t, s : Pump(t, s) /\ Over(s, n) /\ Retabbed(t, j, Scanned(j, scan[n].items))
      BY <1>0, <1>5, AnswerPumps
    <2>3. t[j].st = "done"
      BY <1>0, <2>2 DEF Retabbed, Scanned, Tab
    <2>4. tab'[j].st = "done"
      BY <2>2, <2>3, PumpTabs DEF Retabbed, Over
    <2> QED BY <2>1, <2>4 DEF Removing
  <1>6. CASE RemovalAnswer /\ j = active /\ Listed(j) /\ tab[j].view # None
    <2>1. Removing /\ ~Removing'
      BY <1>6 DEF RemovalAnswer, Removing, NoRemoval
    <2>2. tab[j].st \notin {"queued", "running"}
      BY <2>1, NoneInQueue
    <2>3. tab[j].st = "done"
      BY <1>0, <1>6, <2>2 DEF Listed, Tab
    <2>4. tab'[j] = Outdated(j, removal.item)
      BY <1>6 DEF RemovalAnswer
    <2>5. tab'[j].st = "done"
      BY <1>0, <2>3, <2>4 DEF Outdated, Tab
    <2> QED BY <1>1, <2>1, <2>5
  <1>7. ~Removing' /\ tab'[j].st = "done"
    BY <1>3, <1>4, <1>5, <1>6 DEF Asker
  <1> QED BY <1>1, <1>7

LEMMA CallsStep ==
  ASSUME Orderly, Waits, ViewsInv, [Next]_vars, NEW c \in Calls
  PROVE  CallFits(c)'
  <1>0. /\ ScansTypeOK /\ call[c] \in ViewCommand /\ call \in [Calls -> ViewCommand]
        /\ slot \in [Jobs -> Scans \cup {0}]
        /\ CallFits(c) /\ SlotsFit /\ ViewsFit
    BY DEF Orderly, ScansTypeOK, CommandsOK, BackendOK, ViewsInv
  <1>1. ASSUME NEW j \in Jobs, NEW p \in Folders, Asked(c, j, p), Asker(j) PROVE CallFits(c)'
    <2>1. /\ call'[c].st = "sent" /\ call'[c].job = j /\ call'[c].path = p
          /\ ~Removing' /\ tab'[j].st = "done"
      BY <1>1, AskedFits
    <2> QED BY <2>1 DEF CallFits
  <1>2. CASE call'[c].st = "free"
    BY <1>2 DEF CallFits
  <1>3. ASSUME call[c].st # "free", call'[c].st # "free",
               call'[c].job = call[c].job, call'[c].path = call[c].path,
               call'[c].st \in {"missed", "computed"} =>
                 /\ call'[c].n \in Scans /\ Kept(scan[call'[c].n])
                 /\ tab[call[c].job].st = "done" => slot[call[c].job] = call'[c].n,
               call'[c].st = "computed" =>
                 call'[c].view # None /\ call'[c].view = ViewIn(tree[call'[c].n], call[c].path),
               call'[c].st = "answer" /\ tab[call[c].job].st = "done" =>
                 call'[c].view \in {None, ViewIn(tree[slot[call[c].job]], call[c].path)}
        PROVE  CallFits(c)'
    <2> DEFINE j == call[c].job
               p == call[c].path
    <2>1. j \in Jobs /\ p \in Folders /\ ~Removing /\ tab[j].st \in {"done", "closed"}
      BY <1>0, <1>3 DEF CallFits, ScansTypeOK, CommandsOK, ViewCommand
    <2>2. ~Removing'
      <3>1. ASSUME NEW x \in Items, DeletePath(x) PROVE FALSE
        BY <1>3, <2>1, <3>1 DEF DeletePath, Apart, Asking
      <3> QED BY <2>1, <3>1, RemovalStep
              DEF RemovalMoves, Removing, RemovePath, CollectTrees, ForgetPath, RemovalAnswer, NoRemoval
    <2>3. ~Rescan(j)
      BY <1>3 DEF Rescan, Apart, Asking
    <2>4. tab'[j].st \in {"done", "closed"}
      BY <2>1, <2>3, DoneMoves
    <2>5. tab'[j].st = "done" => tab[j].st = "done" /\ slot'[j] = slot[j] /\ slot[j] \in Scans /\ Kept(scan[slot[j]])
      <3>1. ASSUME NEW n \in Scans, ScanAnswer(n), scan[n].job = j PROVE FALSE
        BY <2>1, <3>1, ScanIsJobs DEF ScanAnswer
      <3>2. tab'[j].st = "done" => tab[j].st = "done" /\ slot'[j] = slot[j]
        BY <2>1, <3>1, DoneMoves, SlotStays
      <3> QED BY <1>0, <2>1, <3>2 DEF SlotsFit
    <2>6. ASSUME NEW n \in Scans, Kept(scan[n]) PROVE Kept(scan'[n]) /\ ViewIn(tree'[n], p) = ViewIn(tree[n], p)
      BY <1>0, <2>1, <2>6, KeptStays, TreeStays, SameView
    <2>7. call'[c].st \in {"missed", "computed"} =>
            /\ Kept(scan'[call'[c].n])
            /\ tab'[j].st = "done" => slot'[j] = call'[c].n
      BY <1>3, <2>5, <2>6
    <2>8. call'[c].st = "computed" => call'[c].view # None /\ call'[c].view = ViewIn(tree'[call'[c].n], p)
      BY <1>3, <2>6
    <2>9. call'[c].st = "answer" /\ tab'[j].st = "done" => call'[c].view \in {None, ViewIn(tree'[slot[j]], p)}
      BY <1>3, <2>5, <2>6
    <2> QED BY <1>3, <2>2, <2>4, <2>5, <2>7, <2>8, <2>9 DEF CallFits
  <1>4. CASE call'[c] = call[c]
    BY <1>0, <1>2, <1>3, <1>4 DEF CallFits, ScansTypeOK, CommandsOK
  <1>5. CASE LookUp(c)
    <2> DEFINE j == call[c].job
               p == call[c].path
    <2>1. /\ call[c].st = "sent" /\ j \in Jobs /\ p \in Folders
          /\ slot[j] # 0 => slot[j] \in Scans /\ Kept(scan[slot[j]]) /\ tree[slot[j]].views[p] \in {None, ViewIn(tree[slot[j]], p)}
      BY <1>0, <1>5 DEF LookUp, ScansTypeOK, CommandsOK, ViewCommand, SlotsFit, ViewsFit
    <2>2. \/ slot[j] = 0 /\ call'[c] = [call[c] EXCEPT !.st = "answer", !.view = None]
          \/ slot[j] # 0 /\ call'[c] = [call[c] EXCEPT !.st = "answer", !.view = tree[slot[j]].views[p]]
          \/ slot[j] # 0 /\ call'[c] = [call[c] EXCEPT !.st = "missed", !.n = slot[j]]
      BY <1>0, <1>5 DEF LookUp
    <2> QED BY <1>0, <1>3, <2>1, <2>2 DEF ViewCommand
  <1>6. CASE Compute(c)
    <2>1. call[c].st = "missed" /\ call[c].n \in Scans /\ call[c].path \in Folders
      BY <1>0, <1>6 DEF Compute, ScansTypeOK, CommandsOK, ViewCommand
    <2>0. ViewOf(call[c].n, call[c].path) = ViewIn(tree[call[c].n], call[c].path)
      BY DEF ViewOf, ViewIn
    <2>2. \/ ViewIn(tree[call[c].n], call[c].path) = None /\ call'[c] = [call[c] EXCEPT !.view = None, !.st = "answer"]
          \/ /\ ViewIn(tree[call[c].n], call[c].path) # None
             /\ call'[c] = [call[c] EXCEPT !.view = ViewIn(tree[call[c].n], call[c].path), !.st = "computed"]
      BY <1>0, <1>6, <2>0 DEF Compute
    <2> QED BY <1>0, <1>3, <2>1, <2>2, ZenonT(30) DEF ViewCommand, CallFits
  <1>7. CASE Remember(c) /\ call'[c] = [call[c] EXCEPT !.st = "answer"]
    <2>1. /\ call[c].st = "computed" /\ call'[c].st = "answer" /\ call'[c].view = call[c].view
          /\ call'[c].job = call[c].job /\ call'[c].path = call[c].path
      BY <1>0, <1>7 DEF Remember, ViewCommand
    <2> QED BY <1>0, <1>3, <2>1 DEF CallFits
  <1>8. CASE ViewAnswer(c)
    BY <1>0, <1>2, <1>8 DEF ViewAnswer, NoCall
  <1> QED BY <1>0, <1>1, <1>4, <1>5, <1>6, <1>7, <1>8, CallStep DEF CallMoves

(* A command that will bring the folder a job shows still will after a     *)
(* step, or its answer is shown by it.                                     *)
LEMMA RefreshStays ==
  ASSUME Orderly, Waits, ViewsInv, [Next]_vars, ~Removing, ~Removing',
         NEW j \in Jobs, NEW n \in Scans, slot[j] = n, tab[j].st = "done",
         tab'[j].path = tab[j].path, NEW c \in Calls, Refreshes(c, j)
  PROVE  Refreshes(c, j)' \/ tab'[j].view = ViewIn(tree[n], tab[j].path)
  <1>0. /\ ScansTypeOK /\ call[c] \in ViewCommand /\ tab[j] \in Tab
        /\ CallFits(c) /\ ViewsFit /\ TabFits(j, n) /\ n # 0
    BY DEF Orderly, ScansTypeOK, CommandsOK, WindowOK, ViewsInv, Scans
  <1> DEFINE p == tab[j].path
  <1>1. /\ call[c].st # "free" /\ call[c].job = j /\ call[c].path = p
        /\ call[c].st = "answer" => call[c].view # None
        /\ p \in Folders
    BY <1>0 DEF Refreshes, Tab
  <1>2. ViewIn(tree[n], p) # None
    <2>1. p \in tree[n].items \cup {Root}
      BY <1>0 DEF TabFits, PathFits
    <2> QED BY <1>0, <1>1, <2>1, ViewIs
  <1>3. ASSUME call'[c].st # "free", call'[c].job = j, call'[c].path = p,
               call'[c].st = "answer" => call'[c].view # None
        PROVE  Refreshes(c, j)'
    BY <1>3 DEF Refreshes
  <1>4. CASE call'[c] = call[c]
    BY <1>1, <1>3, <1>4
  <1>5. CASE LookUp(c)
    <2>1. \/ call'[c] = [call[c] EXCEPT !.st = "answer", !.view = tree[n].views[p]] /\ tree[n].views[p] # None
          \/ call'[c] = [call[c] EXCEPT !.st = "missed", !.n = n]
      BY <1>0, <1>1, <1>5 DEF LookUp, ScansTypeOK, CommandsOK
    <2> QED BY <1>0, <1>1, <1>3, <2>1 DEF ViewCommand
  <1>6. CASE Compute(c)
    <2>1. call[c].st = "missed" /\ call[c].n = n
      BY <1>0, <1>1, <1>6 DEF Compute, CallFits
    <2>2. ViewOf(n, p) = ViewIn(tree[n], p)
      BY DEF ViewOf, ViewIn
    <2>3. call'[c] = [call[c] EXCEPT !.view = ViewIn(tree[n], p), !.st = "computed"]
      BY <1>0, <1>1, <1>2, <1>6, <2>1, <2>2 DEF Compute, ScansTypeOK, CommandsOK
    <2> QED BY <1>0, <1>1, <1>3, <2>3 DEF ViewCommand
  <1>7. CASE Remember(c) /\ call'[c] = [call[c] EXCEPT !.st = "answer"]
    <2>1. call[c].view # None
      BY <1>0, <1>1, <1>7 DEF Remember, CallFits
    <2> QED BY <1>0, <1>1, <1>3, <1>7, <2>1 DEF ViewCommand
  <1>8. CASE ViewAnswer(c)
    <2>1. call[c].st = "answer" /\ call[c].view # None
      BY <1>1, <1>8 DEF ViewAnswer
    <2>2. tab'[j].view = call[c].view
      BY <1>0, <1>1, <1>8, <2>1, AnswerShows DEF Listed, Shown
    <2>3. call[c].view = ViewIn(tree[n], p)
      BY <1>0, <1>1, <2>1 DEF CallFits
    <2> QED BY <2>2, <2>3
  <1>9. ~\E i \in Jobs, q \in Folders : Asked(c, i, q)
    BY <1>1 DEF Asked
  <1> QED BY <1>0, <1>4, <1>5, <1>6, <1>7, <1>8, <1>9, CallStep DEF CallMoves

(* While a removal goes on, a tab that stays as it is leads to a folder    *)
(* that will be in its tree.                                               *)
LEMMA PathStays ==
  ASSUME Orderly, Waits, ViewsInv, [Next]_vars, Removing',
         NEW j \in Jobs, NEW n \in Scans, slot[j] = n, tab[j].st \in {"done", "queued"},
         tab'[j].path = tab[j].path
  PROVE  PathFits(j, n)'
  <1>0. /\ ScansTypeOK /\ WholeInv /\ tab[j] \in Tab /\ removal \in Removal /\ tree[n] \in Cached
        /\ Removing => removal.item \in Items
        /\ PathFits(j, n) /\ Kept(scan[n])
    BY DEF Orderly, ScansTypeOK, CommandsOK, WindowOK, BackendOK, ViewsInv, TabFits, SlotsFit
  <1> DEFINE p == tab[j].path
  <1>1. p \in Folders
    BY <1>0 DEF Tab
  <1>2. CASE ~Removing
    <2>0. ~RemovePath /\ ~CollectTrees /\ ~RemovalAnswer /\ \A m \in Scans : ~ForgetPath(m)
      BY <1>2 DEF Removing, RemovePath, CollectTrees, ForgetPath, RemovalAnswer
    <2>. removal' # removal /\ RemovalMoves
      BY <1>2, RemovalStep DEF Removing
    <2>1. PICK x \in Items : DeletePath(x) /\ removal' = [NoRemoval EXCEPT !.st = "sent", !.item = x]
      BY <2>0, Zenon DEF RemovalMoves
    <2>2. removal'.item = x /\ tree' = tree
      BY <2>1 DEF DeletePath, backend, NoRemoval
    <2>3. p \in tree[n].items \cup {Root}
      BY <1>0, <1>2 DEF PathFits
    <2>4. p \in Sub[x] => Up[x] \in tree[n].items \cup {Root}
      <3>1. Sub[x] \subseteq Items /\ Root \notin Items
        BY OpenScansAssumption
      <3> QED BY <1>0, <2>3, <3>1, WholeUp DEF WholeInv
    <2> QED BY <2>2, <2>3, <2>4 DEF PathFits
  <1>3. CASE Removing
    <2>1. removal'.item = removal.item
      <3>1. CASE removal' = [removal EXCEPT !.st = "removed"]
        BY <1>0, <3>1 DEF Removal
      <3>2. CASE CollectTrees
        BY <1>0, <3>2 DEF CollectTrees, Removal
      <3>3. ASSUME NEW m \in Scans, removal' = [removal EXCEPT !.todo = @ \ {m}]
            PROVE  removal'.item = removal.item
        BY <1>0, <3>3 DEF Removal
      <3>4. ASSUME NEW x \in Items, DeletePath(x) PROVE FALSE
        BY <1>3, <3>4 DEF DeletePath
      <3>5. removal' # NoRemoval
        BY DEF Removing, NoRemoval
      <3>6. RemovalMoves
        BY RemovalStep
      <3> QED BY <3>1, <3>2, <3>3, <3>4, <3>5, <3>6, Zenon DEF RemovalMoves
    <2> DEFINE x == removal.item
               q == IF p \in Sub[x] THEN Up[x] ELSE p
    <2>2. q \in tree[n].items \cup {Root} /\ x \in Items
      BY <1>0, <1>3 DEF PathFits
    <2>3. q \notin Sub[x]
      BY <2>2, OpenScansAssumption
    <2>4. q \in tree'[n].items \cup {Root}
      <3>1. CASE SameFiles(n)
        BY <2>2, <3>1 DEF SameFiles
      <3>2. CASE ForgetPath(n) /\ tree'[n] = Without(n, removal.item)
        <4>1. tree'[n].items = tree[n].items \ Sub[x]
          BY <1>0, <2>2, <3>2, WithoutTakesAll
        <4> QED BY <2>2, <2>3, <4>1
      <3>3. ~Keep(n)
        BY <1>0, KeptStays
      <3> QED BY <1>0, <3>1, <3>2, <3>3, TreeStep DEF TreeMoves
    <2> QED BY <1>3, <2>1, <2>4 DEF PathFits
  <1> QED BY <1>2, <1>3


(* What a step outside a removal leaves of a tree whose scan is over. *)
LEMMA TreeAsWas ==
  ASSUME Orderly, ViewsInv, [Next]_vars, ~Removing,
         NEW j \in Jobs, NEW n \in Scans, slot[j] = n
  PROVE  /\ tree'[n].items = tree[n].items
         /\ \A p \in Folders : /\ ViewIn(tree'[n], p) = ViewIn(tree[n], p)
                               /\ ViewIn(tree[n], p) # None <=> p \in tree[n].items \cup {Root}
  <1>1. Kept(scan[n]) /\ ScansTypeOK
    BY DEF ViewsInv, SlotsFit, Orderly
  <1>2. SameFiles(n)
    BY <1>1, TreeStays
  <1> QED BY <1>1, <1>2, SameView, ViewIs DEF SameFiles

(* A tab with a view of the tree it has fits. *)
LEMMA ShownFits ==
  ASSUME Orderly, ViewsInv, [Next]_vars, ~Removing, ~Removing',
         NEW j \in Jobs, NEW n \in Scans, slot[j] = n,
         NEW p \in Folders, tab'[j].path = p,
         tab'[j].view # None, tab'[j].view = ViewIn(tree[n], p),
         \A q \in Folders : tab'[j].cache[q] \in {None, ViewIn(tree[n], q)}
  PROVE  tab'[j].view # None /\ PathFits(j, n)' /\ ShowsTree(j, n)'
  <1>1. /\ tree'[n].items = tree[n].items
        /\ \A q \in Folders : ViewIn(tree'[n], q) = ViewIn(tree[n], q)
        /\ p \in tree[n].items \cup {Root}
    BY TreeAsWas
  <1>2. PathFits(j, n)'
    BY <1>1 DEF PathFits
  <1>3. ShowsTree(j, n)'
    BY <1>1 DEF ShowsTree
  <1> QED BY <1>2, <1>3

(* A tab that will get a view of the tree it has fits. *)
LEMMA AskedShows ==
  ASSUME CommandsOK, NEW j \in Jobs, NEW p \in Folders, Ask(j, p), tab'[j].path = p
  PROVE  \E c \in Calls : Refreshes(c, j)'
  <1>1. PICK c \in Calls : Asked(c, j, p)
    BY AskSends
  <1>2. call'[c].st = "sent" /\ call'[c].job = j /\ call'[c].path = p
    BY <1>1 DEF Asked, NoCall
  <1>3. Refreshes(c, j)'
    BY <1>2 DEF Refreshes
  <1> QED BY <1>3

LEMMA AlikeFits ==
  ASSUME Orderly, Waits, ViewsInv, [Next]_vars, ~Removing, ~Removing',
         NEW j \in Jobs, NEW n \in Scans, slot[j] = n, tab[j].st \in {"done", "queued"}, Alike(j),
         \/ tab'[j].st = tab[j].st /\ tab'[j].stale = tab[j].stale
         \/ SelectJob(j) /\ Ask(j, tab[j].path)
         \/ Rescan(j) /\ tab'[j].stale = tab[j].stale
  PROVE  tab'[j].view # None /\ PathFits(j, n)' /\ ShowsTree(j, n)'
  <1>0. /\ ScansTypeOK /\ CommandsOK /\ tab[j] \in Tab
        /\ tab[j].view # None /\ PathFits(j, n) /\ ShowsTree(j, n)
        /\ tab[j].path \in Folders
    BY DEF Orderly, ScansTypeOK, WindowOK, ViewsInv, TabFits, Tab
  <1>1. /\ tree'[n].items = tree[n].items
        /\ \A q \in Folders : ViewIn(tree'[n], q) = ViewIn(tree[n], q)
    BY TreeAsWas
  <1>2. tab'[j].view # None /\ tab'[j].path = tab[j].path /\ tab'[j].cache = tab[j].cache /\ tab'[j].view = tab[j].view
    BY <1>0 DEF Alike
  <1>3. PathFits(j, n)'
    BY <1>0, <1>1, <1>2 DEF PathFits
  <1>4. \A q \in Folders : tab'[j].cache[q] \in {None, ViewIn(tree'[n], q)}
    BY <1>0, <1>1, <1>2 DEF ShowsTree
  <1>5. \/ tab'[j].stale
        \/ tab'[j].view = ViewIn(tree'[n], tab'[j].path)
        \/ \E c \in Calls : Refreshes(c, j)'
    <2>1. CASE SelectJob(j) /\ Ask(j, tab[j].path)
      BY <1>0, <1>2, <2>1, AskedShows
    <2>2. CASE tab'[j].stale = tab[j].stale /\ ~(\E c \in Calls : Refreshes(c, j))
      BY <1>0, <1>1, <1>2, <2>2 DEF ShowsTree
    <2>3. ASSUME NEW c \in Calls, Refreshes(c, j)
          PROVE  ~Rescan(j) /\ tab[j].st = "done"
      BY <2>3 DEF Refreshes, Rescan, Apart, Asking, ViewsInv, CallFits
    <2>4. ASSUME NEW c \in Calls, Refreshes(c, j), tab'[j].stale = tab[j].stale
          PROVE  tab'[j].view = ViewIn(tree'[n], tab'[j].path) \/ Refreshes(c, j)'
      <3>1. Refreshes(c, j)' \/ tab'[j].view = ViewIn(tree[n], tab[j].path)
        BY <1>2, <2>3, <2>4, RefreshStays
      <3> QED BY <1>0, <1>1, <1>2, <3>1
    <2> QED BY <2>1, <2>2, <2>4
  <1>6. ShowsTree(j, n)'
    BY <1>4, <1>5 DEF ShowsTree
  <1> QED BY <1>2, <1>3, <1>6


(* A removal ends with its answer. *)
LEMMA StillRemoving ==
  ASSUME ScansTypeOK, [Next]_vars, Removing, ~RemovalAnswer
  PROVE  Removing'
  <1>0. removal \in Removal /\ RemovalMoves
    BY RemovalStep DEF ScansTypeOK, CommandsOK
  <1>1. CASE removal' = removal
    BY <1>1 DEF Removing
  <1>2. CASE removal' = [removal EXCEPT !.st = "removed"]
    BY <1>0, <1>2 DEF Removal, Removing
  <1>3. CASE CollectTrees
    BY <1>0, <1>3 DEF CollectTrees, Removal, Removing
  <1>4. ASSUME NEW m \in Scans, removal' = [removal EXCEPT !.todo = @ \ {m}]
        PROVE  Removing'
    BY <1>0, <1>4 DEF Removal, Removing
  <1>5. ASSUME NEW x \in Items, DeletePath(x) PROVE FALSE
    BY <1>5 DEF DeletePath
  <1> QED BY <1>0, <1>1, <1>2, <1>3, <1>4, <1>5, Zenon DEF RemovalMoves

(* A removal that answers leaves every tab with a folder of its tree, and  *)
(* what the tab shows is read again.                                       *)
LEMMA AnsweredFits ==
  ASSUME Orderly, Waits, ViewsInv, [Next]_vars, RemovalAnswer,
         NEW j \in Jobs, NEW n \in Scans, slot[j] = n, tab[j].st \in {"done", "queued"}
  PROVE  ~Removing' /\ tab'[j].view # None /\ PathFits(j, n)' /\ ShowsTree(j, n)'
  <1> DEFINE x == removal.item
             q == IF tab[j].path \in Sub[x] THEN Up[x] ELSE tab[j].path
  <1>0. /\ CommandsOK /\ tab[j] \in Tab /\ tab' \in [Jobs -> Tab] /\ tab'[j].path \in Folders
        /\ tab[j].view # None /\ PathFits(j, n)
    <2>1. ScansTypeOK' /\ ScansTypeOK
      BY WindowType DEF Answers, Orderly
    <2> QED BY <2>1 DEF ScansTypeOK, WindowOK, ViewsInv, TabFits, Tab
  <1>1. /\ Removing /\ ~Removing' /\ tree' = tree
        /\ tab'[j] = Outdated(j, x)
        /\ j = active => Ask(j, tab'[j].path)
    BY <1>0 DEF RemovalAnswer, Removing, NoRemoval, backend, Listed
  <1>2. /\ tab'[j].view = tab[j].view /\ tab'[j].path = q /\ tab'[j].cache = NoViews
        /\ j # active => tab'[j].stale
    <2>1. LeftBehind(j, x)
      BY <1>0, <1>1 DEF Outdated, LeftBehind, Tab
    <2> QED BY <1>0, <2>1 DEF LeftBehind, Tab
  <1>3. PathFits(j, n)'
    <2>1. q \in tree[n].items \cup {Root}
      BY <1>0, <1>1 DEF PathFits
    <2> QED BY <1>1, <1>2, <2>1 DEF PathFits
  <1>4. \A p \in Folders : tab'[j].cache[p] = None
    BY <1>2 DEF NoViews
  <1>5. j = active => \E c \in Calls : Refreshes(c, j)'
    BY <1>0, <1>1, AskedShows
  <1>6. ShowsTree(j, n)'
    BY <1>2, <1>4, <1>5 DEF ShowsTree
  <1> QED BY <1>0, <1>1, <1>2, <1>3, <1>6

LEMMA TabsStep ==
  ASSUME Orderly, Waits, ViewsInv, [Next]_vars, NEW j \in Jobs, NEW n \in Scans
  PROVE  TabFits(j, n)'
  <1> SUFFICES ASSUME slot'[j] = n, tab'[j].st \in {"done", "queued"}
               PROVE  tab'[j].view # None /\ PathFits(j, n)' /\ (~Removing' => ShowsTree(j, n)')
    BY DEF TabFits
  <1>0. /\ ScansTypeOK /\ tab[j] \in Tab /\ slot[j] = n /\ slot[j] # 0
        /\ tab[j].path \in Folders
    BY SlotStays DEF Orderly, ScansTypeOK, WindowOK, Tab, Scans
  <1>1. ASSUME NEW p \in Folders, Navigate(j, p), tab'[j].cache = tab[j].cache, Shown(j, tab[j].cache[p], p)
        PROVE  tab'[j].view # None /\ PathFits(j, n)' /\ ShowsTree(j, n)'
    <2>1. ~Removing /\ tab[j].st = "done" /\ removal' = removal
      BY <1>1 DEF Navigate, Apart
    <2>2. ShowsTree(j, n)
      BY <1>0, <2>1 DEF ViewsInv, TabFits
    <2>3. /\ tab'[j].path = p /\ tab'[j].view # None /\ tab'[j].view = ViewIn(tree[n], p)
          /\ \A q \in Folders : tab'[j].cache[q] \in {None, ViewIn(tree[n], q)}
      BY <1>1, <2>2 DEF ShowsTree, Shown
    <2> QED BY <1>0, <2>1, <2>3, ShownFits DEF Removing
  <1>2. ASSUME NEW c \in Calls, ViewAnswer(c), call[c].job = j, Shown(j, call[c].view, call[c].path),
               tab'[j].cache = [tab[j].cache EXCEPT ![call[c].path] = call[c].view]
        PROVE  tab'[j].view # None /\ PathFits(j, n)' /\ ShowsTree(j, n)'
    <2> DEFINE p == call[c].path
               v == call[c].view
    <2>0. call[c].st = "answer" /\ removal' = removal /\ CallFits(c) /\ p \in Folders
      BY <1>0, <1>2 DEF ViewAnswer, ViewsInv, ScansTypeOK, CommandsOK, ViewCommand
    <2>1. ~Removing /\ tab[j].st = "done"
      BY <1>2, <2>0 DEF CallFits, Shown
    <2>2. ShowsTree(j, n)
      BY <1>0, <2>1 DEF ViewsInv, TabFits
    <2>3. v # None /\ v = ViewIn(tree[n], p) /\ tab'[j].path = p /\ tab'[j].view = v
      BY <1>0, <1>2, <2>0, <2>1 DEF CallFits, Shown
    <2>4. \A q \in Folders : tab'[j].cache[q] \in {None, ViewIn(tree[n], q)}
      BY <1>0, <1>2, <2>2, <2>3 DEF ShowsTree, Tab
    <2> HIDE DEF p, v
    <2> QED BY <1>0, <2>0, <2>1, <2>3, <2>4, ShownFits DEF Removing
  <1>3. ASSUME NEW m \in Scans, ScanAnswer(m), scan[m].job = j, Restarted(j, scan[m].items)
        PROVE  tab'[j].view # None /\ PathFits(j, n)' /\ ShowsTree(j, n)'
    <2>1. scan[m].st = "answer" /\ removal' = removal
      BY <1>3 DEF ScanAnswer
    <2>2. ~Removing
      BY <2>1, ScanIsJobs
    <2>3. m = n /\ tree[n].items = scan[m].items
      BY <1>0, <1>3, <2>1 DEF ViewsInv, SlotsFit
    <2>4. Root \in Folders /\ ViewIn(tree[n], Root) = tree[n].items /\ ViewIn(tree[n], Root) # None
      BY <1>0, ViewIs, OpenScansAssumption
    <2>5. tab'[j].path = Root /\ tab'[j].view = ViewIn(tree[n], Root) /\ tab'[j].view # None
      BY <1>3, <2>3, <2>4 DEF Restarted
    <2>6. \A q \in Folders : tab'[j].cache[q] \in {None, ViewIn(tree[n], q)}
      BY <1>3, <2>3, <2>4 DEF Restarted, NoViews
    <2> QED BY <1>0, <2>1, <2>2, <2>4, <2>5, <2>6, ShownFits DEF Removing
  <1>4. CASE RemovalAnswer
    <2>1. CASE tab[j].st \in {"done", "queued"}
      BY <1>0, <1>4, <2>1, AnsweredFits
    <2>2. tab'[j].st = tab[j].st
      <3>1. tab'[j] \in {tab[j], Outdated(j, removal.item)}
        BY <1>4 DEF RemovalAnswer
      <3> QED BY <1>0, <3>1 DEF Outdated, Tab
    <2> QED BY <2>1, <2>2
  <1>5. ASSUME ~RemovalAnswer, tab[j].st \in {"done", "queued"}, Alike(j),
               \/ tab'[j].st = tab[j].st /\ tab'[j].stale = tab[j].stale
               \/ SelectJob(j) /\ Ask(j, tab[j].path) /\ removal' = removal /\ ~Removing
               \/ Rescan(j) /\ tab'[j].stale = tab[j].stale /\ removal' = removal /\ ~Removing
        PROVE  tab'[j].view # None /\ PathFits(j, n)' /\ (~Removing' => ShowsTree(j, n)')
    <2>1. tab[j].view # None /\ tab'[j].view = tab[j].view /\ tab'[j].path = tab[j].path
      BY <1>0, <1>5 DEF ViewsInv, TabFits, Alike
    <2>2. CASE Removing'
      BY <1>0, <1>5, <2>1, <2>2, PathStays
    <2>3. CASE ~Removing'
      <3>1. ~Removing
        BY <1>0, <1>5, <2>3, StillRemoving
      <3> QED BY <1>0, <1>5, <2>3, <3>1, AlikeFits
    <2> QED BY <2>1, <2>2, <2>3
  <1>6. ASSUME Enqueue(j) PROVE FALSE
    BY <1>0, <1>6 DEF Enqueue, ViewsInv, SlotsFit
  <1>7. ASSUME SelectJob(j), tab[j].stale PROVE ~Removing /\ removal' = removal /\ tab[j].st = "done"
    BY <1>7 DEF SelectJob, Apart
  <1>8. ASSUME Rescan(j) PROVE ~Removing /\ removal' = removal /\ tab[j].st = "done"
    BY <1>8 DEF Rescan, Apart
  <1>9. CASE ~RemovalAnswer
    <2>1. TabMoves(j)
      BY <1>0, TabStep
    <2> QED BY <1>1, <1>2, <1>3, <1>5, <1>6, <1>7, <1>8, <1>9, <2>1 DEF TabMoves
  <1> QED BY <1>4, <1>9


KeptInv == Waits => ViewsInv

LEMMA ViewsInvariant == Spec => []KeptInv
  <1>1. Init => KeptInv
    <2> SUFFICES ASSUME Init PROVE ViewsInv
      BY DEF KeptInv
    <2>1. ViewsFit
      BY DEF Init, NoTree, NoViews, ViewsFit
    <2>2. SlotsFit
      BY DEF Init, NoScan, Unopened, NewTab, SlotsFit, Scans
    <2>3. \A c \in Calls : CallFits(c)
      BY DEF Init, NoCall, CallFits
    <2>4. \A j \in Jobs, n \in Scans : TabFits(j, n)
      BY DEF Init, TabFits, Scans
    <2> QED BY <2>1, <2>2, <2>3, <2>4 DEF ViewsInv
  <1>2. ScansTypeOK /\ WholeInv /\ JobsInv /\ OneScanEach /\ KeptInv /\ [Next]_vars => KeptInv'
    <2> SUFFICES ASSUME ScansTypeOK, WholeInv, JobsInv, OneScanEach, KeptInv, [Next]_vars, Waits
                 PROVE  ViewsInv'
      BY DEF KeptInv
    <2>1. Orderly /\ ViewsInv
      BY OneEachIs DEF JobsInv, KeptInv, Orderly
    <2>2. ViewsFit' /\ SlotsFit'
      BY <2>1, ViewsStep, SlotsStep
    <2>3. ASSUME NEW c \in Calls PROVE CallFits(c)'
      BY <2>1, <2>3, CallsStep
    <2>4. ASSUME NEW j \in Jobs, NEW n \in Scans PROVE TabFits(j, n)'
      BY <2>1, <2>4, TabsStep
    <2> QED BY <2>2, <2>3, <2>4 DEF ViewsInv
  <1> QED BY <1>1, <1>2, ScansType, WholeInvariant, JobsInvariant, OneScanAtATime, PTL DEF Spec

(* Every view kept is the view of its tree, ViewsAreCurrent, for any       *)
(* number of jobs, scans and `view` commands: the folders the backend      *)
(* remembers (Cached::views in main.rs), those the window goes back to     *)
(* (job.viewCache in app.js) and the one on screen.                        *)
THEOREM KeptViewsAreCurrent == Spec => []ViewsAreCurrent
  <1>1. ScansTypeOK /\ JobsInv /\ KeptInv => ViewsAreCurrent
    <2> SUFFICES ASSUME ScansTypeOK, JobsInv, KeptInv, Waits, ~Removing, NEW j \in Jobs, Listed(j), slot[j] # 0,
                        \A n \in Scans : UnderWay(n) => scan[n].job # j
                 PROVE  /\ \A p \in Folders : {tree[slot[j]].views[p], tab[j].cache[p]} \subseteq {None, ViewOf(slot[j], p)}
                        /\ ~Asking(j) /\ ~tab[j].stale => tab[j].view = ViewOf(slot[j], tab[j].path)
      BY DEF ViewsAreCurrent
    <2>1. tab[j].st \in {"done", "queued"} /\ slot[j] \in Scans /\ tab[j].path \in Folders
      <3>1. tab[j].st # "running"
        BY DEF JobsInv, Pending, RunningIn, LiveIn, UnderWay
      <3> QED BY <3>1 DEF Listed, ScansTypeOK, WindowOK, BackendOK, Tab
    <2>2. ShowsTree(j, slot[j])
      BY <2>1 DEF KeptInv, ViewsInv, TabFits
    <2>3. \A p \in Folders : tree[slot[j]].views[p] \in {None, ViewIn(tree[slot[j]], p)}
      BY <2>1 DEF KeptInv, ViewsInv, ViewsFit
    <2>4. \A p : ViewOf(slot[j], p) = ViewIn(tree[slot[j]], p)
      BY DEF ViewOf, ViewIn
    <2>5. ~Asking(j) => ~\E c \in Calls : Refreshes(c, j)
      BY DEF Asking, Refreshes
    <2> QED BY <2>1, <2>2, <2>3, <2>4, <2>5 DEF ShowsTree
  <1> QED BY <1>1, ScansType, JobsInvariant, ViewsInvariant, PTL DEF Spec

=============================================================================
