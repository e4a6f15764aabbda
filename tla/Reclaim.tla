------------------------------ MODULE Reclaim ------------------------------
(***************************************************************************)
(* Reclaiming duplicates: `reclaim` (crates/diskghost-core/src/lib.rs) as  *)
(* run by the command reclaim_dupes (gui/src-tauri/src/main.rs) and by the *)
(* dupes view that starts it and drops what it dealt with (reclaimShown,   *)
(* dropReclaimed).  The view stays usable while a command runs, so that    *)
(* commands of one tab or of several may overlap.  A command here acts on  *)
(* one group; the code goes through the groups shown one after the other.  *)
(***************************************************************************)
EXTENDS DuplicateSearch

CONSTANTS
  Commands,   \* reclaim_dupes commands that may run at a time
  Actions,    \* the actions the user picks from
  Temp,       \* Temp[p]: the path of p with ".dghtmp"; only paths that have
              \* one (bound) are reclaimed, None will do when nothing is linked
  Posix,      \* rename between two links of one file does nothing
  MayFail,    \* any operation of the file system may fail
  Overlap,    \* a search may begin while a command runs (in the app: yes)
  MayCrash    \* the app may go down, and be started again

ASSUME ReclaimAssumption ==
  /\ Actions \subseteq {"delete", "trash", "hardlink"}
  /\ DOMAIN Temp \subseteq Paths
  /\ \A p \in DOMAIN Temp :
       Temp[p] \in Paths \ {p} \/ (Temp[p] = None /\ "hardlink" \notin Actions)
  /\ {Posix, MayFail, Overlap, MayCrash} \subseteq BOOLEAN

VARIABLES
  saved,   \* the hash cache as it is on disk
  cmd,     \* cmd[k]: the command k under way
  trash    \* what the files in the trash hold

reclaimVars == <<vars, cmd, saved, trash>>

NoCommand == [st |-> "off", tab |-> None, nr |-> 0, act |-> "delete", keep |-> None,
              todo |-> {}, path |-> None, done |-> {}]

ReclaimInit ==
  /\ Init
  /\ saved = NoCache
  /\ cmd = [k \in Commands |-> NoCommand]
  /\ trash = {}

-----------------------------------------------------------------------------
(* Mutant: the file to keep is not left out. *)
StartWithKeep(k, t) ==
  /\ cmd[k].st = "off"
  /\ \E g \in groups[t], act \in Actions :
       \E keep \in g.files, ps \in SUBSET (g.files \cap DOMAIN Temp) :
         /\ ps # {}
         /\ cmd' = [cmd EXCEPT ![k] = [NoCommand EXCEPT !.st = "on", !.tab = t,
              !.nr = search[t].nr, !.act = act, !.keep = keep, !.todo = ps]]
  /\ UNCHANGED <<vars, saved, trash>>

(* reclaimShown: any file of the group may be picked as the one to keep,   *)
(* and any others be left out (hidden program files).                      *)
Start(k, t) ==
  /\ cmd[k].st = "off"
  /\ \E g \in groups[t], act \in Actions :
       \E keep \in g.files, ps \in SUBSET (g.files \cap DOMAIN Temp) :
         /\ ps \ {keep} # {}
         /\ cmd' = [cmd EXCEPT ![k] = [NoCommand EXCEPT
              !.st = "on", !.tab = t, !.nr = search[t].nr,
              !.act = act, !.keep = keep, !.todo = ps \ {keep}]]
  /\ UNCHANGED <<vars, saved, trash>>

(* The command is through with a path. *)
Dealt(k, p, ok) ==
  cmd' = [cmd EXCEPT ![k].st = "on", ![k].todo = @ \ {p}, ![k].path = None,
                     ![k].done = IF ok THEN @ \cup {p} ELSE @]

(* std::fs::remove_file or trash::delete. *)
Remove(k, p) ==
  /\ Exists(p)
  /\ at' = [at EXCEPT ![p] = None]
  /\ trash' = IF cmd[k].act = "trash" THEN trash \cup {ContentAt(p)} ELSE trash
  /\ Touch({p})
  /\ Dealt(k, p, TRUE)

RemoveFails(k, p) ==
  /\ MayFail \/ ~Exists(p)
  /\ Dealt(k, p, FALSE)
  /\ UNCHANGED <<at, trash, changed>>

RemoveCopy(k) ==
  /\ cmd[k].st = "on" /\ cmd[k].act # "hardlink"
  /\ \E p \in cmd[k].todo : Remove(k, p) \/ RemoveFails(k, p)
  /\ UNCHANGED <<data, cache, search, groups, edits, searches, saved>>

(* Mutant: the file is removed before the link is made in its place. *)
RemoveThenLink(k) ==
  /\ cmd[k].st = "on" /\ cmd[k].act = "hardlink"
  /\ Exists(cmd[k].keep)
  /\ \E p \in cmd[k].todo :
       /\ ~Exists(Temp[p])
       /\ at' = [at EXCEPT ![Temp[p]] = at[cmd[k].keep], ![p] = None]
       /\ Touch({p, Temp[p]})
       /\ cmd' = [cmd EXCEPT ![k].st = "linked", ![k].path = p]
  /\ UNCHANGED <<data, cache, search, groups, edits, searches, saved, trash>>

(* hard_link(keep, tmp). *)
Link(k) ==
  /\ cmd[k].st = "on" /\ cmd[k].act = "hardlink"
  /\ Exists(cmd[k].keep)
  /\ \E p \in cmd[k].todo :
       /\ ~Exists(Temp[p])
       /\ at' = [at EXCEPT ![Temp[p]] = at[cmd[k].keep]]
       /\ Touch({Temp[p]})
       /\ cmd' = [cmd EXCEPT ![k].st = "linked", ![k].path = p]
  /\ UNCHANGED <<data, cache, search, groups, edits, searches, saved, trash>>

(* map_err: whatever is at the temporary path is removed, also a file of   *)
(* the user's that was there before.                                       *)
HardlinkFails(k, p) ==
  /\ at' = [at EXCEPT ![Temp[p]] = None]
  /\ Touch({Temp[p]})
  /\ Dealt(k, p, FALSE)

LinkFails(k) ==
  /\ cmd[k].st = "on" /\ cmd[k].act = "hardlink"
  /\ \E p \in cmd[k].todo :
       /\ MayFail \/ ~Exists(cmd[k].keep) \/ Exists(Temp[p])
       /\ HardlinkFails(k, p)
  /\ UNCHANGED <<data, cache, search, groups, edits, searches, saved, trash>>

(* rename(tmp, p).  POSIX: when both are links of one file it does nothing *)
(* and succeeds.                                                           *)
Rename(k) ==
  LET p == cmd[k].path
      noop == Posix /\ at[p] = at[Temp[p]]
  IN /\ cmd[k].st = "linked"
     /\ \/ /\ Exists(Temp[p])
           /\ at' = IF noop THEN at ELSE [at EXCEPT ![p] = at[Temp[p]], ![Temp[p]] = None]
           /\ Touch({p, Temp[p]})
           /\ Dealt(k, p, TRUE)
        \/ /\ MayFail \/ ~Exists(Temp[p])
           /\ HardlinkFails(k, p)
     /\ UNCHANGED <<data, cache, search, groups, edits, searches, saved, trash>>

(* dropReclaimed. *)
Dropped(gs, done) ==
  {g \in {[g EXCEPT !.files = @ \ done] : g \in gs} : Cardinality(g.files) > 1}

(* The command returns and its tab drops what is done. *)
End(k) ==
  /\ cmd[k].st = "on" /\ cmd[k].todo = {}
  /\ groups' = [groups EXCEPT ![cmd[k].tab] = Dropped(@, cmd[k].done)]
  /\ cmd' = [cmd EXCEPT ![k] = NoCommand]
  /\ UNCHANGED <<fs, cache, search, changed, edits, searches, saved, trash>>

ReclaimStep(k) ==
  \/ \E t \in Tabs : Start(k, t)
  \/ RemoveCopy(k) \/ Link(k) \/ LinkFails(k) \/ Rename(k) \/ End(k)

(* The background save of find_dupes.  Only a restart reads it. *)
SaveCache ==
  /\ Cached /\ MayCrash
  /\ saved # cache
  /\ saved' = cache
  /\ UNCHANGED <<vars, cmd, trash>>

(* The app goes down at any moment and comes up with the hash cache last   *)
(* written, or with none when that file is damaged.                        *)
Crash ==
  /\ MayCrash
  /\ cmd' = [k \in Commands |-> NoCommand]
  /\ search' = [t \in Tabs |-> Idle]
  /\ groups' = [t \in Tabs |-> {}]
  /\ cache' \in {saved, NoCache}
  /\ UNCHANGED <<fs, changed, edits, searches, saved, trash>>

ReclaimNext ==
  \/ /\ Next
     /\ Overlap \/ searches' = searches \/ \A k \in Commands : cmd[k].st = "off"
     /\ UNCHANGED <<cmd, saved, trash>>
  \/ \E k \in Commands : ReclaimStep(k)
  \/ SaveCache \/ Crash

ReclaimSpec == ReclaimInit /\ [][ReclaimNext]_reclaimVars

-----------------------------------------------------------------------------
(* Every variable has its type, and what a command still has to do, what   *)
(* it has done and what it keeps are apart (lib.rs 503-505, and the test   *)
(* reclaim_skips_keep_listed_in_remove).                                   *)
ReclaimInv ==
  /\ DupTypeOK
  /\ saved \in [Paths -> Known \cup {None}]
  /\ trash \subseteq Contents
  /\ \A k \in Commands :
       /\ cmd[k].st \in {"off", "on", "linked"}
       /\ cmd[k].todo \cup cmd[k].done \subseteq DOMAIN Temp
       /\ cmd[k].todo \cap cmd[k].done = {}
       /\ cmd[k].keep \notin cmd[k].todo \cup cmd[k].done
       /\ cmd[k].st = "linked" => cmd[k].path \in cmd[k].todo

(* "Keep `keep`, act on every path in `remove`" (lib.rs 488-490): as long  *)
(* as neither a path still to be removed nor the file to keep was changed  *)
(* since the search that found them began, whatever happens to the path    *)
(* leaves its content at the file to keep, or in its own place.            *)
KeepsACopy ==
  [][\A k \in Commands : \A p \in cmd[k].todo :
       /\ {p, cmd[k].keep} \cap Touched(cmd[k].nr) = {}
       /\ Exists(p) /\ at'[p] # at[p]
       => \E x \in {p, cmd[k].keep} : Exists(x)' /\ ContentAt(x)' = ContentAt(p)]_reclaimVars

(* "No data-loss window like a remove-then-link would have" (lib.rs 517):  *)
(* no step of the app, a crash included, takes a file away that is only to *)
(* be replaced by a hard link.  A file whose own name is that of another   *)
(* with ".dghtmp" is excepted: where that one's link fails it is removed.  *)
FileStaysInPlace ==
  [][\A k \in Commands : cmd[k].act = "hardlink" /\ edits' = edits =>
       \A p \in cmd[k].todo :
         /\ Exists(p) /\ \A l \in Commands : p \in cmd[l].todo => cmd[l].act = "hardlink"
         /\ \A q \in DOMAIN Temp : Temp[q] # p
         => Exists(p)']_reclaimVars

(* "One file per group is always kept" (README.md 100): with the user      *)
(* changing nothing, no step of the app takes the last file away, trash    *)
(* included, that holds some content.                                      *)
Held == {ContentAt(p) : p \in {x \in Paths : Exists(x)}} \cup trash
OneFileKept == [][edits' = edits => Held \subseteq Held']_reclaimVars

(* "If linking fails, `p` is left untouched -- no data-loss window like a  *)
(* remove-then-link would have" (lib.rs 516-517): a hard link that fails   *)
(* loses no content.                                                       *)
FailedLinkLosesNothing == [][(\E k \in Commands : LinkFails(k)) => Held \subseteq Held']_reclaimVars

=============================================================================
