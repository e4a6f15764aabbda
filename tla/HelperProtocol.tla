--------------------------- MODULE HelperProtocol ---------------------------
(***************************************************************************)
(* The elevated MFT helper (gui/src-tauri/src/helper.rs) and the side of   *)
(* the app that uses it (build_tree and mft_helper in main.rs).  The two   *)
(* processes share nothing but the files of one folder: requests, cancels, *)
(* results and outcomes named by job id, and two files touched to show     *)
(* that a process is there.  A job id comes back when the user rescans,    *)
(* and again from 1 when the app is started anew, so the model gives every *)
(* scan a number of its own to tell whose answer is whose.                 *)
(***************************************************************************)
EXTENDS Naturals, FiniteSets

CONSTANTS
  Ids,         \* job ids
  MaxScans,    \* bound on the scans asked for
  MaxHelpers,  \* bound on the helper processes started
  Worlds       \* what a behaviour may meet: [restart, slow, late, crash, jobs, scans]; the
               \* app may be started again after it quit, capturing and saving a snapshot
               \* may outlast HELPER_TIMEOUT, a helper may come up after CONSENT_TIMEOUT,
               \* helpers may be killed, and these jobs are used for so many scans

ASSUME HelperAssumption ==
  /\ MaxScans \in Nat /\ MaxHelpers \in Nat
  /\ Worlds \subseteq [restart : BOOLEAN, slow : BOOLEAN, late : BOOLEAN, crash : BOOLEAN,
                       jobs : SUBSET Ids, scans : 0..MaxScans]

Helpers == 1..MaxHelpers    \* a helper process, named by its token
Scans == 1..MaxScans

VARIABLES
  world,    \* a member of Worlds, the same for good
  app,      \* [up, slot, keeper]: AppState::helper, and whether `alive` is kept touched
  job,      \* job[id]: the scan of that job, as build_tree sees it
  last,     \* last[id]: what the job's latest scan was answered with
  asked,    \* scans asked for so far
  helper,   \* helper[h]: the helper process with token h
  started,  \* helper processes launched so far
  beat, alive,                    \* age of the two heart beat files
  request, result, done, cancel   \* the files, by job id

files == <<request, result, done, cancel>>
vars == <<world, app, job, last, asked, helper, started, beat, alive, files>>

NoJob == [st |-> "idle", ask |-> 0, token |-> 0, stop |-> FALSE]
NoHelper == [st |-> "off", todo |-> {}, id |-> 0, ask |-> 0, stop |-> FALSE]
NoRequest == [token |-> 0, ask |-> 0]
NoDone == [there |-> FALSE, ok |-> FALSE, cut |-> FALSE]
NoAnswer == [ask |-> 0, by |-> "none", got |-> 0, cut |-> FALSE, stop |-> FALSE]

Running(h) == helper[h].st \notin {"off", "gone"}
Up(h) == Running(h) /\ helper[h].st # "booting"

(* The folder exists: it is made, and `alive` touched, in one go. *)
DirUp == alive # "missing"

(* Mutant: a beat counts however old it is. *)
AliveIfThere == beat # "missing"

(* Helper::alive. *)
Alive == beat = "fresh"

Init ==
  /\ world \in Worlds
  /\ app = [up |-> TRUE, slot |-> 0, keeper |-> FALSE]
  /\ job = [i \in Ids |-> NoJob]
  /\ last = [i \in Ids |-> NoAnswer]
  /\ asked = 0
  /\ helper = [h \in Helpers |-> NoHelper]
  /\ started = 0
  /\ beat = "missing"
  /\ alive = "missing"
  /\ request = [i \in Ids |-> NoRequest]
  /\ result = [i \in Ids |-> 0]
  /\ done = [i \in Ids |-> NoDone]
  /\ cancel = {}

-----------------------------------------------------------------------------
(* The app.                                                                *)

(* The user scans, or rescans, with the Ultra engine. *)
Ask(i) ==
  /\ app.up /\ i \in world.jobs
  /\ job[i].st = "idle"
  /\ asked < world.scans
  /\ asked' = asked + 1
  /\ job' = [job EXCEPT ![i] = [NoJob EXCEPT !.st = "asking", !.ask = asked + 1]]
  /\ UNCHANGED <<world, app, last, helper, started, beat, alive, files>>

(* The `cancel` command flags the job's Progress. *)
Stop(i) ==
  /\ job[i].st # "idle"
  /\ ~job[i].stop
  /\ job' = [job EXCEPT ![i].stop = TRUE]
  /\ UNCHANGED <<world, app, last, asked, helper, started, beat, alive, files>>

(* Mutant: the slot is not locked while a helper is being started. *)
SlotNotLocked == TRUE

(* mft_helper holds the lock of the slot until the helper is up. *)
SlotFree == \A i \in Ids : job[i].st \notin {"wiped", "launched"}

(* Writing the request: the first step of Helper::scan. *)
SendRequest(i, h) ==
  IF DirUp
    THEN /\ request' = [request EXCEPT ![i] = [token |-> h, ask |-> job[i].ask]]
         /\ job' = [job EXCEPT ![i].st = "waiting", ![i].token = h]
    ELSE /\ UNCHANGED request
         /\ job' = [job EXCEPT ![i].st = "walking"]

UseHelper(i) ==
  /\ job[i].st = "asking"
  /\ SlotFree
  /\ app.slot # 0 /\ Alive
  /\ SendRequest(i, app.slot)
  /\ UNCHANGED <<world, app, last, asked, helper, started, beat, alive, result, done, cancel>>

(* Mutant: a helper that is up is not used again. *)
WipeAlways(i) ==
  /\ job[i].st = "asking"
  /\ SlotFree
  /\ job' = [job EXCEPT ![i].st = "wiped"]
  /\ beat' = "missing" /\ alive' = "missing"
  /\ request' = [x \in Ids |-> NoRequest]
  /\ result' = [x \in Ids |-> 0]
  /\ done' = [x \in Ids |-> NoDone]
  /\ cancel' = {}
  /\ UNCHANGED <<world, app, last, asked, helper, started>>

(* Helper::start: the folder and all that is in it are removed ...         *)
Wipe(i) ==
  /\ job[i].st = "asking"
  /\ SlotFree
  /\ app.slot = 0 \/ ~Alive
  /\ job' = [job EXCEPT ![i].st = "wiped"]
  /\ beat' = "missing" /\ alive' = "missing"
  /\ request' = [x \in Ids |-> NoRequest]
  /\ result' = [x \in Ids |-> 0]
  /\ done' = [x \in Ids |-> NoDone]
  /\ cancel' = {}
  /\ UNCHANGED <<world, app, last, asked, helper, started>>

(* ... made again, and a process with a new token started, if the user     *)
(* consents; the app touches `alive` while it waits for it.                *)
Launch(i) ==
  /\ job[i].st = "wiped"
  /\ alive' = "fresh"
  /\ \/ /\ started < MaxHelpers
        /\ started' = started + 1
        /\ helper' = [helper EXCEPT ![started + 1].st = "booting"]
        /\ job' = [job EXCEPT ![i].st = "launched", ![i].token = started + 1]
     \/ /\ UNCHANGED <<helper, started>>
        /\ job' = [job EXCEPT ![i].st = "walking"]
  /\ UNCHANGED <<world, app, last, asked, beat, files>>

(* The helper is up (or was: its ready file stays). *)
HelperReady(i) ==
  /\ job[i].st = "launched"
  /\ helper[job[i].token].st # "booting"
  /\ app' = [app EXCEPT !.slot = job[i].token, !.keeper = TRUE]
  /\ alive' = "fresh"
  /\ SendRequest(i, job[i].token)
  /\ UNCHANGED <<world, last, asked, helper, started, beat, result, done, cancel>>

(* A start waits for the process h to come up. *)
Awaited(h) == \E i \in Ids : job[i].st = "launched" /\ job[i].token = h

(* CONSENT_TIMEOUT is over and the helper not up: start fails, the slot is *)
(* left as it was.  Nobody calls the process off: where the world is late, *)
(* it may come up later all the same.                                      *)
StartTimesOut(i) ==
  /\ job[i].st = "launched"
  /\ helper[job[i].token].st = "booting"
  /\ job' = [job EXCEPT ![i].st = "walking"]
  /\ \/ helper' = [helper EXCEPT ![job[i].token].st = "gone"]
     \/ world.late /\ UNCHANGED helper
  /\ UNCHANGED <<world, app, last, asked, started, beat, alive, files>>

(* One round of the loop in Helper::scan without an outcome file: the      *)
(* cancel is passed on, and a helper that stopped beating is given up.     *)
PollCancel(i) ==
  /\ job[i].st = "waiting"
  /\ ~done[i].there
  /\ job[i].stop /\ DirUp
  /\ cancel' = cancel \cup {i}
  /\ UNCHANGED <<world, app, job, last, asked, helper, started, beat, alive, request, result, done>>

GiveUp(i) ==
  /\ job[i].st = "waiting"
  /\ ~done[i].there
  /\ ~Alive
  /\ job' = [job EXCEPT ![i].st = "walking"]
  /\ UNCHANGED <<world, app, last, asked, helper, started, beat, alive, files>>

(* Mutant: nothing is removed once the result is loaded. *)
TakeKeepsFiles(i) ==
  LET whole == done[i].ok /\ result[i] # 0
  IN /\ job[i].st = "waiting"
     /\ done[i].there
     /\ IF whole
          THEN /\ last' = [last EXCEPT ![i] = [ask |-> job[i].ask, by |-> "helper", got |-> result[i],
                                               cut |-> done[i].cut, stop |-> job[i].stop]]
               /\ job' = [job EXCEPT ![i] = NoJob]
          ELSE /\ job' = [job EXCEPT ![i].st = "walking"]
               /\ UNCHANGED last
     /\ request' = [request EXCEPT ![i] = NoRequest]
     /\ UNCHANGED <<world, result, done, cancel, app, asked, helper, started, beat, alive>>

(* An outcome file: the result is loaded if there should be one, and the   *)
(* job's files are removed.                                                *)
Take(i) ==
  LET whole == done[i].ok /\ result[i] # 0
  IN /\ job[i].st = "waiting"
     /\ done[i].there
     /\ IF whole
          THEN /\ last' = [last EXCEPT ![i] = [ask |-> job[i].ask, by |-> "helper", got |-> result[i],
                                               cut |-> done[i].cut, stop |-> job[i].stop]]
               /\ job' = [job EXCEPT ![i] = NoJob]
          ELSE /\ job' = [job EXCEPT ![i].st = "walking"]
               /\ UNCHANGED last
     /\ request' = [request EXCEPT ![i] = NoRequest]
     /\ result' = [result EXCEPT ![i] = 0]
     /\ done' = [done EXCEPT ![i] = NoDone]
     /\ cancel' = cancel \ {i}
     /\ UNCHANGED <<world, app, asked, helper, started, beat, alive>>

(* build_tree falls back to the directory walk. *)
Walk(i) ==
  /\ job[i].st = "walking"
  /\ last' = [last EXCEPT ![i] = [ask |-> job[i].ask, by |-> "walk", got |-> job[i].ask,
                                  cut |-> job[i].stop, stop |-> job[i].stop]]
  /\ job' = [job EXCEPT ![i] = NoJob]
  /\ UNCHANGED <<world, app, asked, helper, started, beat, alive, files>>

AppStep(i) ==
  \/ UseHelper(i) \/ Wipe(i) \/ Launch(i) \/ HelperReady(i) \/ StartTimesOut(i)
  \/ PollCancel(i) \/ GiveUp(i) \/ Take(i) \/ Walk(i)

(* The app is closed, whatever it was doing, and its threads with it. *)
AppQuits ==
  /\ app.up
  /\ app' = [up |-> FALSE, slot |-> 0, keeper |-> FALSE]
  /\ job' = [i \in Ids |-> NoJob]
  /\ UNCHANGED <<world, last, asked, helper, started, beat, alive, files>>

AppStarts ==
  /\ world.restart
  /\ ~app.up
  /\ app' = [app EXCEPT !.up = TRUE]
  /\ UNCHANGED <<world, job, last, asked, helper, started, beat, alive, files>>

-----------------------------------------------------------------------------
(* A helper process (serve and handle).                                    *)

Touched(file) == IF DirUp THEN "fresh" ELSE file

(* Before it is ready it touches both heart beats.  A job still waiting    *)
(* for the previous helper polls every 120 ms and has given up by the time *)
(* the user has answered the consent prompt of the next; a prompt that is  *)
(* answered late has been there for long.                                  *)
Boot(h) ==
  /\ helper[h].st = "booting"
  /\ Awaited(h) => Alive \/ \A i \in Ids : job[i].st # "waiting"
  /\ helper' = [helper EXCEPT ![h].st = "serving"]
  /\ beat' = Touched(beat)
  /\ alive' = Touched(alive)
  /\ UNCHANGED <<world, app, job, last, asked, started, files>>

(* Mutant: only a missing `alive` makes the helper quit, not an old one. *)
LookMissingOnly(h) ==
  /\ helper[h].st = "serving" /\ helper[h].todo = {}
  /\ beat' = Touched(beat)
  /\ helper' = IF ~DirUp THEN [helper EXCEPT ![h].st = "gone"]
               ELSE [helper EXCEPT ![h].todo = {i \in Ids : request[i] # NoRequest}]
  /\ UNCHANGED <<world, app, job, last, asked, started, alive, files>>

(* The top of the loop: beat, quit without the app, look for requests. *)
Look(h) ==
  /\ helper[h].st = "serving" /\ helper[h].todo = {}
  /\ beat' = Touched(beat)
  /\ helper' = IF alive # "fresh" THEN [helper EXCEPT ![h].st = "gone"]
               ELSE [helper EXCEPT ![h].todo = {i \in Ids : request[i] # NoRequest}]
  /\ UNCHANGED <<world, app, job, last, asked, started, alive, files>>

(* The next request found is read and removed, whoever it is meant for. *)
PickUp(h) ==
  /\ helper[h].st = "serving"
  /\ \E i \in helper[h].todo :
       /\ request' = [request EXCEPT ![i] = NoRequest]
       /\ helper' =
            IF request[i].token = h
              THEN [helper EXCEPT ![h] = [st |-> "building", todo |-> @.todo \ {i}, id |-> i,
                                          ask |-> request[i].ask, stop |-> FALSE]]
              ELSE [helper EXCEPT ![h].todo = @ \ {i}]
  /\ UNCHANGED <<world, app, job, last, asked, started, beat, alive, result, done, cancel>>

(* The reporter thread, while the tree is built. *)
Report(h) ==
  /\ helper[h].st = "building"
  /\ beat' = Touched(beat)
  /\ helper' = [helper EXCEPT ![h].stop = @ \/ helper[h].id \in cancel]
  /\ UNCHANGED <<world, app, job, last, asked, started, alive, files>>

(* The tree is there; the reporter is stopped before it is captured. *)
Built(h) ==
  /\ helper[h].st = "building"
  /\ helper' = [helper EXCEPT ![h].st = "saving"]
  /\ UNCHANGED <<world, app, job, last, asked, started, beat, alive, files>>

(* The snapshot is saved under the job's id, or it cannot be. *)
Save(h) ==
  /\ helper[h].st = "saving"
  /\ \/ /\ DirUp
        /\ result' = [result EXCEPT ![helper[h].id] = helper[h].ask]
        /\ helper' = [helper EXCEPT ![h].st = "saved"]
     \/ /\ UNCHANGED result
        /\ helper' = [helper EXCEPT ![h].st = "unsaved"]
  /\ UNCHANGED <<world, app, job, last, asked, started, beat, alive, request, done, cancel>>

(* The outcome is written, and the loop goes on. *)
Outcome(h) ==
  /\ helper[h].st \in {"saved", "unsaved"}
  /\ done' = IF DirUp
               THEN [done EXCEPT ![helper[h].id] =
                       [there |-> TRUE, ok |-> helper[h].st = "saved", cut |-> helper[h].stop]]
               ELSE done
  /\ helper' = [helper EXCEPT ![h] = [NoHelper EXCEPT !.st = "serving", !.todo = helper[h].todo]]
  /\ UNCHANGED <<world, app, job, last, asked, started, beat, alive, request, result, cancel>>

HelperStep(h) ==
  Boot(h) \/ Look(h) \/ PickUp(h) \/ Report(h) \/ Built(h) \/ Save(h) \/ Outcome(h)

(* The process is killed. *)
Crash(h) ==
  /\ world.crash
  /\ Running(h) /\ helper[h].st # "booting"
  /\ helper' = [helper EXCEPT ![h] = [NoHelper EXCEPT !.st = "gone"]]
  /\ UNCHANGED <<world, app, job, last, asked, started, beat, alive, files>>

-----------------------------------------------------------------------------
(* Time passes: a file nobody touches grows old.                           *)

Beating(h) ==
  \/ helper[h].st \in {"serving", "building"}
  \/ helper[h].st \in {"saving", "saved", "unsaved"} /\ ~world.slow

BeatAges ==
  /\ beat = "fresh"
  /\ \A h \in Helpers : ~Beating(h)
  /\ beat' = "stale"
  /\ UNCHANGED <<world, app, job, last, asked, helper, started, alive, files>>

AliveAges ==
  /\ alive = "fresh"
  /\ ~app.keeper /\ \A i \in Ids : job[i].st # "launched"
  /\ alive' = "stale"
  /\ UNCHANGED <<world, app, job, last, asked, helper, started, beat, files>>

Next ==
  \/ \E i \in Ids : Ask(i) \/ Stop(i) \/ AppStep(i)
  \/ AppQuits \/ AppStarts
  \/ \E h \in Helpers : HelperStep(h) \/ Crash(h)
  \/ BeatAges \/ AliveAges

Spec == Init /\ [][Next]_vars

(* Neither the app's threads nor a helper that runs stop for good, the     *)
(* user answers the prompt, and time passes.  Nobody has to ask, cancel,   *)
(* quit or crash.                                                          *)
FairSpec ==
  /\ Spec
  /\ \A i \in Ids : WF_vars(AppStep(i))
  /\ \A h \in Helpers : WF_vars(HelperStep(h))
  /\ WF_vars(BeatAges)
  /\ WF_vars(AliveAges)

JobState == [st : {"idle", "asking", "wiped", "launched", "waiting", "walking"},
             ask : 0..MaxScans, token : 0..MaxHelpers, stop : BOOLEAN]
HelperState ==
  [st : {"off", "booting", "serving", "building", "saving", "saved", "unsaved", "gone"},
   todo : SUBSET Ids, id : Ids \cup {0}, ask : 0..MaxScans, stop : BOOLEAN]
Answer == [ask : 0..MaxScans, by : {"none", "helper", "walk"}, got : 0..MaxScans,
           cut : BOOLEAN, stop : BOOLEAN]
Request == [token : 0..MaxHelpers, ask : 0..MaxScans]
Done == [there : BOOLEAN, ok : BOOLEAN, cut : BOOLEAN]
Ages == {"fresh", "stale", "missing"}

TypeOK ==
  /\ world \in Worlds
  /\ app \in [up : BOOLEAN, slot : 0..MaxHelpers, keeper : BOOLEAN]
  /\ job \in [Ids -> JobState] /\ last \in [Ids -> Answer]
  /\ asked \in 0..MaxScans /\ started \in 0..MaxHelpers
  /\ helper \in [Helpers -> HelperState]
  /\ beat \in Ages /\ alive \in Ages
  /\ request \in [Ids -> Request] /\ result \in [Ids -> 0..MaxScans]
  /\ done \in [Ids -> Done] /\ cancel \subseteq Ids

(* One job at a time is starting a helper, and the process it waits for is *)
(* the youngest; the helper in the slot was started by this run of the app.*)
ProtocolInv ==
  /\ TypeOK
  /\ \A i, j \in Ids :
       job[i].st \in {"wiped", "launched"} /\ job[j].st \in {"wiped", "launched"} => i = j
  /\ \A i \in Ids : job[i].st = "launched" => job[i].token = started
  /\ app.slot # 0 => app.keeper /\ helper[app.slot].st # "off"

(* The app is started once and saves are quick ... *)
Quick == ~world.restart /\ ~world.slow

(* ... and a helper that is not up in time does not come up. *)
Calm == Quick /\ ~world.late

(* A helper that is up, but is not the one this run of the app uses or     *)
(* waits for.                                                              *)
Stranger == \E h \in Helpers : Up(h) /\ h # app.slot /\ ~Awaited(h)

(* A scan is never given the answer to another one of the same job ("A     *)
(* fresh folder: nothing old can be mistaken for an answer"), also when a  *)
(* helper given up comes up in the same folder.  With a restart and a slow *)
(* save it may be.                                                         *)
OwnAnswer == Quick => \A i \in Ids : last[i].got = last[i].ask

(* A tree is marked as cut short only if this very scan was cancelled: the *)
(* file `cancel-<id>` is there to "stop that scan".                        *)
CancelOnlyOwn == \A i \in Ids : last[i].cut => last[i].stop

(* The user is asked for consent, and a second elevated process started,   *)
(* only when none is running, unless one is left of an earlier run or may  *)
(* come up late.                                                           *)
PromptsOnlyWithoutHelper ==
  [][(Calm /\ started' > started) => \A h \in Helpers : ~Running(h)]_vars

(* "For the Ultra engine the app starts its own executable a second time - *)
(* elevated, without a window, after the user consents once per session"   *)
(* (helper.rs 8-11): in one session no two helpers are up together.        *)
OneHelper == Quick => \A h, k \in Helpers : Up(h) /\ Up(k) => h = k

(* Every scan comes to an end, through the helper or, for "any problem     *)
(* there", through the directory walk, unless the app is closed.           *)
EveryScanEnds == \A i \in Ids : job[i].st # "idle" ~> job[i].st = "idle"

(* The same in every world, but for scans that meet a stranger after they  *)
(* were asked for: helpers that are killed or too slow, prompts that are   *)
(* declined or time out, and folders wiped under them hold no scan up.     *)
OnlyStrangersHang ==
  \A i \in Ids : job[i].st = "asking" ~> (job[i].st = "idle" \/ Stranger)

(* Once the app is gone for good, no elevated process stays behind.        *)
HelperQuits == <>[](~app.up) => <>[](\A h \in Helpers : ~Running(h))

=============================================================================
