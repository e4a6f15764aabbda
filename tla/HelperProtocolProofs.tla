------------------------ MODULE HelperProtocolProofs ------------------------
(***************************************************************************)
(* Proofs about HelperProtocol, for any jobs, any numbers of scans and of  *)
(* helper processes, and any worlds.                                       *)
(***************************************************************************)
EXTENDS HelperProtocol, TLAPS

Starting(i) == job[i].st \in {"wiped", "launched"}
Busy(h) == helper[h].st \in {"building", "saving", "saved", "unsaved"}
SlotUp == \E h \in Helpers : h = app.slot /\ Up(h)

(* Nothing is there, or under way, that is about job i. *)
Clean(i) ==
  /\ request[i] = NoRequest /\ result[i] = 0 /\ ~done[i].there
  /\ \A h \in Helpers : Busy(h) => helper[h].id # i

(* What holds in every world: without the app there are no jobs, and a job *)
(* that waits for a process to come up is the only one to start one, and   *)
(* waits for the youngest.                                                 *)
StartInv ==
  /\ ~app.up => \A i \in Ids : job[i].st = "idle"
  /\ \A h \in Helpers : h > started <=> helper[h].st = "off"
  /\ \A i \in Ids : job[i].st = "launched" => job[i].token \in Helpers /\ job[i].token = started /\ DirUp
  /\ \A i, j \in Ids : Starting(i) /\ Starting(j) => i = j
  /\ app.slot # 0 => app.keeper /\ helper[app.slot].st # "off"

(* The helper of the slot is heard as long as it is up, and so is the one  *)
(* a start waits for.                                                      *)
Heard ==
  /\ SlotUp => beat = "fresh"
  /\ beat = "fresh" => DirUp
  /\ app.slot # 0 => helper[app.slot].st # "booting"
  /\ \A i \in Ids :
       /\ job[i].st = "wiped" => ~DirUp
       /\ job[i].st = "launched" /\ Up(job[i].token) => beat = "fresh"

(* It alone works, and requests are meant for it. *)
OneWorks ==
  /\ \A h \in Helpers : Busy(h) => h = app.slot
  /\ \A i \in Ids : request[i] # NoRequest => request[i].token = app.slot

(* While a helper is being started the one before is gone, and the folder  *)
(* is empty.                                                               *)
FreshFolder ==
  \A i \in Ids : Starting(i) => ~SlotUp /\ \A j \in Ids : Clean(j)

(* While the helper of the slot is up, the folder is about jobs that wait. *)
(* There is never an outcome for another.                                  *)
OnlyWaiting ==
  \A i \in Ids : job[i].st # "waiting" => ~done[i].there /\ (SlotUp => Clean(i))

(* What is in the folder of a job that waits is of its present scan, and   *)
(* in one place: asked, being worked on, or answered.                      *)
OwnFiles ==
  \A i \in Ids : job[i].st = "waiting" =>
    /\ done[i].there => request[i] = NoRequest /\ (done[i].ok => result[i] = job[i].ask)
    /\ SlotUp => /\ request[i] # NoRequest => request[i].ask = job[i].ask
                 /\ result[i] \in {0, job[i].ask}
    /\ \A h \in Helpers : Busy(h) /\ helper[h].id = i =>
         /\ helper[h].ask = job[i].ask
         /\ request[i] = NoRequest /\ ~done[i].there
         /\ helper[h].st = "saved" => result[i] = job[i].ask

QuickInv == Heard /\ OneWorks /\ FreshFolder /\ OnlyWaiting /\ OwnFiles

(* Where no helper comes up late one runs: that of the slot, or the one    *)
(* being started.                                                          *)
OneRuns ==
  \A h \in Helpers :
    /\ Running(h) => \/ h = app.slot /\ Up(h)
                     \/ \E i \in Ids : job[i].st = "launched"
    /\ \A i \in Ids : Starting(i) /\ Running(h) => job[i].st = "launched" /\ h = started

HelperInv ==
  /\ ProtocolInv
  /\ StartInv
  /\ Quick /\ app.up => QuickInv
  /\ Calm /\ app.up => OneRuns
  /\ OwnAnswer

LEMMA Sizes == MaxScans \in Nat /\ MaxHelpers \in Nat
BY HelperAssumption

(* The records that the steps write. *)
LEMMA JobUpdates ==
  ASSUME NEW r \in JobState
  PROVE  /\ \A s \in {"idle", "asking", "wiped", "launched", "waiting", "walking"} :
              /\ [r EXCEPT !.st = s] = [st |-> s, ask |-> r.ask, token |-> r.token, stop |-> r.stop]
              /\ \A h \in 0..MaxHelpers :
                   [st |-> s, ask |-> r.ask, token |-> h, stop |-> r.stop] \in JobState
         /\ \A b \in BOOLEAN :
              /\ [r EXCEPT !.stop = b] \in JobState
              /\ [r EXCEPT !.stop = b] = [st |-> r.st, ask |-> r.ask, token |-> r.token, stop |-> b]
BY DEF JobState

LEMMA HelperUpdates ==
  ASSUME NEW r \in HelperState
  PROVE  /\ \A s \in {"booting", "serving", "saving", "saved", "unsaved", "gone"} :
              /\ [r EXCEPT !.st = s] \in HelperState
              /\ [r EXCEPT !.st = s] = [st |-> s, todo |-> r.todo, id |-> r.id, ask |-> r.ask, stop |-> r.stop]
         /\ \A t \in SUBSET Ids :
              /\ [r EXCEPT !.todo = t] \in HelperState
              /\ [r EXCEPT !.todo = t] = [st |-> r.st, todo |-> t, id |-> r.id, ask |-> r.ask, stop |-> r.stop]
         /\ \A b \in BOOLEAN :
              /\ [r EXCEPT !.stop = b] \in HelperState
              /\ [r EXCEPT !.stop = b] = [st |-> r.st, todo |-> r.todo, id |-> r.id, ask |-> r.ask, stop |-> b]
BY DEF HelperState

LEMMA UseJob ==
  ASSUME TypeOK, NEW i \in Ids, NEW h \in Helpers, SendRequest(i, h)
  PROVE  /\ request' \in [Ids -> Request] /\ job' \in [Ids -> JobState]
         /\ \A j \in Ids \ {i} : job'[j] = job[j] /\ request'[j] = request[j]
         /\ job'[i].ask = job[i].ask
         /\ \/ /\ DirUp
               /\ request'[i] = [token |-> h, ask |-> job[i].ask]
               /\ job'[i].st = "waiting" /\ job'[i].token = h
            \/ ~DirUp /\ job'[i].st = "walking" /\ request'[i] = request[i]
<1>1. job \in [Ids -> JobState] /\ request \in [Ids -> Request] /\ h \in 0..MaxHelpers
  BY Sizes DEF TypeOK, Helpers
<1>2. job[i].ask \in 0..MaxScans
  BY <1>1 DEF JobState
<1>3. [token |-> h, ask |-> job[i].ask] \in Request
  BY <1>1, <1>2 DEF Request
<1>5. CASE DirUp
  <2> DEFINE new == [st |-> "waiting", ask |-> job[i].ask, token |-> h, stop |-> job[i].stop]
  <2>1. job' = [job EXCEPT ![i] = new]
    BY <1>5, <1>1 DEF SendRequest, JobState
  <2>2. new \in JobState /\ new.ask = job[i].ask /\ new.st = "waiting" /\ new.token = h
    BY <1>1, JobUpdates
  <2>3. request' = [request EXCEPT ![i] = [token |-> h, ask |-> job[i].ask]]
    BY <1>5 DEF SendRequest
  <2> HIDE DEF new
  <2> QED
    BY <1>1, <1>3, <1>5, <2>1, <2>2, <2>3
<1>6. CASE ~DirUp
  <2> DEFINE new == [st |-> "walking", ask |-> job[i].ask, token |-> job[i].token, stop |-> job[i].stop]
  <2>1. job' = [job EXCEPT ![i] = new]
    BY <1>6, <1>1, JobUpdates DEF SendRequest
  <2>2. new \in JobState /\ new.ask = job[i].ask /\ new.st = "walking"
    BY <1>1 DEF JobState
  <2>3. request' = request
    BY <1>6 DEF SendRequest
  <2> HIDE DEF new
  <2> QED
    BY <1>1, <1>6, <2>1, <2>2, <2>3
<1> QED
  BY <1>5, <1>6

JobStates == {"idle", "asking", "wiped", "launched", "waiting", "walking"}

(* Only the state of job i changes. *)
LEMMA JobMoves ==
  ASSUME TypeOK, NEW i \in Ids, NEW s \in JobStates, job' = [job EXCEPT ![i].st = s]
  PROVE  /\ job' \in [Ids -> JobState]
         /\ \A j \in Ids \ {i} : job'[j] = job[j]
         /\ job'[i].st = s /\ job'[i].ask = job[i].ask /\ job'[i].token = job[i].token
<1> DEFINE new == [st |-> s, ask |-> job[i].ask, token |-> job[i].token, stop |-> job[i].stop]
<1>1. job \in [Ids -> JobState]
  BY DEF TypeOK
<1>2. job' = [job EXCEPT ![i] = new]
  BY <1>1, JobUpdates DEF JobStates
<1>3. new \in JobState /\ new.st = s /\ new.ask = job[i].ask /\ new.token = job[i].token
  BY <1>1 DEF JobState, JobStates
<1> HIDE DEF new
<1> QED
  BY <1>1, <1>2, <1>3

LEMMA JobOver ==
  ASSUME TypeOK, NEW i \in Ids, job' = [job EXCEPT ![i] = NoJob]
  PROVE  /\ job' \in [Ids -> JobState]
         /\ \A j \in Ids \ {i} : job'[j] = job[j]
         /\ job'[i].st = "idle"
<1>1. NoJob \in JobState /\ NoJob.st = "idle"
  BY Sizes DEF NoJob, JobState
<1>2. job \in [Ids -> JobState]
  BY DEF TypeOK
<1> QED
  BY <1>1, <1>2

HelperStates == {"booting", "serving", "saving", "saved", "unsaved", "gone"}

(* Only the state of helper h changes. *)
LEMMA HelperMoves ==
  ASSUME TypeOK, NEW h \in Helpers, NEW s \in HelperStates, helper' = [helper EXCEPT ![h].st = s]
  PROVE  /\ helper' \in [Helpers -> HelperState]
         /\ \A k \in Helpers \ {h} : helper'[k] = helper[k]
         /\ helper'[h].st = s /\ helper'[h].id = helper[h].id /\ helper'[h].ask = helper[h].ask
         /\ helper'[h].todo = helper[h].todo
<1> DEFINE new == [st |-> s, todo |-> helper[h].todo, id |-> helper[h].id, ask |-> helper[h].ask,
                   stop |-> helper[h].stop]
<1>1. helper \in [Helpers -> HelperState]
  BY DEF TypeOK
<1>2. [helper[h] EXCEPT !.st = s] = new
  BY <1>1 DEF HelperState
<1>3. helper' = [helper EXCEPT ![h] = new]
  BY <1>2
<1>4. /\ new \in HelperState /\ new.st = s /\ new.id = helper[h].id /\ new.ask = helper[h].ask
      /\ new.todo = helper[h].todo
  BY <1>1 DEF HelperState, HelperStates
<1> HIDE DEF new
<1> QED
  BY <1>1, <1>3, <1>4

(* Only what helper h has to look at, or whether it is to stop. *)
LEMMA HelperStays ==
  ASSUME TypeOK, NEW h \in Helpers,
         \/ \E t \in SUBSET Ids : helper' = [helper EXCEPT ![h].todo = t]
         \/ \E b \in BOOLEAN : helper' = [helper EXCEPT ![h].stop = b]
  PROVE  /\ helper' \in [Helpers -> HelperState]
         /\ \A k \in Helpers \ {h} : helper'[k] = helper[k]
         /\ helper'[h].st = helper[h].st /\ helper'[h].id = helper[h].id /\ helper'[h].ask = helper[h].ask
<1>1. helper \in [Helpers -> HelperState]
  BY DEF TypeOK
<1>2. ASSUME NEW new \in HelperState, helper' = [helper EXCEPT ![h] = new],
             new.st = helper[h].st, new.id = helper[h].id, new.ask = helper[h].ask
      PROVE  /\ helper' \in [Helpers -> HelperState]
             /\ \A k \in Helpers \ {h} : helper'[k] = helper[k]
             /\ helper'[h].st = helper[h].st /\ helper'[h].id = helper[h].id /\ helper'[h].ask = helper[h].ask
  BY <1>1, <1>2
<1>3. ASSUME NEW t \in SUBSET Ids, helper' = [helper EXCEPT ![h].todo = t]
      PROVE  \E new \in HelperState :
               /\ helper' = [helper EXCEPT ![h] = new]
               /\ new.st = helper[h].st /\ new.id = helper[h].id /\ new.ask = helper[h].ask
  <2> DEFINE new == [st |-> helper[h].st, todo |-> t, id |-> helper[h].id, ask |-> helper[h].ask,
                     stop |-> helper[h].stop]
  <2>1. helper' = [helper EXCEPT ![h] = new]
    BY <1>1, <1>3, HelperUpdates
  <2>2. new \in HelperState /\ new.st = helper[h].st /\ new.id = helper[h].id /\ new.ask = helper[h].ask
    BY <1>1 DEF HelperState
  <2> HIDE DEF new
  <2> QED
    BY <2>1, <2>2
<1>4. ASSUME NEW b \in BOOLEAN, helper' = [helper EXCEPT ![h].stop = b]
      PROVE  \E new \in HelperState :
               /\ helper' = [helper EXCEPT ![h] = new]
               /\ new.st = helper[h].st /\ new.id = helper[h].id /\ new.ask = helper[h].ask
  <2> DEFINE new == [st |-> helper[h].st, todo |-> helper[h].todo, id |-> helper[h].id,
                     ask |-> helper[h].ask, stop |-> b]
  <2>1. helper' = [helper EXCEPT ![h] = new]
    BY <1>1, <1>4, HelperUpdates
  <2>2. new \in HelperState /\ new.st = helper[h].st /\ new.id = helper[h].id /\ new.ask = helper[h].ask
    BY <1>1 DEF HelperState
  <2> HIDE DEF new
  <2> QED
    BY <2>1, <2>2
<1> QED
  BY <1>2, <1>3, <1>4

(* The other records. *)
LEMMA NewRecords ==
  /\ NoHelper \in HelperState /\ NoHelper.st = "off"
  /\ NoRequest \in Request /\ NoRequest.token = 0
  /\ NoDone \in Done /\ ~NoDone.there
  /\ NoAnswer \in Answer /\ NoAnswer.ask = 0 /\ NoAnswer.got = 0
  /\ NoJob \in JobState /\ NoJob.st = "idle"
BY Sizes DEF NoHelper, HelperState, NoRequest, Request, NoDone, Done, NoAnswer, Answer, NoJob, JobState

LEMMA AskRecord ==
  ASSUME NEW r \in JobState, NEW n \in 0..MaxScans
  PROVE  /\ [r EXCEPT !.st = "asking", !.ask = n] \in JobState
         /\ [r EXCEPT !.st = "asking", !.ask = n].st = "asking"
         /\ [r EXCEPT !.st = "asking", !.ask = n].ask = n
<1> DEFINE new == [st |-> "asking", ask |-> n, token |-> r.token, stop |-> r.stop]
       mid == [st |-> "asking", ask |-> r.ask, token |-> r.token, stop |-> r.stop]
<1>1. [r EXCEPT !.st = "asking"] = mid
  BY JobUpdates
<1>2. [mid EXCEPT !.ask = n] = new
  OBVIOUS
<1>3. [r EXCEPT !.st = "asking", !.ask = n] = new
  BY <1>1, <1>2
<1>4. new \in JobState /\ new.st = "asking" /\ new.ask = n
  BY DEF JobState
<1> HIDE DEF new
<1> QED
  BY <1>3, <1>4

(* A process is started for job i. *)
LEMMA JobLaunched ==
  ASSUME TypeOK, NEW i \in Ids, NEW h \in 0..MaxHelpers,
         job' = [job EXCEPT ![i].st = "launched", ![i].token = h]
  PROVE  /\ job' \in [Ids -> JobState]
         /\ \A j \in Ids \ {i} : job'[j] = job[j]
         /\ job'[i].st = "launched" /\ job'[i].ask = job[i].ask /\ job'[i].token = h
<1> DEFINE new == [st |-> "launched", ask |-> job[i].ask, token |-> h, stop |-> job[i].stop]
<1>1. job \in [Ids -> JobState]
  BY DEF TypeOK
<1>2. job' = [job EXCEPT ![i] = new]
  <2> DEFINE mid == [st |-> "launched", ask |-> job[i].ask, token |-> job[i].token, stop |-> job[i].stop]
             j == [job EXCEPT ![i] = mid]
  <2>1. [job EXCEPT ![i].st = "launched"] = j
    BY <1>1, JobUpdates
  <2>2. [mid EXCEPT !.token = h] = new
    OBVIOUS
  <2>3. j[i] = mid
    BY <1>1
  <2>4. job' = [j EXCEPT ![i].token = h]
    BY <2>1
  <2>5. [j EXCEPT ![i].token = h] = [j EXCEPT ![i] = new]
    BY <2>2, <2>3
  <2> QED
    BY <1>1, <2>4, <2>5
<1>3. new \in JobState /\ new.st = "launched" /\ new.ask = job[i].ask /\ new.token = h
  BY <1>1 DEF JobState
<1> HIDE DEF new
<1> QED
  BY <1>1, <1>2, <1>3

(* A start that is given up: the process is gone, or may still come up.    *)
LEMMA TimedOut ==
  ASSUME TypeOK, StartInv, NEW i \in Ids, StartTimesOut(i)
  PROVE  /\ job' \in [Ids -> JobState] /\ helper' \in [Helpers -> HelperState]
         /\ \A j \in Ids \ {i} : job'[j] = job[j]
         /\ job'[i].st = "walking"
         /\ job[i].token \in Helpers /\ helper[job[i].token].st = "booting"
         /\ helper'[job[i].token].st \in {"booting", "gone"}
         /\ world.late \/ helper'[job[i].token].st = "gone"
         /\ \A h \in Helpers \ {job[i].token} : helper'[h] = helper[h]
<1>1. job[i].token \in Helpers
  BY DEF StartTimesOut, StartInv
<1>2. /\ job' \in [Ids -> JobState] /\ job'[i].st = "walking"
      /\ \A j \in Ids \ {i} : job'[j] = job[j]
  BY JobMoves DEF StartTimesOut, JobStates
<1>3. CASE helper' = [helper EXCEPT ![job[i].token].st = "gone"]
  <2>1. /\ helper' \in [Helpers -> HelperState] /\ helper'[job[i].token].st = "gone"
        /\ \A h \in Helpers \ {job[i].token} : helper'[h] = helper[h]
    BY <1>1, <1>3, HelperMoves DEF HelperStates
  <2> QED
    BY <1>1, <1>2, <2>1 DEF StartTimesOut
<1>4. CASE world.late /\ UNCHANGED helper
  BY <1>1, <1>2, <1>4 DEF StartTimesOut, TypeOK
<1> QED
  BY <1>3, <1>4 DEF StartTimesOut

LEMMA AppTypes ==
  ASSUME TypeOK, StartInv, NEW i \in Ids, Ask(i) \/ Stop(i) \/ AppStep(i)
  PROVE  TypeOK'
<1> USE DEF TypeOK, files
<1>1. CASE Ask(i)
  <2>1. asked + 1 \in 0..MaxScans
    <3>1. world.scans \in 0..MaxScans
      BY HelperAssumption
    <3> QED
      BY <1>1, <3>1, Sizes DEF Ask
  <2>2. [NoJob EXCEPT !.st = "asking", !.ask = asked + 1] \in JobState
    BY <2>1, NewRecords, AskRecord
  <2> QED
    BY <1>1, <2>1, <2>2 DEF Ask
<1>2. CASE Stop(i)
  <2>1. [job[i] EXCEPT !.stop = TRUE] \in JobState
    BY JobUpdates
  <2> QED
    BY <1>2, <2>1 DEF Stop
<1>3. CASE UseHelper(i)
  <2>1. app.slot \in Helpers
    BY <1>3, Sizes DEF UseHelper, Helpers
  <2> QED
    BY <1>3, <2>1, UseJob DEF UseHelper
<1>4. CASE Wipe(i)
  <2>1. job' \in [Ids -> JobState]
    BY <1>4, JobMoves DEF Wipe, JobStates
  <2>2. /\ request' \in [Ids -> Request] /\ done' \in [Ids -> Done]
        /\ result' \in [Ids -> 0..MaxScans] /\ cancel' \subseteq Ids
    BY <1>4, NewRecords, Sizes DEF Wipe
  <2>3. beat' \in Ages /\ alive' \in Ages
    BY <1>4 DEF Wipe, Ages
  <2> QED
    BY <1>4, <2>1, <2>2, <2>3 DEF Wipe
<1>5. CASE Launch(i)
  <2>1. alive' \in Ages
    BY <1>5 DEF Launch, Ages
  <2>2. CASE UNCHANGED <<helper, started>> /\ job' = [job EXCEPT ![i].st = "walking"]
    <3>1. job' \in [Ids -> JobState]
      BY <2>2, JobMoves DEF JobStates
    <3> QED
      BY <1>5, <2>1, <2>2, <3>1 DEF Launch
  <2>3. CASE /\ started < MaxHelpers /\ started' = started + 1
             /\ helper' = [helper EXCEPT ![started + 1].st = "booting"]
             /\ job' = [job EXCEPT ![i].st = "launched", ![i].token = started + 1]
    <3>1. started + 1 \in Helpers /\ started + 1 \in 0..MaxHelpers
      BY <2>3, Sizes DEF Helpers
    <3>2. helper' \in [Helpers -> HelperState]
      BY <2>3, <3>1, HelperMoves DEF HelperStates
    <3>3. job' \in [Ids -> JobState]
      BY <2>3, <3>1, JobLaunched
    <3> QED
      BY <1>5, <2>1, <2>3, <3>1, <3>2, <3>3 DEF Launch
  <2> QED
    BY <1>5, <2>2, <2>3 DEF Launch
<1>6. CASE HelperReady(i)
  <2>1. job[i].token \in Helpers /\ job[i].token \in 0..MaxHelpers
    BY <1>6, Sizes DEF HelperReady, StartInv, Helpers
  <2>2. request' \in [Ids -> Request] /\ job' \in [Ids -> JobState]
    BY <1>6, <2>1, UseJob DEF HelperReady
  <2>3. app' \in [up : BOOLEAN, slot : 0..MaxHelpers, keeper : BOOLEAN] /\ alive' \in Ages
    BY <1>6, <2>1 DEF HelperReady, Ages
  <2> QED
    BY <1>6, <2>2, <2>3 DEF HelperReady
<1>7. CASE PollCancel(i)
  BY <1>7 DEF PollCancel
<1>8. CASE GiveUp(i)
  <2>1. job' \in [Ids -> JobState]
    BY <1>8, JobMoves DEF GiveUp, JobStates
  <2> QED
    BY <1>8, <2>1 DEF GiveUp
<1>9. CASE Take(i)
  <2>1. job' \in [Ids -> JobState]
    BY <1>9, JobMoves, JobOver DEF Take, JobStates
  <2>2. last' \in [Ids -> Answer]
    <3>1. /\ job[i].ask \in 0..MaxScans /\ job[i].stop \in BOOLEAN
          /\ result[i] \in 0..MaxScans /\ done[i].cut \in BOOLEAN
      BY DEF JobState, Done
    <3>2. [ask |-> job[i].ask, by |-> "helper", got |-> result[i], cut |-> done[i].cut,
           stop |-> job[i].stop] \in Answer
      BY <3>1 DEF Answer
    <3> QED
      BY <1>9, <3>2 DEF Take
  <2>3. /\ request' \in [Ids -> Request] /\ done' \in [Ids -> Done]
        /\ result' \in [Ids -> 0..MaxScans] /\ cancel' \subseteq Ids
    BY <1>9, NewRecords, Sizes DEF Take
  <2> QED
    BY <1>9, <2>1, <2>2, <2>3 DEF Take
<1>10. CASE Walk(i)
  <2>1. job' \in [Ids -> JobState]
    BY <1>10, JobOver DEF Walk
  <2>2. job[i].ask \in 0..MaxScans /\ job[i].stop \in BOOLEAN
    BY DEF JobState
  <2>3. [ask |-> job[i].ask, by |-> "walk", got |-> job[i].ask, cut |-> job[i].stop,
         stop |-> job[i].stop] \in Answer
    BY <2>2 DEF Answer
  <2> QED
    BY <1>10, <2>1, <2>3 DEF Walk
<1>11. CASE StartTimesOut(i)
  BY <1>11, TimedOut DEF StartTimesOut
<1> QED
  BY <1>1, <1>2, <1>3, <1>4, <1>5, <1>6, <1>7, <1>8, <1>9, <1>10, <1>11 DEF AppStep

(* What the outcome of helper h says. *)
LEMMA OutcomeDoes ==
  ASSUME TypeOK, NEW h \in Helpers, Outcome(h)
  PROVE  /\ helper' \in [Helpers -> HelperState] /\ done' \in [Ids -> Done]
         /\ \A k \in Helpers \ {h} : helper'[k] = helper[k]
         /\ helper'[h].st = "serving"
         /\ \A j \in Ids : j # helper[h].id => done'[j] = done[j]
         /\ DirUp /\ helper[h].id \in Ids =>
              done'[helper[h].id].there /\ (done'[helper[h].id].ok <=> helper[h].st = "saved")
<1>1. helper \in [Helpers -> HelperState] /\ done \in [Ids -> Done]
  BY DEF TypeOK
<1>2. /\ [NoHelper EXCEPT !.st = "serving", !.todo = helper[h].todo] \in HelperState
      /\ [NoHelper EXCEPT !.st = "serving", !.todo = helper[h].todo].st = "serving"
  BY <1>1, NewRecords DEF HelperState
<1>3. helper' = [helper EXCEPT ![h] = [NoHelper EXCEPT !.st = "serving", !.todo = helper[h].todo]]
  BY DEF Outcome
<1> DEFINE new == [there |-> TRUE, ok |-> helper[h].st = "saved", cut |-> helper[h].stop]
<1>4. new \in Done /\ new.there /\ (new.ok <=> helper[h].st = "saved")
  BY <1>1 DEF Done, HelperState
<1>5. done' = IF DirUp THEN [done EXCEPT ![helper[h].id] = new] ELSE done
  BY DEF Outcome
<1> HIDE DEF new
<1> QED
  BY <1>1, <1>2, <1>3, <1>4, <1>5

LEMMA HelperTypes ==
  ASSUME TypeOK, NEW h \in Helpers, HelperStep(h) \/ Crash(h)
  PROVE  TypeOK'
<1> USE DEF TypeOK, files
<1>1. \A a \in Ages : Touched(a) \in Ages
  BY DEF Touched, Ages
<1>2. CASE Boot(h)
  <2>1. helper' \in [Helpers -> HelperState]
    BY <1>2, HelperMoves DEF Boot, HelperStates
  <2> QED
    BY <1>1, <1>2, <2>1 DEF Boot
<1>3. CASE Look(h)
  <2>1. {i \in Ids : request[i] # NoRequest} \in SUBSET Ids
    OBVIOUS
  <2>2. helper' \in [Helpers -> HelperState]
    BY <1>3, <2>1, HelperMoves, HelperStays DEF Look, HelperStates
  <2> QED
    BY <1>1, <1>3, <2>2 DEF Look
<1>4. CASE PickUp(h)
  <2>1. PICK i \in Ids :
       /\ request' = [request EXCEPT ![i] = NoRequest]
       /\ helper' =
            IF request[i].token = h
              THEN [helper EXCEPT ![h] = [st |-> "building", todo |-> @.todo \ {i}, id |-> i,
                                          ask |-> request[i].ask, stop |-> FALSE]]
              ELSE [helper EXCEPT ![h].todo = @ \ {i}]
    BY <1>4 DEF PickUp, HelperState
  <2>2. helper[h].todo \ {i} \in SUBSET Ids
    BY DEF HelperState
  <2>3. [st |-> "building", todo |-> helper[h].todo \ {i}, id |-> i, ask |-> request[i].ask,
         stop |-> FALSE] \in HelperState
    BY <2>2 DEF HelperState, Request
  <2>4. helper' \in [Helpers -> HelperState]
    <3>1. CASE request[i].token = h
      BY <2>1, <2>3, <3>1
    <3>2. CASE request[i].token # h
      BY <2>1, <2>2, <3>2, HelperStays
    <3> QED
      BY <3>1, <3>2
  <2> QED
    BY <1>4, <2>1, <2>4, NewRecords DEF PickUp
<1>5. CASE Report(h)
  <2>1. (helper[h].stop \/ helper[h].id \in cancel) \in BOOLEAN
    OBVIOUS
  <2>2. helper' \in [Helpers -> HelperState]
    BY <1>5, <2>1, HelperStays DEF Report
  <2> QED
    BY <1>1, <1>5, <2>2 DEF Report
<1>6. CASE Built(h)
  <2>1. helper' \in [Helpers -> HelperState]
    BY <1>6, HelperMoves DEF Built, HelperStates
  <2> QED
    BY <1>6, <2>1 DEF Built
<1>7. CASE Save(h)
  <2>1. helper' \in [Helpers -> HelperState]
    BY <1>7, HelperMoves DEF Save, HelperStates
  <2>2. result' \in [Ids -> 0..MaxScans]
    BY <1>7 DEF Save, HelperState
  <2> QED
    BY <1>7, <2>1, <2>2 DEF Save
<1>8. CASE Outcome(h)
  <2>1. helper' \in [Helpers -> HelperState] /\ done' \in [Ids -> Done]
    BY <1>8, OutcomeDoes
  <2> QED
    BY <1>8, <2>1 DEF Outcome
<1>9. CASE Crash(h)
  <2>1. [NoHelper EXCEPT !.st = "gone"] \in HelperState
    BY NewRecords, HelperUpdates
  <2> QED
    BY <1>9, <2>1 DEF Crash
<1> QED
  BY <1>2, <1>3, <1>4, <1>5, <1>6, <1>7, <1>8, <1>9 DEF HelperStep

(* A step of a helper is of one that runs, and that has come up with it.   *)
LEMMA HelperDoes ==
  ASSUME TypeOK, NEW h \in Helpers, HelperStep(h) \/ Crash(h)
  PROVE  /\ Running(h) /\ helper'[h].st \notin {"off", "booting"}
         /\ \A k \in Helpers \ {h} : helper'[k] = helper[k]
<1>1. Running(h)
  BY DEF HelperStep, Boot, Look, PickUp, Report, Built, Save, Outcome, Crash, Running
<1>2. CASE Boot(h) \/ Built(h) \/ Save(h)
  BY <1>1, <1>2, HelperMoves DEF Boot, Built, Save, HelperStates
<1>3. CASE Look(h)
  <2>1. {i \in Ids : request[i] # NoRequest} \in SUBSET Ids
    OBVIOUS
  <2>2. helper[h].st = "serving"
    BY <1>3 DEF Look
  <2> QED
    BY <1>1, <1>3, <2>1, <2>2, HelperMoves, HelperStays DEF Look, HelperStates
<1>4. CASE PickUp(h)
  <2>1. PICK i \in Ids :
         helper' =
           IF request[i].token = h
             THEN [helper EXCEPT ![h] = [st |-> "building", todo |-> @.todo \ {i}, id |-> i,
                                         ask |-> request[i].ask, stop |-> FALSE]]
             ELSE [helper EXCEPT ![h].todo = @ \ {i}]
    BY <1>4 DEF PickUp, TypeOK, HelperState
  <2>2. CASE request[i].token = h
    BY <1>1, <2>1, <2>2 DEF TypeOK
  <2>3. CASE request[i].token # h
    <3>1. helper[h].todo \ {i} \in SUBSET Ids /\ helper[h].st = "serving"
      BY <1>4 DEF PickUp, TypeOK, HelperState
    <3> QED
      BY <1>1, <2>1, <2>3, <3>1, HelperStays
  <2> QED
    BY <2>2, <2>3
<1>5. CASE Report(h)
  <2>1. (helper[h].stop \/ helper[h].id \in cancel) \in BOOLEAN
    OBVIOUS
  <2>2. helper[h].st = "building" /\ \E b \in BOOLEAN : helper' = [helper EXCEPT ![h].stop = b]
    BY <1>5, <2>1 DEF Report
  <2> QED
    BY <1>1, <2>2, HelperStays
<1>6. CASE Outcome(h)
  BY <1>1, <1>6, OutcomeDoes
<1>7. CASE Crash(h)
  <2> DEFINE new == [NoHelper EXCEPT !.st = "gone"]
  <2>1. new.st = "gone"
    BY NewRecords, HelperUpdates
  <2>2. helper' = [helper EXCEPT ![h] = new]
    BY <1>7 DEF Crash
  <2> HIDE DEF new
  <2> QED
    BY <1>1, <2>1, <2>2 DEF TypeOK
<1> QED
  BY <1>2, <1>3, <1>4, <1>5, <1>6, <1>7 DEF HelperStep

LEMMA TypeStep ==
  ASSUME TypeOK, StartInv, [Next]_vars
  PROVE  TypeOK'
<1>1. CASE UNCHANGED vars
  BY <1>1 DEF vars, files, TypeOK
<1>2. CASE AppQuits
  BY <1>2, NewRecords, Sizes DEF AppQuits, TypeOK, files
<1>3. CASE AppStarts
  BY <1>3 DEF AppStarts, TypeOK, files
<1>4. CASE BeatAges \/ AliveAges
  BY <1>4 DEF BeatAges, AliveAges, TypeOK, files, Ages
<1> QED
  BY <1>1, <1>2, <1>3, <1>4, AppTypes, HelperTypes DEF Next

-----------------------------------------------------------------------------
(***************************************************************************)
(* A world in which the app is started once and saves are quick.           *)
(***************************************************************************)

(* Jobs go on, and none that waits for a helper that is heard gives up.    *)
LEMMA JobsGoOn ==
  ASSUME QuickInv, UNCHANGED <<app, helper, started, beat, alive, request, result, done>>,
         \A j \in Ids :
           /\ Starting(j) \/ Starting(j)' => job'[j].st = job[j].st /\ job'[j].token = job[j].token
           /\ job'[j].st = "waiting" => job[j].st = "waiting" /\ job'[j].ask = job[j].ask
           /\ job[j].st = "waiting" /\ job'[j].st # "waiting" => beat # "fresh" /\ ~done[j].there
  PROVE  QuickInv'
<1> USE DEF QuickInv, Starting, Busy, SlotUp, Up, Running, Clean, DirUp
<1>1. Heard'
  BY DEF Heard
<1>2. OneWorks'
  BY DEF OneWorks
<1>3. FreshFolder'
  BY DEF FreshFolder
<1>4. OnlyWaiting'
  BY DEF OnlyWaiting, Heard
<1>5. OwnFiles'
  BY DEF OwnFiles
<1> QED
  BY <1>1, <1>2, <1>3, <1>4, <1>5

(* What Ask and Stop make of a job. *)
LEMMA Asked ==
  ASSUME TypeOK, NEW i \in Ids, Ask(i)
  PROVE  job[i].st = "idle" /\ job'[i].st = "asking" /\ \A j \in Ids \ {i} : job'[j] = job[j]
<1>1. asked + 1 \in 0..MaxScans
  <2>1. world.scans \in 0..MaxScans
    BY HelperAssumption DEF TypeOK
  <2> QED
    BY <2>1, Sizes DEF Ask, TypeOK
<1> DEFINE new == [NoJob EXCEPT !.st = "asking", !.ask = asked + 1]
<1>2. new.st = "asking"
  BY <1>1, AskRecord, NewRecords
<1>3. job' = [job EXCEPT ![i] = new] /\ job[i].st = "idle"
  BY DEF Ask
<1> HIDE DEF new
<1> QED
  BY <1>2, <1>3 DEF TypeOK

LEMMA Stopped ==
  ASSUME TypeOK, NEW i \in Ids, Stop(i)
  PROVE  \A j \in Ids : job'[j].st = job[j].st /\ job'[j].ask = job[j].ask /\ job'[j].token = job[j].token
<1> DEFINE new == [job[i] EXCEPT !.stop = TRUE]
<1>1. job' = [job EXCEPT ![i] = new]
  BY DEF Stop
<1>2. new.st = job[i].st /\ new.ask = job[i].ask /\ new.token = job[i].token
  BY JobUpdates DEF TypeOK
<1> HIDE DEF new
<1> QED
  BY <1>1, <1>2 DEF TypeOK

LEMMA AppGoesOn ==
  ASSUME TypeOK, QuickInv, NEW i \in Ids,
         Ask(i) \/ Stop(i) \/ PollCancel(i) \/ GiveUp(i) \/ Walk(i)
  PROVE  QuickInv'
<1> USE DEF files, Starting
<1>1. CASE Ask(i)
  BY <1>1, Asked, JobsGoOn DEF Ask
<1>2. CASE Stop(i)
  BY <1>2, Stopped, JobsGoOn DEF Stop
<1>3. CASE PollCancel(i)
  BY <1>3, JobsGoOn DEF PollCancel
<1>4. CASE GiveUp(i)
  <2>1. job'[i].st = "walking" /\ \A j \in Ids \ {i} : job'[j] = job[j]
    BY <1>4, JobMoves DEF GiveUp, JobStates
  <2> QED
    BY <1>4, <2>1, JobsGoOn DEF GiveUp, Alive
<1>5. CASE Walk(i)
  <2>1. job'[i].st = "idle" /\ \A j \in Ids \ {i} : job'[j] = job[j]
    BY <1>5, JobOver DEF Walk
  <2> QED
    BY <1>5, <2>1, JobsGoOn DEF Walk
<1> QED
  BY <1>1, <1>2, <1>3, <1>4, <1>5

(* The process a start waited for is given up, or left to come up late.    *)
LEMMA TimeOutKeeps ==
  ASSUME TypeOK, StartInv, QuickInv, NEW i \in Ids, StartTimesOut(i)
  PROVE  QuickInv'
<1>1. /\ UNCHANGED <<app, started, beat, alive, request, result, done>>
      /\ job[i].st = "launched" /\ job'[i].st = "walking" /\ \A j \in Ids \ {i} : job'[j] = job[j]
      /\ helper[job[i].token].st = "booting" /\ helper'[job[i].token].st \in {"booting", "gone"}
      /\ \A h \in Helpers \ {job[i].token} : helper'[h] = helper[h]
  BY TimedOut DEF StartTimesOut, files
<1>2. \A h \in Helpers : \/ helper'[h] = helper[h]
                         \/ helper[h].st = "booting" /\ helper'[h].st \in {"booting", "gone"}
  BY <1>1
<1>3. app.slot # 0 => app.slot \in Helpers
  BY Sizes DEF TypeOK, Helpers
<1> USE DEF QuickInv, Starting, Busy, SlotUp, Up, Running, Clean, DirUp
<1>4. Heard'
  BY <1>1, <1>2, <1>3 DEF Heard, StartInv
<1>5. OneWorks'
  BY <1>1, <1>2 DEF OneWorks
<1>6. FreshFolder'
  BY <1>1, <1>2 DEF FreshFolder
<1>7. OnlyWaiting'
  BY <1>1, <1>2 DEF OnlyWaiting
<1>8. OwnFiles'
  BY <1>1, <1>2 DEF OwnFiles
<1> QED
  BY <1>4, <1>5, <1>6, <1>7, <1>8

(* A request goes into a folder where there is nothing about the job, as   *)
(* far as its helper can tell.                                             *)
LEMMA RequestGoes ==
  ASSUME TypeOK, QuickInv, NEW i \in Ids, NEW h \in Helpers, SendRequest(i, h),
         h = app'.slot, helper[h].st # "booting",
         SlotUp' => Clean(i) /\ beat = "fresh",
         ~done[i].there,
         \A j \in Ids \ {i} : ~Starting(j) /\ (job[j].st # "waiting" /\ SlotUp' => Clean(j)),
         \A j \in Ids : job[j].st = "waiting" /\ SlotUp' => SlotUp \/ Clean(j),
         job[i].st # "waiting",
         \A k \in Helpers : Busy(k) => k = h /\ SlotUp,
         \A j \in Ids : request[j] # NoRequest => request[j].token = h,
         DirUp, UNCHANGED <<helper, started, beat, result, done>>, DirUp'
  PROVE  QuickInv'
<1>1. /\ \A j \in Ids \ {i} : job'[j] = job[j] /\ request'[j] = request[j]
      /\ request'[i] = [token |-> h, ask |-> job[i].ask]
      /\ job'[i].st = "waiting" /\ job'[i].ask = job[i].ask
  BY UseJob
<1>2. \A k \in Helpers : Busy(k) => helper[k].id # i
  <2> SUFFICES ASSUME NEW k \in Helpers, Busy(k) PROVE helper[k].id # i
    OBVIOUS
  <2>1. k = app'.slot /\ Up(k)
    BY DEF Busy, Up, Running
  <2>2. SlotUp'
    BY <2>1 DEF SlotUp, Up, Running
  <2> QED
    BY <2>2 DEF Clean
<1> USE DEF QuickInv, Starting, Busy, SlotUp, Up, Running, Clean
<1>3. Heard'
  BY <1>1 DEF Heard, DirUp
<1>4. OneWorks'
  BY <1>1 DEF OneWorks
<1>5. FreshFolder'
  BY <1>1 DEF FreshFolder
<1>6. OnlyWaiting'
  <2> SUFFICES ASSUME NEW j \in Ids, job'[j].st # "waiting"
               PROVE  ~done'[j].there /\ (SlotUp' => Clean(j)')
    BY DEF OnlyWaiting
  <2>1. j # i
    BY <1>1
  <2> QED
    BY <1>1, <2>1 DEF OnlyWaiting
<1>7. OwnFiles'
  <2> SUFFICES ASSUME NEW j \in Ids, job'[j].st = "waiting"
               PROVE  /\ done'[j].there => request'[j] = NoRequest /\ (done'[j].ok => result'[j] = job'[j].ask)
                      /\ SlotUp' => /\ request'[j] # NoRequest => request'[j].ask = job'[j].ask
                                    /\ result'[j] \in {0, job'[j].ask}
                      /\ \A k \in Helpers : Busy(k)' /\ helper'[k].id = j =>
                           /\ helper'[k].ask = job'[j].ask
                           /\ request'[j] = NoRequest /\ ~done'[j].there
                           /\ helper'[k].st = "saved" => result'[j] = job'[j].ask
    BY DEF OwnFiles
  <2>1. CASE j = i
    BY <1>1, <1>2, <2>1
  <2>2. CASE j # i
    BY <1>1, <2>2 DEF OwnFiles
  <2> QED
    BY <2>1, <2>2
<1> QED
  BY <1>3, <1>4, <1>5, <1>6, <1>7

LEMMA UseKeeps ==
  ASSUME TypeOK, QuickInv, NEW i \in Ids, UseHelper(i)
  PROVE  QuickInv'
<1>1. /\ app.slot \in Helpers /\ app.slot # 0 /\ beat = "fresh" /\ SendRequest(i, app.slot)
      /\ job[i].st = "asking"
      /\ UNCHANGED <<app, helper, started, beat, alive, result, done>>
      /\ \A j \in Ids : ~Starting(j)
  BY Sizes DEF UseHelper, SlotFree, Starting, Alive, TypeOK, Helpers
<1>2. DirUp /\ DirUp' /\ (SlotUp' <=> SlotUp)
  BY <1>1 DEF QuickInv, Heard, DirUp, SlotUp, Up, Running
<1>3. /\ ~done[i].there
      /\ \A j \in Ids : job[j].st # "waiting" => (SlotUp => Clean(j))
  BY <1>1 DEF QuickInv, OnlyWaiting
<1>4. /\ \A k \in Helpers : Busy(k) => k = app.slot /\ SlotUp
      /\ \A j \in Ids : request[j] # NoRequest => request[j].token = app.slot
  BY DEF QuickInv, OneWorks, SlotUp, Busy, Up, Running
<1>5. helper[app.slot].st # "booting"
  BY <1>1 DEF QuickInv, Heard
<1> QED
  BY <1>1, <1>2, <1>3, <1>4, <1>5, RequestGoes

LEMMA ReadyKeeps ==
  ASSUME TypeOK, StartInv, ProtocolInv, QuickInv, NEW i \in Ids, HelperReady(i)
  PROVE  QuickInv'
<1> DEFINE h == job[i].token
<1>1. /\ job[i].st = "launched" /\ h \in Helpers /\ helper[h].st # "booting"
      /\ SendRequest(i, h) /\ DirUp
      /\ UNCHANGED <<helper, started, beat, result, done>>
      /\ DirUp' /\ app'.slot = h
      /\ \A j \in Ids \ {i} : ~Starting(j)
  BY DEF HelperReady, StartInv, ProtocolInv, DirUp, Starting, TypeOK
<1>2. ~SlotUp /\ \A j \in Ids : Clean(j)
  BY <1>1 DEF QuickInv, FreshFolder, Starting
<1>3. \A k \in Helpers : ~Busy(k)
  BY <1>2 DEF QuickInv, OneWorks, SlotUp, Busy, Up, Running
<1>4. SlotUp' => beat = "fresh"
  BY <1>1 DEF QuickInv, Heard, SlotUp, Up, Running
<1>5. \A j \in Ids : request[j] = NoRequest /\ ~done[j].there
  BY <1>2 DEF Clean
<1> HIDE DEF h
<1> QED
  BY <1>1, <1>2, <1>3, <1>4, <1>5, RequestGoes

LEMMA WipeKeeps ==
  ASSUME TypeOK, QuickInv, NEW i \in Ids, Wipe(i)
  PROVE  QuickInv'
<1>1. /\ \A j \in Ids : ~Starting(j)
      /\ UNCHANGED <<app, helper, started>> /\ beat' = "missing" /\ alive' = "missing"
      /\ job[i].st = "asking"
      /\ \A j \in Ids : request'[j] = NoRequest /\ result'[j] = 0 /\ ~done'[j].there
      /\ app.slot = 0 \/ beat # "fresh"
  BY NewRecords DEF Wipe, SlotFree, Starting, Alive
<1>2. job'[i].st = "wiped" /\ \A j \in Ids \ {i} : job'[j] = job[j]
  BY JobMoves DEF Wipe, JobStates
<1>3. ~SlotUp
  BY <1>1, Sizes DEF QuickInv, Heard, SlotUp, Helpers
<1>4. \A h \in Helpers : ~Busy(h)
  BY <1>3 DEF QuickInv, OneWorks, SlotUp, Busy, Up, Running
<1> USE DEF Starting, Busy, SlotUp, Up, Running, Clean, DirUp
<1>5. Heard'
  BY <1>1, <1>2, <1>3 DEF Heard, QuickInv
<1>6. OneWorks'
  BY <1>1, <1>4 DEF OneWorks
<1>7. FreshFolder'
  BY <1>1, <1>2, <1>3, <1>4 DEF FreshFolder
<1>8. OnlyWaiting'
  BY <1>1, <1>2, <1>3, <1>4 DEF OnlyWaiting
<1>9. OwnFiles'
  BY <1>1, <1>2, <1>4 DEF OwnFiles
<1> QED
  BY <1>5, <1>6, <1>7, <1>8, <1>9 DEF QuickInv

LEMMA LaunchKeeps ==
  ASSUME TypeOK, StartInv, ProtocolInv, QuickInv, NEW i \in Ids, Launch(i)
  PROVE  QuickInv'
<1>1. /\ job[i].st = "wiped" /\ alive' = "fresh" /\ UNCHANGED <<app, beat, request, result, done>>
      /\ \A j \in Ids \ {i} : ~Starting(j)
  BY DEF Launch, ProtocolInv, Starting, files
<1>2. ~SlotUp /\ \A j \in Ids : Clean(j)
  BY <1>1 DEF QuickInv, FreshFolder, Starting
<1>3. \A h \in Helpers : ~Busy(h)
  BY <1>2 DEF QuickInv, OneWorks, SlotUp, Busy, Up, Running
<1>4. app.slot # 0 => app.slot \in Helpers /\ app.slot <= started
  <2> SUFFICES ASSUME app.slot # 0 PROVE app.slot \in Helpers /\ app.slot <= started
    OBVIOUS
  <2>1. app.slot \in Helpers /\ started \in Nat
    BY Sizes DEF TypeOK, Helpers
  <2> QED
    BY <2>1 DEF StartInv, Helpers
<1>5. /\ job'[i].st \in {"launched", "walking"}
      /\ \A j \in Ids \ {i} : job'[j] = job[j]
      /\ \A h \in Helpers : \/ helper'[h] = helper[h]
                            \/ helper'[h].st = "booting" /\ h = started' /\ started' > started
      /\ job'[i].st = "launched" => helper'[job'[i].token].st = "booting"
  <2>1. CASE UNCHANGED <<helper, started>> /\ job' = [job EXCEPT ![i].st = "walking"]
    BY <2>1, JobMoves DEF JobStates
  <2>2. CASE /\ started < MaxHelpers /\ started' = started + 1
             /\ helper' = [helper EXCEPT ![started + 1].st = "booting"]
             /\ job' = [job EXCEPT ![i].st = "launched", ![i].token = started + 1]
    <3>1. started + 1 \in Helpers /\ started + 1 \in 0..MaxHelpers /\ started' > started
      BY <2>2, Sizes DEF Helpers, TypeOK
    <3>2. /\ helper'[started + 1].st = "booting"
          /\ \A h \in Helpers \ {started + 1} : helper'[h] = helper[h]
      BY <2>2, <3>1, HelperMoves DEF HelperStates
    <3>3. /\ job'[i].st = "launched" /\ job'[i].token = started + 1
          /\ \A j \in Ids \ {i} : job'[j] = job[j]
      BY <2>2, <3>1, JobLaunched
    <3> QED
      BY <2>2, <3>1, <3>2, <3>3
  <2> QED
    BY <2>1, <2>2 DEF Launch
<1>6. app.slot # 0 => helper'[app.slot] = helper[app.slot]
  BY <1>4, <1>5, Sizes DEF Helpers, TypeOK
<1>7. ~SlotUp' /\ \A h \in Helpers : ~Busy(h)'
  BY <1>1, <1>2, <1>3, <1>5, <1>6, Sizes DEF SlotUp, Busy, Up, Running, Helpers
<1> USE DEF Starting, Clean, DirUp
<1>8. Heard'
  <2>1. app'.slot # 0 => helper'[app'.slot].st # "booting"
    BY <1>1, <1>6 DEF QuickInv, Heard
  <2>2. \A j \in Ids : job'[j].st # "wiped" /\ (job'[j].st = "launched" => ~Up(job[j].token)')
    BY <1>1, <1>5 DEF Up, Running
  <2> QED
    BY <1>1, <1>7, <2>1, <2>2 DEF Heard
<1>9. OneWorks'
  BY <1>1, <1>2, <1>7 DEF OneWorks
<1>10. FreshFolder'
  BY <1>1, <1>2, <1>7 DEF FreshFolder
<1>11. OnlyWaiting'
  BY <1>1, <1>2, <1>7 DEF OnlyWaiting
<1>12. OwnFiles'
  BY <1>1, <1>2, <1>7 DEF OwnFiles
<1> QED
  BY <1>8, <1>9, <1>10, <1>11, <1>12 DEF QuickInv

LEMMA TakeKeeps ==
  ASSUME TypeOK, QuickInv, NEW i \in Ids, Take(i)
  PROVE  QuickInv'
<1>1. /\ job[i].st = "waiting" /\ done[i].there
      /\ UNCHANGED <<app, helper, started, beat, alive>>
      /\ request'[i] = NoRequest /\ result'[i] = 0 /\ ~done'[i].there
      /\ \A j \in Ids \ {i} : request'[j] = request[j] /\ result'[j] = result[j] /\ done'[j] = done[j]
  BY NewRecords DEF Take, TypeOK
<1>2. job'[i].st \in {"idle", "walking"} /\ \A j \in Ids \ {i} : job'[j] = job[j]
  BY JobMoves, JobOver DEF Take, JobStates
<1>3. \A h \in Helpers : Busy(h) => helper[h].id # i
  BY <1>1 DEF QuickInv, OwnFiles
<1> USE DEF Starting, Busy, SlotUp, Up, Running, Clean, DirUp, QuickInv
<1>4. Heard'
  BY <1>1, <1>2 DEF Heard
<1>5. OneWorks'
  BY <1>1, <1>2 DEF OneWorks
<1>6. FreshFolder'
  BY <1>1, <1>2 DEF FreshFolder
<1>7. OnlyWaiting'
  BY <1>1, <1>2, <1>3 DEF OnlyWaiting
<1>8. OwnFiles'
  BY <1>1, <1>2, <1>3 DEF OwnFiles
<1> QED
  BY <1>4, <1>5, <1>6, <1>7, <1>8

(* A helper that is up goes on with what it does, or is gone; where there  *)
(* is a beat it stays.                                                     *)
LEMMA HelperGoesOn ==
  ASSUME TypeOK, StartInv, QuickInv, NEW h \in Helpers, Up(h),
         UNCHANGED <<app, job, started, alive, request, result, done>>,
         beat' = Touched(beat) \/ beat' = beat,
         \A k \in Helpers \ {h} : helper'[k] = helper[k],
         Running(h)' => Up(h)', helper'[h].st # "booting",
         Busy(h)' => /\ Busy(h) /\ helper'[h].id = helper[h].id /\ helper'[h].ask = helper[h].ask
                     /\ helper'[h].st = "saved" => helper[h].st = "saved"
  PROVE  QuickInv'
<1>1. (beat = "fresh" => beat' = "fresh") /\ (beat' = "fresh" => DirUp' \/ beat = "fresh")
  BY DEF Touched, DirUp, QuickInv, Heard
<1>2. \A k \in Helpers : Up(k)' => Up(k)
  BY DEF Up, Running
<1>3. \A k \in Helpers : Busy(k)' =>
        /\ Busy(k) /\ helper'[k].id = helper[k].id /\ helper'[k].ask = helper[k].ask
        /\ helper'[k].st = "saved" => helper[k].st = "saved"
  BY DEF Busy
<1>4. SlotUp' => SlotUp
  BY <1>2 DEF SlotUp
<1>5. \A k \in Helpers : helper'[k].st = "booting" => helper[k].st = "booting"
  OBVIOUS
<1>6. app.slot # 0 => app.slot \in Helpers
  BY Sizes DEF TypeOK, Helpers
<1> USE DEF Starting, QuickInv
<1>7. Heard'
  <2>1. /\ SlotUp' => beat' = "fresh"
        /\ beat' = "fresh" => DirUp'
        /\ app'.slot # 0 => helper'[app'.slot].st # "booting"
    BY <1>1, <1>4, <1>5, <1>6 DEF Heard, DirUp
  <2>2. \A j \in Ids : job[j].st = "launched" /\ Up(job[j].token)' => beat' = "fresh"
    <3> SUFFICES ASSUME NEW j \in Ids, job[j].st = "launched", Up(job[j].token)' PROVE beat' = "fresh"
      OBVIOUS
    <3>1. job[j].token \in Helpers
      BY DEF StartInv
    <3>2. Up(job[j].token)
      BY <3>1 DEF Up, Running
    <3> QED
      BY <1>1, <3>2 DEF Heard
  <2> QED
    BY <2>1, <2>2 DEF Heard, DirUp, Up, Running
<1>8. OneWorks'
  BY <1>3 DEF OneWorks
<1>9. \A j \in Ids : Clean(j) => Clean(j)'
  BY <1>3 DEF Clean
<1>10. FreshFolder'
  BY <1>4, <1>9 DEF FreshFolder
<1>11. OnlyWaiting'
  BY <1>4, <1>9 DEF OnlyWaiting
<1>12. OwnFiles'
  BY <1>3, <1>4 DEF OwnFiles
<1> QED
  BY <1>7, <1>8, <1>10, <1>11, <1>12

LEMMA BootKeeps ==
  ASSUME TypeOK, StartInv, QuickInv, NEW h \in Helpers, Boot(h)
  PROVE  QuickInv'
<1>1. /\ helper[h].st = "booting" /\ helper'[h].st = "serving"
      /\ \A k \in Helpers \ {h} : helper'[k] = helper[k]
      /\ UNCHANGED <<app, job, started, request, result, done>>
  BY HelperMoves DEF Boot, HelperStates, files
<1>2. /\ DirUp' <=> DirUp
      /\ DirUp => beat' = "fresh"
      /\ beat' = "fresh" => DirUp
  BY DEF Boot, Touched, DirUp, QuickInv, Heard
<1>3. h # app.slot /\ (app.slot # 0 => app.slot \in Helpers)
  BY <1>1, Sizes DEF QuickInv, Heard, Helpers, TypeOK
<1>4. SlotUp' <=> SlotUp
  BY <1>1, <1>3 DEF SlotUp, Up, Running
<1>5. \A k \in Helpers : (Busy(k)' => k # h) /\ (Busy(k)' <=> Busy(k))
  BY <1>1 DEF Busy
<1> USE DEF Starting, QuickInv
<1>6. Heard'
  <2>1. \A j \in Ids : job[j].st = "launched" => beat' = "fresh"
    BY <1>2 DEF StartInv
  <2>2. ASSUME NEW j \in Ids, job[j].st = "wiped" PROVE ~DirUp'
    <3>1. ~DirUp
      BY <2>2 DEF Heard
    <3> QED
      BY <1>2, <3>1
  <2>3. SlotUp' => beat' = "fresh"
    BY <1>2, <1>4 DEF Heard
  <2>4. app'.slot # 0 => helper'[app'.slot].st # "booting"
    BY <1>1, <1>3 DEF Heard
  <2> QED
    BY <1>1, <1>2, <2>1, <2>2, <2>3, <2>4 DEF Heard
<1>7. OneWorks'
  BY <1>1, <1>5 DEF OneWorks
<1>8. \A j \in Ids : Clean(j) => Clean(j)'
  BY <1>1, <1>5 DEF Clean
<1>9. FreshFolder'
  BY <1>1, <1>4, <1>8 DEF FreshFolder
<1>10. OnlyWaiting'
  BY <1>1, <1>4, <1>8 DEF OnlyWaiting
<1>11. OwnFiles'
  BY <1>1, <1>4, <1>5 DEF OwnFiles
<1> QED
  BY <1>6, <1>7, <1>9, <1>10, <1>11

LEMMA LookKeeps ==
  ASSUME TypeOK, StartInv, QuickInv, NEW h \in Helpers, Look(h)
  PROVE  QuickInv'
<1>1. /\ helper[h].st = "serving" /\ UNCHANGED <<app, job, started, alive, request, result, done>>
      /\ beat' = Touched(beat)
  BY DEF Look, files
<1>2. \/ helper' = [helper EXCEPT ![h].st = "gone"]
      \/ \E t \in SUBSET Ids : helper' = [helper EXCEPT ![h].todo = t]
  <2>1. {i \in Ids : request[i] # NoRequest} \in SUBSET Ids
    OBVIOUS
  <2> QED
    BY <2>1 DEF Look
<1>3. helper'[h].st \in {"gone", "serving"} /\ \A k \in Helpers \ {h} : helper'[k] = helper[k]
  BY <1>1, <1>2, HelperMoves, HelperStays DEF HelperStates
<1> QED
  BY <1>1, <1>3, HelperGoesOn DEF Running, Up, Busy

LEMMA WorkKeeps ==
  ASSUME TypeOK, StartInv, QuickInv, NEW h \in Helpers, Report(h) \/ Built(h) \/ Crash(h)
  PROVE  QuickInv'
<1>1. /\ Up(h) /\ UNCHANGED <<app, job, started, alive, request, result, done>>
      /\ beat' = Touched(beat) \/ beat' = beat
  BY DEF Report, Built, Crash, Up, Running, files
<1>3. CASE Report(h)
  <2>1. \E b \in BOOLEAN : helper' = [helper EXCEPT ![h].stop = b]
    <3>1. (helper[h].stop \/ helper[h].id \in cancel) \in BOOLEAN
      OBVIOUS
    <3> QED
      BY <1>3, <3>1 DEF Report
  <2>2. /\ \A k \in Helpers \ {h} : helper'[k] = helper[k]
        /\ helper'[h].st = "building" /\ helper'[h].id = helper[h].id /\ helper'[h].ask = helper[h].ask
    BY <1>3, <2>1, HelperStays DEF Report
  <2>3. helper[h].st = "building"
    BY <1>3 DEF Report
  <2> QED
    BY <1>1, <2>2, <2>3, HelperGoesOn DEF Running, Up, Busy
<1>4. CASE Built(h)
  <2>1. /\ \A k \in Helpers \ {h} : helper'[k] = helper[k]
        /\ helper[h].st = "building"
        /\ helper'[h].st = "saving" /\ helper'[h].id = helper[h].id /\ helper'[h].ask = helper[h].ask
    BY <1>4, HelperMoves DEF Built, HelperStates
  <2> QED
    BY <1>1, <2>1, HelperGoesOn DEF Running, Up, Busy
<1>5. CASE Crash(h)
  <2> DEFINE new == [NoHelper EXCEPT !.st = "gone"]
  <2>1. new.st = "gone"
    BY NewRecords, HelperUpdates
  <2>2. helper' = [helper EXCEPT ![h] = new]
    BY <1>5 DEF Crash
  <2> HIDE DEF new
  <2>3. helper'[h].st = "gone" /\ \A k \in Helpers \ {h} : helper'[k] = helper[k]
    BY <2>1, <2>2 DEF TypeOK
  <2> QED
    BY <1>1, <2>3, HelperGoesOn DEF Running, Up, Busy
<1> QED
  BY <1>3, <1>4, <1>5

LEMMA PickUpKeeps ==
  ASSUME TypeOK, StartInv, QuickInv, NEW h \in Helpers, PickUp(h)
  PROVE  QuickInv'
<1>1. /\ helper[h].st = "serving"
      /\ UNCHANGED <<app, job, started, beat, alive, result, done>>
  BY DEF PickUp
<1>2. PICK i \in Ids :
        /\ request' = [request EXCEPT ![i] = NoRequest]
        /\ helper' =
             IF request[i].token = h
               THEN [helper EXCEPT ![h] = [st |-> "building", todo |-> @.todo \ {i}, id |-> i,
                                           ask |-> request[i].ask, stop |-> FALSE]]
               ELSE [helper EXCEPT ![h].todo = @ \ {i}]
  BY DEF PickUp, TypeOK, HelperState
<1>3. /\ request'[i] = NoRequest
      /\ \A j \in Ids \ {i} : request'[j] = request[j]
  BY <1>2 DEF TypeOK
<1>4. /\ \A k \in Helpers \ {h} : helper'[k] = helper[k]
      /\ \/ helper'[h].st = "serving"
         \/ /\ helper'[h].st = "building" /\ helper'[h].id = i /\ helper'[h].ask = request[i].ask
            /\ request[i].token = h
  <2>1. CASE request[i].token = h
    BY <1>2, <2>1 DEF TypeOK
  <2>2. CASE request[i].token # h
    <3>1. helper[h].todo \ {i} \in SUBSET Ids
      BY DEF TypeOK, HelperState
    <3> QED
      BY <1>1, <1>2, <2>2, <3>1, HelperStays
  <2> QED
    BY <2>1, <2>2
<1>5. helper'[h].st = "building" =>
        request[i] # NoRequest /\ h = app.slot /\ SlotUp /\ job[i].st = "waiting"
  <2> SUFFICES ASSUME helper'[h].st = "building"
               PROVE  request[i] # NoRequest /\ h = app.slot /\ SlotUp /\ job[i].st = "waiting"
    OBVIOUS
  <2>1. request[i] # NoRequest
    BY <1>1, <1>4, NewRecords, Sizes DEF Helpers
  <2>2. h = app.slot /\ SlotUp
    BY <1>1, <1>4, <2>1 DEF QuickInv, OneWorks, SlotUp, Up, Running
  <2> QED
    BY <2>1, <2>2 DEF QuickInv, OnlyWaiting, Clean
<1>6. SlotUp' <=> SlotUp
  BY <1>1, <1>4 DEF SlotUp, Up, Running
<1> USE DEF Starting, Busy, Clean, DirUp, QuickInv
<1>7. Heard'
  <2>1. app.slot # 0 => app.slot \in Helpers
    BY Sizes DEF TypeOK, Helpers
  <2>2. app'.slot # 0 => helper'[app'.slot].st # "booting"
    BY <1>1, <1>4, <2>1 DEF Heard
  <2>3. ASSUME NEW j \in Ids, job'[j].st = "launched", Up(job[j].token)' PROVE beat' = "fresh"
    <3>1. job[j].st = "launched" /\ job[j].token \in Helpers
      BY <1>1, <2>3 DEF StartInv
    <3>2. Up(job[j].token)
      BY <1>1, <1>4, <2>3, <3>1 DEF Up, Running
    <3> QED
      BY <1>1, <3>1, <3>2 DEF Heard
  <2> QED
    BY <1>1, <1>6, <2>2, <2>3 DEF Heard, DirUp
<1>8. OneWorks'
  BY <1>1, <1>3, <1>4, <1>5 DEF OneWorks
<1>9. FreshFolder'
  BY <1>1, <1>3, <1>4, <1>5, <1>6 DEF FreshFolder
<1>10. OnlyWaiting'
  BY <1>1, <1>3, <1>4, <1>5, <1>6 DEF OnlyWaiting
<1>11. OwnFiles'
  BY <1>1, <1>3, <1>4, <1>5, <1>6 DEF OwnFiles
<1> QED
  BY <1>7, <1>8, <1>9, <1>10, <1>11

LEMMA SaveKeeps ==
  ASSUME TypeOK, StartInv, QuickInv, NEW h \in Helpers, Save(h)
  PROVE  QuickInv'
<1>1. /\ Up(h) /\ Busy(h) /\ helper[h].st = "saving"
      /\ UNCHANGED <<app, job, started, beat, alive, request, done>>
  BY DEF Save, Up, Running, Busy
<1>2. CASE UNCHANGED result /\ helper' = [helper EXCEPT ![h].st = "unsaved"]
  <2>1. /\ \A k \in Helpers \ {h} : helper'[k] = helper[k]
        /\ helper'[h].st = "unsaved" /\ helper'[h].id = helper[h].id /\ helper'[h].ask = helper[h].ask
    BY <1>2, HelperMoves DEF HelperStates
  <2> QED
    BY <1>1, <1>2, <2>1, HelperGoesOn DEF Running, Up, Busy
<1>3. CASE /\ result' = [result EXCEPT ![helper[h].id] = helper[h].ask]
           /\ helper' = [helper EXCEPT ![h].st = "saved"]
  <2>1. /\ \A k \in Helpers \ {h} : helper'[k] = helper[k]
        /\ helper'[h].st = "saved" /\ helper'[h].id = helper[h].id /\ helper'[h].ask = helper[h].ask
    BY <1>3, HelperMoves DEF HelperStates
  <2>2. \A j \in Ids : result'[j] = IF j = helper[h].id THEN helper[h].ask ELSE result[j]
    BY <1>3 DEF TypeOK
  <2>3. h = app.slot /\ SlotUp
    BY <1>1 DEF QuickInv, OneWorks, SlotUp
  <2>4. \A j \in Ids : j = helper[h].id => job[j].st = "waiting" /\ helper[h].ask = job[j].ask
                                        /\ \A k \in Ids : ~Starting(k)
    BY <1>1, <2>3 DEF QuickInv, OnlyWaiting, OwnFiles, FreshFolder, Clean
  <2> USE DEF Starting, Busy, SlotUp, Up, Running, Clean, DirUp, QuickInv
  <2>5. Heard'
    BY <1>1, <2>1, <2>3 DEF Heard
  <2>6. OneWorks'
    BY <1>1, <2>1 DEF OneWorks
  <2>7. FreshFolder'
    BY <1>1, <2>1, <2>3 DEF FreshFolder
  <2>8. OnlyWaiting'
    BY <1>1, <2>1, <2>2, <2>3, <2>4 DEF OnlyWaiting
  <2>9. OwnFiles'
    BY <1>1, <2>1, <2>2, <2>3, <2>4 DEF OwnFiles
  <2> QED
    BY <2>5, <2>6, <2>7, <2>8, <2>9
<1> QED
  BY <1>2, <1>3 DEF Save

LEMMA OutcomeKeeps ==
  ASSUME TypeOK, QuickInv, NEW h \in Helpers, Outcome(h)
  PROVE  QuickInv'
<1>1. /\ Up(h) /\ Busy(h) /\ helper[h].st \in {"saved", "unsaved"}
      /\ UNCHANGED <<app, job, started, beat, alive, request, result>>
  BY DEF Outcome, Up, Running, Busy
<1>2. h = app.slot /\ SlotUp
  BY <1>1 DEF QuickInv, OneWorks, SlotUp
<1>3. DirUp
  BY <1>2 DEF QuickInv, Heard
<1>4. /\ \A k \in Helpers \ {h} : helper'[k] = helper[k]
      /\ helper'[h].st = "serving"
      /\ \A j \in Ids : j # helper[h].id => done'[j] = done[j]
      /\ helper[h].id \in Ids =>
           done'[helper[h].id].there /\ (done'[helper[h].id].ok <=> helper[h].st = "saved")
  BY <1>3, OutcomeDoes
<1>5. \A j \in Ids : j = helper[h].id =>
        /\ job[j].st = "waiting" /\ \A k \in Ids : ~Starting(k)
        /\ request[j] = NoRequest /\ (helper[h].st = "saved" => result[j] = job[j].ask)
  BY <1>1, <1>2 DEF QuickInv, OnlyWaiting, OwnFiles, FreshFolder, Clean
<1>6. \A k \in Helpers \ {h} : ~Busy(k)
  BY <1>2 DEF QuickInv, OneWorks
<1> USE DEF Starting, Busy, SlotUp, Up, Running, Clean, DirUp, QuickInv
<1>7. Heard'
  BY <1>1, <1>2, <1>4 DEF Heard
<1>8. OneWorks'
  BY <1>1, <1>4 DEF OneWorks
<1>9. FreshFolder'
  BY <1>1, <1>2, <1>4 DEF FreshFolder
<1>10. OnlyWaiting'
  BY <1>1, <1>2, <1>4, <1>5, <1>6 DEF OnlyWaiting
<1>11. OwnFiles'
  BY <1>1, <1>2, <1>4, <1>5, <1>6 DEF OwnFiles
<1> QED
  BY <1>7, <1>8, <1>9, <1>10, <1>11

LEMMA AgeKeeps ==
  ASSUME TypeOK, StartInv, QuickInv, Quick, BeatAges \/ AliveAges
  PROVE  QuickInv'
<1>1. UNCHANGED <<app, job, helper, started, request, result, done>>
  BY DEF BeatAges, AliveAges, files
<1>2. \/ beat' = "stale" /\ UNCHANGED alive /\ beat = "fresh" /\ \A h \in Helpers : ~Beating(h)
      \/ alive' = "stale" /\ UNCHANGED beat /\ DirUp
  BY DEF BeatAges, AliveAges, DirUp
<1>3. beat' # beat => \A h \in Helpers : ~Up(h)
  <2> SUFFICES ASSUME NEW h \in Helpers, ~Beating(h) PROVE ~Up(h)
    BY <1>2
  <2> QED
    BY DEF Beating, Up, Running, Quick, TypeOK, HelperState
<1>4. \A i \in Ids : job[i].st = "launched" => job[i].token \in Helpers
  BY DEF StartInv
<1> USE DEF Starting, Busy, SlotUp, Up, Running, Clean, DirUp, QuickInv
<1>5. Heard'
  BY <1>1, <1>2, <1>3, <1>4 DEF Heard
<1>6. OneWorks'
  BY <1>1 DEF OneWorks
<1>7. FreshFolder'
  BY <1>1 DEF FreshFolder
<1>8. OnlyWaiting'
  BY <1>1 DEF OnlyWaiting
<1>9. OwnFiles'
  BY <1>1 DEF OwnFiles
<1> QED
  BY <1>5, <1>6, <1>7, <1>8, <1>9

LEMMA QuickStep ==
  ASSUME HelperInv, Quick, app.up, app'.up, [Next]_vars
  PROVE  QuickInv'
<1>1. TypeOK /\ StartInv /\ ProtocolInv /\ QuickInv
  BY DEF HelperInv, ProtocolInv
<1>2. CASE UNCHANGED vars
  BY <1>1, <1>2, JobsGoOn DEF vars, files, Starting
<1>3. CASE AppQuits \/ AppStarts
  BY <1>3 DEF AppQuits, AppStarts, TypeOK
<1> QED
  BY <1>1, <1>2, <1>3, AppGoesOn, TimeOutKeeps, UseKeeps, WipeKeeps, LaunchKeeps, ReadyKeeps, TakeKeeps,
     BootKeeps, LookKeeps, WorkKeeps, PickUpKeeps, SaveKeeps, OutcomeKeeps, AgeKeeps
  DEF Next, AppStep, HelperStep

-----------------------------------------------------------------------------
(***************************************************************************)
(* The same, where no helper comes up after it was given up.               *)
(***************************************************************************)

(* Helpers come to an end or go on, and so do starts. *)
LEMMA OneGoesOn ==
  ASSUME OneRuns, app'.slot = app.slot, started' = started,
         \A h \in Helpers : /\ Running(h)' => Running(h)
                            /\ Up(h) /\ Running(h)' => Up(h)',
         \A i \in Ids : Starting(i)' => Starting(i),
         \A i \in Ids : job[i].st = "launched" <=> job'[i].st = "launched"
  PROVE  OneRuns'
<1>1. ASSUME NEW h \in Helpers, Running(h)'
      PROVE  (h = app'.slot /\ Up(h)') \/ \E i \in Ids : job'[i].st = "launched"
  BY <1>1 DEF OneRuns
<1>2. ASSUME NEW h \in Helpers, NEW i \in Ids, Starting(i)', Running(h)'
      PROVE  job'[i].st = "launched" /\ h = started'
  BY <1>2 DEF OneRuns
<1> QED
  BY <1>1, <1>2 DEF OneRuns

LEMMA OneRunsStep ==
  ASSUME HelperInv, Calm, app.up, app'.up, [Next]_vars
  PROVE  OneRuns'
<1>1. TypeOK /\ StartInv /\ QuickInv /\ OneRuns
  BY DEF HelperInv, ProtocolInv, Calm
<1> USE <1>1
<1>2. CASE UNCHANGED vars \/ BeatAges \/ AliveAges
  BY <1>2, OneGoesOn DEF vars, BeatAges, AliveAges, Starting, Running, Up
<1>3. CASE AppQuits \/ AppStarts
  BY <1>3 DEF AppQuits, AppStarts, TypeOK
<1>4. ASSUME NEW i \in Ids, Ask(i) \/ Stop(i) PROVE OneRuns'
  BY <1>4, Asked, Stopped, OneGoesOn DEF Ask, Stop, Starting, Running, Up
<1>5. ASSUME NEW i \in Ids, UseHelper(i) PROVE OneRuns'
  <2>1. app.slot \in Helpers /\ SendRequest(i, app.slot) /\ job[i].st = "asking"
    BY <1>5, Sizes DEF UseHelper, TypeOK, Helpers
  <2>2. job'[i].st \in {"waiting", "walking"} /\ \A j \in Ids \ {i} : job'[j] = job[j]
    BY <2>1, UseJob
  <2> QED
    BY <1>5, <2>1, <2>2, OneGoesOn DEF UseHelper, Starting, Running, Up
<1>6. ASSUME NEW i \in Ids, Wipe(i) PROVE OneRuns'
  <2>1. \A h \in Helpers : ~Running(h)
    <3> SUFFICES ASSUME NEW h \in Helpers, Running(h) PROVE FALSE
      OBVIOUS
    <3>1. h = app.slot /\ Up(h)
      BY <1>6 DEF OneRuns, Wipe, SlotFree
    <3> QED
      BY <1>6, <3>1, Sizes DEF QuickInv, Heard, SlotUp, Wipe, Alive, Helpers
  <2> QED
    BY <1>6, <2>1 DEF OneRuns, Wipe, Running
<1>7. ASSUME NEW i \in Ids, Launch(i) PROVE OneRuns'
  <2>1. job[i].st = "wiped" /\ UNCHANGED app /\ \A j \in Ids \ {i} : ~Starting(j)
    BY <1>7 DEF Launch, StartInv, Starting
  <2>2. \A h \in Helpers : ~Running(h)
    BY <2>1 DEF OneRuns, Starting
  <2>3. CASE UNCHANGED <<helper, started>>
    BY <2>2, <2>3 DEF OneRuns, Running
  <2>4. CASE /\ started < MaxHelpers /\ started' = started + 1
             /\ helper' = [helper EXCEPT ![started + 1].st = "booting"]
             /\ job' = [job EXCEPT ![i].st = "launched", ![i].token = started + 1]
    <3>1. started + 1 \in Helpers /\ started + 1 \in 0..MaxHelpers
      BY <2>4, Sizes DEF Helpers, TypeOK
    <3>2. \A h \in Helpers \ {started + 1} : helper'[h] = helper[h]
      BY <2>4, <3>1, HelperMoves DEF HelperStates
    <3>3. job'[i].st = "launched" /\ \A j \in Ids \ {i} : job'[j] = job[j]
      BY <2>4, <3>1, JobLaunched
    <3>4. \A h \in Helpers : Running(h)' => h = started'
      BY <2>2, <2>4, <3>2 DEF Running
    <3>5. \A j \in Ids : Starting(j)' => j = i
      BY <2>1, <3>3 DEF Starting
    <3> QED
      BY <3>3, <3>4, <3>5 DEF OneRuns
  <2> QED
    BY <1>7, <2>3, <2>4 DEF Launch
<1>8. ASSUME NEW i \in Ids, HelperReady(i) PROVE OneRuns'
  <2>1. /\ job[i].st = "launched" /\ job[i].token = started /\ job[i].token \in Helpers
        /\ helper[started].st # "booting" /\ SendRequest(i, job[i].token)
        /\ UNCHANGED <<helper, started>> /\ app'.slot = started
        /\ \A j \in Ids \ {i} : ~Starting(j)
    BY <1>8 DEF HelperReady, StartInv, Starting, TypeOK
  <2>2. job'[i].st \in {"waiting", "walking"} /\ \A j \in Ids \ {i} : job'[j] = job[j]
    BY <2>1, UseJob
  <2>3. \A h \in Helpers : Running(h)' => h = app'.slot /\ Up(h)'
    BY <2>1 DEF OneRuns, Starting, Running, Up
  <2>4. \A j \in Ids : ~Starting(j)'
    BY <2>1, <2>2 DEF Starting
  <2> QED
    BY <2>3, <2>4 DEF OneRuns
<1>9. ASSUME NEW i \in Ids, StartTimesOut(i) PROVE OneRuns'
  <2>1. /\ job[i].st = "launched" /\ job[i].token = started /\ job[i].token \in Helpers
        /\ UNCHANGED <<app, started>>
        /\ \A j \in Ids \ {i} : ~Starting(j)
    BY <1>9 DEF StartTimesOut, StartInv, Starting
  <2>2. /\ job'[i].st = "walking" /\ \A j \in Ids \ {i} : job'[j] = job[j]
        /\ helper'[started].st = "gone"
        /\ \A h \in Helpers \ {started} : helper'[h] = helper[h]
    BY <1>9, <2>1, TimedOut DEF Calm
  <2>3. \A h \in Helpers : ~Running(h)'
    BY <2>1, <2>2 DEF OneRuns, Starting, Running
  <2> QED
    BY <2>3 DEF OneRuns
<1>10. ASSUME NEW i \in Ids, PollCancel(i) \/ GiveUp(i) \/ Take(i) \/ Walk(i) PROVE OneRuns'
  <2>1. UNCHANGED <<app, helper, started>> /\ job[i].st \in {"waiting", "walking"}
    BY <1>10 DEF PollCancel, GiveUp, Take, Walk
  <2>2. \/ job' = job
        \/ job'[i].st \in {"idle", "walking"} /\ \A j \in Ids \ {i} : job'[j] = job[j]
    BY <1>10, JobMoves, JobOver DEF PollCancel, GiveUp, Take, Walk, JobStates
  <2> QED
    BY <2>1, <2>2, OneGoesOn DEF Starting, Running, Up
<1>11. ASSUME NEW h \in Helpers, HelperStep(h) \/ Crash(h) PROVE OneRuns'
  <2>1. /\ helper'[h].st # "booting" /\ Running(h)
        /\ \A k \in Helpers \ {h} : helper'[k] = helper[k]
    BY <1>11, HelperDoes
  <2>2. UNCHANGED <<app, job, started>>
    BY <1>11 DEF HelperStep, Boot, Look, PickUp, Report, Built, Save, Outcome, Crash
  <2> QED
    BY <2>1, <2>2, OneGoesOn DEF Starting, Running, Up
<1> QED
  BY <1>2, <1>3, <1>4, <1>5, <1>6, <1>7, <1>8, <1>9, <1>10, <1>11 DEF Next, AppStep

-----------------------------------------------------------------------------
(***************************************************************************)
(* Any world.                                                              *)
(***************************************************************************)


(* A job goes on, no helper is involved. *)
LEMMA JobStarts ==
  ASSUME StartInv, NEW i \in Ids, UNCHANGED <<app, helper, started>>,
         app.up \/ job'[i].st = job[i].st,
         Starting(i)' => Starting(i) \/ \A j \in Ids : ~Starting(j),
         \A j \in Ids \ {i} : job'[j].st = job[j].st /\ job'[j].token = job[j].token,
         job'[i].st = "launched" => job[i].st = "launched" /\ job'[i].token = job[i].token,
         \A j \in Ids : job[j].st = "launched" => (DirUp => DirUp')
  PROVE  StartInv'
<1>1. \A j \in Ids : job'[j].st = "launched" => job[j].st = "launched" /\ job'[j].token = job[j].token
  OBVIOUS
<1>2. \A j \in Ids : job'[j].st = "launched" =>
        job'[j].token \in Helpers /\ job'[j].token = started' /\ DirUp'
  BY <1>1 DEF StartInv
<1>3. ~app'.up => \A j \in Ids : job'[j].st = "idle"
  BY DEF StartInv
<1>4. \A j \in Ids \ {i} : Starting(j)' <=> Starting(j)
  BY DEF Starting
<1>5. \A j, k \in Ids : Starting(j)' /\ Starting(k)' => j = k
  <2> SUFFICES ASSUME NEW j \in Ids, NEW k \in Ids, Starting(j)', Starting(k)', j # k
               PROVE  FALSE
    OBVIOUS
  <2>1. \A a, b \in Ids : Starting(a) /\ Starting(b) => a = b
    BY DEF StartInv
  <2>2. CASE j = i
    BY <1>4, <2>1, <2>2
  <2>3. CASE j # i
    BY <1>4, <2>1, <2>3
  <2> QED
    BY <2>2, <2>3
<1>6. /\ \A h \in Helpers : h > started' <=> helper'[h].st = "off"
      /\ app'.slot # 0 => app'.keeper /\ helper'[app'.slot].st # "off"
  BY DEF StartInv
<1> QED
  BY <1>2, <1>3, <1>5, <1>6 DEF StartInv

(* A helper goes on. *)
LEMMA HelperStarts ==
  ASSUME TypeOK, StartInv, NEW h \in Helpers, helper[h].st # "off", helper'[h].st # "off",
         UNCHANGED <<app, job, started>>, \A k \in Helpers \ {h} : helper'[k] = helper[k],
         DirUp => DirUp'
  PROVE  StartInv'
<1>1. app.slot # 0 => app.slot \in Helpers
  BY Sizes DEF TypeOK, Helpers
<1>2. app.slot # 0 => app.keeper /\ helper'[app.slot].st # "off"
  BY <1>1 DEF StartInv
<1> QED
  BY <1>2 DEF StartInv, Starting

LEMMA StartStep ==
  ASSUME TypeOK, StartInv, [Next]_vars
  PROVE  StartInv'
<1> USE DEF Starting
<1>1. CASE UNCHANGED vars
  BY <1>1 DEF vars, StartInv, DirUp
<1>3. CASE AppQuits \/ AppStarts \/ BeatAges \/ AliveAges
  <2>1. CASE AppQuits
    <3>1. \A j \in Ids : job'[j].st = "idle"
      BY <2>1, NewRecords DEF AppQuits
    <3> QED
      BY <2>1, <3>1 DEF AppQuits, StartInv
  <2>2. CASE AppStarts
    <3>1. app'.up /\ app'.slot = app.slot /\ app'.keeper = app.keeper
      BY <2>2 DEF AppStarts, TypeOK
    <3>2. UNCHANGED <<job, helper, started, alive>>
      BY <2>2 DEF AppStarts
    <3> QED
      BY <3>1, <3>2 DEF StartInv, DirUp
  <2>3. CASE BeatAges
    BY <2>3 DEF BeatAges, StartInv, DirUp
  <2>4. CASE AliveAges
    BY <2>4 DEF AliveAges, StartInv, DirUp
  <2> QED
    BY <1>3, <2>1, <2>2, <2>3, <2>4
<1>4. ASSUME NEW i \in Ids, job[i].st # "idle" PROVE app.up
  BY <1>4 DEF StartInv
<1>5. ASSUME NEW i \in Ids, Ask(i) PROVE StartInv'
  BY <1>5, Asked, JobStarts DEF Ask, DirUp
<1>6. ASSUME NEW i \in Ids, Stop(i) PROVE StartInv'
  BY <1>6, Stopped, JobStarts DEF Stop, DirUp
<1>7. ASSUME NEW i \in Ids, UseHelper(i) PROVE StartInv'
  <2>1. app.slot \in Helpers
    BY <1>7, Sizes DEF UseHelper, TypeOK, Helpers
  <2>2. /\ UNCHANGED <<app, helper, started, alive>> /\ job[i].st = "asking"
        /\ SendRequest(i, app.slot)
    BY <1>7 DEF UseHelper
  <2>3. job'[i].st \in {"waiting", "walking"} /\ \A j \in Ids \ {i} : job'[j] = job[j]
    BY <2>1, <2>2, UseJob
  <2> QED
    BY <1>4, <2>2, <2>3, JobStarts DEF DirUp
<1>8. ASSUME NEW i \in Ids, Wipe(i) PROVE StartInv'
  <2>1. job'[i].st = "wiped" /\ \A j \in Ids \ {i} : job'[j] = job[j]
    BY <1>8, JobMoves DEF Wipe, JobStates
  <2> QED
    BY <1>4, <1>8, <2>1, JobStarts DEF Wipe, SlotFree
<1>9. ASSUME NEW i \in Ids, Launch(i) PROVE StartInv'
  <2>1. DirUp' /\ UNCHANGED app /\ job[i].st = "wiped"
    BY <1>9 DEF Launch, DirUp
  <2>2. CASE UNCHANGED <<helper, started>> /\ job' = [job EXCEPT ![i].st = "walking"]
    <3>1. job'[i].st = "walking" /\ \A j \in Ids \ {i} : job'[j] = job[j]
      BY <2>2, JobMoves DEF JobStates
    <3> QED
      BY <1>4, <2>1, <2>2, <3>1, JobStarts
  <2>3. CASE /\ started < MaxHelpers /\ started' = started + 1
             /\ helper' = [helper EXCEPT ![started + 1].st = "booting"]
             /\ job' = [job EXCEPT ![i].st = "launched", ![i].token = started + 1]
    <3>1. started \in Nat /\ started + 1 \in Helpers /\ started + 1 \in 0..MaxHelpers
      BY <2>3, Sizes DEF Helpers, TypeOK
    <3>2. /\ helper'[started + 1].st = "booting"
          /\ \A h \in Helpers \ {started + 1} : helper'[h] = helper[h]
      BY <2>3, <3>1, HelperMoves DEF HelperStates
    <3>3. /\ job'[i].st = "launched" /\ job'[i].token = started + 1
          /\ \A j \in Ids \ {i} : job'[j] = job[j]
      BY <2>3, <3>1, JobLaunched
    <3>4. \A h \in Helpers : h > started' <=> helper'[h].st = "off"
      BY <2>3, <3>1, <3>2, Sizes DEF StartInv, Helpers
    <3>5. \A j \in Ids : job'[j].st = "launched" => j = i
      BY <2>1, <3>3 DEF StartInv
    <3>6. \A j, k \in Ids : Starting(j)' /\ Starting(k)' => j = k
      BY <2>1, <3>3 DEF StartInv
    <3>7. app.slot # 0 => app.keeper /\ helper'[app.slot].st # "off"
      BY <3>2, Sizes DEF StartInv, TypeOK, Helpers
    <3>8. app'.up /\ app'.slot = app.slot /\ app'.keeper = app.keeper
      BY <1>4, <2>1
    <3>9. \A j \in Ids : job'[j].st = "launched" =>
            job'[j].token \in Helpers /\ job'[j].token = started' /\ DirUp'
      BY <2>1, <2>3, <3>1, <3>3, <3>5
    <3> QED
      BY <3>4, <3>6, <3>7, <3>8, <3>9 DEF StartInv
  <2> QED
    BY <1>9, <2>2, <2>3 DEF Launch
<1>10. ASSUME NEW i \in Ids, HelperReady(i) PROVE StartInv'
  <2>1. job[i].token \in Helpers /\ helper[job[i].token].st # "off" /\ job[i].st = "launched"
    BY <1>10, Sizes DEF HelperReady, StartInv, Helpers
  <2>2. app'.up = app.up /\ app'.slot = job[i].token /\ app'.keeper /\ DirUp'
        /\ UNCHANGED <<helper, started>>
    BY <1>10 DEF HelperReady, DirUp, TypeOK
  <2>3. job'[i].st \in {"waiting", "walking"} /\ \A j \in Ids \ {i} : job'[j] = job[j]
    BY <1>10, <2>1, UseJob DEF HelperReady
  <2> QED
    BY <1>4, <2>1, <2>2, <2>3 DEF StartInv
<1>13. ASSUME NEW i \in Ids, StartTimesOut(i) PROVE StartInv'
  <2>1. /\ job'[i].st = "walking" /\ \A j \in Ids \ {i} : job'[j] = job[j]
        /\ job[i].token \in Helpers /\ helper[job[i].token].st = "booting"
        /\ helper'[job[i].token].st \in {"booting", "gone"}
        /\ \A h \in Helpers \ {job[i].token} : helper'[h] = helper[h]
    BY <1>13, TimedOut
  <2>2. UNCHANGED <<app, started, alive>> /\ job[i].st = "launched"
    BY <1>13 DEF StartTimesOut
  <2>3. \A h \in Helpers : helper'[h].st = "off" <=> helper[h].st = "off"
    BY <2>1
  <2>4. app.slot # 0 => app.slot \in Helpers
    BY Sizes DEF TypeOK, Helpers
  <2>5. app.slot # 0 => helper'[app.slot].st # "off"
    BY <2>3, <2>4 DEF StartInv
  <2>6. \A j \in Ids : Starting(j)' => Starting(j) /\ job'[j] = job[j]
    BY <2>1
  <2>7. \A h \in Helpers : h > started' <=> helper'[h].st = "off"
    BY <2>2, <2>3 DEF StartInv
  <2>8. \A j, k \in Ids : Starting(j)' /\ Starting(k)' => j = k
    BY <2>6 DEF StartInv
  <2>9. \A j \in Ids : job'[j].st = "launched" =>
          job'[j].token \in Helpers /\ job'[j].token = started' /\ DirUp'
    BY <2>2, <2>6 DEF StartInv, DirUp
  <2>10. app'.up
    BY <1>4, <2>2
  <2> QED
    BY <2>2, <2>5, <2>7, <2>8, <2>9, <2>10 DEF StartInv
<1>11. ASSUME NEW i \in Ids, PollCancel(i) \/ GiveUp(i) \/ Take(i) \/ Walk(i) PROVE StartInv'
  <2>1. /\ UNCHANGED <<app, helper, started>> /\ (DirUp => DirUp') /\ job[i].st \in {"waiting", "walking"}
    BY <1>11 DEF PollCancel, GiveUp, Take, Walk, DirUp
  <2>2. \/ job' = job
        \/ job'[i].st \in {"idle", "walking"} /\ \A j \in Ids \ {i} : job'[j] = job[j]
    BY <1>11, JobMoves, JobOver DEF PollCancel, GiveUp, Take, Walk, JobStates
  <2> QED
    BY <1>4, <2>1, <2>2, JobStarts
<1>12. ASSUME NEW h \in Helpers, HelperStep(h) \/ Crash(h) PROVE StartInv'
  <2>1. /\ UNCHANGED <<app, job, started>> /\ (DirUp => DirUp')
    BY <1>12 DEF HelperStep, Boot, Look, PickUp, Report, Built, Save, Outcome, Crash, DirUp, Touched
  <2>2. /\ helper[h].st # "off" /\ helper'[h].st # "off"
        /\ \A k \in Helpers \ {h} : helper'[k] = helper[k]
    BY <1>12, HelperDoes DEF Running
  <2> QED
    BY <2>1, <2>2, HelperStarts
<1> QED
  BY <1>1, <1>3, <1>5, <1>6, <1>7, <1>8, <1>9, <1>10, <1>11, <1>12, <1>13 DEF Next, AppStep

(* An answer is taken where the files of the job are its own. *)
LEMMA AnswerStep ==
  ASSUME HelperInv, [Next]_vars, Quick
  PROVE  \A i \in Ids : last'[i].got = last'[i].ask
<1>1. TypeOK /\ StartInv /\ \A j \in Ids : last[j].got = last[j].ask
  BY DEF HelperInv, ProtocolInv, OwnAnswer
<1>2. ASSUME NEW i \in Ids, Take(i) PROVE \A j \in Ids : last'[j].got = last'[j].ask
  <2>1. CASE last' = last
    BY <1>1, <2>1
  <2>2. CASE /\ done[i].ok
             /\ last' = [last EXCEPT ![i] = [ask |-> job[i].ask, by |-> "helper", got |-> result[i],
                                             cut |-> done[i].cut, stop |-> job[i].stop]]
    <3>1. job[i].st = "waiting" /\ done[i].there
      BY <1>2 DEF Take
    <3>2. app.up
      BY <1>1, <3>1 DEF StartInv
    <3>3. result[i] = job[i].ask
      BY <2>2, <3>1, <3>2 DEF HelperInv, QuickInv, OwnFiles
    <3> QED
      BY <1>1, <2>2, <3>3 DEF TypeOK
  <2> QED
    BY <1>2, <2>1, <2>2 DEF Take
<1>3. ASSUME NEW i \in Ids, Walk(i) PROVE \A j \in Ids : last'[j].got = last'[j].ask
  BY <1>1, <1>3 DEF Walk, TypeOK
<1>4. CASE UNCHANGED last
  BY <1>1, <1>4
<1> QED
  BY <1>2, <1>3, <1>4
  DEF Next, vars, Ask, Stop, AppStep, UseHelper, Wipe, Launch, HelperReady, StartTimesOut, PollCancel,
      GiveUp, AppQuits, AppStarts, HelperStep, Boot, Look, PickUp, Report, Built, Save, Outcome, Crash,
      BeatAges, AliveAges

LEMMA HelperInit == Init => HelperInv
<1> SUFFICES ASSUME Init PROVE HelperInv
  OBVIOUS
<1>1. TypeOK
  BY NewRecords, Sizes DEF Init, TypeOK, Ages
<1>2. StartInv
  BY NewRecords, Sizes DEF Init, StartInv, Starting, Helpers
<1>3. QuickInv /\ OneRuns
  BY NewRecords DEF Init, QuickInv, OneRuns, Heard, OneWorks, FreshFolder, OnlyWaiting, OwnFiles, Running,
     Up, SlotUp, Busy, Starting, Clean
<1>4. OwnAnswer
  BY NewRecords DEF Init, OwnAnswer
<1> QED
  BY <1>1, <1>2, <1>3, <1>4 DEF HelperInv, ProtocolInv, StartInv, Starting

LEMMA HelperNext == HelperInv /\ [Next]_vars => HelperInv'
<1> SUFFICES ASSUME HelperInv, [Next]_vars PROVE HelperInv'
  OBVIOUS
<1>1. TypeOK /\ StartInv
  BY DEF HelperInv, ProtocolInv
<1>2. TypeOK' /\ StartInv'
  BY <1>1, TypeStep, StartStep
<1>3. ProtocolInv'
  BY <1>2 DEF ProtocolInv, StartInv, Starting
<1>4. world' = world
  BY DEF Next, vars, Ask, Stop, AppStep, UseHelper, Wipe, Launch, HelperReady, StartTimesOut, PollCancel,
     GiveUp, Take, Walk, AppQuits, AppStarts, HelperStep, Boot, Look, PickUp, Report, Built, Save, Outcome,
     Crash, BeatAges, AliveAges
<1>5. (Quick' => Quick) /\ (Calm' => Calm) /\ (Calm => Quick)
  BY <1>4 DEF Calm, Quick
<1>6. Quick /\ app'.up => app.up
  <2>1. ASSUME AppStarts PROVE ~Quick
    BY <2>1 DEF AppStarts, Quick
  <2>2. ASSUME NEW i \in Ids, HelperReady(i) PROVE app'.up = app.up
    BY <1>1, <2>2 DEF HelperReady, TypeOK
  <2>3. ASSUME AppQuits PROVE ~app'.up
    BY <2>3 DEF AppQuits
  <2> QED
    BY <2>1, <2>2, <2>3 DEF Next, vars, Ask, Stop, AppStep, UseHelper, Wipe, Launch, StartTimesOut,
       PollCancel, GiveUp, Take, Walk, HelperStep, Boot, Look, PickUp, Report, Built, Save, Outcome, Crash,
       BeatAges, AliveAges
<1>7. Quick' /\ app'.up => QuickInv'
  BY <1>5, <1>6, QuickStep
<1>8. Calm' /\ app'.up => OneRuns'
  BY <1>5, <1>6, OneRunsStep
<1>9. OwnAnswer'
  BY <1>5, AnswerStep DEF OwnAnswer
<1> QED
  BY <1>2, <1>3, <1>7, <1>8, <1>9 DEF HelperInv

(* One job at a time starts a helper and it waits for the process it       *)
(* started; the helper in the slot is one of this run, kept alive.         *)
THEOREM ProtocolHolds == Spec => []ProtocolInv
<1>1. HelperInv => ProtocolInv
  BY DEF HelperInv
<1> QED
  BY <1>1, HelperInit, HelperNext, PTL DEF Spec

(* The answer a scan gets is its own, however helpers die, come up after   *)
(* they were given up, and jobs are cancelled, scanned again and answered  *)
(* at the same time.                                                       *)
THEOREM AnswersAreOwn == Spec => []OwnAnswer
<1>1. HelperInv => OwnAnswer
  BY DEF HelperInv
<1> QED
  BY <1>1, HelperInit, HelperNext, PTL DEF Spec

(* Where no prompt is answered after the app has given it up, no second    *)
(* elevated process is started next to one that runs.                      *)
THEOREM OnePrompt == Spec => PromptsOnlyWithoutHelper
<1>1. HelperInv /\ [Next]_vars =>
        [(Calm /\ started' > started) => \A h \in Helpers : ~Running(h)]_vars
  <2> SUFFICES ASSUME HelperInv, Next, Calm, started' > started, NEW h \in Helpers, Running(h)
               PROVE  FALSE
    OBVIOUS
  <2>1. PICK i \in Ids : Launch(i)
    <3>1. started' # started
      BY Sizes DEF HelperInv, ProtocolInv, TypeOK
    <3> QED
      BY <3>1
      DEF Next, Ask, Stop, AppStep, UseHelper, Wipe, HelperReady, StartTimesOut, PollCancel, GiveUp, Take,
          Walk, AppQuits, AppStarts, HelperStep, Boot, Look, PickUp, Report, Built, Save, Outcome, Crash,
          BeatAges, AliveAges
  <2>2. job[i].st = "wiped" /\ app.up
    BY <2>1 DEF Launch, HelperInv, StartInv
  <2> QED
    BY <2>2 DEF HelperInv, OneRuns, Starting
<1> QED
  BY <1>1, HelperInit, HelperNext, PTL DEF Spec, PromptsOnlyWithoutHelper

=============================================================================
