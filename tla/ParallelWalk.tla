---------------------------- MODULE ParallelWalk ----------------------------
(***************************************************************************)
(* The parallel directory walk (crates/diskghost-core/src/walk.rs): a pool *)
(* of worker threads, each task listing one directory, spawning a task for *)
(* every sub-directory it comes across while it is still listing, and      *)
(* sending what it listed as one batch when it reaches the end.  The       *)
(* consumer of the batches is the variable-free other side of the channel: *)
(* module TreeBuilder takes them off it.                                   *)
(***************************************************************************)
EXTENDS DirTree

CONSTANTS
  Workers,      \* the threads of the rayon pool
  None          \* nothing: no listing under way, no tree yet

VARIABLES
  cancelled,  \* Progress::cancel: set once, never cleared
  queue,      \* spawned tasks no thread has taken yet
  at,         \* at[w]: the listing thread w is in the middle of, or None
  seen,       \* Ctx::seen: canonical directories entered (following links)
  chan        \* batches sent and not yet received, oldest first

walkVars == <<cancelled, queue, at, seen, chan>>

(* A batch: the part of a listing the tree is built from. *)
Batch == [dir : Dirs, subdirs : SUBSET Dirs, bytes : Nat, skipped : Nat]

(* A listing under way: the batch filled so far, the sub-directory entries *)
(* not reached yet and whether the files are still to come.                *)
Listing == [batch : Batch, todo : SUBSET Dirs, files : BOOLEAN]

ASSUME WorkersAssumption == Workers # {} /\ None \notin Listing

EmptyBatch(d) == [dir |-> d, subdirs |-> {}, bytes |-> 0, skipped |-> 0]

(* Mutant: the root is not entered in the set of visited directories. *)
WalkInitRootUnseen ==
  /\ cancelled = FALSE
  /\ queue = {Root}
  /\ at = [w \in Workers |-> None]
  /\ seen = {}
  /\ chan = <<>>

WalkInit ==
  /\ cancelled = FALSE
  /\ queue = {Root}
  /\ at = [w \in Workers |-> None]
  /\ seen = IF Follow THEN {Target[Root]} ELSE {}
  /\ chan = <<>>

(* Progress::cancel, from another thread, at any moment. *)
Cancel ==
  /\ ~cancelled
  /\ cancelled' = TRUE
  /\ UNCHANGED <<queue, at, seen, chan>>

-----------------------------------------------------------------------------
(* A free thread takes a task and enters `visit`.                          *)

(* Mutant: a task that sees the cancel request is put back. *)
DropPutBack(w, d) == cancelled /\ UNCHANGED walkVars

(* The task sees the cancel request first: no listing, no batch. *)
Drop(w, d) ==
  /\ cancelled
  /\ queue' = queue \ {d}
  /\ UNCHANGED <<cancelled, at, seen, chan>>

(* read_dir fails: an empty batch that counts one skipped entry. *)
ListFails(w, d) ==
  /\ ~cancelled
  /\ d \in Unreadable
  /\ queue' = queue \ {d}
  /\ chan' = Append(chan, [EmptyBatch(d) EXCEPT !.skipped = 1])
  /\ UNCHANGED <<cancelled, at, seen>>

Open(w, d) ==
  /\ ~cancelled
  /\ d \notin Unreadable
  /\ queue' = queue \ {d}
  /\ at' = [at EXCEPT ![w] =
              [batch |-> EmptyBatch(d), todo |-> Children(d), files |-> TRUE]]
  /\ UNCHANGED <<cancelled, seen, chan>>

TakeTask(w) ==
  /\ at[w] = None
  /\ \E d \in queue : Drop(w, d) \/ ListFails(w, d) \/ Open(w, d)

-----------------------------------------------------------------------------
(* A thread inside a listing.  The order of the entries is the file        *)
(* system's, so any entry may be next.                                     *)

(* Mutant: a directory reached by a second link is entered again. *)
FindDirAgain(w) ==
  \E c \in at[w].todo :
    /\ at' = [at EXCEPT ![w].todo = @ \ {c}, ![w].batch.subdirs = @ \cup {c}]
    /\ queue' = IF Depth(at[w].batch.dir) + 1 < MaxDepth THEN queue \cup {c} ELSE queue
    /\ UNCHANGED <<cancelled, seen, chan>>

(* A sub-directory entry.  When following links a directory that was       *)
(* already entered is passed over; otherwise it joins the batch, and a     *)
(* task for it is spawned at once if the depth limit allows.               *)
FindDir(w) ==
  \E c \in at[w].todo :
    LET d     == at[w].batch.dir
        again == Follow /\ Target[c] \in seen
        subs  == IF again THEN {} ELSE {c}
    IN /\ at' = [at EXCEPT ![w].todo = @ \ {c},
                           ![w].batch.subdirs = @ \cup subs]
       /\ seen' = IF Follow THEN seen \cup {Target[c]} ELSE seen
       /\ queue' = IF Depth(d) + 1 < MaxDepth THEN queue \cup subs ELSE queue
       /\ UNCHANGED <<cancelled, chan>>

(* The file entries, as one. *)
ReadFiles(w) ==
  /\ at[w].files
  /\ at' = [at EXCEPT ![w].files = FALSE,
                      ![w].batch.bytes = Bytes[at[w].batch.dir]]
  /\ UNCHANGED <<cancelled, queue, seen, chan>>

(* An entry that cannot be read is counted and passed over. *)
EntryFails(w) ==
  /\ at[w].batch.dir \in Flaky
  /\ \/ \E c \in at[w].todo :
          at' = [at EXCEPT ![w].todo = @ \ {c}, ![w].batch.skipped = @ + 1]
     \/ /\ at[w].files
        /\ at' = [at EXCEPT ![w].files = FALSE, ![w].batch.skipped = @ + 1]
  /\ UNCHANGED <<cancelled, queue, seen, chan>>

(* The batch is sent at the end of the listing, or when the check made     *)
(* every 1024 entries sees the cancel request and breaks out of it.        *)
Send(w) ==
  /\ (at[w].todo = {} /\ ~at[w].files) \/ cancelled
  /\ chan' = Append(chan, at[w].batch)
  /\ at' = [at EXCEPT ![w] = None]
  /\ UNCHANGED <<cancelled, queue, seen>>

ListStep(w) ==
  /\ at[w] # None
  /\ FindDir(w) \/ ReadFiles(w) \/ EntryFails(w) \/ Send(w)

WorkerStep(w) == TakeTask(w) \/ ListStep(w)

(* The scope of the pool has returned and the sender is dropped. *)
WalkOver == queue = {} /\ \A w \in Workers : at[w] = None

WalkTypeOK ==
  /\ cancelled \in BOOLEAN
  /\ queue \subseteq Dirs
  /\ at \in [Workers -> Listing \cup {None}]
  /\ seen \subseteq {Target[d] : d \in Dirs}
  /\ chan \in Seq(Batch)

=============================================================================
