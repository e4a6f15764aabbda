--------------------------- MODULE ReclaimProofs ---------------------------
(***************************************************************************)
(* Proofs about DuplicateSearch, for any files, tabs and contents and any  *)
(* numbers of edits and searches, with a shared cache or without one, and, *)
(* from them, about Reclaim, which takes its steps: for any groups and     *)
(* commands, whatever the file system refuses, and with the app going down *)
(* at any moment.  The first part speaks of the search's own Spec, the     *)
(* second of ReclaimSpec.                                                  *)
(***************************************************************************)
EXTENDS Reclaim, FiniteSetTheorems, TLAPS

-----------------------------------------------------------------------------
(* The search.                                                             *)

(* The candidates are below the root, and there is one for what is still   *)
(* to be sampled, compared or hashed.                                      *)
StageFit(t) ==
  LET s == search[t]
  IN /\ \A p \in Paths : s.cand[p] # None => p \in Scope[t]
     /\ s.st = "sample" => \A p \in s.todo : s.cand[p] # None
     /\ s.st = "hash" =>
          /\ s.todo \subseteq s.alike
          /\ \A p \in s.alike : s.cand[p] # None /\ s.cand[p].known # None

TypesInv == DupTypeOK /\ \A t \in Tabs : StageFit(t)

(* Path p has not changed since the search of tab t began. *)
Still(t, p) == changed[p] < search[t].nr

(* What is known of a file is what the path has now. *)
Right(k, p) ==
  /\ Exists(p)
  /\ k.size = Size[ContentAt(p)] /\ k.id = at[p] /\ k.ends = Sample(ContentAt(p))
  /\ k.full \in {None, ContentAt(p)}

(* As long as the file has the time it was read at, which is what a cache  *)
(* goes by.                                                                *)
RightAt(k, p, time) ==
  /\ time < Latest
  /\ Cached /\ time # 0 /\ Exists(p) /\ data[at[p]].time = time => Right(k, p)

(* The files' times are in the past. *)
Past == \A i \in Inodes : data[i].time < Latest

EntriesRight(c) == \A p \in Paths : c[p] # None => RightAt(c[p], p, c[p].time)

(* A candidate is what the walk saw, and what is known of it is right for  *)
(* the file the walk saw: at once, or when its time says it is still that. *)
CandRight(t, p) ==
  LET c == search[t].cand[p]
  IN c # None =>
       /\ Still(t, p) => Exists(p) /\ c.size = Size[ContentAt(p)] /\ c.time = data[at[p]].time
       /\ c.time < Latest
       /\ c.known # None =>
            /\ c.known.size = c.size /\ c.known.time = c.time
            /\ Still(t, p) => Right(c.known, p)
            /\ RightAt(c.known, p, c.time)

(* Of the files that are compared to the end no two are one. *)
LinksApart(t) ==
  LET s == search[t]
  IN s.st = "hash" => \A p, q \in s.alike :
       p # q => s.cand[p].known.id # s.cand[q].known.id \/ s.cand[p].size # s.cand[q].size

(* What a tab shows is of files as they are if they did not change. *)
GroupsRight(t) ==
  \A g \in groups[t] :
    /\ g.files \subseteq Scope[t]
    /\ \A p \in g.files : Still(t, p) => Exists(p) /\ ContentAt(p) = g.full
    /\ \A p, q \in g.files : Still(t, p) /\ Still(t, q) /\ p # q => at[p] # at[q]

(* What is known, kept and shown is right. *)
DupSafe ==
  /\ TypesInv
  /\ Past
  /\ EntriesRight(cache)
  /\ \A t \in Tabs : /\ \A p \in Paths : CandRight(t, p)
                     /\ LinksApart(t) /\ GroupsRight(t)

(* Nobody interferes with the search. *)
Quiet(t) == ~search[t].stop /\ \A p \in Scope[t] : Still(t, p)

(* Two copies. *)
Twins(p, q) == Exists(p) /\ Exists(q) /\ at[p] # at[q] /\ ContentAt(p) = ContentAt(q)

(* A link of the file at p that the search has not set aside. *)
LinkIn(p, ps) == \E x \in ps : at[x] = at[p]

(* Of two copies none is lost on the way. *)
NoneLost(t) ==
  LET s == search[t]
  IN Quiet(t) =>
       /\ s.st = "walk" => \A p \in Scope[t] \ s.todo : Exists(p) => s.cand[p] # None
       /\ s.st = "sample" => \A p, q \in Scope[t] : Twins(p, q) =>
            s.cand[p] # None /\ (p \notin s.todo => s.cand[p].known # None)
       /\ s.st = "hash" => /\ \A p, q \in Scope[t] : Twins(p, q) => LinkIn(p, s.alike)
                           /\ \A p \in s.alike \ s.todo : s.cand[p].known.full # None
       /\ s.st = "done" => \A p, q \in Scope[t] : Twins(p, q) =>
            \E g \in groups[t] : LinkIn(p, g.files) /\ LinkIn(q, g.files)

DupInv == DupSafe /\ \A t \in Tabs : NoneLost(t)

(* A step keeps what is right, and loses nothing where nothing was lost. *)
Keeps == DupSafe' /\ ((\A t \in Tabs : NoneLost(t)) => (\A t \in Tabs : NoneLost(t)'))

-----------------------------------------------------------------------------
(***************************************************************************)
(* The records that the steps write.                                       *)
(***************************************************************************)

LEMMA Bounds == /\ MaxSearches \in Nat /\ MaxEdits \in Nat
                /\ None \notin Known /\ None \notin Cand /\ None \notin Contents /\ None \notin Inodes
                /\ Scope \in [Tabs -> SUBSET Paths] /\ IsFiniteSet(Paths)
BY DupAssumption

LEMMA SearchUpdates ==
  ASSUME NEW s \in SearchState
  PROVE  /\ \A x : [s EXCEPT !.todo = x] = [st |-> s.st, nr |-> s.nr, stop |-> s.stop, todo |-> x,
                                           alike |-> s.alike, cand |-> s.cand]
         /\ \A x : [s EXCEPT !.cand = x] = [st |-> s.st, nr |-> s.nr, stop |-> s.stop, todo |-> s.todo,
                                           alike |-> s.alike, cand |-> x]
         /\ \A x : [s EXCEPT !.st = x] = [st |-> x, nr |-> s.nr, stop |-> s.stop, todo |-> s.todo,
                                         alike |-> s.alike, cand |-> s.cand]
         /\ \A x : [s EXCEPT !.nr = x] = [st |-> s.st, nr |-> x, stop |-> s.stop, todo |-> s.todo,
                                         alike |-> s.alike, cand |-> s.cand]
         /\ \A x : [s EXCEPT !.alike = x] = [st |-> s.st, nr |-> s.nr, stop |-> s.stop, todo |-> s.todo,
                                            alike |-> x, cand |-> s.cand]
         /\ \A x \in BOOLEAN :
              [s EXCEPT !.stop = x] = [st |-> s.st, nr |-> s.nr, stop |-> x, todo |-> s.todo,
                                       alike |-> s.alike, cand |-> s.cand]
BY DEF SearchState

(* One file of the search is dealt with. *)
FileDone(t, p, x) ==
  [st |-> search[t].st, nr |-> search[t].nr, stop |-> search[t].stop, todo |-> search[t].todo \ {p},
   alike |-> search[t].alike, cand |-> [search[t].cand EXCEPT ![p] = x]]

LEMMA OneFile ==
  ASSUME DupTypeOK, NEW t \in Tabs, NEW p \in Paths, NEW x \in Cand \cup {None},
         search' = [search EXCEPT ![t].todo = @ \ {p}, ![t].cand[p] = x]
  PROVE  /\ search' = [search EXCEPT ![t] = FileDone(t, p, x)]
         /\ FileDone(t, p, x) \in SearchState
<1> DEFINE s == search[t]
           mid == [st |-> s.st, nr |-> s.nr, stop |-> s.stop, todo |-> s.todo \ {p},
                   alike |-> s.alike, cand |-> s.cand]
           m == [search EXCEPT ![t] = mid]
<1>1. search \in [Tabs -> SearchState]
  BY DEF DupTypeOK
<1>2. [s EXCEPT !.todo = @ \ {p}] = mid
  BY <1>1, SearchUpdates
<1>3. [search EXCEPT ![t].todo = @ \ {p}] = m
  BY <1>2
<1>4. search' = [m EXCEPT ![t].cand[p] = x]
  BY <1>3
<1>5. m[t] = mid
  BY <1>1
<1>6. [mid EXCEPT !.cand = [s.cand EXCEPT ![p] = x]] = FileDone(t, p, x)
  <2>1. mid \in SearchState
    BY <1>1 DEF SearchState
  <2>2. mid.st = s.st /\ mid.nr = s.nr /\ mid.stop = s.stop /\ mid.todo = s.todo \ {p} /\ mid.alike = s.alike
    OBVIOUS
  <2> HIDE DEF mid
  <2>3. ASSUME NEW y
        PROVE  [mid EXCEPT !.cand = y] = [st |-> s.st, nr |-> s.nr, stop |-> s.stop,
                 todo |-> s.todo \ {p}, alike |-> s.alike, cand |-> y]
    <3>1. [mid EXCEPT !.cand = y] = [st |-> mid.st, nr |-> mid.nr, stop |-> mid.stop,
            todo |-> mid.todo, alike |-> mid.alike, cand |-> y]
      BY <2>1, SearchUpdates
    <3> QED
      BY <3>1, <2>2
  <2> QED
    BY <2>3 DEF FileDone
<1>7. [m EXCEPT ![t].cand[p] = x] = [m EXCEPT ![t] = FileDone(t, p, x)]
  BY <1>1, <1>5, <1>6
<1>8. [m EXCEPT ![t] = FileDone(t, p, x)] = [search EXCEPT ![t] = FileDone(t, p, x)]
  BY <1>1
<1>9. FileDone(t, p, x) \in SearchState
  BY <1>1 DEF FileDone, SearchState
<1> QED
  BY <1>4, <1>7, <1>8, <1>9

LEMMA CandUpdates ==
  ASSUME NEW c \in Cand, NEW k \in Known \cup {None}, NEW f
  PROVE  /\ [c EXCEPT !.known = k] = [size |-> c.size, time |-> c.time, known |-> k]
         /\ [c EXCEPT !.known = k] \in Cand
         /\ c.known \in Known /\ f \in Contents \cup {None} =>
              LET n == [size |-> c.known.size, time |-> c.known.time, id |-> c.known.id,
                        ends |-> c.known.ends, full |-> f]
              IN /\ [c EXCEPT !.known.full = f] = [size |-> c.size, time |-> c.time, known |-> n]
                 /\ n \in Known /\ [size |-> c.size, time |-> c.time, known |-> n] \in Cand
<1>1. /\ [c EXCEPT !.known = k] = [size |-> c.size, time |-> c.time, known |-> k]
      /\ [c EXCEPT !.known = k] \in Cand
  BY DEF Cand
<1>2. ASSUME c.known \in Known, f \in Contents \cup {None}
      PROVE  LET n == [size |-> c.known.size, time |-> c.known.time, id |-> c.known.id,
                        ends |-> c.known.ends, full |-> f]
              IN /\ [c EXCEPT !.known.full = f] = [size |-> c.size, time |-> c.time, known |-> n]
                 /\ n \in Known /\ [size |-> c.size, time |-> c.time, known |-> n] \in Cand
  <2> DEFINE n == [size |-> c.known.size, time |-> c.known.time, id |-> c.known.id,
                   ends |-> c.known.ends, full |-> f]
  <2>1. [c.known EXCEPT !.full = f] = n
    BY <1>2 DEF Known
  <2>2. n \in Known
    BY <1>2 DEF Known
  <2> HIDE DEF n
  <2>3. [c EXCEPT !.known.full = f] = [c EXCEPT !.known = n]
    BY <2>1
  <2>4. [c EXCEPT !.known = n] = [size |-> c.size, time |-> c.time, known |-> n]
    BY DEF Cand
  <2>5. [size |-> c.size, time |-> c.time, known |-> n] \in Cand
    BY <2>2 DEF Cand
  <2> QED
    BY <2>2, <2>3, <2>4, <2>5 DEF n
<1> QED
  BY <1>1, <1>2

LEMMA IdleRecord ==
  /\ Idle \in SearchState /\ Idle.st = "idle" /\ Idle.nr = 0 /\ Idle.stop = FALSE
  /\ Idle.todo = {} /\ Idle.alike = {} /\ Idle.cand = [p \in Paths |-> None]
BY Bounds DEF Idle, SearchState

LEMMA Returned ==
  ASSUME DupTypeOK, NEW t \in Tabs, Returns(t)
  PROVE  /\ search' \in [Tabs -> SearchState]
         /\ \A u \in Tabs \ {t} : search'[u] = search[u]
         /\ search'[t].st = "done" /\ search'[t].nr = search[t].nr /\ search'[t].stop = search[t].stop
         /\ search'[t].todo = {} /\ search'[t].alike = {} /\ search'[t].cand = [p \in Paths |-> None]
<1> DEFINE new == [st |-> "done", nr |-> search[t].nr, stop |-> search[t].stop,
                   todo |-> Idle.todo, alike |-> Idle.alike, cand |-> Idle.cand]
<1>1. search \in [Tabs -> SearchState]
  BY DEF DupTypeOK
<1>2. [Idle EXCEPT !.st = "done", !.nr = search[t].nr, !.stop = search[t].stop] = new
  <2>1. search[t].nr \in 0..MaxSearches /\ search[t].stop \in BOOLEAN
    BY <1>1 DEF SearchState
  <2> DEFINE a == [st |-> "done", nr |-> Idle.nr, stop |-> Idle.stop, todo |-> Idle.todo,
                   alike |-> Idle.alike, cand |-> Idle.cand]
             c == [st |-> "done", nr |-> search[t].nr, stop |-> Idle.stop, todo |-> Idle.todo,
                   alike |-> Idle.alike, cand |-> Idle.cand]
  <2>2. a \in SearchState /\ c \in SearchState
    BY <2>1, IdleRecord DEF SearchState
  <2>3. [Idle EXCEPT !.st = "done"] = a
    BY IdleRecord, SearchUpdates
  <2>4. [a EXCEPT !.nr = search[t].nr] = c
    BY <2>2, SearchUpdates
  <2>5. [c EXCEPT !.stop = search[t].stop] = new
    BY <2>1, <2>2, SearchUpdates
  <2> QED
    BY <2>3, <2>4, <2>5
<1>3. search' = [search EXCEPT ![t] = new]
  BY <1>2 DEF Returns
<1>4. /\ new \in SearchState /\ new.st = "done" /\ new.nr = search[t].nr /\ new.stop = search[t].stop
      /\ new.todo = {} /\ new.alike = {} /\ new.cand = [p \in Paths |-> None]
  <2>1. search[t].nr \in 0..MaxSearches /\ search[t].stop \in BOOLEAN
    BY <1>1 DEF SearchState
  <2>2. Idle.todo \in SUBSET Paths /\ Idle.alike \in SUBSET Paths /\ Idle.cand \in [Paths -> Cand \cup {None}]
    BY IdleRecord
  <2> QED
    BY <2>1, <2>2, IdleRecord DEF SearchState
<1> HIDE DEF new
<1> QED
  BY <1>1, <1>3, <1>4

(* The sizes are compared. *)
LEMMA Sized ==
  ASSUME DupTypeOK, NEW t \in Tabs, NEW ps \in SUBSET Paths, NEW cs \in [Paths -> Cand \cup {None}],
         search' = [search EXCEPT ![t].st = "sample", ![t].todo = ps, ![t].cand = cs]
  PROVE  search' = [search EXCEPT ![t] = [st |-> "sample", nr |-> search[t].nr, stop |-> search[t].stop, todo |-> ps, alike |-> search[t].alike, cand |-> cs]]
<1> DEFINE s == search[t]
           a == [st |-> "sample", nr |-> search[t].nr, stop |-> search[t].stop, todo |-> search[t].todo, alike |-> search[t].alike, cand |-> search[t].cand]
           b == [st |-> "sample", nr |-> search[t].nr, stop |-> search[t].stop, todo |-> ps, alike |-> search[t].alike, cand |-> search[t].cand]
           c == [st |-> "sample", nr |-> search[t].nr, stop |-> search[t].stop, todo |-> ps, alike |-> search[t].alike, cand |-> cs]
           m == [search EXCEPT ![t] = a]
           n == [search EXCEPT ![t] = b]
<1>1. search \in [Tabs -> SearchState] /\ s \in SearchState
  BY DEF DupTypeOK
<1>2. a \in SearchState /\ b \in SearchState
  BY <1>1 DEF SearchState
<1>3. [s EXCEPT !.st = "sample"] = a
  BY <1>1, SearchUpdates
<1>4. [a EXCEPT !.todo = ps] = b
  BY <1>2, SearchUpdates
<1>5. [b EXCEPT !.cand = cs] = c
  BY <1>2, SearchUpdates
<1>6. m[t] = a /\ n[t] = b
  BY <1>1
<1>7. [search EXCEPT ![t].st = "sample"] = m
  BY <1>3
<1>8. [m EXCEPT ![t].todo = ps] = n
  <2>1. [m EXCEPT ![t].todo = ps] = [m EXCEPT ![t] = b]
    BY <1>4, <1>6
  <2>2. [m EXCEPT ![t] = b] = n
    BY <1>1
  <2> QED
    BY <2>1, <2>2
<1>9. [n EXCEPT ![t].cand = cs] = [search EXCEPT ![t] = c]
  <2>1. [n EXCEPT ![t].cand = cs] = [n EXCEPT ![t] = c]
    BY <1>5, <1>6
  <2>2. [n EXCEPT ![t] = c] = [search EXCEPT ![t] = c]
    BY <1>1
  <2> QED
    BY <2>1, <2>2
<1> QED
  BY <1>7, <1>8, <1>9

(* The samples are compared. *)
HashNext(t, al, ps) == [search EXCEPT ![t].st = "hash", ![t].alike = al, ![t].todo = ps]

LEMMA SamplesCompared ==
  ASSUME DupTypeOK, NEW t \in Tabs, NEW al \in SUBSET Paths, NEW ps \in SUBSET Paths,
         search' = HashNext(t, al, ps)
  PROVE  search' = [search EXCEPT ![t] = [st |-> "hash", nr |-> search[t].nr, stop |-> search[t].stop, todo |-> ps, alike |-> al, cand |-> search[t].cand]]
<1> DEFINE s == search[t]
           a == [st |-> "hash", nr |-> search[t].nr, stop |-> search[t].stop, todo |-> search[t].todo, alike |-> search[t].alike, cand |-> search[t].cand]
           b == [st |-> "hash", nr |-> search[t].nr, stop |-> search[t].stop, todo |-> search[t].todo, alike |-> al, cand |-> search[t].cand]
           c == [st |-> "hash", nr |-> search[t].nr, stop |-> search[t].stop, todo |-> ps, alike |-> al, cand |-> search[t].cand]
           m == [search EXCEPT ![t] = a]
           n == [search EXCEPT ![t] = b]
<1>1. search \in [Tabs -> SearchState] /\ s \in SearchState
  BY DEF DupTypeOK
<1>2. a \in SearchState /\ b \in SearchState
  BY <1>1 DEF SearchState
<1>3. [s EXCEPT !.st = "hash"] = a
  BY <1>1, SearchUpdates
<1>4. [a EXCEPT !.alike = al] = b
  <2>1. a.st = "hash" /\ a.nr = s.nr /\ a.stop = s.stop /\ a.todo = s.todo /\ a.cand = s.cand
    OBVIOUS
  <2> HIDE DEF a
  <2>2. [a EXCEPT !.alike = al] = [st |-> a.st, nr |-> a.nr, stop |-> a.stop, todo |-> a.todo,
                                   alike |-> al, cand |-> a.cand]
    BY <1>2, SearchUpdates
  <2> QED
    BY <2>1, <2>2
<1>5. [b EXCEPT !.todo = ps] = c
  BY <1>2, SearchUpdates
<1>6. m[t] = a /\ n[t] = b
  BY <1>1
<1>7. [search EXCEPT ![t].st = "hash"] = m
  BY <1>3
<1>8. [m EXCEPT ![t].alike = al] = n
  <2>1. [m EXCEPT ![t].alike = al] = [m EXCEPT ![t] = b]
    BY <1>4, <1>6
  <2>2. [m EXCEPT ![t] = b] = n
    BY <1>1
  <2> QED
    BY <2>1, <2>2
<1>9. [n EXCEPT ![t].todo = ps] = [search EXCEPT ![t] = c]
  <2>1. [n EXCEPT ![t].todo = ps] = [n EXCEPT ![t] = c]
    BY <1>5, <1>6
  <2>2. [n EXCEPT ![t] = c] = [search EXCEPT ![t] = c]
    BY <1>1
  <2> QED
    BY <2>1, <2>2
<1> QED
  BY <1>7, <1>8, <1>9 DEF HashNext

LEMMA Begun ==
  ASSUME DupTypeOK, NEW t \in Tabs, Begin(t)
  PROVE  /\ search' \in [Tabs -> SearchState]
         /\ \A u \in Tabs \ {t} : search'[u] = search[u]
         /\ search'[t].st = "walk" /\ search'[t].nr = searches + 1 /\ ~search'[t].stop
         /\ search'[t].todo = Scope[t] /\ search'[t].alike = {} /\ search'[t].cand = [p \in Paths |-> None]
<1> DEFINE n == searches'
           a == [st |-> "walk", nr |-> Idle.nr, stop |-> Idle.stop, todo |-> Idle.todo,
                 alike |-> Idle.alike, cand |-> Idle.cand]
           b == [st |-> "walk", nr |-> n, stop |-> Idle.stop, todo |-> Idle.todo,
                 alike |-> Idle.alike, cand |-> Idle.cand]
           new == [st |-> "walk", nr |-> n, stop |-> Idle.stop, todo |-> Scope[t],
                   alike |-> Idle.alike, cand |-> Idle.cand]
<1>1. search \in [Tabs -> SearchState] /\ searches' = searches + 1 /\ searches' \in 0..MaxSearches
  BY Bounds DEF DupTypeOK, Begin
<1>2. a \in SearchState /\ b \in SearchState /\ new \in SearchState
  <2>1. Idle.nr \in 0..MaxSearches /\ Idle.stop \in BOOLEAN /\ Idle.todo \in SUBSET Paths
        /\ Idle.alike \in SUBSET Paths /\ Idle.cand \in [Paths -> Cand \cup {None}] /\ Scope[t] \in SUBSET Paths
    <3>1. Scope[t] \in SUBSET Paths
      BY Bounds
    <3> QED
      BY <3>1, IdleRecord DEF SearchState
  <2> QED
    BY <1>1, <2>1 DEF SearchState
<1>3. [Idle EXCEPT !.st = "walk"] = a
  BY IdleRecord, SearchUpdates
<1>4. [a EXCEPT !.nr = n] = b
  BY <1>2, SearchUpdates
<1>5. [b EXCEPT !.todo = Scope[t]] = new
  BY <1>2, SearchUpdates
<1>6. search' = [search EXCEPT ![t] = new]
  BY <1>3, <1>4, <1>5 DEF Begin
<1>7. new.st = "walk" /\ new.nr = searches + 1 /\ ~new.stop /\ new.todo = Scope[t] /\ new.alike = {}
      /\ new.cand = [p \in Paths |-> None]
  BY <1>1, IdleRecord
<1> HIDE DEF new
<1> QED
  BY <1>1, <1>2, <1>6, <1>7

LEMMA Cancelled ==
  ASSUME DupTypeOK, NEW t \in Tabs, Cancel(t)
  PROVE  /\ search' \in [Tabs -> SearchState]
         /\ \A u \in Tabs \ {t} : search'[u] = search[u]
         /\ search'[t].st = search[t].st /\ search'[t].nr = search[t].nr /\ search'[t].stop
         /\ search'[t].todo = search[t].todo /\ search'[t].alike = search[t].alike
         /\ search'[t].cand = search[t].cand
<1> DEFINE new == [st |-> search[t].st, nr |-> search[t].nr, stop |-> TRUE, todo |-> search[t].todo,
                   alike |-> search[t].alike, cand |-> search[t].cand]
<1>1. search \in [Tabs -> SearchState]
  BY DEF DupTypeOK
<1>2. ASSUME NEW b \in BOOLEAN
      PROVE  [search[t] EXCEPT !.stop = b] =
               [st |-> search[t].st, nr |-> search[t].nr, stop |-> b, todo |-> search[t].todo,
                alike |-> search[t].alike, cand |-> search[t].cand]
  BY <1>1, SearchUpdates
<1>3. search' = [search EXCEPT ![t] = new]
  BY <1>2 DEF Cancel
<1>4. new \in SearchState /\ new.st = search[t].st /\ new.nr = search[t].nr /\ new.stop
      /\ new.todo = search[t].todo /\ new.alike = search[t].alike /\ new.cand = search[t].cand
  BY <1>1 DEF SearchState
<1> HIDE DEF new
<1> QED
  BY <1>1, <1>3, <1>4

(* A field of the candidate is written with the candidate. *)
LEMMA NestedFields ==
  ASSUME DupTypeOK, NEW t \in Tabs, NEW p \in Paths, NEW x
  PROVE  /\ [search EXCEPT ![t].todo = @ \ {p}, ![t].cand[p].known = x] =
              [search EXCEPT ![t].todo = @ \ {p}, ![t].cand[p] = [search[t].cand[p] EXCEPT !.known = x]]
         /\ [search EXCEPT ![t].todo = @ \ {p}, ![t].cand[p].known.full = x] =
              [search EXCEPT ![t].todo = @ \ {p},
                             ![t].cand[p] = [search[t].cand[p] EXCEPT !.known.full = x]]
<1> DEFINE m == [search EXCEPT ![t].todo = @ \ {p}]
<1>1. m[t].cand[p] = search[t].cand[p]
  BY DEF DupTypeOK, SearchState
<1>2. [m EXCEPT ![t].cand[p].known = x] = [m EXCEPT ![t].cand[p] = [m[t].cand[p] EXCEPT !.known = x]]
  OBVIOUS
<1>3. [m EXCEPT ![t].cand[p].known.full = x] =
        [m EXCEPT ![t].cand[p] = [m[t].cand[p] EXCEPT !.known.full = x]]
  OBVIOUS
<1> QED
  BY <1>1, <1>2, <1>3

(* The files that were found to hold what the file at p holds. *)
Copies(t, p) ==
  {q \in search[t].alike : /\ search[t].cand[q].known.full # None
                           /\ search[t].cand[p].size = search[t].cand[q].size
                           /\ search[t].cand[p].known.full = search[t].cand[q].known.full}

LEMMA GroupsAre ==
  ASSUME NEW t \in Tabs
  PROVE  /\ \A g \in Grouped(t) : \E p \in search[t].alike :
              /\ search[t].cand[p].known.full # None
              /\ g = [full |-> search[t].cand[p].known.full, files |-> Copies(t, p)]
         /\ \A p \in search[t].alike :
              search[t].cand[p].known.full # None /\ Cardinality(Copies(t, p)) > 1
              => [full |-> search[t].cand[p].known.full, files |-> Copies(t, p)] \in Grouped(t)
<1> DEFINE cand == search[t].cand
           done == {p \in search[t].alike : cand[p].known.full # None}
           G(p) == [full |-> cand[p].known.full,
                    files |-> {q \in done : /\ cand[p].size = cand[q].size
                                            /\ cand[p].known.full = cand[q].known.full}]
           all == {G(p) : p \in done}
<1>1. Grouped(t) = {g \in all : Cardinality(g.files) > 1}
  BY Zenon DEF Grouped
<1>2. \A p \in done : G(p) = [full |-> cand[p].known.full, files |-> Copies(t, p)]
  <2>1. ASSUME NEW p
        PROVE  {q \in done : /\ cand[p].size = cand[q].size
                             /\ cand[p].known.full = cand[q].known.full} = Copies(t, p)
    BY DEF Copies
  <2> QED
    BY <2>1
<1>3. \A p \in done : G(p).files = Copies(t, p)
  BY <1>2
<1>4. \A p : p \in done <=> p \in search[t].alike /\ cand[p].known.full # None
  OBVIOUS
<1> HIDE DEF done, G
<1>5. \A g : g \in Grouped(t) <=> \E p \in done : g = G(p) /\ Cardinality(g.files) > 1
  BY <1>1
<1> QED
  BY <1>2, <1>3, <1>4, <1>5

LEMMA Pair ==
  ASSUME NEW S, IsFiniteSet(S), NEW x \in S, NEW y \in S, x # y
  PROVE  Cardinality(S) > 1
<1>1. IsFiniteSet({x}) /\ Cardinality({x}) = 1
  BY FS_Singleton
<1>2. {x} \in SUBSET S
  OBVIOUS
<1>3. Cardinality({x}) <= Cardinality(S) /\ (Cardinality(S) = Cardinality({x}) => S = {x})
  BY <1>2, FS_Subset
<1>4. Cardinality(S) \in Nat
  BY FS_CardinalityType
<1> QED
  BY <1>1, <1>3, <1>4

-----------------------------------------------------------------------------
(***************************************************************************)
(* What the steps of a search write, and the types of it.                  *)
(***************************************************************************)

(* What changes when the search comes to one file. *)
FileStepped(t, p, x) ==
  /\ search' \in [Tabs -> SearchState]
  /\ \A u \in Tabs \ {t} : search'[u] = search[u]
  /\ search'[t].st = search[t].st /\ search'[t].nr = search[t].nr /\ search'[t].stop = search[t].stop
  /\ search'[t].todo = search[t].todo \ {p} /\ search'[t].alike = search[t].alike
  /\ search'[t].cand[p] = x /\ \A q \in Paths \ {p} : search'[t].cand[q] = search[t].cand[q]

LEMMA FileSteps ==
  ASSUME DupTypeOK, NEW t \in Tabs, NEW p \in Paths, NEW x \in Cand \cup {None},
         search' = [search EXCEPT ![t].todo = @ \ {p}, ![t].cand[p] = x]
  PROVE  FileStepped(t, p, x)
<1> DEFINE new == FileDone(t, p, x)
<1>1. search \in [Tabs -> SearchState] /\ search[t].cand \in [Paths -> Cand \cup {None}]
  BY DEF DupTypeOK, SearchState
<1>2. search' = [search EXCEPT ![t] = new] /\ new \in SearchState
  BY OneFile
<1>3. /\ new.st = search[t].st /\ new.nr = search[t].nr /\ new.stop = search[t].stop
      /\ new.todo = search[t].todo \ {p} /\ new.alike = search[t].alike
      /\ new.cand = [search[t].cand EXCEPT ![p] = x]
  BY DEF FileDone
<1> HIDE DEF new
<1>4. search'[t] = new /\ \A u \in Tabs \ {t} : search'[u] = search[u]
  BY <1>1, <1>2
<1>5. new.cand[p] = x /\ \A q \in Paths \ {p} : new.cand[q] = search[t].cand[q]
  BY <1>1, <1>3
<1> QED
  BY <1>1, <1>2, <1>3, <1>4, <1>5 DEF FileStepped

LEMMA Listed ==
  ASSUME DupTypeOK, NEW t \in Tabs, NEW p \in Paths, ListFile(t, p)
  PROVE  \E x \in Cand \cup {None} :
           /\ FileStepped(t, p, x)
           /\ x # None => /\ Exists(p) /\ x.known = None
                          /\ x.size = Size[ContentAt(p)] /\ x.time = data[at[p]].time
           /\ Exists(p) /\ ~search[t].stop => x # None
<1> DEFINE e == IF Exists(p) /\ ~search[t].stop
                  THEN [size |-> Size[ContentAt(p)], time |-> data[at[p]].time, known |-> None]
                  ELSE None
<1>1. Exists(p) => e \in Cand \cup {None}
  <2>1. Exists(p) => /\ data[at[p]].time \in Nat /\ Size[ContentAt(p)] \in {"small", "large"}
    BY DupAssumption DEF Exists, ContentAt, DupTypeOK, Data
  <2> QED
    BY <2>1 DEF Cand
<1>2. Exists(p) /\ ~search[t].stop => e # None
  <2> SUFFICES ASSUME Exists(p), ~search[t].stop PROVE e # None
    OBVIOUS
  <2>1. data[at[p]].time \in Nat /\ Size[ContentAt(p)] \in {"small", "large"}
    BY DupAssumption DEF Exists, ContentAt, DupTypeOK, Data
  <2>2. e \in Cand
    BY <2>1 DEF Cand
  <2> QED
    BY <2>2, Bounds
<1>3. PICK x \in Cand \cup {None} :
        /\ x = e
        /\ x # None => Exists(p) /\ x.known = None /\ x.size = Size[ContentAt(p)] /\ x.time = data[at[p]].time
  BY <1>1
<1>4. search' = [search EXCEPT ![t].todo = @ \ {p}, ![t].cand[p] = x]
  BY <1>3 DEF ListFile
<1>5. FileStepped(t, p, x)
  BY <1>4, FileSteps, Zenon
<1> QED
  BY <1>2, <1>3, <1>5

(* What is read of a file. *)
LEMMA SampleIs ==
  ASSUME DupTypeOK, NEW p \in Paths, NEW c \in Cand
  PROVE  /\ SampleOf(p, c) \in Known \cup {None}
         /\ SampleOf(p, c) # None =>
              /\ SampleOf(p, c).size = c.size /\ SampleOf(p, c).time = c.time /\ Right(SampleOf(p, c), p)
         /\ Exists(p) /\ Size[ContentAt(p)] = c.size => SampleOf(p, c) # None
<1> DEFINE r == [size |-> c.size, time |-> c.time, id |-> at[p], ends |-> Sample(ContentAt(p)),
                 full |-> IF c.size = "small" THEN ContentAt(p) ELSE None]
<1>1. Exists(p) => at[p] \in Inodes /\ ContentAt(p) \in Contents
  BY DEF Exists, ContentAt, DupTypeOK, Data
<1>2. Exists(p) => r \in Known
  BY <1>1 DEF Cand, Known, Samples
<1>3. Exists(p) /\ Size[ContentAt(p)] = c.size => Right(r, p)
  BY DEF Right
<1>4. r.size = c.size /\ r.time = c.time
  OBVIOUS
<1>5. SampleOf(p, c) = IF Exists(p) /\ Size[ContentAt(p)] = c.size THEN r ELSE None
  BY DEF SampleOf
<1> HIDE DEF r
<1> QED
  BY <1>2, <1>3, <1>4, <1>5, Bounds

(* What a search learns of a file of its candidates. *)
Learned(t, p) ==
  LET c == search[t].cand[p]
  IN IF search[t].stop THEN None
     ELSE IF Lookup(p, c.size, c.time) # None THEN Lookup(p, c.size, c.time) ELSE SampleOf(p, c)

LEMMA SampledIs ==
  ASSUME DupTypeOK, NEW t \in Tabs, NEW p \in Paths, SampleFile(t, p), search[t].cand[p] # None
  PROVE  /\ Learned(t, p) \in Known \cup {None}
         /\ \E y \in Cand : /\ FileStepped(t, p, y) /\ y # None
                            /\ y.size = search[t].cand[p].size /\ y.time = search[t].cand[p].time
                            /\ y.known = Learned(t, p)
<1> DEFINE c == search[t].cand[p]
           k == Learned(t, p)
           x == [size |-> c.size, time |-> c.time, known |-> k]
<1>1. c \in Cand
  BY DEF DupTypeOK, SearchState
<1>2. k \in Known \cup {None}
  <2>1. Lookup(p, c.size, c.time) \in Known \cup {None}
    BY DEF Lookup, DupTypeOK
  <2> QED
    BY <1>1, <2>1, SampleIs DEF Learned
<1>3. x \in Cand /\ x # None /\ x.size = c.size /\ x.time = c.time /\ x.known = k
  <2>1. x \in Cand
    BY <1>1, <1>2 DEF Cand
  <2> QED
    BY <2>1, Bounds
<1>4. [c EXCEPT !.known = k] = x
  BY <1>1, <1>2, CandUpdates
<1>5. search' = [search EXCEPT ![t].todo = @ \ {p}, ![t].cand[p].known = k]
  BY DEF SampleFile, Learned
<1>6. PICK y \in Cand : y = x
  BY <1>3
<1>7. search' = [search EXCEPT ![t].todo = @ \ {p}, ![t].cand[p] = y]
  <2>1. [search[t].cand[p] EXCEPT !.known = k] = y
    BY <1>4, <1>6
  <2> HIDE DEF k, x
  <2>2. search' = [search EXCEPT ![t].todo = @ \ {p}, ![t].cand[p] = [search[t].cand[p] EXCEPT !.known = k]]
    BY <1>5, NestedFields, SMTT(30)
  <2> QED
    BY <2>1, <2>2
<1>8. FileStepped(t, p, y)
  <2>1. y \in Cand \cup {None}
    OBVIOUS
  <2> QED
    BY <1>7, <2>1, FileSteps, Zenon
<1> HIDE DEF k, x
<1> QED
  BY <1>2, <1>3, <1>6, <1>8 DEF k

(* What full_hash finds. *)
HashOf(t, p) == IF Exists(p) /\ ~search[t].stop THEN ContentAt(p) ELSE None

LEMMA HashedIs ==
  ASSUME DupTypeOK, NEW t \in Tabs, NEW p \in Paths, HashFile(t, p),
         search[t].cand[p] # None, search[t].cand[p].known # None
  PROVE  /\ HashOf(t, p) \in Contents \cup {None}
         /\ \E y \in Cand :
              /\ FileStepped(t, p, y) /\ y # None
              /\ y.size = search[t].cand[p].size /\ y.time = search[t].cand[p].time
              /\ y.known \in Known /\ y.known # None
              /\ y.known.size = search[t].cand[p].known.size /\ y.known.time = search[t].cand[p].known.time
              /\ y.known.id = search[t].cand[p].known.id /\ y.known.ends = search[t].cand[p].known.ends
              /\ y.known.full = HashOf(t, p)
<1> DEFINE c == search[t].cand[p]
           f == HashOf(t, p)
           k == [size |-> c.known.size, time |-> c.known.time, id |-> c.known.id,
                 ends |-> c.known.ends, full |-> f]
           x == [size |-> c.size, time |-> c.time, known |-> k]
<1>1. c \in Cand /\ c.known \in Known
  BY DEF DupTypeOK, SearchState, Cand
<1>2. f \in Contents \cup {None}
  BY DEF HashOf, Exists, ContentAt, DupTypeOK, Data
<1>3. /\ k \in Known /\ k # None /\ k.full = f /\ k.size = c.known.size /\ k.time = c.known.time
      /\ k.id = c.known.id /\ k.ends = c.known.ends
  <2>1. k \in Known
    BY <1>1, <1>2 DEF Known
  <2> QED
    BY <2>1, Bounds
<1>4. x \in Cand /\ x # None /\ x.size = c.size /\ x.time = c.time /\ x.known = k
  <2>1. x \in Cand
    BY <1>1, <1>3 DEF Cand
  <2> QED
    BY <2>1, Bounds
<1>5. [c EXCEPT !.known.full = f] = x
  BY <1>1, <1>2, CandUpdates, Zenon
<1>6. search' = [search EXCEPT ![t].todo = @ \ {p}, ![t].cand[p].known.full = f]
  BY DEF HashFile, HashOf
<1>7. PICK y \in Cand : y = x
  BY <1>4, Zenon
<1>8. search' = [search EXCEPT ![t].todo = @ \ {p}, ![t].cand[p] = y]
  <2>1. [search[t].cand[p] EXCEPT !.known.full = f] = y
    BY <1>5, <1>7
  <2> HIDE DEF f, k, x
  <2>2. search' = [search EXCEPT ![t].todo = @ \ {p},
                                 ![t].cand[p] = [search[t].cand[p] EXCEPT !.known.full = f]]
    BY <1>6, NestedFields
  <2> QED
    BY <2>1, <2>2
<1>9. FileStepped(t, p, y)
  <2>1. y \in Cand \cup {None}
    OBVIOUS
  <2> QED
    BY <1>8, <2>1, FileSteps, Zenon
<1>10. /\ y # None /\ y.size = c.size /\ y.time = c.time /\ y.known = k
  BY <1>4, <1>7
<1> HIDE DEF k, x, f
<1> QED
  BY <1>2, <1>3, <1>9, <1>10 DEF f

(* The search of tab t goes on as a whole. *)
Stepped(t, st, todo, alike, cand) ==
  /\ search' \in [Tabs -> SearchState]
  /\ \A u \in Tabs \ {t} : search'[u] = search[u]
  /\ search'[t].st = st /\ search'[t].nr = search[t].nr /\ search'[t].stop = search[t].stop
  /\ search'[t].todo = todo /\ search'[t].alike = alike /\ search'[t].cand = cand

(* ps: the candidates that have the size of another. *)
SizesCompare(t, ps, x) ==
  LET cand == search[t].cand
  IN /\ Stepped(t, "sample", ps, search[t].alike, x)
     /\ \A p \in ps : p \in Paths /\ x[p] # None
     /\ \A p \in Paths : x[p] # None => x[p] = cand[p]
     /\ \A p, q \in Paths : /\ cand[p] # None /\ cand[q] # None /\ p # q /\ cand[p].size = cand[q].size
                            => p \in ps /\ x[p] # None

LEMMA SizesAre ==
  ASSUME TypesInv, NEW t \in Tabs, CompareSizes(t), ~search[t].stop
  PROVE  /\ groups' = groups
         /\ \E ps \in SUBSET Scope[t], x \in [Paths -> Cand \cup {None}] : SizesCompare(t, ps, x)
<1> DEFINE cand == search[t].cand
           some == {p \in Paths : cand[p] # None}
           kept == {p \in some : \E q \in some \ {p} : cand[q].size = cand[p].size}
           cs == [p \in Paths |-> IF p \in kept THEN cand[p] ELSE None]
<1>1. DupTypeOK /\ cand \in [Paths -> Cand \cup {None}] /\ search \in [Tabs -> SearchState]
  BY DEF TypesInv, DupTypeOK, SearchState
<1>2. kept \in SUBSET Paths /\ cs \in [Paths -> Cand \cup {None}] /\ kept \subseteq Scope[t]
  BY <1>1 DEF TypesInv, StageFit
<1>3. /\ search' = [search EXCEPT ![t].st = "sample", ![t].todo = kept, ![t].cand = cs]
      /\ groups' = groups
  BY DEF CompareSizes
<1>4. PICK ps \in SUBSET Paths, x \in [Paths -> Cand \cup {None}] : ps = kept /\ x = cs
  BY <1>2
<1>5. search' = [search EXCEPT ![t].st = "sample", ![t].todo = ps, ![t].cand = x]
  BY <1>3, <1>4
<1>6. search' = [search EXCEPT ![t] = [st |-> "sample", nr |-> search[t].nr, stop |-> search[t].stop,
                   todo |-> ps, alike |-> search[t].alike, cand |-> x]]
  BY <1>1, <1>5, Sized, Zenon
<1> DEFINE new == [st |-> "sample", nr |-> search[t].nr, stop |-> search[t].stop,
                   todo |-> ps, alike |-> search[t].alike, cand |-> x]
<1>7. /\ new \in SearchState /\ new.st = "sample" /\ new.nr = search[t].nr /\ new.stop = search[t].stop
      /\ new.todo = ps /\ new.alike = search[t].alike /\ new.cand = x
  BY <1>1 DEF SearchState
<1> HIDE DEF new
<1>8. search'[t] = new /\ search' \in [Tabs -> SearchState] /\ \A u \in Tabs \ {t} : search'[u] = search[u]
  BY <1>1, <1>6, <1>7 DEF new
<1>9. Stepped(t, "sample", ps, search[t].alike, x)
  BY <1>7, <1>8 DEF Stepped
<1>10. /\ \A p \in ps : x[p] = cand[p] /\ cand[p] # None
       /\ \A p \in Paths : x[p] # None => x[p] = cand[p]
       /\ \A p, q \in Paths : /\ cand[p] # None /\ cand[q] # None /\ p # q /\ cand[p].size = cand[q].size
                              => p \in ps
  BY <1>2, <1>4, SMTT(30)
<1>11. ps \in SUBSET Scope[t]
  BY <1>2, <1>4
<1> HIDE DEF cand
<1>12. \A p, q \in Paths : /\ cand[p] # None /\ cand[q] # None /\ p # q /\ cand[p].size = cand[q].size
                           => p \in ps /\ x[p] # None
  BY <1>10
<1>13. SizesCompare(t, ps, x)
  <2>1. \A p \in ps : p \in Paths /\ x[p] # None
    BY <1>10
  <2> QED
    BY <1>9, <1>10, <1>12, <2>1 DEF SizesCompare, cand
<1> QED
  BY <1>3, <1>11, <1>13

(* Files that were sampled. *)
InSample(t, p) == search[t].cand[p] # None /\ search[t].cand[p].known # None

(* kept: one link of each file; al: those with the sample of another. *)
SamplesCompare(t, kept, al, ps) ==
  LET K(p) == search[t].cand[p].known
  IN /\ Stepped(t, "hash", ps, al, search[t].cand)
     /\ ps \subseteq al /\ al \subseteq kept /\ \A p \in kept : p \in Scope[t] /\ InSample(t, p)
     /\ \A p \in al \ ps : K(p).full # None
     /\ \A p \in Paths : InSample(t, p) => \E q \in kept : K(q).id = K(p).id /\ K(q).size = K(p).size
     /\ \A p, q \in kept : p # q => K(p).id # K(q).id \/ K(p).size # K(q).size
     /\ \A p, q \in kept : p # q /\ K(p).size = K(q).size /\ K(p).ends = K(q).ends => p \in al

LEMMA SamplesAre ==
  ASSUME TypesInv, NEW t \in Tabs, CompareSamples(t), ~search[t].stop
  PROVE  /\ groups' = groups
         /\ \E kept \in SUBSET Paths, al \in SUBSET Paths, ps \in SUBSET Paths :
              SamplesCompare(t, kept, al, ps)
<1> DEFINE cand == search[t].cand
           some == {p \in Paths : InSample(t, p)}
           known == Sampled(t)
<1>1. DupTypeOK /\ search \in [Tabs -> SearchState]
  BY DEF TypesInv, DupTypeOK
<1>2. DOMAIN known = some /\ \A p \in some : known[p] = cand[p].known
  BY DEF Sampled, InSample
<1>3. \A p \in some : p \in Scope[t]
  BY DEF TypesInv, StageFit, InSample
<1> HIDE DEF known
<1>4. PICK kept \in SUBSET DOMAIN known :
        /\ OneOfEach(known, kept)
        /\ search' = [search EXCEPT ![t].st = "hash", ![t].alike = Alike(known, kept),
                        ![t].todo = {p \in Alike(known, kept) : known[p].full = None}]
        /\ groups' = groups
  <2>1. known = Sampled(t)
    BY DEF known
  <2> QED
    BY <2>1, Zenon DEF CompareSamples
<1>5. PICK al \in SUBSET Paths, ps \in SUBSET Paths :
        al = Alike(known, kept) /\ ps = {p \in Alike(known, kept) : known[p].full = None}
  BY <1>2 DEF Alike
<1>6. /\ ps \subseteq al /\ al \subseteq kept /\ kept \subseteq some
      /\ \A p \in al \ ps : known[p].full # None
      /\ \A p, q \in kept : /\ p # q /\ known[p].size = known[q].size
                            /\ known[p].ends = known[q].ends
                            => p \in al
  BY <1>2, <1>5 DEF Alike
<1>7. search' = HashNext(t, al, ps)
  BY <1>4, <1>5 DEF HashNext
<1>8. search' = [search EXCEPT ![t] = [st |-> "hash", nr |-> search[t].nr, stop |-> search[t].stop,
                   todo |-> ps, alike |-> al, cand |-> search[t].cand]]
  BY <1>1, <1>7, SamplesCompared, Zenon
<1> DEFINE new == [st |-> "hash", nr |-> search[t].nr, stop |-> search[t].stop,
                   todo |-> ps, alike |-> al, cand |-> search[t].cand]
<1>9. /\ new \in SearchState /\ new.st = "hash" /\ new.nr = search[t].nr /\ new.stop = search[t].stop
      /\ new.todo = ps /\ new.alike = al /\ new.cand = search[t].cand
  BY <1>1 DEF SearchState
<1> HIDE DEF new
<1>10. search'[t] = new /\ search' \in [Tabs -> SearchState] /\ \A u \in Tabs \ {t} : search'[u] = search[u]
  BY <1>1, <1>8, <1>9 DEF new
<1>11. Stepped(t, "hash", ps, al, search[t].cand)
  BY <1>9, <1>10 DEF Stepped
<1>12. /\ \A p \in DOMAIN known : \E q \in kept : known[q].id = known[p].id /\ known[q].size = known[p].size
       /\ \A p, q \in kept : p # q => known[p].id # known[q].id \/ known[p].size # known[q].size
  BY <1>4, Zenon DEF OneOfEach
<1>13. \A p \in kept : p \in some /\ p \in Scope[t] /\ InSample(t, p)
  BY <1>3, <1>6
<1>14. \A p \in Paths : InSample(t, p) => p \in some
  OBVIOUS
<1> HIDE DEF some, cand
<1>15. /\ \A p \in al \ ps : cand[p].known.full # None
       /\ \A p \in Paths : InSample(t, p) =>
            \E q \in kept : cand[q].known.id = cand[p].known.id /\ cand[q].known.size = cand[p].known.size
       /\ \A p, q \in kept : p # q =>
            cand[p].known.id # cand[q].known.id \/ cand[p].known.size # cand[q].known.size
       /\ \A p, q \in kept : p # q /\ cand[p].known.size = cand[q].known.size
                             /\ cand[p].known.ends = cand[q].known.ends => p \in al
  <2>1. \A p \in kept : known[p] = cand[p].known
    BY <1>2, <1>13
  <2>2. \A p \in Paths : InSample(t, p) => p \in DOMAIN known /\ known[p] = cand[p].known
    BY <1>2, <1>14
  <2>3. \A p \in al \ ps : cand[p].known.full # None
    BY <1>6, <2>1
  <2>4. \A p \in Paths : InSample(t, p) =>
          \E q \in kept : cand[q].known.id = cand[p].known.id /\ cand[q].known.size = cand[p].known.size
    BY <1>12, <2>1, <2>2
  <2> QED
    BY <1>6, <1>12, <2>1, <2>3, <2>4
<1>16. kept \in SUBSET Paths
  BY <1>3, <1>13, Bounds
<1>17. SamplesCompare(t, kept, al, ps)
  BY <1>6, <1>11, <1>13, <1>15 DEF SamplesCompare, cand
<1> QED
  BY <1>4, <1>16, <1>17

(* The groups are well-formed. *)
LEMMA GroupedIs ==
  ASSUME TypesInv, NEW t \in Tabs, search[t].st = "hash"
  PROVE  Grouped(t) \in SUBSET Group
<1> DEFINE cand == search[t].cand
           alike == search[t].alike
<1>1. /\ cand \in [Paths -> Cand \cup {None}] /\ alike \in SUBSET Paths
      /\ \A p \in alike : cand[p] # None /\ cand[p].known # None
  BY DEF TypesInv, DupTypeOK, StageFit, SearchState
<1>2. \A p \in alike : cand[p].known.full \in Contents \cup {None}
  BY <1>1 DEF Cand, Known
<1>3. \A p \in alike : Copies(t, p) \subseteq alike
  BY DEF Copies
<1> QED
  BY <1>1, <1>2, <1>3, GroupsAre DEF Group

(* The cache a finished search leaves. *)
LEMMA ReplacedIs ==
  ASSUME DupTypeOK, NEW t \in Tabs
  PROVE  /\ Replaced(t) \in [Paths -> Known \cup {None}]
         /\ \A p \in Paths : Replaced(t)[p] = cache[p] \/ Replaced(t)[p] = Fresh(t, p)
         /\ \A p \in Paths : Fresh(t, p) # None => InSample(t, p) /\ Fresh(t, p) = search[t].cand[p].known
<1>1. \A p \in Paths : Fresh(t, p) # None => InSample(t, p) /\ Fresh(t, p) = search[t].cand[p].known
  BY DEF Fresh, InSample
<1>2. \A p \in Paths : search[t].cand[p] # None => search[t].cand[p].known \in Known \cup {None}
  BY DEF DupTypeOK, SearchState, Cand
<1>3. \A p \in Paths : Fresh(t, p) \in Known \cup {None}
  BY <1>1, <1>2 DEF InSample
<1> QED
  BY <1>1, <1>3 DEF Replaced, DupTypeOK

(* A step of one search, for the types of it. *)
LEMMA OneTabTypes ==
  ASSUME TypesInv, NEW t \in Tabs, UNCHANGED <<fs, edits>>,
         search' \in [Tabs -> SearchState], \A u \in Tabs \ {t} : search'[u] = search[u],
         search'[t].todo \cup search'[t].alike \subseteq Scope[t],
         search'[t].nr <= searches', StageFit(t)', groups' \in [Tabs -> SUBSET Group],
         cache' \in [Paths -> Known \cup {None}],
         \/ UNCHANGED <<changed, searches>>
         \/ changed' = changed /\ searches' = searches + 1 /\ searches < MaxSearches
  PROVE  TypesInv'
<1>1. UNCHANGED <<at, data, changed, edits>>
  BY DEF fs
<1>2. DupTypeOK /\ searches \in 0..MaxSearches
  BY DEF TypesInv, DupTypeOK
<1>3. searches' \in 0..MaxSearches /\ searches <= searches'
  BY <1>2, Bounds
<1>4. changed' \in [Paths -> 0..searches']
  BY <1>1, <1>2, <1>3 DEF DupTypeOK
<1>5. \A u \in Tabs : search'[u].todo \cup search'[u].alike \subseteq Scope[u] /\ search'[u].nr <= searches'
  <2>1. ASSUME NEW u \in Tabs, u # t
        PROVE  search'[u].todo \cup search'[u].alike \subseteq Scope[u] /\ search'[u].nr <= searches'
    <3>1. search'[u] = search[u] /\ search[u].nr \in Nat /\ search[u].nr <= searches
      BY <1>2, <2>1 DEF DupTypeOK, SearchState
    <3> QED
      BY <1>2, <1>3, <3>1 DEF DupTypeOK
  <2> QED
    BY <2>1
<1>6. \A u \in Tabs : StageFit(u)'
  <2>1. ASSUME NEW u \in Tabs, u # t PROVE StageFit(u)'
    BY <2>1 DEF TypesInv, StageFit
  <2> QED
    BY <2>1
<1> QED
  BY <1>1, <1>2, <1>3, <1>4, <1>5, <1>6 DEF TypesInv, DupTypeOK

LEMMA SearchKeepsTypes ==
  ASSUME TypesInv, NEW t \in Tabs, Search(t)
  PROVE  TypesInv'
<1>1. DupTypeOK /\ StageFit(t) /\ Scope[t] \subseteq Paths
  BY Bounds DEF TypesInv
<1>2. /\ groups \in [Tabs -> SUBSET Group] /\ cache \in [Paths -> Known \cup {None}]
      /\ search[t].todo \cup search[t].alike \subseteq Scope[t] /\ search[t].nr <= searches
      /\ search[t].nr \in Nat /\ searches \in Nat
  BY <1>1 DEF DupTypeOK, SearchState
<1>3. CASE Begin(t)
  <2>1. /\ search' \in [Tabs -> SearchState] /\ \A u \in Tabs \ {t} : search'[u] = search[u]
        /\ search'[t].st = "walk" /\ search'[t].nr = searches + 1
        /\ search'[t].todo = Scope[t] /\ search'[t].alike = {} /\ search'[t].cand = [p \in Paths |-> None]
    BY <1>1, <1>3, Begun
  <2>2. /\ groups' \in [Tabs -> SUBSET Group] /\ UNCHANGED <<fs, cache, changed, edits>>
        /\ searches' = searches + 1 /\ searches < MaxSearches
    BY <1>2, <1>3 DEF Begin
  <2>3. StageFit(t)' /\ search'[t].nr <= searches'
    BY <1>2, <2>1, <2>2 DEF StageFit
  <2> QED
    BY <1>2, <2>1, <2>2, <2>3, OneTabTypes
<1>4. CASE Cancel(t)
  <2>1. /\ search' \in [Tabs -> SearchState] /\ \A u \in Tabs \ {t} : search'[u] = search[u]
        /\ search'[t].st = search[t].st /\ search'[t].nr = search[t].nr
        /\ search'[t].todo = search[t].todo /\ search'[t].alike = search[t].alike
        /\ search'[t].cand = search[t].cand
    BY <1>1, <1>4, Cancelled
  <2>2. UNCHANGED <<fs, cache, groups, changed, edits, searches>>
    BY <1>4 DEF Cancel
  <2>3. StageFit(t)'
    BY <1>1, <2>1 DEF StageFit
  <2> QED
    BY <1>2, <2>1, <2>2, <2>3, OneTabTypes
<1>5. ASSUME NEW p \in Paths, NEW x \in Cand \cup {None}, FileStepped(t, p, x),
             x = None => search[t].st = "walk", x # None => p \in Scope[t],
             x # None /\ x.known = None => search[t].st # "hash",
             UNCHANGED <<fs, cache, groups, changed, edits, searches>>
      PROVE  TypesInv'
  <2>1. StageFit(t)'
    BY <1>1, <1>2, <1>5 DEF FileStepped, StageFit
  <2> QED
    BY <1>2, <1>5, <2>1, OneTabTypes DEF FileStepped
<1>6. ASSUME NEW p \in Paths, ListFile(t, p) PROVE TypesInv'
  <2>1. search[t].st = "walk" /\ p \in Scope[t] /\ UNCHANGED <<fs, cache, groups, changed, edits, searches>>
    BY <1>2, <1>6 DEF ListFile
  <2>2. PICK x \in Cand \cup {None} : FileStepped(t, p, x)
    BY <1>1, <1>6, Listed
  <2> QED
    BY <1>5, <2>1, <2>2
<1>7. ASSUME NEW p \in Paths, SampleFile(t, p) PROVE TypesInv'
  <2>1. /\ search[t].st = "sample" /\ p \in Scope[t] /\ search[t].cand[p] # None
        /\ UNCHANGED <<fs, cache, groups, changed, edits, searches>>
    BY <1>1, <1>2, <1>7 DEF SampleFile, StageFit
  <2>2. PICK y \in Cand : FileStepped(t, p, y) /\ y # None
    BY <1>1, <1>7, <2>1, SampledIs
  <2> QED
    BY <1>5, <2>1, <2>2
<1>8. ASSUME NEW p \in Paths, HashFile(t, p) PROVE TypesInv'
  <2>1. /\ search[t].st = "hash" /\ p \in Scope[t]
        /\ search[t].cand[p] # None /\ search[t].cand[p].known # None
        /\ UNCHANGED <<fs, cache, groups, changed, edits, searches>>
    BY <1>1, <1>2, <1>8 DEF HashFile, StageFit
  <2>2. PICK y \in Cand : FileStepped(t, p, y) /\ y # None /\ y.known # None
    BY <1>1, <1>8, <2>1, HashedIs
  <2> QED
    BY <1>5, <2>1, <2>2
<1>9. ASSUME Returns(t), groups' \in [Tabs -> SUBSET Group], cache' \in [Paths -> Known \cup {None}],
             UNCHANGED <<fs, changed, edits, searches>>
      PROVE  TypesInv'
  <2>1. /\ search' \in [Tabs -> SearchState] /\ \A u \in Tabs \ {t} : search'[u] = search[u]
        /\ search'[t].st = "done" /\ search'[t].nr = search[t].nr
        /\ search'[t].todo = {} /\ search'[t].alike = {} /\ search'[t].cand = [p \in Paths |-> None]
    BY <1>1, <1>9, Returned
  <2>2. StageFit(t)'
    BY <2>1 DEF StageFit
  <2> QED
    BY <1>2, <1>9, <2>1, <2>2, OneTabTypes
<1>10. CASE CompareSizes(t)
  <2>1. UNCHANGED <<fs, cache, changed, edits, searches>>
    BY <1>10 DEF CompareSizes
  <2>2. CASE search[t].stop
    <3>1. Stopped(t)
      BY <1>10, <2>2, Zenon DEF CompareSizes
    <3> QED
      BY <1>2, <1>9, <2>1, <3>1 DEF Stopped
  <2>3. CASE ~search[t].stop
    <3>1. groups' = groups
      BY <1>10, <2>3, SizesAre
    <3>2. PICK ps \in SUBSET Scope[t], x \in [Paths -> Cand \cup {None}] : SizesCompare(t, ps, x)
      BY <1>10, <2>3, SizesAre
    <3>3. /\ Stepped(t, "sample", ps, search[t].alike, x)
          /\ \A p \in ps : x[p] # None
          /\ \A p \in Paths : x[p] # None => x[p] = search[t].cand[p]
      BY <3>2 DEF SizesCompare
    <3>4. StageFit(t)'
      BY <1>1, <3>3 DEF Stepped, StageFit
    <3> QED
      BY <1>2, <2>1, <3>1, <3>3, <3>4, OneTabTypes DEF Stepped
  <2> QED
    BY <2>2, <2>3
<1>11. CASE CompareSamples(t)
  <2>1. UNCHANGED <<fs, cache, changed, edits, searches>>
    BY <1>11, Zenon DEF CompareSamples
  <2>2. CASE search[t].stop
    <3>1. Stopped(t)
      BY <1>11, <2>2, Zenon DEF CompareSamples
    <3> QED
      BY <1>2, <1>9, <2>1, <3>1 DEF Stopped
  <2>3. CASE ~search[t].stop
    <3>1. groups' = groups
      BY <1>11, <2>3, SamplesAre
    <3>2. PICK kept \in SUBSET Paths, al \in SUBSET Paths, ps \in SUBSET Paths :
            SamplesCompare(t, kept, al, ps)
      BY <1>11, <2>3, SamplesAre
    <3>3. /\ Stepped(t, "hash", ps, al, search[t].cand) /\ ps \subseteq al
          /\ \A p \in al : p \in Scope[t] /\ InSample(t, p)
      BY <3>2 DEF SamplesCompare
    <3>4. StageFit(t)'
      BY <1>1, <3>3 DEF Stepped, StageFit, InSample
    <3> QED
      BY <1>2, <2>1, <3>1, <3>3, <3>4, OneTabTypes DEF Stepped
  <2> QED
    BY <2>2, <2>3
<1>12. CASE Finish(t)
  <2>1. /\ search[t].st = "hash" /\ Returns(t) /\ UNCHANGED <<fs, changed, edits, searches>>
        /\ cache' = IF Cached THEN Replaced(t) ELSE cache
        /\ groups' = [groups EXCEPT ![t] = IF search[t].stop THEN {} ELSE Grouped(t)]
    BY <1>12 DEF Finish
  <2>2. groups' \in [Tabs -> SUBSET Group]
    BY <1>2, <2>1, GroupedIs
  <2>3. cache' \in [Paths -> Known \cup {None}]
    BY <1>1, <1>2, <2>1, ReplacedIs
  <2> QED
    BY <1>9, <2>1, <2>2, <2>3
<1> QED
  BY <1>3, <1>4, <1>6, <1>7, <1>8, <1>10, <1>11, <1>12 DEF Search

-----------------------------------------------------------------------------
(***************************************************************************)
(* What a step that leaves the files alone keeps.                          *)
(***************************************************************************)

(* What there is to say of the files does not change. *)
LEMMA SameFiles ==
  ASSUME UNCHANGED <<fs, changed, edits>>, NEW t \in Tabs, search'[t].nr = search[t].nr
  PROVE  /\ \A p : /\ Exists(p)' <=> Exists(p)
                   /\ ContentAt(p)' = ContentAt(p)
                   /\ Still(t, p)' <=> Still(t, p)
         /\ \A k, p : Right(k, p)' <=> Right(k, p)
         /\ \A k, p, time : RightAt(k, p, time)' <=> RightAt(k, p, time)
         /\ \A p, q : Twins(p, q)' <=> Twins(p, q)
         /\ \A p, ps : LinkIn(p, ps)' <=> LinkIn(p, ps)
         /\ (search'[t].stop <=> search[t].stop) => (Quiet(t)' <=> Quiet(t))
<1>1. UNCHANGED <<at, data, changed, edits>>
  BY DEF fs
<1>2. \A p : /\ Exists(p)' <=> Exists(p)
             /\ ContentAt(p)' = ContentAt(p)
             /\ Still(t, p)' <=> Still(t, p)
  BY <1>1 DEF Exists, ContentAt, Still
<1>3. \A k, p : Right(k, p)' <=> Right(k, p)
  BY <1>1 DEF Right, Exists, ContentAt
<1>4. \A k, p, time : RightAt(k, p, time)' <=> RightAt(k, p, time)
  BY <1>1, <1>3 DEF RightAt, Exists, Latest
<1>5. \A p, q : Twins(p, q)' <=> Twins(p, q)
  BY <1>1 DEF Twins, Exists, ContentAt
<1>6. \A p, ps : LinkIn(p, ps)' <=> LinkIn(p, ps)
  BY <1>1 DEF LinkIn
<1>7. (search'[t].stop <=> search[t].stop) => (Quiet(t)' <=> Quiet(t))
  BY <1>2 DEF Quiet
<1> QED
  BY <1>2, <1>3, <1>4, <1>5, <1>6, <1>7

(* A candidate that the search keeps is right for what it was. *)
LEMMA SameCand ==
  ASSUME UNCHANGED <<fs, changed, edits>>, NEW t \in Tabs, NEW p \in Paths,
         CandRight(t, p), search'[t].nr = search[t].nr,
         search'[t].cand[p] = search[t].cand[p]
  PROVE  CandRight(t, p)'
<1>1. UNCHANGED <<at, data, changed, edits>>
  BY DEF fs
<1>2. /\ Exists(p)' <=> Exists(p)
      /\ ContentAt(p)' = ContentAt(p)
      /\ Still(t, p)' <=> Still(t, p)
      /\ \A k : Right(k, p)' <=> Right(k, p)
      /\ \A k, time : RightAt(k, p, time)' <=> RightAt(k, p, time)
  BY SameFiles
<1>3. PICK c : c = search[t].cand[p]
  OBVIOUS
<1>4. search'[t].cand[p] = c
  BY <1>3
<1>5. c # None =>
        /\ Still(t, p) => Exists(p) /\ c.size = Size[ContentAt(p)] /\ c.time = data[at[p]].time
        /\ c.time < Latest
        /\ c.known # None =>
             /\ c.known.size = c.size /\ c.known.time = c.time
             /\ Still(t, p) => Right(c.known, p)
             /\ RightAt(c.known, p, c.time)
  BY <1>3 DEF CandRight
<1>6. c # None =>
        /\ Still(t, p)' => Exists(p)' /\ c.size = Size[ContentAt(p)'] /\ c.time = data'[at'[p]].time
        /\ c.time < Latest'
        /\ c.known # None =>
             /\ c.known.size = c.size /\ c.known.time = c.time
             /\ Still(t, p)' => Right(c.known, p)'
             /\ RightAt(c.known, p, c.time)'
  BY <1>1, <1>2, <1>5 DEF Latest
<1> QED
  BY <1>4, <1>6 DEF CandRight

(* So are the entries of a cache. *)
LEMMA SameEntries ==
  ASSUME UNCHANGED <<fs, edits>>, NEW p \in Paths, NEW k, RightAt(k, p, k.time)
  PROVE  RightAt(k, p, k.time)'
<1>1. UNCHANGED <<at, data, edits>>
  BY DEF fs
<1>2. Right(k, p)' <=> Right(k, p)
  BY <1>1 DEF Right, Exists, ContentAt
<1> QED
  BY <1>1, <1>2 DEF RightAt, Exists, Latest

LEMMA SameCache ==
  ASSUME DupSafe, UNCHANGED <<fs, cache, edits>>
  PROVE  EntriesRight(cache)'
<1>1. \A p \in Paths : \A k : RightAt(k, p, k.time) => RightAt(k, p, k.time)'
  BY SameEntries
<1>2. cache' = cache /\ EntriesRight(cache)
  BY DEF DupSafe
<1>3. ASSUME NEW p \in Paths, NEW k, k = cache'[p], k # None
      PROVE  RightAt(k, p, k.time)'
  BY <1>1, <1>2, <1>3 DEF EntriesRight
<1> QED
  BY <1>3 DEF EntriesRight, RightAt, Right, Exists, ContentAt, Latest

(* And the groups. *)
LEMMA SameGroups ==
  ASSUME DupSafe, UNCHANGED <<fs, changed>>, NEW t \in Tabs,
         search'[t].nr = search[t].nr, groups'[t] = groups[t]
  PROVE  GroupsRight(t)'
<1>1. UNCHANGED <<at, data, changed>> /\ GroupsRight(t)
  BY DEF fs, DupSafe
<1> QED
  BY <1>1 DEF GroupsRight, Still, Exists, ContentAt

(* A step of one search leaves the files and the other searches alone. *)
LEMMA OneTab ==
  ASSUME DupSafe, NEW t \in Tabs, Search(t), UNCHANGED <<fs, changed, edits>>,
         \A u \in Tabs \ {t} : search'[u] = search[u] /\ groups'[u] = groups[u],
         EntriesRight(cache)', \A p \in Paths : CandRight(t, p)',
         LinksApart(t)', GroupsRight(t)', NoneLost(t) => NoneLost(t)'
  PROVE  Keeps
<1>1. UNCHANGED <<at, data, changed, edits>>
  BY DEF fs
<1>2. Past' /\ TypesInv'
  BY <1>1, SearchKeepsTypes DEF DupSafe, Past, Latest
<1>3. ASSUME NEW u \in Tabs, u # t
      PROVE  /\ (\A p \in Paths : CandRight(u, p)') /\ LinksApart(u)' /\ GroupsRight(u)'
             /\ NoneLost(u) => NoneLost(u)'
  <2>1. search'[u] = search[u] /\ groups'[u] = groups[u]
    BY <1>3, Zenon
  <2>2. \A p \in Paths : CandRight(u, p)'
    <3>1. \A p \in Paths : CandRight(u, p)
      BY Zenon DEF DupSafe
    <3> QED
      BY <2>1, <3>1, SameCand
  <2>3. LinksApart(u)'
    BY <2>1 DEF DupSafe, LinksApart
  <2>4. GroupsRight(u)'
    BY <2>1, SameGroups
  <2>5. NoneLost(u) => NoneLost(u)'
    BY <1>1, <2>1 DEF NoneLost, Quiet, Twins, LinkIn, Still, Exists, ContentAt
  <2> QED
    BY <2>2, <2>3, <2>4, <2>5
<1>4. \A u \in Tabs : (\A p \in Paths : CandRight(u, p)') /\ LinksApart(u)' /\ GroupsRight(u)'
  BY <1>3
<1>5. DupSafe'
  BY <1>2, <1>4 DEF DupSafe
<1>6. ASSUME \A u \in Tabs : NoneLost(u), NEW u \in Tabs PROVE NoneLost(u)'
  BY <1>3, <1>6
<1> QED
  BY <1>5, <1>6 DEF Keeps


-----------------------------------------------------------------------------
(***************************************************************************)
(* The user.                                                               *)
(***************************************************************************)

LEMMA EditDoes ==
  ASSUME DupTypeOK, NEW p \in Paths, NEW c \in Contents, Edit(p, c)
  PROVE  /\ data' \in [Inodes -> Data] /\ at' \in [Paths -> Inodes \cup {None}]
         /\ changed' \in [Paths -> 0..searches]
         /\ \A x \in Paths : changed'[x] # searches =>
              changed'[x] = changed[x] /\ at'[x] = at[x] /\ (Exists(x) => data'[at[x]] = data[at[x]])
         /\ at' = at
         /\ \A i \in Inodes : data'[i] # data[i] => data'[i].time \in {0, Latest}
<1> DEFINE new == [content |-> c, time |-> IF data[at[p]].time = 0 THEN 0 ELSE Latest]
<1>1. at[p] \in Inodes /\ at' = at
  BY DEF Edit, Exists, DupTypeOK
<1>2. new \in Data /\ new.time \in {0, Latest}
  BY DEF Data, Latest, DupTypeOK
<1>3. data' = [data EXCEPT ![at[p]] = new]
  BY DEF Edit
<1> HIDE DEF new
<1>4. data' \in [Inodes -> Data] /\ \A i \in Inodes : data'[i] # data[i] => i = at[p] /\ data'[i] = new
  BY <1>1, <1>2, <1>3 DEF DupTypeOK
<1>5. changed' = [x \in Paths |-> IF x \in Links(at[p]) THEN searches ELSE changed[x]]
  BY DEF Edit, Touch
<1>6. changed' \in [Paths -> 0..searches]
  BY <1>5 DEF DupTypeOK
<1>7. ASSUME NEW x \in Paths, changed'[x] # searches
      PROVE  changed'[x] = changed[x] /\ (Exists(x) => data'[at[x]] = data[at[x]])
  <2>1. at[x] # at[p] /\ changed'[x] = changed[x]
    BY <1>5, <1>7 DEF Links
  <2>2. Exists(x) => at[x] \in Inodes
    BY DEF Exists, DupTypeOK
  <2> QED
    BY <1>4, <2>1, <2>2
<1> QED
  BY <1>1, <1>2, <1>4, <1>6, <1>7 DEF DupTypeOK

LEMMA UnlinkDoes ==
  ASSUME DupTypeOK, NEW p \in Paths, Unlink(p)
  PROVE  /\ data' = data /\ at' \in [Paths -> Inodes \cup {None}]
         /\ changed' \in [Paths -> 0..searches]
         /\ \A x \in Paths : changed'[x] # searches => changed'[x] = changed[x] /\ at'[x] = at[x]
         /\ \A x \in Paths : at'[x] \in {at[x], None}
<1>1. changed' = [x \in Paths |-> IF x \in {p} THEN searches ELSE changed[x]]
  BY DEF Unlink, Touch
<1>2. at' = [at EXCEPT ![p] = None] /\ data' = data
  BY DEF Unlink
<1> QED
  BY <1>1, <1>2 DEF DupTypeOK

LEMMA RestoreDoes ==
  ASSUME DupTypeOK, NEW q \in Paths, NEW p \in Paths, Restore(q, p)
  PROVE  /\ data' \in [Inodes -> Data] /\ at' \in [Paths -> Inodes \cup {None}]
         /\ changed' \in [Paths -> 0..searches]
         /\ \A x \in Paths : changed'[x] # searches =>
              changed'[x] = changed[x] /\ at'[x] = at[x] /\ (Exists(x) => data'[at[x]] = data[at[x]])
         /\ \A i \in Inodes : data'[i] # data[i] => \E j \in Inodes : data'[i].time = data[j].time
<1>1. PICK i \in IF Exists(p) THEN {at[p]} ELSE {x \in Inodes : Links(x) = {}} :
        /\ at' = [at EXCEPT ![p] = i]
        /\ data' = [data EXCEPT ![i] = data[at[q]]]
        /\ Touch({p} \cup Links(i))
  BY DEF Restore
<1>2. i \in Inodes /\ at[q] \in Inodes
  BY <1>1 DEF Restore, Exists, DupTypeOK
<1>3. changed' = [x \in Paths |-> IF x \in {p} \cup Links(i) THEN searches ELSE changed[x]]
  BY <1>1 DEF Touch
<1>4. changed' \in [Paths -> 0..searches]
  BY <1>3 DEF DupTypeOK
<1>5. data' \in [Inodes -> Data] /\ at' \in [Paths -> Inodes \cup {None}]
  BY <1>1, <1>2 DEF DupTypeOK
<1>6. \A j \in Inodes : data'[j] # data[j] => j = i /\ data'[j].time = data[at[q]].time
  BY <1>1, <1>2 DEF DupTypeOK
<1>7. ASSUME NEW x \in Paths, changed'[x] # searches
      PROVE  changed'[x] = changed[x] /\ at'[x] = at[x] /\ (Exists(x) => data'[at[x]] = data[at[x]])
  <2>1. x # p /\ at[x] # i /\ changed'[x] = changed[x]
    BY <1>3, <1>7 DEF Links
  <2>2. Exists(x) => at[x] \in Inodes
    BY DEF Exists, DupTypeOK
  <2> QED
    BY <1>1, <1>6, <2>1, <2>2 DEF DupTypeOK
<1> QED
  BY <1>2, <1>4, <1>5, <1>6, <1>7

(* Files come, go and change; every path of one that does counts as        *)
(* changed, and no time is of the future.                                  *)
FilesChange ==
  /\ UNCHANGED <<cache, search, groups, searches>>
  /\ data' \in [Inodes -> Data] /\ at' \in [Paths -> Inodes \cup {None}]
  /\ changed' \in [Paths -> 0..searches] /\ edits' \in 0..MaxEdits
  /\ edits' = edits + 1 \/ (edits' = edits /\ data' = data)
  /\ \A x \in Paths : changed'[x] # searches =>
       changed'[x] = changed[x] /\ at'[x] = at[x] /\ (Exists(x) => data'[at[x]] = data[at[x]])
  /\ \A i \in Inodes : data'[i] # data[i] =>
       data'[i].time \in {0, Latest} \/ \E j \in Inodes : data'[i].time = data[j].time

(* They only go, or change with a time of their own. *)
OnlyGo ==
  /\ \A x \in Paths : at'[x] \in {at[x], None}
  /\ \A i \in Inodes : data'[i] # data[i] => data'[i].time \in {0, Latest}

LEMMA UserDoes ==
  ASSUME DupTypeOK, User
  PROVE  FilesChange /\ (~MayRestore => OnlyGo)
<1>1. PICK p \in Paths : \/ \E c \in Contents : Edit(p, c)
                         \/ Unlink(p)
                         \/ \E q \in Paths : Restore(q, p)
  BY DEF User
<1>2. /\ UNCHANGED <<cache, search, groups, searches>> /\ edits' = edits + 1
      /\ edits \in Nat /\ edits < MaxEdits
  BY DEF User, DupTypeOK
<1>3. edits' \in 0..MaxEdits
  BY <1>2, Bounds
<1>4. CASE \E c \in Contents : Edit(p, c)
  <2>1. PICK c \in Contents : Edit(p, c)
    BY <1>4
  <2> QED
    BY <1>2, <1>3, <2>1, EditDoes DEF FilesChange, OnlyGo
<1>5. CASE Unlink(p)
  BY <1>2, <1>3, <1>5, UnlinkDoes DEF FilesChange, OnlyGo, DupTypeOK
<1>6. CASE \E q \in Paths : Restore(q, p)
  <2>1. PICK q \in Paths : Restore(q, p)
    BY <1>6
  <2>2. MayRestore
    BY <2>1 DEF Restore
  <2> QED
    BY <1>2, <1>3, <2>1, <2>2, RestoreDoes DEF FilesChange
<1> QED
  BY <1>1, <1>4, <1>5, <1>6

LEMMA ChangesKeepTypes ==
  ASSUME TypesInv, FilesChange
  PROVE  TypesInv'
BY DEF TypesInv, DupTypeOK, StageFit, FilesChange

LEMMA TimePasses ==
  ASSUME DupTypeOK, FilesChange
  PROVE  /\ Latest \in Nat /\ Latest > 0 /\ Latest' \in {Latest, Latest + 1}
         /\ edits' = edits + 1 => Latest' = Latest + 1
<1>1. edits \in Nat
  BY DEF DupTypeOK
<1>2. edits' = edits + 1 \/ edits' = edits
  BY DEF FilesChange
<1> QED
  BY <1>1, <1>2 DEF Latest

(* What goes by time stays right, where files only go. *)
LEMMA TimesTell ==
  ASSUME DupTypeOK, FilesChange, Cached => OnlyGo,
         NEW k, NEW p \in Paths, NEW time \in Nat, RightAt(k, p, time)
  PROVE  RightAt(k, p, time)'
<1>1. Latest \in Nat /\ Latest' \in {Latest, Latest + 1} /\ Latest > 0
  BY TimePasses
<1>2. time < Latest'
  BY <1>1 DEF RightAt
<1>3. ASSUME Cached, time # 0, Exists(p)', data'[at'[p]].time = time
      PROVE  Right(k, p)'
  <2>1. at'[p] = at[p] /\ Exists(p) /\ at[p] \in Inodes
    BY <1>3 DEF OnlyGo, Exists, DupTypeOK
  <2>2. time # Latest
    BY <1>1 DEF RightAt
  <2>3. data'[at[p]] = data[at[p]]
    BY <1>3, <2>1, <2>2 DEF OnlyGo
  <2>4. Right(k, p)
    BY <1>3, <2>1, <2>3 DEF RightAt
  <2> QED
    BY <2>1, <2>3, <2>4 DEF Right, Exists, ContentAt
<1> QED
  BY <1>2, <1>3 DEF RightAt

LEMMA ChangesKeep ==
  ASSUME DupSafe, FilesChange, Cached => OnlyGo
  PROVE  Keeps
<1>1. /\ DupTypeOK /\ TypesInv' /\ UNCHANGED <<cache, search, groups, searches>>
      /\ \A x \in Paths : changed'[x] # searches =>
           changed'[x] = changed[x] /\ at'[x] = at[x] /\ (Exists(x) => data'[at[x]] = data[at[x]])
  BY ChangesKeepTypes DEF DupSafe, TypesInv, FilesChange
<1>2. Latest \in Nat /\ Latest' \in {Latest, Latest + 1} /\ (edits' = edits + 1 => Latest' = Latest + 1) /\ Latest > 0
  BY <1>1, TimePasses
<1>3. \A t \in Tabs, p \in Paths : Still(t, p)' =>
        Still(t, p) /\ at'[p] = at[p] /\ (Exists(p) => data'[at[p]] = data[at[p]])
  <2> SUFFICES ASSUME NEW t \in Tabs, NEW p \in Paths, Still(t, p)'
               PROVE  Still(t, p) /\ at'[p] = at[p] /\ (Exists(p) => data'[at[p]] = data[at[p]])
    OBVIOUS
  <2>1. changed'[p] \in Nat /\ search[t].nr \in Nat /\ searches \in Nat /\ search[t].nr <= searches
    BY <1>1 DEF DupTypeOK, SearchState, FilesChange
  <2>2. changed'[p] # searches
    BY <1>1, <2>1 DEF Still
  <2> QED
    BY <1>1, <2>2 DEF Still
<1>4. \A k : \A p \in Paths, time \in Nat : RightAt(k, p, time) => RightAt(k, p, time)'
  BY <1>1, TimesTell
<1>5. Past'
  <2> SUFFICES ASSUME NEW i \in Inodes PROVE data'[i].time < Latest'
    BY DEF Past
  <2>1. data[i].time < Latest /\ data[i].time \in Nat
    BY <1>1 DEF DupSafe, Past, DupTypeOK, Data
  <2>2. CASE data'[i] = data[i]
    BY <1>2, <2>1, <2>2
  <2>3. CASE data'[i] # data[i]
    <3>1. edits' = edits + 1
      BY <2>3 DEF FilesChange
    <3>2. data'[i].time \in {0, Latest} \/ \E j \in Inodes : data'[i].time = data[j].time
      BY <2>3 DEF FilesChange
    <3>3. \A j \in Inodes : data[j].time < Latest /\ data[j].time \in Nat
      BY <1>1 DEF DupSafe, Past, DupTypeOK, Data
    <3> QED
      BY <1>2, <3>1, <3>2, <3>3
  <2> QED
    BY <2>2, <2>3
<1>6. EntriesRight(cache)'
  <2> SUFFICES ASSUME NEW p \in Paths, cache'[p] # None PROVE RightAt(cache[p], p, cache[p].time)'
    BY DEF EntriesRight
  <2>1. cache[p] # None /\ cache[p].time \in Nat
    BY <1>1 DEF DupTypeOK, Known
  <2>2. RightAt(cache[p], p, cache[p].time)
    BY <2>1 DEF DupSafe, EntriesRight
  <2>3. \A k, time : k = cache[p] /\ time = cache[p].time => RightAt(k, p, time)'
    BY <1>4, <2>1, <2>2
  <2> QED
    BY <1>1, <2>3 DEF RightAt, Right
<1>7. ASSUME NEW t \in Tabs, NEW p \in Paths PROVE CandRight(t, p)'
  <2>1. CandRight(t, p) /\ search[t].cand[p] \in Cand \cup {None} /\ search' = search
    BY <1>1 DEF DupSafe, DupTypeOK, SearchState
  <2> SUFFICES ASSUME search[t].cand[p] # None
               PROVE  LET c == search[t].cand[p]
                      IN /\ Still(t, p)' => Exists(p)' /\ c.size = Size[ContentAt(p)'] /\ c.time = data'[at'[p]].time
                         /\ c.time < Latest'
                         /\ c.known # None =>
                              /\ Still(t, p)' => Right(c.known, p)'
                              /\ RightAt(c.known, p, c.time)'
    BY <2>1 DEF CandRight, Right, RightAt
  <2>2. ASSUME NEW k, Right(k, p), Still(t, p)' PROVE Right(k, p)'
    BY <1>3, <2>2 DEF Right, Exists, ContentAt
  <2>3. search[t].cand[p].time \in Nat
    BY <2>1 DEF Cand
  <2>4. Still(t, p)' => Exists(p)' /\ ContentAt(p)' = ContentAt(p) /\ data'[at'[p]].time = data[at[p]].time
    BY <1>3, <2>1 DEF CandRight, Exists, ContentAt
  <2>5. search[t].cand[p].time < Latest'
    BY <1>2, <2>1, <2>3 DEF CandRight
  <2> QED
    BY <1>3, <1>4, <2>1, <2>2, <2>3, <2>4, <2>5 DEF CandRight
<1>8. ASSUME NEW t \in Tabs PROVE LinksApart(t)'
  BY <1>1 DEF DupSafe, LinksApart
<1>9. ASSUME NEW t \in Tabs PROVE GroupsRight(t)'
  <2>1. GroupsRight(t) /\ groups' = groups /\ \A g \in groups[t] : g.files \subseteq Paths
    BY <1>1 DEF DupSafe, DupTypeOK, Group
  <2> QED
    BY <1>3, <2>1 DEF GroupsRight, Exists, ContentAt
<1>10. ASSUME NEW t \in Tabs, NoneLost(t) PROVE NoneLost(t)'
  <2> SUFFICES ASSUME Quiet(t)' PROVE NoneLost(t)'
    BY DEF NoneLost
  <2>1. /\ GroupsRight(t) /\ search' = search /\ groups' = groups
        /\ Scope[t] \subseteq Paths /\ search[t].alike \subseteq Scope[t]
    BY <1>1, Bounds DEF DupSafe, DupTypeOK
  <2>2. Quiet(t) /\ \A p \in Scope[t] : at'[p] = at[p] /\ (Exists(p) => data'[at[p]] = data[at[p]])
    BY <1>3, <2>1 DEF Quiet
  <2>3. \A p, q \in Scope[t] : Twins(p, q)' => Twins(p, q)
    BY <2>2 DEF Twins, Exists, ContentAt
  <2>4. \A ps \in SUBSET Scope[t] : \A p \in Scope[t] : LinkIn(p, ps) => LinkIn(p, ps)'
    BY <2>2 DEF LinkIn
  <2>5. \A p \in Scope[t] : Exists(p)' => Exists(p)
    BY <2>2 DEF Exists
  <2>6. \A g \in groups[t] : g.files \in SUBSET Scope[t]
    BY <2>1 DEF GroupsRight
  <2>7. search[t].st = "done" => \A p, q \in Scope[t] : Twins(p, q)' =>
          \E g \in groups[t] : LinkIn(p, g.files)' /\ LinkIn(q, g.files)'
    BY <1>10, <2>1, <2>2, <2>3, <2>4, <2>6 DEF NoneLost
  <2>8. search[t].st = "hash" => \A p, q \in Scope[t] : Twins(p, q)' => LinkIn(p, search[t].alike)'
    <3>1. search[t].alike \in SUBSET Scope[t]
      BY <2>1
    <3> QED
      BY <1>10, <2>1, <2>2, <2>3, <2>4, <3>1 DEF NoneLost
  <2>9. LET s == search[t]
        IN /\ s.st = "walk" => \A p \in Scope[t] \ s.todo : Exists(p)' => s.cand[p] # None
           /\ s.st = "sample" => \A p, q \in Scope[t] : Twins(p, q)' =>
                s.cand[p] # None /\ (p \notin s.todo => s.cand[p].known # None)
           /\ s.st = "hash" => \A p \in s.alike \ s.todo : s.cand[p].known.full # None
    BY <1>10, <2>1, <2>2, <2>3, <2>5 DEF NoneLost
  <2> QED
    BY <2>1, <2>7, <2>8, <2>9 DEF NoneLost, LinkIn
<1>11. DupSafe'
  BY <1>1, <1>5, <1>6, <1>7, <1>8, <1>9 DEF DupSafe
<1> QED
  BY <1>10, <1>11 DEF Keeps

-----------------------------------------------------------------------------
(***************************************************************************)
(* The searches.                                                           *)
(***************************************************************************)

(* No groups are shown, and nothing is known yet. *)
LEMMA BeginKeeps ==
  ASSUME DupSafe, NEW t \in Tabs, Begin(t)
  PROVE  Keeps
<1>1. DupTypeOK /\ groups' = [groups EXCEPT ![t] = {}] /\ UNCHANGED <<fs, cache, changed, edits>>
  BY DEF Begin, DupSafe, TypesInv
<1>2. /\ \A u \in Tabs \ {t} : search'[u] = search[u]
      /\ search'[t].st = "walk" /\ search'[t].nr = searches + 1 /\ ~search'[t].stop
      /\ search'[t].todo = Scope[t] /\ search'[t].alike = {} /\ search'[t].cand = [p \in Paths |-> None]
  BY <1>1, Begun
<1>3. groups'[t] = {} /\ \A u \in Tabs \ {t} : groups'[u] = groups[u]
  BY <1>1 DEF DupTypeOK
<1>4. EntriesRight(cache)'
  BY <1>1, SameCache
<1>5. \A p \in Paths : CandRight(t, p)'
  BY <1>2 DEF CandRight
<1>6. LinksApart(t)' /\ GroupsRight(t)' /\ NoneLost(t)'
  BY <1>2, <1>3 DEF LinksApart, GroupsRight, NoneLost
<1> QED
  BY <1>1, <1>2, <1>3, <1>4, <1>5, <1>6, OneTab DEF Search

LEMMA CancelKeeps ==
  ASSUME DupSafe, NEW t \in Tabs, Cancel(t)
  PROVE  Keeps
<1>1. DupTypeOK /\ UNCHANGED <<fs, cache, groups, changed, edits, searches>>
  BY DEF Cancel, DupSafe, TypesInv
<1>2. /\ \A u \in Tabs \ {t} : search'[u] = search[u]
      /\ search'[t].st = search[t].st /\ search'[t].nr = search[t].nr /\ search'[t].stop
      /\ search'[t].todo = search[t].todo /\ search'[t].alike = search[t].alike
      /\ search'[t].cand = search[t].cand
  BY <1>1, Cancelled
<1>3. EntriesRight(cache)'
  BY <1>1, SameCache
<1>4. \A p \in Paths : CandRight(t, p)'
  <2>1. \A p \in Paths : CandRight(t, p)
    BY DEF DupSafe
  <2> QED
    BY <1>1, <1>2, <2>1, SameCand
<1>5. LinksApart(t)'
  <2>1. LinksApart(t)
    BY DEF DupSafe
  <2>2. /\ search'[t].st = search[t].st /\ search'[t].alike = search[t].alike
        /\ search'[t].cand = search[t].cand
    BY <1>2
  <2> QED
    BY <2>1, <2>2 DEF LinksApart
<1>6. GroupsRight(t)'
  BY <1>1, <1>2, SameGroups
<1>7. NoneLost(t)'
  BY <1>2 DEF NoneLost, Quiet
<1> QED
  BY <1>1, <1>2, <1>3, <1>4, <1>5, <1>6, <1>7, OneTab DEF Search

(* The other files' candidates are as they were. *)
LEMMA OtherCands ==
  ASSUME DupSafe, NEW t \in Tabs, NEW p \in Paths, NEW x, FileStepped(t, p, x), CandRight(t, p)',
         UNCHANGED <<fs, changed, edits>>
  PROVE  \A q \in Paths : CandRight(t, q)'
<1>1. \A q \in Paths : CandRight(t, q)
  BY DEF DupSafe
<1> QED
  BY <1>1, SameCand DEF FileStepped

(* A step that comes to one file leaves the rest as it is. *)
LEMMA OneFileKeeps ==
  ASSUME DupSafe, NEW t \in Tabs, NEW p \in Paths, NEW x, Search(t), FileStepped(t, p, x),
         UNCHANGED <<fs, cache, groups, changed, edits, searches>>,
         CandRight(t, p)', LinksApart(t)', NoneLost(t) => NoneLost(t)'
  PROVE  Keeps
<1>1. \A q \in Paths : CandRight(t, q)'
  BY OtherCands
<1>2. EntriesRight(cache)'
  BY SameCache
<1>3. GroupsRight(t)'
  BY SameGroups DEF FileStepped
<1>4. \A u \in Tabs \ {t} : search'[u] = search[u] /\ groups'[u] = groups[u]
  BY DEF FileStepped
<1> QED
  BY <1>1, <1>2, <1>3, <1>4, OneTab

LEMMA ListKeeps ==
  ASSUME DupSafe, NEW t \in Tabs, NEW p \in Paths, ListFile(t, p)
  PROVE  Keeps
<1>1. DupTypeOK /\ Scope[t] \subseteq Paths
  BY Bounds DEF DupSafe, TypesInv
<1>2. search[t].st = "walk" /\ UNCHANGED <<fs, cache, groups, changed, edits, searches>>
  BY DEF ListFile
<1>3. Exists(p) => at[p] \in Inodes /\ data[at[p]].time < Latest
  BY <1>1 DEF DupSafe, Past, Exists, DupTypeOK
<1>4. PICK x \in Cand \cup {None} :
           /\ FileStepped(t, p, x)
           /\ x # None => /\ Exists(p) /\ x.known = None
                          /\ x.size = Size[ContentAt(p)] /\ x.time = data[at[p]].time
           /\ Exists(p) /\ ~search[t].stop => x # None
  BY <1>1, Listed
<1>5. CandRight(t, p)'
  BY <1>2, <1>3, <1>4 DEF FileStepped, CandRight, Exists, ContentAt, Latest, fs
<1>6. LinksApart(t)'
  BY <1>2, <1>4 DEF FileStepped, LinksApart
<1>7. ASSUME NoneLost(t) PROVE NoneLost(t)'
  <2> USE <1>4 DEF FileStepped
  <2> SUFFICES ASSUME Quiet(t)', NEW q \in Scope[t] \ search'[t].todo, Exists(q)'
               PROVE  search'[t].cand[q] # None
    BY <1>2 DEF NoneLost
  <2>1. Quiet(t) /\ Exists(q)
    BY <1>2, SameFiles
  <2>2. CASE q = p
    BY <2>1, <2>2 DEF Quiet
  <2>3. CASE q # p
    BY <1>1, <1>2, <1>7, <2>1, <2>3 DEF NoneLost
  <2> QED
    BY <2>2, <2>3
<1> QED
  BY <1>2, <1>4, <1>5, <1>6, <1>7, OneFileKeeps DEF Search

LEMMA SampleKeeps ==
  ASSUME DupSafe, NEW t \in Tabs, NEW p \in Paths, SampleFile(t, p)
  PROVE  Keeps
<1> DEFINE c == search[t].cand[p]
           hit == Lookup(p, c.size, c.time)
           k == Learned(t, p)
<1>1. DupTypeOK /\ Scope[t] \subseteq Paths
  BY Bounds DEF DupSafe, TypesInv
<1>2. search[t].st = "sample" /\ p \in search[t].todo /\ UNCHANGED <<fs, cache, groups, changed, edits, searches>>
  BY DEF SampleFile
<1>3. c \in Cand /\ c # None
  BY <1>1, <1>2 DEF DupSafe, TypesInv, StageFit, DupTypeOK, SearchState
<1>4. /\ Still(t, p) => Exists(p) /\ c.size = Size[ContentAt(p)] /\ c.time = data[at[p]].time
      /\ c.time < Latest
  BY <1>3 DEF DupSafe, CandRight
(* An entry of the cache that is used. *)
<1>5. hit # None => /\ hit.size = c.size /\ hit.time = c.time
                    /\ RightAt(hit, p, c.time) /\ (Still(t, p) => Right(hit, p))
  <2> SUFFICES ASSUME hit # None
               PROVE  /\ hit.size = c.size /\ hit.time = c.time
                      /\ RightAt(hit, p, c.time) /\ (Still(t, p) => Right(hit, p))
    OBVIOUS
  <2>1. /\ hit = cache[p] /\ cache[p] # None /\ c.time # 0 /\ Cached
        /\ cache[p].size = c.size /\ cache[p].time = c.time
    BY DEF Lookup
  <2>2. RightAt(cache[p], p, cache[p].time)
    BY <2>1 DEF DupSafe, EntriesRight
  <2>3. RightAt(hit, p, c.time)
    BY <2>1, <2>2
  <2> HIDE DEF hit
  <2>4. Still(t, p) => Right(hit, p)
    BY <1>4, <2>1, <2>3 DEF RightAt
  <2> QED
    BY <2>1, <2>3, <2>4
<1>6. /\ k # None => /\ k.size = c.size /\ k.time = c.time
                     /\ RightAt(k, p, c.time) /\ (Still(t, p) => Right(k, p))
      /\ ~search[t].stop /\ Still(t, p) => k # None
  BY <1>1, <1>3, <1>4, <1>5, SampleIs DEF RightAt, Learned
<1>7. PICK y \in Cand : /\ FileStepped(t, p, y) /\ y # None
                        /\ y.size = c.size /\ y.time = c.time /\ y.known = k
  BY <1>1, <1>3, SampledIs
<1>8. /\ y.known # None => /\ y.known.size = c.size /\ y.known.time = c.time
                           /\ RightAt(y.known, p, c.time) /\ (Still(t, p) => Right(y.known, p))
      /\ ~search[t].stop /\ Still(t, p) => y.known # None
  BY <1>6, <1>7
<1> HIDE DEF k, hit
<1> USE <1>7 DEF FileStepped
<1>9. CandRight(t, p)'
  <2>1. (Still(t, p)' <=> Still(t, p)) /\ (Exists(p)' <=> Exists(p)) /\ ContentAt(p)' = ContentAt(p)
    BY <1>2, SameFiles
  <2>2. UNCHANGED <<at, data, Latest>>
    BY <1>2 DEF fs, Latest
  <2>3. y.known # None => RightAt(y.known, p, c.time)' /\ (Still(t, p)' => Right(y.known, p)')
    BY <1>2, <1>8, SameFiles
  <2> QED
    BY <1>3, <1>4, <1>8, <2>1, <2>2, <2>3 DEF CandRight, Right, RightAt
<1>10. LinksApart(t)'
  BY <1>2 DEF LinksApart
<1>11. ASSUME NoneLost(t) PROVE NoneLost(t)'
  <2> SUFFICES ASSUME Quiet(t)', NEW q \in Scope[t], NEW r \in Scope[t], Twins(q, r)'
               PROVE  search'[t].cand[q] # None /\ (q \notin search'[t].todo => search'[t].cand[q].known # None)
    BY <1>2 DEF NoneLost
  <2>1. Quiet(t) /\ Twins(q, r)
    BY <1>2, SameFiles
  <2>2. search[t].cand[q] # None /\ (q \notin search[t].todo => search[t].cand[q].known # None)
    BY <1>2, <1>11, <2>1 DEF NoneLost
  <2>3. CASE q = p
    BY <1>3, <1>8, <2>1, <2>3 DEF Quiet
  <2>4. CASE q # p
    BY <1>1, <2>2, <2>4
  <2> QED
    BY <2>3, <2>4
<1> QED
  BY <1>2, <1>7, <1>9, <1>10, <1>11, OneFileKeeps DEF Search

LEMMA HashKeeps ==
  ASSUME DupSafe, NEW t \in Tabs, NEW p \in Paths, HashFile(t, p)
  PROVE  Keeps
<1> DEFINE c == search[t].cand[p]
           f == HashOf(t, p)
<1>1. DupTypeOK /\ Scope[t] \subseteq Paths
  BY Bounds DEF DupSafe, TypesInv
<1>2. /\ search[t].st = "hash" /\ p \in search[t].todo /\ p \in search[t].alike
      /\ search[t].alike \subseteq Scope[t]
      /\ UNCHANGED <<fs, cache, groups, changed, edits, searches>>
  BY <1>1 DEF HashFile, DupTypeOK, DupSafe, TypesInv, StageFit
<1>3. c \in Cand /\ c # None /\ c.known # None
  BY <1>1, <1>2 DEF DupSafe, TypesInv, StageFit, DupTypeOK, SearchState
<1>4. /\ c.known.size = c.size /\ c.known.time = c.time
      /\ Still(t, p) => /\ Exists(p) /\ c.size = Size[ContentAt(p)] /\ c.time = data[at[p]].time
                        /\ Right(c.known, p)
      /\ c.time < Latest
      /\ RightAt(c.known, p, c.time)
  BY <1>3 DEF DupSafe, CandRight
<1>5. /\ Exists(p) => f \in {None, ContentAt(p)}
      /\ Exists(p) /\ ~search[t].stop => f # None
  BY <1>1, Bounds DEF HashOf, Exists, ContentAt, DupTypeOK, Data
<1>6. PICK y \in Cand :
              /\ FileStepped(t, p, y) /\ y # None /\ y.size = c.size /\ y.time = c.time
              /\ y.known \in Known /\ y.known # None
              /\ y.known.size = c.known.size /\ y.known.time = c.known.time
              /\ y.known.id = c.known.id /\ y.known.ends = c.known.ends
              /\ y.known.full = f
  BY <1>1, <1>3, HashedIs
<1>7. /\ RightAt(y.known, p, c.time) /\ (Still(t, p) => Right(y.known, p))
      /\ ~search[t].stop /\ Still(t, p) => y.known.full # None
  <2>1. Right(c.known, p) => Right(y.known, p)
    BY <1>5, <1>6 DEF Right
  <2> QED
    BY <1>4, <1>5, <1>6, <2>1 DEF RightAt
<1> HIDE DEF f
<1> USE <1>6 DEF FileStepped
<1>8. CandRight(t, p)'
  <2>1. (Still(t, p)' <=> Still(t, p)) /\ (Exists(p)' <=> Exists(p)) /\ ContentAt(p)' = ContentAt(p)
    BY <1>2, SameFiles
  <2>2. UNCHANGED <<at, data, Latest>>
    BY <1>2 DEF fs, Latest
  <2>3. RightAt(y.known, p, c.time)' /\ (Still(t, p)' => Right(y.known, p)')
    BY <1>2, <1>7, SameFiles
  <2> QED
    BY <1>3, <1>4, <2>1, <2>2, <2>3 DEF CandRight, Right, RightAt
<1>9. LinksApart(t)'
  <2>1. \A q, r \in search[t].alike : q # r =>
             search[t].cand[q].known.id # search[t].cand[r].known.id \/ search[t].cand[q].size # search[t].cand[r].size
    BY <1>2 DEF DupSafe, LinksApart
  <2>2. \A q \in search[t].alike :
          /\ search'[t].cand[q].known.id = search[t].cand[q].known.id
          /\ search'[t].cand[q].size = search[t].cand[q].size
    BY <1>1, <1>2
  <2>3. ASSUME NEW q \in search[t].alike, NEW r \in search[t].alike, q # r
        PROVE  \/ search'[t].cand[q].known.id # search'[t].cand[r].known.id
               \/ search'[t].cand[q].size # search'[t].cand[r].size
    <3>1. \/ search[t].cand[q].known.id # search[t].cand[r].known.id
          \/ search[t].cand[q].size # search[t].cand[r].size
      BY <2>1, <2>3
    <3> QED
      BY <2>2, <3>1
  <2>4. search'[t].alike = search[t].alike
    BY <1>6, Zenon DEF FileStepped
  <2> QED
    BY <2>3, <2>4 DEF LinksApart
<1>10. ASSUME NoneLost(t) PROVE NoneLost(t)'
  <2>1. Quiet(t)' => Quiet(t)
    BY <1>2, SameFiles
  <2>2. Quiet(t)' => \A q, r \in Scope[t] : Twins(q, r)' => LinkIn(q, search[t].alike)'
    <3>1. \A q, r : Twins(q, r)' <=> Twins(q, r)
      BY <1>2, SameFiles
    <3>2. Quiet(t)' => \A q, r \in Scope[t] : Twins(q, r)' => LinkIn(q, search[t].alike)
      BY <1>2, <1>10, <2>1, <3>1 DEF NoneLost
    <3>3. search'[t].alike = search[t].alike
      BY <1>1, <1>2 DEF DupTypeOK
    <3>4. \A q : LinkIn(q, search[t].alike)' <=> LinkIn(q, search[t].alike)
      BY <1>2, <3>3 DEF LinkIn, fs
    <3> QED
      BY <3>2, <3>4
  <2>3. ASSUME NEW q \in search[t].alike, Quiet(t)', q \notin search[t].todo \/ q = p
        PROVE  search'[t].cand[q].known.full # None
    <3>1. CASE q = p
      BY <1>3, <1>7, <1>2, <1>1, <2>1, <2>3, <3>1 DEF Quiet
    <3>2. CASE q # p
      BY <1>1, <1>2, <1>10, <2>1, <2>3, <3>2 DEF NoneLost
    <3> QED
      BY <3>1, <3>2
  <2> QED
    BY <1>2, <2>2, <2>3 DEF NoneLost, LinkIn
<1> QED
  BY <1>2, <1>6, <1>8, <1>9, <1>10, OneFileKeeps DEF Search

(* A cancelled search returns. *)
LEMMA StoppedKeeps ==
  ASSUME DupSafe, NEW t \in Tabs, search[t].stop, Search(t), Stopped(t),
         UNCHANGED <<fs, cache, changed, edits, searches>>
  PROVE  Keeps
<1>1. DupTypeOK /\ Returns(t) /\ groups' = groups
  BY DEF DupSafe, TypesInv, Stopped
<1>2. /\ \A u \in Tabs \ {t} : search'[u] = search[u]
      /\ search'[t].st = "done" /\ search'[t].nr = search[t].nr /\ search'[t].stop = search[t].stop
      /\ search'[t].todo = {} /\ search'[t].alike = {} /\ search'[t].cand = [p \in Paths |-> None]
  BY <1>1, Returned
<1>3. EntriesRight(cache)'
  BY SameCache
<1>4. (\A p \in Paths : CandRight(t, p)') /\ LinksApart(t)'
  BY <1>2 DEF CandRight, LinksApart
<1>5. GroupsRight(t)'
  BY <1>1, <1>2, SameGroups
<1>6. NoneLost(t)'
  BY <1>2 DEF NoneLost, Quiet
<1> QED
  BY <1>1, <1>2, <1>3, <1>4, <1>5, <1>6, OneTab

LEMMA SizesKeep ==
  ASSUME DupSafe, NEW t \in Tabs, CompareSizes(t)
  PROVE  Keeps
<1>1. TypesInv /\ DupTypeOK /\ Search(t) /\ Scope[t] \subseteq Paths
  BY Bounds DEF DupSafe, TypesInv, Search
<1>2. search[t].st = "walk" /\ search[t].todo = {} /\ UNCHANGED <<fs, cache, changed, edits, searches>>
  BY DEF CompareSizes
<1>3. CASE search[t].stop
  <2>1. Stopped(t)
    BY <1>3, Zenon DEF CompareSizes
  <2> QED
    BY <1>1, <1>2, <1>3, <2>1, StoppedKeeps
<1>4. CASE ~search[t].stop
  <2>1. groups' = groups
    BY <1>1, <1>4, SizesAre
  <2>2. PICK ps \in SUBSET Scope[t], x \in [Paths -> Cand \cup {None}] : SizesCompare(t, ps, x)
    BY <1>1, <1>4, SizesAre
  <2>3. /\ \A u \in Tabs \ {t} : search'[u] = search[u]
        /\ search'[t].st = "sample" /\ search'[t].nr = search[t].nr /\ search'[t].stop = search[t].stop
        /\ search'[t].todo = ps /\ search'[t].cand = x
    BY <2>2 DEF SizesCompare, Stepped
  <2>4. /\ \A p \in Paths : x[p] # None => x[p] = search[t].cand[p]
        /\ \A p, q \in Paths :
             /\ search[t].cand[p] # None /\ search[t].cand[q] # None /\ p # q
             /\ search[t].cand[p].size = search[t].cand[q].size
             => p \in ps /\ x[p] # None
    BY <2>2 DEF SizesCompare
  <2>5. EntriesRight(cache)'
    BY <1>2, SameCache
  <2>6. ASSUME NEW p \in Paths PROVE CandRight(t, p)'
    <3>1. CASE x[p] = None
      BY <2>3, <3>1 DEF CandRight
    <3>2. CASE x[p] # None
      <4>1. search'[t].cand[p] = search[t].cand[p]
        BY <2>3, <2>4, <3>2
      <4>2. CandRight(t, p)
        BY DEF DupSafe
      <4> QED
        BY <1>2, <2>3, <4>1, <4>2, SameCand
    <3> QED
      BY <3>1, <3>2
  <2>7. LinksApart(t)'
    BY <2>3 DEF LinksApart
  <2>8. GroupsRight(t)'
    BY <1>2, <2>1, <2>3, SameGroups
  <2>9. ASSUME NoneLost(t) PROVE NoneLost(t)'
    <3> SUFFICES ASSUME Quiet(t)', NEW p \in Scope[t], NEW q \in Scope[t], Twins(p, q)'
                 PROVE  x[p] # None /\ p \in ps
      BY <2>3 DEF NoneLost
    <3>1. Quiet(t) /\ Twins(p, q) /\ p \in Paths /\ q \in Paths
      BY <1>1, <1>2, <2>3, SameFiles
    <3>2. search[t].cand[p] # None /\ search[t].cand[q] # None
      BY <1>2, <2>9, <3>1 DEF NoneLost, Twins
    <3>3. search[t].cand[p].size = Size[ContentAt(p)] /\ search[t].cand[q].size = Size[ContentAt(q)]
      BY <3>1, <3>2 DEF DupSafe, CandRight, Quiet
    <3> QED
      BY <2>4, <3>1, <3>2, <3>3 DEF Twins
  <2> QED
    BY <1>1, <1>2, <2>1, <2>3, <2>5, <2>6, <2>7, <2>8, <2>9, OneTab, Zenon
<1> QED
  BY <1>3, <1>4

LEMMA SamplesKeep ==
  ASSUME DupSafe, NEW t \in Tabs, CompareSamples(t)
  PROVE  Keeps
<1> DEFINE K(p) == search[t].cand[p].known
<1>1. TypesInv /\ DupTypeOK /\ Search(t) /\ Scope[t] \subseteq Paths
  BY Bounds DEF DupSafe, TypesInv, Search
<1>2. search[t].st = "sample" /\ search[t].todo = {} /\ UNCHANGED <<fs, cache, changed, edits, searches>>
  BY Zenon DEF CompareSamples
<1>3. CASE search[t].stop
  <2>1. Stopped(t)
    BY <1>3, Zenon DEF CompareSamples
  <2> QED
    BY <1>1, <1>2, <1>3, <2>1, StoppedKeeps
<1>4. CASE ~search[t].stop
  <2>1. groups' = groups
    BY <1>1, <1>4, SamplesAre
  <2>2. PICK kept \in SUBSET Paths, al \in SUBSET Paths, ps \in SUBSET Paths :
          SamplesCompare(t, kept, al, ps)
    BY <1>1, <1>4, SamplesAre
  <2>3. /\ \A u \in Tabs \ {t} : search'[u] = search[u]
        /\ search'[t].st = "hash" /\ search'[t].nr = search[t].nr /\ search'[t].stop = search[t].stop
        /\ search'[t].todo = ps /\ search'[t].alike = al /\ search'[t].cand = search[t].cand
    BY <2>2 DEF SamplesCompare, Stepped
  <2>4. /\ al \subseteq kept /\ \A p \in kept : InSample(t, p)
        /\ \A p \in al \ ps : K(p).full # None
        /\ \A p \in Paths : InSample(t, p) => \E q \in kept : K(q).id = K(p).id /\ K(q).size = K(p).size
        /\ \A p, q \in kept : p # q => K(p).id # K(q).id \/ K(p).size # K(q).size
        /\ \A p, q \in kept : p # q /\ K(p).size = K(q).size /\ K(p).ends = K(q).ends => p \in al
    BY <2>2 DEF SamplesCompare
  <2>5. \A p \in Paths : InSample(t, p) =>
          K(p).size = search[t].cand[p].size /\ (Still(t, p) => Right(K(p), p))
    BY DEF InSample, DupSafe, CandRight
  <2>6. EntriesRight(cache)'
    BY <1>2, SameCache
  <2>7. ASSUME NEW p \in Paths PROVE CandRight(t, p)'
    <3>1. CandRight(t, p)
      BY DEF DupSafe
    <3> QED
      BY <1>2, <2>3, <3>1, SameCand
  <2>8. LinksApart(t)'
    BY <2>3, <2>4, <2>5 DEF LinksApart
  <2>9. GroupsRight(t)'
    BY <1>2, <2>1, <2>3, SameGroups
  <2>10. ASSUME NoneLost(t) PROVE NoneLost(t)'
    <3> SUFFICES ASSUME Quiet(t)', NEW p \in Scope[t], NEW q \in Scope[t], Twins(p, q)'
                 PROVE  LinkIn(p, al)
      BY <1>2, <2>3, <2>4 DEF NoneLost, LinkIn, fs
    <3>1. Quiet(t) /\ Twins(p, q) /\ p \in Paths /\ q \in Paths
      BY <1>1, <1>2, <2>3, SameFiles
    <3>2. InSample(t, p) /\ InSample(t, q)
      BY <1>2, <2>10, <3>1 DEF InSample, NoneLost, Twins
    <3>3. \A x \in Paths : InSample(t, x) => Right(K(x), x)
      <4>1. \A x \in Paths : InSample(t, x) => x \in Scope[t]
        BY DEF DupSafe, TypesInv, StageFit, InSample
      <4> QED
        BY <2>5, <3>1, <4>1 DEF Quiet
    <3>4. PICK x \in kept : K(x).id = K(p).id
      BY <2>4, <3>1, <3>2
    <3>5. PICK y \in kept : K(y).id = K(q).id
      BY <2>4, <3>1, <3>2
    <3>6. InSample(t, x) /\ InSample(t, y)
      BY <2>4
    <3>7. at[x] = at[p] /\ at[y] = at[q] /\ x # y
      BY <3>1, <3>2, <3>3, <3>4, <3>5, <3>6 DEF Right, Twins
    <3>8. ContentAt(x) = ContentAt(y)
      BY <3>1, <3>7 DEF Twins, ContentAt
    <3>9. K(x).size = K(y).size /\ K(x).ends = K(y).ends
      BY <3>3, <3>6, <3>8 DEF Right
    <3> QED
      BY <2>4, <3>7, <3>9 DEF LinkIn
  <2> QED
    BY <1>1, <1>2, <2>1, <2>3, <2>6, <2>7, <2>8, <2>9, <2>10, OneTab
<1> QED
  BY <1>3, <1>4

LEMMA FinishKeeps ==
  ASSUME DupSafe, NEW t \in Tabs, Finish(t)
  PROVE  Keeps
<1> DEFINE cand == search[t].cand
           alike == search[t].alike
<1>1. /\ DupTypeOK /\ search[t].st = "hash" /\ search[t].todo = {} /\ Returns(t)
      /\ cache' = IF Cached THEN Replaced(t) ELSE cache
      /\ groups' = [groups EXCEPT ![t] = IF search[t].stop THEN {} ELSE Grouped(t)]
      /\ UNCHANGED <<fs, changed, edits, searches>>
  BY DEF DupSafe, TypesInv, Finish
<1>2. /\ \A u \in Tabs \ {t} : search'[u] = search[u]
      /\ search'[t].st = "done" /\ search'[t].nr = search[t].nr /\ search'[t].stop = search[t].stop
      /\ search'[t].todo = {} /\ search'[t].alike = {} /\ search'[t].cand = [p \in Paths |-> None]
  BY <1>1, Returned
<1>3. /\ cand \in [Paths -> Cand \cup {None}] /\ alike \in SUBSET Paths /\ alike \subseteq Scope[t]
      /\ \A p \in alike : cand[p] # None /\ cand[p].known # None
  <2>1. StageFit(t) /\ search \in [Tabs -> SearchState] /\ alike \subseteq Scope[t]
    BY DEF DupSafe, TypesInv, DupTypeOK
  <2> QED
    BY <1>1, <2>1 DEF StageFit, SearchState
<1>4. \A p \in Paths : cand[p] # None /\ cand[p].known # None =>
        /\ cand[p].known.size = cand[p].size /\ cand[p].known.time = cand[p].time
        /\ Still(t, p) => Right(cand[p].known, p)
        /\ RightAt(cand[p].known, p, cand[p].time)
  <2>1. \A p \in Paths : CandRight(t, p)
    BY DEF DupSafe
  <2> QED
    BY <2>1 DEF CandRight
<1>5. /\ \A p \in Paths : cache'[p] = cache[p] \/ cache'[p] = Fresh(t, p)
      /\ \A p \in Paths : Fresh(t, p) # None =>
           cand[p] # None /\ cand[p].known # None /\ Fresh(t, p) = cand[p].known
  BY <1>1, ReplacedIs DEF InSample
<1>6. \A p \in alike : Copies(t, p) \subseteq alike
  BY DEF Copies
<1>7. groups'[t] = (IF search[t].stop THEN {} ELSE Grouped(t)) /\ \A u \in Tabs \ {t} : groups'[u] = groups[u]
  BY <1>1 DEF DupTypeOK
<1>8. EntriesRight(cache)'
  <2>1. ASSUME NEW p \in Paths, NEW k, k = cache'[p], k # None
        PROVE  RightAt(k, p, k.time)'
    <3>1. RightAt(k, p, k.time)
      <4>1. CASE k = cache[p]
        BY <2>1, <4>1 DEF DupSafe, EntriesRight
      <4>2. CASE k = Fresh(t, p)
        BY <1>4, <1>5, <2>1, <4>2
      <4> QED
        BY <1>5, <2>1, <4>1, <4>2
    <3> QED
      BY <1>1, <3>1, SameEntries
  <2> QED
    BY <2>1 DEF EntriesRight, RightAt, Right, Exists, ContentAt, Latest
<1>9. (\A p \in Paths : CandRight(t, p)') /\ LinksApart(t)'
  BY <1>2 DEF CandRight, LinksApart
<1>10. GroupsRight(t)'
  <2> SUFFICES ASSUME NEW g \in Grouped(t)
               PROVE  /\ g.files \subseteq Scope[t]
                      /\ \A p \in g.files : Still(t, p) => Exists(p) /\ ContentAt(p) = g.full
                      /\ \A p, q \in g.files : Still(t, p) /\ Still(t, q) /\ p # q => at[p] # at[q]
    <3>1. UNCHANGED <<at, data, changed>>
      BY <1>1 DEF fs
    <3> QED
      BY <1>2, <1>7, <3>1 DEF GroupsRight, Still, Exists, ContentAt
  <2>1. PICK x \in alike : /\ cand[x].known.full # None
                           /\ g = [full |-> cand[x].known.full, files |-> Copies(t, x)]
    BY GroupsAre
  <2>2. g.files = Copies(t, x) /\ g.full = cand[x].known.full
    BY <2>1
  <2>3. \A p \in Copies(t, x) : /\ p \in alike /\ p \in Paths /\ cand[p].known.full = cand[x].known.full
                                /\ cand[p].size = cand[x].size
    BY <1>3 DEF Copies
  <2>4. \A p \in Copies(t, x) : Still(t, p) =>
          Exists(p) /\ ContentAt(p) = cand[x].known.full /\ cand[p].known.id = at[p]
    BY <1>3, <1>4, <2>1, <2>3 DEF Right
  <2>5. \A p, q \in alike : p # q => cand[p].known.id # cand[q].known.id \/ cand[p].size # cand[q].size
    BY <1>1 DEF DupSafe, LinksApart
  <2> QED
    BY <1>3, <2>2, <2>3, <2>4, <2>5
<1>11. ASSUME NoneLost(t) PROVE NoneLost(t)'
  <2> SUFFICES ASSUME Quiet(t)', NEW p \in Scope[t], NEW q \in Scope[t], Twins(p, q)'
               PROVE  \E g \in groups'[t] : LinkIn(p, g.files)' /\ LinkIn(q, g.files)'
    BY <1>2 DEF NoneLost
  <2>1. Quiet(t) /\ Twins(p, q) /\ \A r, ps : LinkIn(r, ps)' <=> LinkIn(r, ps)
    BY <1>1, <1>2, SameFiles
  <2>2. LinkIn(p, alike) /\ LinkIn(q, alike) /\ \A x \in alike : cand[x].known.full # None
    BY <1>1, <1>11, <2>1 DEF NoneLost, Twins
  <2>3. PICK x \in alike, y \in alike : at[x] = at[p] /\ at[y] = at[q]
    BY <2>2 DEF LinkIn
  <2>4. \A z \in alike : /\ cand[z].known.full = ContentAt(z) /\ cand[z].size = Size[ContentAt(z)]
    BY <1>3, <1>4, <2>1, <2>2 DEF Quiet, Right
  <2>5. x # y /\ ContentAt(x) = ContentAt(y)
    BY <2>1, <2>3 DEF Twins, ContentAt
  <2>6. x \in Copies(t, x) /\ y \in Copies(t, x)
    BY <2>2, <2>4, <2>5 DEF Copies
  <2>7. Copies(t, x) \in SUBSET Paths
    BY <1>3 DEF Copies
  <2>8. IsFiniteSet(Copies(t, x))
    BY <2>7, Bounds, FS_Subset
  <2>9. Cardinality(Copies(t, x)) > 1
    BY <2>5, <2>6, <2>8, Pair
  <2>10. PICK g \in Grouped(t) : g = [full |-> cand[x].known.full, files |-> Copies(t, x)]
    BY <2>2, <2>9, GroupsAre
  <2>11. g.files = Copies(t, x) /\ g \in groups'[t]
    BY <1>7, <2>1, <2>10 DEF Quiet
  <2>12. LinkIn(p, g.files) /\ LinkIn(q, g.files)
    BY <2>3, <2>6, <2>11 DEF LinkIn
  <2> QED
    BY <2>1, <2>11, <2>12
<1> QED
  BY <1>1, <1>2, <1>7, <1>8, <1>9, <1>10, <1>11, OneTab DEF Search

LEMMA SearchKeeps ==
  ASSUME DupSafe, NEW t \in Tabs, Search(t)
  PROVE  Keeps
<1>1. CASE Begin(t)
  BY <1>1, BeginKeeps
<1>2. CASE Cancel(t)
  BY <1>2, CancelKeeps
<1>3. ASSUME NEW p \in Paths, ListFile(t, p)
      PROVE  Keeps
  BY <1>3, ListKeeps
<1>4. ASSUME NEW p \in Paths, SampleFile(t, p)
      PROVE  Keeps
  BY <1>4, SampleKeeps
<1>5. ASSUME NEW p \in Paths, HashFile(t, p)
      PROVE  Keeps
  BY <1>5, HashKeeps
<1>6. CASE CompareSizes(t)
  BY <1>6, SizesKeep
<1>7. CASE CompareSamples(t)
  BY <1>7, SamplesKeep
<1>8. CASE Finish(t)
  BY <1>8, FinishKeeps
<1> QED
  BY <1>1, <1>2, <1>3, <1>4, <1>5, <1>6, <1>7, <1>8 DEF Search

(* A step of the searches or of the user.  With a cache the user may not   *)
(* put a file in the place of another with its time.                       *)
LEMMA NextKeeps ==
  ASSUME DupSafe, Cached => ~MayRestore, Next
  PROVE  Keeps
<1>1. CASE User
  <2>1. FilesChange /\ (Cached => OnlyGo)
    BY <1>1, UserDoes DEF DupSafe, TypesInv
  <2> QED
    BY <2>1, ChangesKeep
<1> QED
  BY <1>1, SearchKeeps DEF Next

LEMMA NextKeepsTypes ==
  ASSUME TypesInv, Next
  PROVE  TypesInv'
<1>1. CASE User
  BY <1>1, UserDoes, ChangesKeepTypes DEF TypesInv
<1> QED
  BY <1>1, SearchKeepsTypes DEF Next

LEMMA InitTypes == Init => TypesInv
<1> SUFFICES ASSUME Init
             PROVE  TypesInv
  OBVIOUS
<1>1. \A t \in Tabs : search[t] = Idle /\ groups[t] = {}
  BY DEF Init
<1>2. DupTypeOK
  <2>1. 0 \in 0..MaxSearches /\ 0 \in 0..MaxEdits /\ 0 \in 0..searches /\ searches \in Nat
    BY Bounds DEF Init
  <2>2. at \in [Paths -> Inodes \cup {None}] /\ data \in [Inodes -> Data]
    BY DupAssumption DEF Init
  <2>3. \A t \in Tabs : search[t].todo \cup search[t].alike \subseteq Scope[t] /\ search[t].nr <= searches
    BY <1>1, IdleRecord DEF Init
  <2>4. search \in [Tabs -> SearchState]
    BY IdleRecord DEF Init
  <2>5. cache \in [Paths -> Known \cup {None}] /\ groups \in [Tabs -> SUBSET Group]
    BY DEF Init, NoCache
  <2>6. changed \in [Paths -> 0..searches]
    BY <2>1 DEF Init
  <2> QED
    BY <2>1, <2>2, <2>3, <2>4, <2>5, <2>6 DEF DupTypeOK, Init
<1>3. ASSUME NEW t \in Tabs PROVE StageFit(t)
  BY <1>1, IdleRecord DEF StageFit
<1> QED
  BY <1>2, <1>3 DEF TypesInv

(* An idle search, and a cache that is empty. *)
LEMMA IdleIsRight ==
  ASSUME NEW t \in Tabs, search[t] = Idle, groups[t] = {}
  PROVE  (\A p \in Paths : CandRight(t, p)) /\ LinksApart(t) /\ GroupsRight(t) /\ NoneLost(t) /\ StageFit(t)
<1>1. search[t].st = "idle" /\ search[t].cand = [p \in Paths |-> None]
  BY IdleRecord
<1> QED
  BY <1>1 DEF CandRight, LinksApart, GroupsRight, NoneLost, StageFit

LEMMA DupInit == Init => DupInv
<1> SUFFICES ASSUME Init
             PROVE  DupInv
  OBVIOUS
<1>1. \A t \in Tabs : search[t] = Idle /\ groups[t] = {}
  BY DEF Init
<1>2. Past
  BY DupAssumption DEF Init, Past, Latest
<1>3. EntriesRight(cache)
  BY DEF Init, EntriesRight, NoCache
<1> QED
  BY <1>1, <1>2, <1>3, InitTypes, IdleIsRight DEF DupInv, DupSafe

LEMMA DupStutter ==
  ASSUME DupSafe, UNCHANGED vars
  PROVE  Keeps
<1>1. UNCHANGED <<at, data, cache, search, groups, changed, edits, searches>>
  BY DEF vars, fs
<1>2. TypesInv' /\ Past' /\ EntriesRight(cache)'
  <2>1. EntriesRight(cache)'
    BY SameCache DEF vars
  <2> QED
    BY <1>1, <2>1 DEF DupSafe, TypesInv, StageFit, DupTypeOK, Past, Latest
<1>3. ASSUME NEW t \in Tabs
      PROVE  /\ (\A p \in Paths : CandRight(t, p)') /\ LinksApart(t)' /\ GroupsRight(t)'
             /\ NoneLost(t) => NoneLost(t)'
  <2>1. (\A p \in Paths : CandRight(t, p)) /\ LinksApart(t) /\ GroupsRight(t)
    BY Zenon DEF DupSafe
  <2>2. \A p \in Paths : CandRight(t, p)'
    BY <1>1, <2>1, SameCand DEF vars
  <2>3. LinksApart(t)'
    BY <1>1, <2>1 DEF LinksApart
  <2>4. GroupsRight(t)'
    BY <1>1, SameGroups DEF vars
  <2>5. NoneLost(t) => NoneLost(t)'
    BY <1>1 DEF NoneLost, Quiet, Twins, LinkIn, Still, Exists, ContentAt
  <2> QED
    BY <2>2, <2>3, <2>4, <2>5
<1> QED
  BY <1>2, <1>3 DEF DupSafe, Keeps

LEMMA DupAlways == (Cached => ~MayRestore) => (Spec => []DupInv)
<1> SUFFICES ASSUME Cached => ~MayRestore
             PROVE  Spec => []DupInv
  OBVIOUS
<1>1. DupInv /\ [Next]_vars => DupInv'
  <2> SUFFICES ASSUME DupInv, [Next]_vars PROVE DupInv'
    OBVIOUS
  <2>1. Keeps
    BY NextKeeps, DupStutter DEF DupInv
  <2> QED
    BY <2>1 DEF Keeps, DupInv
<1> QED
  BY <1>1, DupInit, PTL DEF Spec

-----------------------------------------------------------------------------
(***************************************************************************)
(* What a search promises, unless there is a cache and a file may be       *)
(* replaced by another of the same size and time, which the cache cannot   *)
(* tell from it.                                                           *)
(***************************************************************************)

LEMMA NotTouched ==
  ASSUME DupTypeOK, NEW t \in Tabs, NEW p \in Paths, p \notin Touched(search[t].nr)
  PROVE  Still(t, p)
<1>1. changed[p] \in Nat /\ search[t].nr \in Nat
  <2>1. changed[p] \in 0..searches /\ search[t] \in SearchState /\ searches \in Nat
    BY Bounds DEF DupTypeOK
  <2> QED
    BY <2>1, Bounds DEF SearchState
<1> QED
  BY <1>1 DEF Touched, Still

(* What is right of the groups is what the tabs promise of them. *)
LEMMA SafeGroups ==
  ASSUME DupSafe
  PROVE  GroupsIdentical /\ HardLinksNotDuplicates
<1>1. ASSUME NEW t \in Tabs, NEW g \in groups[t], NEW p \in g.files \ Touched(search[t].nr)
      PROVE  GroupsRight(t) /\ Still(t, p)
  <2>1. GroupsRight(t) /\ DupTypeOK
    BY DEF DupSafe, TypesInv
  <2>2. g.files \subseteq Paths
    BY <2>1, Bounds DEF GroupsRight
  <2> QED
    BY <2>1, <2>2, NotTouched
<1>2. GroupsIdentical
  BY <1>1 DEF GroupsIdentical, GroupsRight
<1>3. HardLinksNotDuplicates
  BY <1>1 DEF HardLinksNotDuplicates, GroupsRight
<1> QED
  BY <1>2, <1>3

(* A search is always in one of its stages, with candidates below its root *)
(* only, and nothing else is ever in the cache or in a group.              *)
THEOREM SearchTypes == Spec => []DupTypeOK
<1>1. TypesInv /\ [Next]_vars => TypesInv'
  <2> SUFFICES ASSUME TypesInv, [Next]_vars PROVE TypesInv'
    OBVIOUS
  <2>1. CASE UNCHANGED vars
    BY <2>1 DEF vars, fs, TypesInv, StageFit, DupTypeOK
  <2> QED
    BY <2>1, NextKeepsTypes
<1>2. TypesInv => DupTypeOK
  BY DEF TypesInv
<1> QED
  BY <1>1, <1>2, InitTypes, PTL DEF Spec

(* What find says of itself (dupes.rs 1-16): whatever is edited or deleted *)
(* while it runs, and whatever other tabs and earlier runs left in the     *)
(* cache, the unchanged files of a group have the content of the group.    *)
THEOREM GroupsAreIdentical == (Cached => ~MayRestore) => (Spec => []GroupsIdentical)
<1> SUFFICES ASSUME Cached => ~MayRestore
             PROVE  Spec => []GroupsIdentical
  OBVIOUS
<1>1. DupInv => GroupsIdentical
  BY SafeGroups DEF DupInv
<1> QED
  BY <1>1, DupAlways, PTL

(* Hard links to one file are collapsed by their ids before any sample is  *)
(* compared (seen_ids), so the unchanged files of a group are different    *)
(* physical files.                                                         *)
THEOREM LinksAreCollapsed == (Cached => ~MayRestore) => (Spec => []HardLinksNotDuplicates)
<1> SUFFICES ASSUME Cached => ~MayRestore
             PROVE  Spec => []HardLinksNotDuplicates
  OBVIOUS
<1>1. DupInv => HardLinksNotDuplicates
  BY SafeGroups DEF DupInv
<1> QED
  BY <1>1, DupAlways, PTL

(* The three comparisons, of sizes, samples and contents, with the hard    *)
(* links set aside and the cache asked first, lose no pair of copies: a    *)
(* search that ran to its end in peace shows each of them in one group.    *)
THEOREM NoneIsMissed == (Cached => ~MayRestore) => (Spec => []NoDuplicateMissed)
<1> SUFFICES ASSUME Cached => ~MayRestore
             PROVE  Spec => []NoDuplicateMissed
  OBVIOUS
<1>1. DupInv => NoDuplicateMissed
  <2> SUFFICES ASSUME DupInv, NEW t \in Tabs, search[t].st = "done", ~search[t].stop,
                      Touched(search[t].nr) \cap Scope[t] = {},
                      NEW p \in Scope[t], NEW q \in Scope[t], Twins(p, q)
               PROVE  \E g \in groups[t] : Links(at[p]) \cap g.files # {} /\ Links(at[q]) \cap g.files # {}
    BY DEF NoDuplicateMissed, Twins
  <2>1. GroupsRight(t) /\ DupTypeOK /\ NoneLost(t) /\ Scope[t] \subseteq Paths
    BY Bounds DEF DupInv, DupSafe, TypesInv
  <2>2. Quiet(t)
    BY <2>1, NotTouched DEF Quiet
  <2>3. PICK g \in groups[t] : LinkIn(p, g.files) /\ LinkIn(q, g.files)
    BY <2>1, <2>2 DEF NoneLost
  <2>4. g.files \subseteq Paths
    BY <2>1 DEF GroupsRight
  <2> QED
    BY <2>3, <2>4 DEF LinkIn, Links
<1> QED
  BY <1>1, DupAlways, PTL

-----------------------------------------------------------------------------
(* The commands on its groups.                                             *)

CommandState ==
  [st : {"off", "on", "linked"}, tab : Tabs \cup {None}, nr : 0..MaxSearches,
   act : {"delete", "trash", "hardlink"}, keep : Paths \cup {None}, todo : SUBSET Paths,
   path : Paths \cup {None}, done : SUBSET Paths]

(* What a command still has to do, has done and keeps are apart.           *)
CommandFit(k) ==
  LET c == cmd[k]
  IN /\ c.st = "off" => c.todo = {} /\ c.done = {} /\ c.act = "delete"
     /\ c.st # "off" => c.act \in Actions /\ c.tab \in Tabs /\ c.keep \in Paths
     /\ c.todo \cup c.done \subseteq DOMAIN Temp
     /\ c.todo \cap c.done = {}
     /\ c.keep \notin c.todo \cup c.done
     /\ c.nr <= searches
     /\ c.st = "linked" => c.act = "hardlink" /\ c.path \in c.todo

ReclaimTypes ==
  /\ TypesInv
  /\ saved \in [Paths -> Known \cup {None}]
  /\ trash \subseteq Contents
  /\ cmd \in [Commands -> CommandState]
  /\ \A k \in Commands : CommandFit(k)

(* Path x has not changed since the search began that command k acts on. *)
Lasts(k, x) == changed[x] < cmd[k].nr

(* A path still to be dealt with is a copy of the one to keep. *)
PairsRight(k) ==
  \A p \in cmd[k].todo : Lasts(k, p) /\ Lasts(k, cmd[k].keep) =>
    Exists(p) /\ Exists(cmd[k].keep) /\ ContentAt(p) = ContentAt(cmd[k].keep)

-----------------------------------------------------------------------------
(***************************************************************************)
(* What the steps of a command do to the commands.                         *)
(***************************************************************************)

LEMMA TempPaths ==
  /\ DOMAIN Temp \subseteq Paths
  /\ "hardlink" \in Actions => \A p \in DOMAIN Temp : Temp[p] \in Paths \ {p}
BY ReclaimAssumption

(* Command k goes on. *)
GoesOn(k) ==
  /\ cmd' \in [Commands -> CommandState]
  /\ \A l \in Commands \ {k} : cmd'[l] = cmd[l]
  /\ cmd'[k].nr = cmd[k].nr /\ cmd'[k].keep = cmd[k].keep
  /\ cmd'[k].todo \subseteq cmd[k].todo
  /\ CommandFit(k)'

LEMMA CommandUpdates ==
  ASSUME NEW c \in CommandState
  PROVE  /\ c = [st |-> c.st, tab |-> c.tab, nr |-> c.nr, act |-> c.act, keep |-> c.keep,
                 todo |-> c.todo, path |-> c.path, done |-> c.done]
         /\ \A x : [c EXCEPT !.st = x] =
                 [st |-> x, tab |-> c.tab, nr |-> c.nr, act |-> c.act, keep |-> c.keep,
                  todo |-> c.todo, path |-> c.path, done |-> c.done]
         /\ \A x : [c EXCEPT !.path = x] =
                 [st |-> c.st, tab |-> c.tab, nr |-> c.nr, act |-> c.act, keep |-> c.keep,
                  todo |-> c.todo, path |-> x, done |-> c.done]
BY DEF CommandState

LEMMA DealtGoesOn ==
  ASSUME ReclaimTypes, NEW k \in Commands, NEW p \in cmd[k].todo, NEW ok \in BOOLEAN,
         cmd[k].st # "off", Dealt(k, p, ok), searches' = searches
  PROVE  GoesOn(k)
<1> DEFINE c == cmd[k]
           d == [st |-> "on", tab |-> c.tab, nr |-> c.nr, act |-> c.act, keep |-> c.keep,
                 todo |-> c.todo \ {p}, path |-> None,
                 done |-> IF ok THEN c.done \cup {p} ELSE c.done]
<1>1. cmd \in [Commands -> CommandState] /\ CommandFit(k)
  BY DEF ReclaimTypes
<1>2. c \in CommandState
  BY <1>1
<1>3. d \in CommandState
  BY <1>2 DEF CommandState
<1>4. cmd' = [cmd EXCEPT ![k] = d]
  BY <1>1, <1>2, CommandUpdates DEF Dealt, CommandState
<1>5. cmd'[k] = d /\ cmd' \in [Commands -> CommandState] /\ \A l \in Commands \ {k} : cmd'[l] = cmd[l]
  BY <1>1, <1>3, <1>4, Zenon
<1>6. CommandFit(k)'
  BY <1>1, <1>2, <1>5 DEF CommandFit
<1> QED
  BY <1>5, <1>6 DEF GoesOn

LEMMA LinkGoesOn ==
  ASSUME ReclaimTypes, NEW k \in Commands, NEW p \in cmd[k].todo,
         cmd[k].st = "on", cmd[k].act = "hardlink", searches' = searches,
         cmd' = [cmd EXCEPT ![k].st = "linked", ![k].path = p]
  PROVE  GoesOn(k)
<1> DEFINE c == cmd[k]
           d == [st |-> "linked", tab |-> c.tab, nr |-> c.nr, act |-> c.act, keep |-> c.keep,
                 todo |-> c.todo, path |-> p, done |-> c.done]
<1>1. cmd \in [Commands -> CommandState] /\ CommandFit(k)
  BY DEF ReclaimTypes
<1>2. c \in CommandState
  BY <1>1
<1>3. d \in CommandState
  BY <1>2 DEF CommandState
<1>4. cmd' = [cmd EXCEPT ![k] = d]
  <2> DEFINE e == [c EXCEPT !.st = "linked"]
             m == [cmd EXCEPT ![k] = e]
  <2>1. e = [st |-> "linked", tab |-> c.tab, nr |-> c.nr, act |-> c.act, keep |-> c.keep,
             todo |-> c.todo, path |-> c.path, done |-> c.done]
    BY <1>2, CommandUpdates
  <2>2. [e EXCEPT !.path = p] = d
    <3>1. /\ e \in CommandState /\ e.st = "linked" /\ e.tab = c.tab /\ e.nr = c.nr /\ e.act = c.act
          /\ e.keep = c.keep /\ e.todo = c.todo /\ e.done = c.done
      BY <1>2, <2>1 DEF CommandState
    <3> HIDE DEF e
    <3>2. [e EXCEPT !.path = p] = [st |-> e.st, tab |-> e.tab, nr |-> e.nr, act |-> e.act,
            keep |-> e.keep, todo |-> e.todo, path |-> p, done |-> e.done]
      BY <3>1, CommandUpdates
    <3> QED
      BY <3>1, <3>2
  <2>3. cmd' = [m EXCEPT ![k].path = p] /\ m[k] = e
    BY <1>1
  <2> HIDE DEF e, d
  <2> QED
    BY <1>1, <2>2, <2>3
<1>5. cmd'[k] = d /\ cmd' \in [Commands -> CommandState] /\ \A l \in Commands \ {k} : cmd'[l] = cmd[l]
  BY <1>1, <1>3, <1>4, Zenon
<1>6. CommandFit(k)'
  BY <1>1, <1>2, <1>5 DEF CommandFit
<1> QED
  BY <1>5, <1>6 DEF GoesOn

(* Command k begins, on a group of tab t. *)
Begins(k, t) ==
  /\ cmd' \in [Commands -> CommandState]
  /\ \A l \in Commands \ {k} : cmd'[l] = cmd[l]
  /\ cmd'[k].nr = search[t].nr
  /\ \E g \in groups[t] : cmd'[k].keep \in g.files /\ cmd'[k].todo \subseteq g.files
  /\ CommandFit(k)'

CommandOn(t, n, act, keep, ps) ==
  [NoCommand EXCEPT !.st = "on", !.tab = t, !.nr = n, !.act = act, !.keep = keep, !.todo = ps]

LEMMA CommandBegun ==
  ASSUME NEW t \in Tabs, NEW n \in 0..MaxSearches, NEW act \in {"delete", "trash", "hardlink"},
         NEW keep \in Paths, NEW ps \in SUBSET Paths
  PROVE  LET c == CommandOn(t, n, act, keep, ps)
         IN /\ c \in CommandState /\ c.st = "on" /\ c.tab = t /\ c.nr = n /\ c.act = act
            /\ c.keep = keep /\ c.todo = ps /\ c.done = {}
<1> DEFINE c == CommandOn(t, n, act, keep, ps)
<1>1. c.st = "on" /\ c.tab = t /\ c.nr = n /\ c.act = act /\ c.keep = keep /\ c.todo = ps /\ c.done = {}
  BY DEF NoCommand, CommandOn
<1>2. c \in CommandState
  BY DEF NoCommand, CommandOn, CommandState
<1> QED
  BY <1>1, <1>2

LEMMA StartBegins ==
  ASSUME ReclaimTypes, NEW k \in Commands, NEW t \in Tabs, Start(k, t)
  PROVE  Begins(k, t)
<1>1. PICK g \in groups[t], act \in Actions :
        \E keep \in g.files, ps \in SUBSET (g.files \cap DOMAIN Temp) :
          /\ ps \ {keep} # {}
          /\ cmd' = [cmd EXCEPT ![k] = [NoCommand EXCEPT
               !.st = "on", !.tab = t, !.nr = search[t].nr,
               !.act = act, !.keep = keep, !.todo = ps \ {keep}]]
  BY DEF Start
<1>2. PICK keep \in g.files, ps \in SUBSET (g.files \cap DOMAIN Temp) :
        /\ ps \ {keep} # {}
        /\ cmd' = [cmd EXCEPT ![k] = [NoCommand EXCEPT
             !.st = "on", !.tab = t, !.nr = search[t].nr,
             !.act = act, !.keep = keep, !.todo = ps \ {keep}]]
  BY <1>1
<1>3. g.files \subseteq Paths /\ search[t].nr \in 0..MaxSearches /\ search[t].nr <= searches
  BY DEF ReclaimTypes, TypesInv, DupTypeOK, Group, SearchState
<1>4. cmd \in [Commands -> CommandState] /\ act \in {"delete", "trash", "hardlink"}
  BY ReclaimAssumption DEF ReclaimTypes
<1> DEFINE d == CommandOn(t, search[t].nr, act, keep, ps \ {keep})
<1>5. cmd' = [cmd EXCEPT ![k] = d]
  BY <1>2 DEF CommandOn
<1>6. /\ d \in CommandState /\ d.st = "on" /\ d.tab = t /\ d.nr = search[t].nr /\ d.act = act
      /\ d.keep = keep /\ d.todo = ps \ {keep} /\ d.done = {}
  <2>1. keep \in Paths /\ ps \ {keep} \in SUBSET Paths
    BY <1>3
  <2> QED
    BY <1>3, <1>4, <2>1, CommandBegun
<1> HIDE DEF d
<1>7. cmd'[k] = d /\ cmd' \in [Commands -> CommandState] /\ \A l \in Commands \ {k} : cmd'[l] = cmd[l]
  BY <1>4, <1>5, <1>6, Zenon
<1>8. UNCHANGED searches
  BY DEF Start, vars
<1>9. CommandFit(k)'
  BY <1>3, <1>6, <1>7, <1>8 DEF CommandFit
<1> QED
  BY <1>6, <1>7, <1>9 DEF Begins

LEMMA Resting ==
  /\ NoCommand \in CommandState
  /\ NoCommand.st = "off" /\ NoCommand.act = "delete" /\ NoCommand.todo = {} /\ NoCommand.done = {}
  /\ NoCommand.nr = 0 /\ NoCommand.keep = None
BY Bounds DEF NoCommand, CommandState

(* A command that is not under way has all it needs. *)
LEMMA RestingFits ==
  ASSUME NEW k \in Commands, cmd[k] = NoCommand, searches \in Nat
  PROVE  CommandFit(k) /\ PairsRight(k)
BY Resting DEF CommandFit, PairsRight

-----------------------------------------------------------------------------
(***************************************************************************)
(* What they do to the files.                                              *)
(***************************************************************************)

LEMMA TouchedChange ==
  ASSUME DupTypeOK, NEW ps \in SUBSET Paths, Touch(ps), at' \in [Paths -> Inodes \cup {None}],
         \A x \in Paths \ ps : at'[x] = at[x],
         UNCHANGED <<data, cache, search, groups, edits, searches>>
  PROVE  FilesChange
<1>1. changed' = [x \in Paths |-> IF x \in ps THEN searches ELSE changed[x]]
  BY DEF Touch
<1>2. searches \in Nat /\ changed \in [Paths -> 0..searches] /\ data \in [Inodes -> Data] /\ edits \in 0..MaxEdits
  BY DEF DupTypeOK
<1>3. changed' \in [Paths -> 0..searches]
  BY <1>1, <1>2
<1>4. \A x \in Paths : changed'[x] # searches => changed'[x] = changed[x] /\ at'[x] = at[x]
  BY <1>1
<1> QED
  BY <1>2, <1>3, <1>4 DEF FilesChange

(* One path is emptied, or its temporary path comes, goes or takes its place. *)
Moves(k) ==
  \E p \in cmd[k].todo :
    \/ cmd[k].act # "hardlink" /\ at'[p] \in {at[p], None} /\ \A x \in Paths \ {p} : at'[x] = at[x]
    \/ cmd[k].act = "hardlink" /\ \A x \in Paths \ {Temp[p]} : at'[x] = at[x]
    \/ /\ cmd[k].act = "hardlink" /\ Exists(Temp[p]) /\ at'[p] = at[Temp[p]]
       /\ \A x \in Paths \ {p, Temp[p]} : at'[x] = at[x]

FileStep(k) ==
  /\ FilesChange /\ UNCHANGED <<data, edits, saved>> /\ trash' \subseteq Contents
  /\ GoesOn(k) /\ Moves(k)

LEMMA HasTemp ==
  ASSUME ReclaimTypes, NEW k \in Commands, NEW p \in cmd[k].todo
  PROVE  /\ p \in Paths /\ p \in DOMAIN Temp /\ cmd[k].st # "off"
         /\ cmd[k].act = "hardlink" => Temp[p] \in Paths /\ Temp[p] # p
<1>1. CommandFit(k)
  BY DEF ReclaimTypes
<1> QED
  BY <1>1, TempPaths DEF CommandFit

LEMMA RemoveSteps ==
  ASSUME ReclaimTypes, NEW k \in Commands, RemoveCopy(k)
  PROVE  FileStep(k)
<1>1. PICK p \in cmd[k].todo : Remove(k, p) \/ RemoveFails(k, p)
  BY DEF RemoveCopy
<1>2. /\ cmd[k].st = "on" /\ cmd[k].act # "hardlink" /\ p \in Paths /\ DupTypeOK /\ trash \subseteq Contents
      /\ UNCHANGED <<data, cache, search, groups, edits, searches, saved>>
  BY HasTemp DEF RemoveCopy, ReclaimTypes, TypesInv
<1>3. GoesOn(k)
  BY <1>1, <1>2, DealtGoesOn DEF Remove, RemoveFails
<1>4. CASE Remove(k, p)
  <2>1. at' = [at EXCEPT ![p] = None] /\ Touch({p}) /\ Exists(p)
    BY <1>4 DEF Remove
  <2>2. at' \in [Paths -> Inodes \cup {None}] /\ at'[p] = None /\ \A x \in Paths \ {p} : at'[x] = at[x]
    BY <1>2, <2>1 DEF DupTypeOK
  <2>3. FilesChange
    BY <1>2, <2>1, <2>2, TouchedChange
  <2>4. ContentAt(p) \in Contents
    BY <1>2, <2>1 DEF ContentAt, Exists, DupTypeOK, Data
  <2>5. trash' \subseteq Contents
    BY <1>2, <1>4, <2>4 DEF Remove
  <2> QED
    BY <1>2, <1>3, <2>2, <2>3, <2>5 DEF FileStep, Moves
<1>5. CASE RemoveFails(k, p)
  <2>1. UNCHANGED <<at, trash, changed>>
    BY <1>5 DEF RemoveFails
  <2>2. FilesChange
    BY <1>2, <2>1 DEF FilesChange, DupTypeOK
  <2> QED
    BY <1>2, <1>3, <2>1, <2>2 DEF FileStep, Moves
<1> QED
  BY <1>1, <1>4, <1>5

LEMMA LinkSteps ==
  ASSUME ReclaimTypes, NEW k \in Commands, Link(k)
  PROVE  FileStep(k)
<1>1. PICK p \in cmd[k].todo :
        /\ ~Exists(Temp[p])
        /\ at' = [at EXCEPT ![Temp[p]] = at[cmd[k].keep]]
        /\ Touch({Temp[p]})
        /\ cmd' = [cmd EXCEPT ![k].st = "linked", ![k].path = p]
  BY DEF Link
<1>2. /\ cmd[k].st = "on" /\ cmd[k].act = "hardlink" /\ DupTypeOK /\ trash \subseteq Contents
      /\ UNCHANGED <<data, cache, search, groups, edits, searches, saved, trash>>
      /\ cmd[k].keep \in Paths /\ Temp[p] \in Paths
  BY HasTemp DEF Link, ReclaimTypes, TypesInv, CommandFit
<1>3. GoesOn(k)
  BY <1>1, <1>2, LinkGoesOn
<1>4. at' \in [Paths -> Inodes \cup {None}] /\ \A x \in Paths \ {Temp[p]} : at'[x] = at[x]
  BY <1>1, <1>2 DEF DupTypeOK
<1>5. FilesChange
  BY <1>1, <1>2, <1>4, TouchedChange
<1> QED
  BY <1>2, <1>3, <1>4, <1>5 DEF FileStep, Moves

LEMMA HardlinkFailSteps ==
  ASSUME ReclaimTypes, NEW k \in Commands, NEW p \in cmd[k].todo, cmd[k].act = "hardlink",
         HardlinkFails(k, p), UNCHANGED <<data, cache, search, groups, edits, searches, saved, trash>>
  PROVE  FileStep(k)
<1>1. at' = [at EXCEPT ![Temp[p]] = None] /\ Touch({Temp[p]}) /\ Dealt(k, p, FALSE)
  BY DEF HardlinkFails
<1>2. DupTypeOK /\ Temp[p] \in Paths /\ cmd[k].st # "off" /\ trash \subseteq Contents
  BY HasTemp DEF ReclaimTypes, TypesInv
<1>3. GoesOn(k)
  BY <1>1, <1>2, DealtGoesOn
<1>4. at' \in [Paths -> Inodes \cup {None}] /\ \A x \in Paths \ {Temp[p]} : at'[x] = at[x]
  BY <1>1, <1>2 DEF DupTypeOK
<1>5. FilesChange
  BY <1>1, <1>2, <1>4, TouchedChange
<1> QED
  BY <1>2, <1>3, <1>4, <1>5 DEF FileStep, Moves

LEMMA LinkFailSteps ==
  ASSUME ReclaimTypes, NEW k \in Commands, LinkFails(k)
  PROVE  FileStep(k)
BY HardlinkFailSteps DEF LinkFails

LEMMA RenameSteps ==
  ASSUME ReclaimTypes, NEW k \in Commands, Rename(k)
  PROVE  FileStep(k)
<1> DEFINE p == cmd[k].path
           noop == Posix /\ at[p] = at[Temp[p]]
<1>1. /\ p \in cmd[k].todo /\ cmd[k].act = "hardlink" /\ DupTypeOK /\ trash \subseteq Contents
      /\ UNCHANGED <<data, cache, search, groups, edits, searches, saved, trash>>
  BY DEF Rename, ReclaimTypes, TypesInv, CommandFit
<1>2. p \in Paths /\ Temp[p] \in Paths /\ Temp[p] # p /\ cmd[k].st # "off"
  BY <1>1, HasTemp
<1>3. CASE HardlinkFails(k, p)
  BY <1>1, <1>3, HardlinkFailSteps
<1>4. CASE /\ Exists(Temp[p])
           /\ at' = IF noop THEN at ELSE [at EXCEPT ![p] = at[Temp[p]], ![Temp[p]] = None]
           /\ Touch({p, Temp[p]})
           /\ Dealt(k, p, TRUE)
  <2>1. GoesOn(k)
    BY <1>1, <1>2, <1>4, DealtGoesOn
  <2>2. at' \in [Paths -> Inodes \cup {None}] /\ \A x \in Paths \ {p, Temp[p]} : at'[x] = at[x]
    BY <1>1, <1>2, <1>4 DEF DupTypeOK
  <2>3. at'[p] = at[Temp[p]]
    BY <1>1, <1>2, <1>4 DEF DupTypeOK
  <2>4. FilesChange
    BY <1>1, <1>2, <1>4, <2>2, TouchedChange
  <2> QED
    BY <1>1, <1>4, <2>1, <2>2, <2>3, <2>4 DEF FileStep, Moves
<1> QED
  BY <1>3, <1>4 DEF Rename

-----------------------------------------------------------------------------
(***************************************************************************)
(* The steps of the app.                                                   *)
(***************************************************************************)

(* Command k is over, and groups lose files. *)
Rests(k) ==
  /\ cmd' \in [Commands -> CommandState]
  /\ \A l \in Commands \ {k} : cmd'[l] = cmd[l]
  /\ cmd'[k] = NoCommand

GroupsShrink ==
  /\ groups' \in [Tabs -> SUBSET Group]
  /\ \A t \in Tabs : \A g \in groups'[t] : \E h \in groups[t] : g.full = h.full /\ g.files \subseteq h.files

LEMMA DroppedAre ==
  ASSUME NEW gs \in SUBSET Group, NEW done, NEW g \in Dropped(gs, done)
  PROVE  g \in Group /\ \E h \in gs : g.full = h.full /\ g.files \subseteq h.files
<1>1. PICK h \in gs : g = [h EXCEPT !.files = @ \ done]
  BY DEF Dropped
<1>2. h \in Group
  BY <1>1
<1>3. g = [full |-> h.full, files |-> h.files \ done]
  BY <1>1, <1>2 DEF Group
<1> QED
  BY <1>2, <1>3 DEF Group

LEMMA EndShrinks ==
  ASSUME ReclaimTypes, NEW k \in Commands, End(k)
  PROVE  /\ Rests(k) /\ GroupsShrink
         /\ UNCHANGED <<fs, cache, search, changed, edits, searches, saved, trash>>
<1>1. cmd \in [Commands -> CommandState] /\ CommandFit(k) /\ groups \in [Tabs -> SUBSET Group]
  BY DEF ReclaimTypes, TypesInv, DupTypeOK
<1>2. Rests(k)
  BY <1>1, Resting DEF End, Rests
<1> DEFINE u == cmd[k].tab
           new == Dropped(groups[u], cmd[k].done)
<1>3. u \in Tabs /\ groups' = [groups EXCEPT ![u] = new]
  BY <1>1 DEF End, CommandFit
<1>4. \A g \in new : g \in Group /\ \E h \in groups[u] : g.full = h.full /\ g.files \subseteq h.files
  <2>1. groups[u] \in SUBSET Group
    BY <1>1, <1>3
  <2> QED
    BY <2>1, DroppedAre
<1> HIDE DEF new
<1>5. GroupsShrink
  BY <1>1, <1>3, <1>4 DEF GroupsShrink
<1> QED
  BY <1>2, <1>5 DEF End

(* All that may happen in one step. *)
LEMMA StepsOfReclaim ==
  ASSUME ReclaimTypes, [ReclaimNext]_reclaimVars
  PROVE  \/ Next /\ UNCHANGED <<cmd, saved, trash>>
         \/ UNCHANGED vars /\ UNCHANGED <<cmd, saved, trash>>
         \/ \E k \in Commands, t \in Tabs : Begins(k, t) /\ UNCHANGED <<vars, saved, trash>>
         \/ \E k \in Commands : FileStep(k)
         \/ \E k \in Commands :
              Rests(k) /\ GroupsShrink /\ UNCHANGED <<fs, cache, search, changed, edits, searches, saved, trash>>
         \/ SaveCache
         \/ Crash
<1>1. CASE UNCHANGED reclaimVars
  BY <1>1 DEF reclaimVars
<1>2. ASSUME NEW k \in Commands, ReclaimStep(k)
      PROVE  \/ \E t \in Tabs : Begins(k, t) /\ UNCHANGED <<vars, saved, trash>>
             \/ FileStep(k)
             \/ Rests(k) /\ GroupsShrink /\ UNCHANGED <<fs, cache, search, changed, edits, searches, saved, trash>>
  <2>1. CASE \E t \in Tabs : Start(k, t)
    <3>1. PICK t \in Tabs : Start(k, t)
      BY <2>1
    <3>2. UNCHANGED <<vars, saved, trash>>
      BY <3>1 DEF Start
    <3> QED
      BY <3>1, <3>2, StartBegins
  <2>2. CASE RemoveCopy(k)
    BY <2>2, RemoveSteps
  <2>3. CASE Link(k)
    BY <2>3, LinkSteps
  <2>4. CASE LinkFails(k)
    BY <2>4, LinkFailSteps
  <2>5. CASE Rename(k)
    BY <2>5, RenameSteps
  <2>6. CASE End(k)
    BY <2>6, EndShrinks
  <2> QED
    BY <1>2, <2>1, <2>2, <2>3, <2>4, <2>5, <2>6, Zenon DEF ReclaimStep
<1> QED
  BY <1>1, <1>2, Zenon DEF ReclaimNext

-----------------------------------------------------------------------------
(***************************************************************************)
(* Every variable has its type.                                            *)
(***************************************************************************)

(* Paths that are not changed now hold what they held. *)
FilesLast ==
  /\ searches' \in Nat /\ searches \in Nat /\ searches' >= searches
  /\ changed' \in [Paths -> Nat]
  /\ \A x \in Paths : changed'[x] # searches =>
       changed'[x] = changed[x] /\ at'[x] = at[x] /\ (Exists(x) => data'[at[x]] = data[at[x]])

LEMMA ChangesLast ==
  ASSUME DupTypeOK, FilesChange
  PROVE  FilesLast
<1>1. searches' = searches /\ searches \in Nat /\ changed' \in [Paths -> 0..searches]
  BY Bounds DEF FilesChange, DupTypeOK
<1>2. changed' \in [Paths -> Nat]
  BY <1>1
<1> QED
  BY <1>1, <1>2 DEF FilesChange, FilesLast

LEMMA SameLast ==
  ASSUME DupTypeOK, UNCHANGED <<fs, changed>>, searches' = searches \/ searches' = searches + 1
  PROVE  FilesLast
<1>1. searches \in Nat /\ changed \in [Paths -> 0..searches]
  BY Bounds DEF DupTypeOK
<1>2. changed' \in [Paths -> Nat]
  BY <1>1
<1> QED
  BY <1>1, <1>2 DEF fs, FilesLast

LEMMA SearchLeaves ==
  ASSUME NEW t \in Tabs, Search(t)
  PROVE  UNCHANGED <<fs, changed, edits>> /\ (searches' = searches \/ searches' = searches + 1)
BY DEF Search, Begin, Cancel, ListFile, SampleFile, HashFile, CompareSizes, CompareSamples, Finish

LEMMA NextLast ==
  ASSUME TypesInv, Next
  PROVE  FilesLast
<1>1. CASE User
  BY <1>1, UserDoes, ChangesLast DEF TypesInv
<1>2. CASE \E t \in Tabs : Search(t)
  <2>1. PICK t \in Tabs : Search(t)
    BY <1>2
  <2>2. UNCHANGED <<fs, changed>> /\ (searches' = searches \/ searches' = searches + 1)
    BY <2>1, SearchLeaves
  <2> QED
    BY <2>2, SameLast DEF TypesInv
<1> QED
  BY <1>1, <1>2 DEF Next

(* A command that takes no part in the step. *)
LEMMA OtherFits ==
  ASSUME ReclaimTypes, NEW k \in Commands, cmd'[k] = cmd[k],
         searches \in Nat, searches' \in Nat, searches' >= searches
  PROVE  CommandFit(k)'
<1>1. CommandFit(k) /\ cmd[k].nr \in Nat
  BY Bounds DEF ReclaimTypes, CommandState
<1> QED
  BY <1>1 DEF CommandFit

LEMMA ShrinkKeepsTypes ==
  ASSUME TypesInv, GroupsShrink, UNCHANGED <<fs, cache, search, changed, edits, searches>>
  PROVE  TypesInv'
BY DEF TypesInv, StageFit, DupTypeOK, GroupsShrink, fs

LEMMA CrashKeepsTypes ==
  ASSUME ReclaimTypes, Crash
  PROVE  /\ TypesInv'
         /\ \A t \in Tabs : search'[t] = Idle /\ groups'[t] = {}
         /\ \A k \in Commands : cmd'[k] = NoCommand
<1>1. /\ search' = [t \in Tabs |-> Idle] /\ groups' = [t \in Tabs |-> {}] /\ cache' \in {saved, NoCache}
      /\ UNCHANGED <<at, data, changed, edits, searches>>
  BY DEF Crash, fs
<1>2. \A t \in Tabs : search'[t] = Idle /\ groups'[t] = {}
  BY <1>1
<1>3. DupTypeOK'
  <2>1. DupTypeOK /\ searches \in Nat
    BY Bounds DEF ReclaimTypes, TypesInv, DupTypeOK
  <2>2. search' \in [Tabs -> SearchState] /\ groups' \in [Tabs -> SUBSET Group]
    BY <1>1, IdleRecord
  <2>3. \A t \in Tabs : search'[t].todo \cup search'[t].alike \subseteq Scope[t] /\ search'[t].nr <= searches
    BY <1>2, <2>1, IdleRecord
  <2>4. cache' \in [Paths -> Known \cup {None}]
    BY <1>1 DEF ReclaimTypes, NoCache
  <2> QED
    BY <1>1, <2>1, <2>2, <2>3, <2>4 DEF DupTypeOK
<1>4. \A t \in Tabs : StageFit(t)'
  BY <1>2, IdleRecord DEF StageFit
<1>5. \A k \in Commands : cmd'[k] = NoCommand
  BY DEF Crash
<1> QED
  BY <1>2, <1>3, <1>4, <1>5 DEF TypesInv

LEMMA ReclaimKeepsTypes ==
  ASSUME ReclaimTypes, [ReclaimNext]_reclaimVars
  PROVE  ReclaimTypes'
<1>1. /\ TypesInv /\ DupTypeOK /\ saved \in [Paths -> Known \cup {None}] /\ trash \subseteq Contents
      /\ cmd \in [Commands -> CommandState] /\ searches \in Nat
  BY Bounds DEF ReclaimTypes, TypesInv, DupTypeOK
<1>2. CASE (Next \/ UNCHANGED vars) /\ UNCHANGED <<cmd, saved, trash>>
  <2>1. TypesInv'
    <3>1. CASE UNCHANGED vars
      BY <1>1, <3>1 DEF vars, fs, TypesInv, StageFit, DupTypeOK
    <3> QED
      BY <1>1, <1>2, <3>1, NextKeepsTypes
  <2>2. searches' \in Nat /\ searches' >= searches
    <3>1. CASE UNCHANGED vars
      BY <1>1, <3>1 DEF vars
    <3> QED
      BY <1>1, <1>2, <3>1, NextLast DEF FilesLast
  <2>3. \A k \in Commands : CommandFit(k)'
    BY <1>1, <1>2, <2>2, OtherFits
  <2> QED
    BY <1>1, <1>2, <2>1, <2>3 DEF ReclaimTypes
<1>3. ASSUME NEW k \in Commands, NEW t \in Tabs, Begins(k, t), UNCHANGED <<vars, saved, trash>>
      PROVE  ReclaimTypes'
  <2>1. TypesInv' /\ searches' = searches
    BY <1>1, <1>3 DEF vars, fs, TypesInv, StageFit, DupTypeOK
  <2>2. \A l \in Commands : CommandFit(l)'
    BY <1>1, <1>3, <2>1, OtherFits DEF Begins
  <2> QED
    BY <1>1, <1>3, <2>1, <2>2 DEF ReclaimTypes, Begins
<1>4. ASSUME NEW k \in Commands, FileStep(k)
      PROVE  ReclaimTypes'
  <2>1. TypesInv' /\ searches' = searches
    BY <1>1, <1>4, ChangesKeepTypes DEF FileStep, FilesChange
  <2>2. \A l \in Commands : CommandFit(l)'
    BY <1>1, <1>4, <2>1, OtherFits DEF FileStep, GoesOn
  <2> QED
    BY <1>1, <1>4, <2>1, <2>2 DEF ReclaimTypes, FileStep, GoesOn
<1>5. ASSUME NEW k \in Commands, Rests(k), GroupsShrink,
             UNCHANGED <<fs, cache, search, changed, edits, searches, saved, trash>>
      PROVE  ReclaimTypes'
  <2>1. TypesInv'
    BY <1>1, <1>5, ShrinkKeepsTypes
  <2>2. CommandFit(k)'
    BY <1>1, <1>5, Resting DEF Rests, CommandFit
  <2>3. \A l \in Commands : CommandFit(l)'
    BY <1>1, <1>5, <2>2, OtherFits DEF Rests
  <2> QED
    BY <1>1, <1>5, <2>1, <2>3 DEF ReclaimTypes, Rests
<1>6. CASE SaveCache
  <2>1. TypesInv' /\ searches' = searches /\ UNCHANGED <<cmd, trash>>
    BY <1>1, <1>6 DEF SaveCache, vars, fs, TypesInv, StageFit, DupTypeOK
  <2>2. saved' \in [Paths -> Known \cup {None}]
    BY <1>1, <1>6 DEF SaveCache, DupTypeOK
  <2>3. \A l \in Commands : CommandFit(l)'
    BY <1>1, <2>1, OtherFits
  <2> QED
    BY <1>1, <2>1, <2>2, <2>3 DEF ReclaimTypes
<1>7. CASE Crash
  <2>1. TypesInv' /\ (\A k \in Commands : cmd'[k] = NoCommand) /\ UNCHANGED <<searches, saved, trash>>
    BY <1>7, CrashKeepsTypes DEF Crash
  <2>2. cmd' \in [Commands -> CommandState]
    BY <1>7, Resting DEF Crash
  <2>3. \A k \in Commands : CommandFit(k)'
    BY <1>1, <2>1, Resting DEF CommandFit
  <2> QED
    BY <1>1, <2>1, <2>2, <2>3 DEF ReclaimTypes
<1> QED
  BY <1>2, <1>3, <1>4, <1>5, <1>6, <1>7, StepsOfReclaim, Zenon

LEMMA ReclaimStarts ==
  ASSUME ReclaimInit
  PROVE  ReclaimTypes /\ \A k \in Commands : cmd[k] = NoCommand
<1>1. Init /\ saved = NoCache /\ cmd = [k \in Commands |-> NoCommand] /\ trash = {}
  BY DEF ReclaimInit
<1>2. TypesInv /\ searches \in Nat
  BY <1>1, InitTypes DEF Init
<1>3. \A k \in Commands : cmd[k] = NoCommand
  BY <1>1
<1>4. \A k \in Commands : CommandFit(k)
  BY <1>2, <1>3, RestingFits
<1>5. cmd \in [Commands -> CommandState] /\ saved \in [Paths -> Known \cup {None}]
  BY <1>1, Resting DEF NoCache
<1> QED
  BY <1>1, <1>2, <1>3, <1>4, <1>5 DEF ReclaimTypes

LEMMA TypesAlways == ReclaimSpec => []ReclaimTypes
<1>1. ReclaimInit => ReclaimTypes
  BY ReclaimStarts
<1>2. ReclaimTypes /\ [ReclaimNext]_reclaimVars => ReclaimTypes'
  BY ReclaimKeepsTypes
<1> QED
  BY <1>1, <1>2, PTL DEF ReclaimSpec

(* What a command still has to do, what it has done and what it keeps stay *)
(* apart (lib.rs 503-505), whatever fails on the way, whichever commands   *)
(* overlap on the same files, and with the app going down at any moment.   *)
THEOREM CommandsAreFit == ReclaimSpec => []ReclaimInv
<1>1. ReclaimTypes => ReclaimInv
  BY DEF ReclaimTypes, ReclaimInv, TypesInv, CommandFit, CommandState
<1> QED
  BY <1>1, TypesAlways, PTL

-----------------------------------------------------------------------------
(***************************************************************************)
(* What a command does to a file.                                          *)
(***************************************************************************)

(* A search, the beginning of a command and its end leave the files alone. *)
LEMMA OnlyFilesMove ==
  ASSUME ReclaimTypes, [ReclaimNext]_reclaimVars, at' # at
  PROVE  User \/ \E k \in Commands : FileStep(k)
<1>1. UNCHANGED vars => at' = at
  BY DEF vars, fs
<1>2. UNCHANGED fs => at' = at
  BY DEF fs
<1>3. Next => User \/ UNCHANGED fs
  BY SearchLeaves DEF Next
<1>4. SaveCache => UNCHANGED vars
  BY DEF SaveCache
<1>5. Crash => UNCHANGED fs
  BY DEF Crash
<1> QED
  BY <1>1, <1>2, <1>3, <1>4, <1>5, StepsOfReclaim

(* A hard link is made at a temporary path and renamed over the file: for  *)
(* a file that is not itself at the temporary path of another there is no  *)
(* moment (lib.rs 517) at which it is away, whatever fails and even if two *)
(* commands replace it at a time.                                          *)
THEOREM NoGap == ReclaimSpec => FileStaysInPlace
<1> DEFINE Stays ==
      \A k \in Commands : cmd[k].act = "hardlink" /\ edits' = edits =>
        \A p \in cmd[k].todo :
          /\ Exists(p) /\ \A l \in Commands : p \in cmd[l].todo => cmd[l].act = "hardlink"
          /\ \A q \in DOMAIN Temp : Temp[q] # p
          => Exists(p)'
<1>1. ReclaimTypes /\ [ReclaimNext]_reclaimVars => Stays
  <2> SUFFICES ASSUME ReclaimTypes, [ReclaimNext]_reclaimVars, edits' = edits,
                      NEW k \in Commands, NEW p \in cmd[k].todo, Exists(p), ~Exists(p)',
                      \A l \in Commands : p \in cmd[l].todo => cmd[l].act = "hardlink",
                      \A q \in DOMAIN Temp : Temp[q] # p
               PROVE  FALSE
    OBVIOUS
  <2>1. at' # at /\ p \in Paths /\ p \in DOMAIN Temp
    BY HasTemp DEF Exists
  <2>2. ~User
    BY DEF User, ReclaimTypes, TypesInv, DupTypeOK
  <2>3. PICK l \in Commands : FileStep(l)
    BY <2>1, <2>2, OnlyFilesMove
  <2>4. PICK q \in cmd[l].todo :
          \/ cmd[l].act # "hardlink" /\ at'[q] \in {at[q], None} /\ \A x \in Paths \ {q} : at'[x] = at[x]
          \/ cmd[l].act = "hardlink" /\ \A x \in Paths \ {Temp[q]} : at'[x] = at[x]
          \/ /\ cmd[l].act = "hardlink" /\ Exists(Temp[q]) /\ at'[q] = at[Temp[q]]
             /\ \A x \in Paths \ {q, Temp[q]} : at'[x] = at[x]
    BY <2>3 DEF FileStep, Moves
  <2>5. at'[p] # at[p] /\ at'[p] = None
    BY DEF Exists
  <2>6. cmd[l].act = "hardlink" => Temp[q] # p
    BY <2>1, HasTemp
  <2>7. cmd[l].act # "hardlink" => q # p
    OBVIOUS
  <2> QED
    BY <2>1, <2>4, <2>5, <2>6, <2>7 DEF Exists
<1> QED
  BY <1>1, TypesAlways, PTL DEF ReclaimSpec, FileStaysInPlace

-----------------------------------------------------------------------------
(***************************************************************************)
(* A path still to be dealt with is a copy of the one to keep.             *)
(***************************************************************************)

LEMMA PairsStay ==
  ASSUME ReclaimTypes, FilesLast, NEW k \in Commands, PairsRight(k),
         cmd'[k].nr = cmd[k].nr, cmd'[k].keep = cmd[k].keep, cmd'[k].todo \subseteq cmd[k].todo
  PROVE  PairsRight(k)'
<1>1. /\ cmd[k].nr \in Nat /\ cmd[k].nr <= searches /\ searches \in Nat
      /\ cmd[k].todo \subseteq Paths
      /\ cmd[k].todo # {} => cmd[k].keep \in Paths
  BY TempPaths, Bounds DEF ReclaimTypes, CommandFit, CommandState, FilesLast
<1>2. ASSUME NEW x \in Paths, changed'[x] < cmd[k].nr
      PROVE  changed[x] < cmd[k].nr /\ at'[x] = at[x] /\ (Exists(x) => data'[at[x]] = data[at[x]])
  <2>1. changed'[x] # searches
    BY <1>1, <1>2 DEF FilesLast
  <2> QED
    BY <1>2, <2>1 DEF FilesLast
<1> SUFFICES ASSUME NEW p \in cmd'[k].todo, Lasts(k, p)', changed'[cmd[k].keep] < cmd[k].nr
             PROVE  /\ at'[p] # None /\ at'[cmd[k].keep] # None
                    /\ data'[at'[p]].content = data'[at'[cmd[k].keep]].content
  BY DEF PairsRight, Lasts, Exists, ContentAt
<1>3. p \in cmd[k].todo /\ p \in Paths /\ cmd[k].keep \in Paths /\ changed'[p] < cmd[k].nr
  BY <1>1 DEF Lasts
<1>4. Exists(p) /\ Exists(cmd[k].keep) /\ ContentAt(p) = ContentAt(cmd[k].keep)
  BY <1>2, <1>3 DEF PairsRight, Lasts
<1> QED
  BY <1>2, <1>3, <1>4 DEF Exists, ContentAt

(* A command begins with files of a group. *)
LEMMA BeginsRight ==
  ASSUME ReclaimTypes, GroupsIdentical, NEW k \in Commands, NEW t \in Tabs,
         Begins(k, t), UNCHANGED vars
  PROVE  PairsRight(k)'
<1>1. UNCHANGED <<at, data, changed>> /\ DupTypeOK
  BY DEF vars, fs, ReclaimTypes, TypesInv
<1>2. PICK g \in groups[t] : cmd'[k].keep \in g.files /\ cmd'[k].todo \subseteq g.files
  BY DEF Begins
<1>3. g.files \subseteq Paths /\ search[t].nr \in Nat /\ cmd'[k].nr = search[t].nr
  BY <1>1, Bounds DEF Begins, DupTypeOK, Group, SearchState
<1>4. ASSUME NEW x \in g.files, Lasts(k, x)'
      PROVE  Exists(x)' /\ ContentAt(x)' = g.full
  <2>1. changed[x] < search[t].nr /\ changed[x] \in Nat
    BY <1>1, <1>3, <1>4, Bounds DEF Lasts, DupTypeOK
  <2>2. x \in g.files \ Touched(search[t].nr)
    BY <1>3, <2>1 DEF Touched
  <2>3. Exists(x) /\ ContentAt(x) = g.full
    BY <1>2, <2>2 DEF GroupsIdentical
  <2> QED
    BY <1>1, <2>3 DEF Exists, ContentAt
<1> QED
  BY <1>2, <1>4 DEF PairsRight

LEMMA PairsKept ==
  ASSUME ReclaimTypes, GroupsIdentical, \A k \in Commands : PairsRight(k),
         [ReclaimNext]_reclaimVars, NEW k \in Commands
  PROVE  PairsRight(k)'
<1>1. TypesInv /\ DupTypeOK
  BY DEF ReclaimTypes, TypesInv
<1>2. cmd'[k] = NoCommand => PairsRight(k)'
  BY Resting DEF PairsRight
<1>3. CASE (Next \/ UNCHANGED vars) /\ UNCHANGED <<cmd, saved, trash>>
  <2>1. FilesLast
    BY <1>1, <1>3, NextLast, SameLast DEF vars
  <2> QED
    BY <1>3, <2>1, PairsStay
<1>4. ASSUME NEW l \in Commands, NEW t \in Tabs, Begins(l, t), UNCHANGED <<vars, saved, trash>>
      PROVE  PairsRight(k)'
  <2>1. FilesLast
    BY <1>1, <1>4, SameLast DEF vars
  <2>2. CASE k = l
    BY <1>4, <2>2, BeginsRight
  <2>3. CASE k # l
    <3>1. cmd'[k] = cmd[k]
      BY <1>4, <2>3 DEF Begins
    <3> QED
      BY <2>1, <3>1, PairsStay
  <2> QED
    BY <2>2, <2>3
<1>5. ASSUME NEW l \in Commands, FileStep(l)
      PROVE  PairsRight(k)'
  <2>1. FilesLast
    BY <1>1, <1>5, ChangesLast DEF FileStep
  <2>2. cmd'[k].nr = cmd[k].nr /\ cmd'[k].keep = cmd[k].keep /\ cmd'[k].todo \subseteq cmd[k].todo
    BY <1>5 DEF FileStep, GoesOn
  <2> QED
    BY <2>1, <2>2, PairsStay
<1>6. ASSUME NEW l \in Commands, Rests(l), UNCHANGED <<fs, changed, searches>>
      PROVE  PairsRight(k)'
  <2>1. FilesLast
    BY <1>1, <1>6, SameLast
  <2>2. cmd'[k] = NoCommand \/ cmd'[k] = cmd[k]
    BY <1>6 DEF Rests
  <2> QED
    BY <1>2, <2>1, <2>2, PairsStay
<1>7. CASE SaveCache
  <2>1. FilesLast /\ cmd' = cmd
    BY <1>1, <1>7, SameLast DEF SaveCache, vars
  <2> QED
    BY <2>1, PairsStay
<1>8. CASE Crash
  BY <1>2, <1>8 DEF Crash
<1> QED
  BY <1>3, <1>4, <1>5, <1>6, <1>7, <1>8, StepsOfReclaim

(* Wherever the content of a path to be dealt with goes, a copy is left. *)
CopyLeft ==
  \A k \in Commands : \A p \in cmd[k].todo :
    /\ {p, cmd[k].keep} \cap Touched(cmd[k].nr) = {}
    /\ Exists(p) /\ at'[p] # at[p]
    => \E x \in {p, cmd[k].keep} : Exists(x)' /\ ContentAt(x)' = ContentAt(p)

LEMMA UserLeavesCopy ==
  ASSUME DupTypeOK, User, NEW p \in Paths, NEW q \in Paths, p # q, Exists(p), Exists(q),
         ContentAt(p) = ContentAt(q), at'[p] # at[p]
  PROVE  Exists(q)' /\ ContentAt(q)' = ContentAt(p)
<1>1. PICK x \in Paths : \/ \E c \in Contents : Edit(x, c)
                         \/ Unlink(x)
                         \/ \E y \in Paths : Restore(y, x)
  BY DEF User
<1>2. ~ \E c \in Contents : Edit(x, c)
  BY DEF Edit
<1>3. ~ \E y \in Paths : Restore(y, x)
  <2> SUFFICES ASSUME NEW y \in Paths, Restore(y, x) PROVE FALSE
    OBVIOUS
  <2>1. PICK i \in IF Exists(x) THEN {at[x]} ELSE {z \in Inodes : Links(z) = {}} : at' = [at EXCEPT ![x] = i]
    BY DEF Restore
  <2> QED
    BY <2>1 DEF DupTypeOK
<1>4. at' = [at EXCEPT ![x] = None] /\ data' = data
  BY <1>1, <1>2, <1>3 DEF Unlink
<1> QED
  BY <1>4 DEF Exists, ContentAt, DupTypeOK

LEMMA CommandLeavesCopy ==
  ASSUME ReclaimTypes, NEW l \in Commands, FileStep(l), NEW p \in DOMAIN Temp, NEW q \in Paths, p # q,
         Exists(p), Exists(q), ContentAt(p) = ContentAt(q), at'[p] # at[p]
  PROVE  \E x \in {p, q} : Exists(x)' /\ ContentAt(x)' = ContentAt(p)
<1>1. data' = data /\ p \in Paths
  BY TempPaths DEF FileStep
<1>2. PICK r \in cmd[l].todo :
        \/ cmd[l].act # "hardlink" /\ at'[r] \in {at[r], None} /\ \A x \in Paths \ {r} : at'[x] = at[x]
        \/ cmd[l].act = "hardlink" /\ \A x \in Paths \ {Temp[r]} : at'[x] = at[x]
        \/ /\ cmd[l].act = "hardlink" /\ Exists(Temp[r]) /\ at'[r] = at[Temp[r]]
           /\ \A x \in Paths \ {r, Temp[r]} : at'[x] = at[x]
  BY DEF FileStep, Moves
<1>3. r \in Paths /\ (cmd[l].act = "hardlink" => Temp[r] \in Paths /\ Temp[r] # r)
  BY HasTemp
<1>4. CASE cmd[l].act # "hardlink"
  <2>1. r = p /\ at'[q] = at[q]
    BY <1>1, <1>2, <1>4
  <2> QED
    BY <1>1, <2>1 DEF Exists, ContentAt
<1>5. CASE cmd[l].act = "hardlink"
  <2>1. CASE r = p /\ q = Temp[r]
    <3>1. at'[p] = at[q]
      BY <1>1, <1>2, <1>3, <1>5, <2>1
    <3> QED
      BY <1>1, <3>1 DEF Exists, ContentAt
  <2>2. CASE p = Temp[r] /\ q = r
    <3>1. at'[q] \in {at[p], at[q]}
      BY <1>1, <1>2, <1>3, <1>5, <2>2
    <3> QED
      BY <1>1, <3>1 DEF Exists, ContentAt
  <2>3. CASE q \notin {r, Temp[r]}
    <3>1. at'[q] = at[q]
      BY <1>2, <1>5, <2>3
    <3> QED
      BY <1>1, <3>1 DEF Exists, ContentAt
  <2>4. p \in {r, Temp[r]}
    BY <1>1, <1>2, <1>5
  <2> QED
    BY <2>1, <2>2, <2>3, <2>4
<1> QED
  BY <1>4, <1>5

LEMMA PairsLeaveCopy ==
  ASSUME ReclaimTypes, \A k \in Commands : PairsRight(k), [ReclaimNext]_reclaimVars
  PROVE  CopyLeft
<1> SUFFICES ASSUME NEW k \in Commands, NEW p \in cmd[k].todo,
                    {p, cmd[k].keep} \cap Touched(cmd[k].nr) = {}, Exists(p), at'[p] # at[p]
             PROVE  \E x \in {p, cmd[k].keep} : Exists(x)' /\ ContentAt(x)' = ContentAt(p)
  BY DEF CopyLeft
<1> DEFINE q == cmd[k].keep
<1>1. p \in Paths /\ p \in DOMAIN Temp /\ q \in Paths /\ p # q /\ DupTypeOK /\ cmd[k].nr \in Nat
  BY HasTemp, Bounds DEF ReclaimTypes, TypesInv, CommandFit, CommandState
<1>2. changed[p] \in Nat /\ changed[q] \in Nat
  BY <1>1, Bounds DEF DupTypeOK
<1>3. Lasts(k, p) /\ Lasts(k, q)
  BY <1>1, <1>2 DEF Lasts, Touched
<1>4. Exists(q) /\ ContentAt(p) = ContentAt(q)
  BY <1>3 DEF PairsRight
<1>5. CASE User
  BY <1>1, <1>4, <1>5, UserLeavesCopy
<1>6. CASE \E l \in Commands : FileStep(l)
  BY <1>1, <1>4, <1>6, CommandLeavesCopy
<1> QED
  BY <1>5, <1>6, OnlyFilesMove

(* If the groups shown are right, so is what a command leaves behind:      *)
(* whichever files are picked as the one to keep, whatever else runs on    *)
(* the same groups, and whoever takes the file away, its content is left.  *)
THEOREM RightGroupsKeepACopy == ReclaimSpec /\ []GroupsIdentical => KeepsACopy
<1> DEFINE Pairs == \A k \in Commands : PairsRight(k)
<1>1. ReclaimInit => Pairs
  BY ReclaimStarts, Resting DEF PairsRight
<1>2. ReclaimTypes /\ GroupsIdentical /\ Pairs /\ [ReclaimNext]_reclaimVars => Pairs'
  BY PairsKept
<1>3. ReclaimTypes /\ Pairs /\ [ReclaimNext]_reclaimVars => CopyLeft
  BY PairsLeaveCopy
<1> HIDE DEF Pairs
<1> QED
  BY <1>1, <1>2, <1>3, TypesAlways, PTL DEF ReclaimSpec, KeepsACopy, CopyLeft

-----------------------------------------------------------------------------
(***************************************************************************)
(* What is shown stays right while commands run, and after the app has     *)
(* gone down, unless the cache has to tell files apart that were put in    *)
(* the place of one another with their times.                              *)
(***************************************************************************)

ReclaimSafe == DupSafe /\ EntriesRight(saved)

LEMMA ShrinkKeeps ==
  ASSUME DupSafe, GroupsShrink, UNCHANGED <<fs, cache, search, changed, edits, searches>>
  PROVE  DupSafe'
<1>1. UNCHANGED <<at, data, changed, edits, search, cache>>
  BY DEF fs
<1>2. TypesInv' /\ Past' /\ EntriesRight(cache)'
  <2>1. TypesInv'
    BY ShrinkKeepsTypes DEF DupSafe
  <2>2. EntriesRight(cache)'
    BY SameCache
  <2> QED
    BY <1>1, <2>1, <2>2 DEF DupSafe, Past, Latest
<1>3. ASSUME NEW t \in Tabs
      PROVE  (\A p \in Paths : CandRight(t, p)') /\ LinksApart(t)' /\ GroupsRight(t)'
  <2>1. (\A p \in Paths : CandRight(t, p)) /\ LinksApart(t) /\ GroupsRight(t)
    BY Zenon DEF DupSafe
  <2>2. \A p \in Paths : CandRight(t, p)'
    BY <1>1, <2>1, SameCand
  <2>3. LinksApart(t)'
    BY <1>1, <2>1 DEF LinksApart
  <2>4. GroupsRight(t)'
    <3> SUFFICES ASSUME NEW g \in groups'[t]
                 PROVE  /\ g.files \subseteq Scope[t]
                        /\ \A p \in g.files : Still(t, p) => Exists(p) /\ ContentAt(p) = g.full
                        /\ \A p, q \in g.files : Still(t, p) /\ Still(t, q) /\ p # q => at[p] # at[q]
      BY <1>1 DEF GroupsRight, Still, Exists, ContentAt
    <3>1. PICK h \in groups[t] : g.full = h.full /\ g.files \subseteq h.files
      BY DEF GroupsShrink
    <3> QED
      BY <2>1, <3>1 DEF GroupsRight
  <2> QED
    BY <2>2, <2>3, <2>4
<1> QED
  BY <1>2, <1>3 DEF DupSafe

LEMMA CrashKeeps ==
  ASSUME ReclaimTypes, ReclaimSafe, Crash
  PROVE  DupSafe'
<1>1. UNCHANGED <<at, data, edits>> /\ cache' \in {saved, NoCache}
  BY DEF Crash, fs
<1>2. TypesInv' /\ \A t \in Tabs : search'[t] = Idle /\ groups'[t] = {}
  BY CrashKeepsTypes
<1>3. \A t \in Tabs : (\A p \in Paths : CandRight(t, p)') /\ LinksApart(t)' /\ GroupsRight(t)'
  <2> SUFFICES ASSUME NEW t \in Tabs
               PROVE  (\A p \in Paths : CandRight(t, p)') /\ LinksApart(t)' /\ GroupsRight(t)'
    OBVIOUS
  <2>1. search'[t].st = "idle" /\ search'[t].cand = [p \in Paths |-> None]
    BY <1>2, IdleRecord
  <2> QED
    BY <1>2, <2>1 DEF CandRight, LinksApart, GroupsRight
<1>4. Past'
  BY <1>1 DEF ReclaimSafe, DupSafe, Past, Latest
<1>5. EntriesRight(cache)'
  <2>1. CASE cache' = NoCache
    BY <2>1 DEF EntriesRight, NoCache
  <2>2. CASE cache' = saved
    BY <1>1, <2>2 DEF ReclaimSafe, EntriesRight, RightAt, Right, Latest, Exists, ContentAt
  <2> QED
    BY <1>1, <2>1, <2>2
<1> QED
  BY <1>2, <1>3, <1>4, <1>5 DEF DupSafe

(* The cache on disk stays right with the files. *)
LEMMA SavedLasts ==
  ASSUME ReclaimTypes, ReclaimSafe, saved' = saved,
         (FilesChange /\ (Cached => OnlyGo)) \/ UNCHANGED <<fs, edits>>
  PROVE  EntriesRight(saved)'
<1>1. DupTypeOK /\ saved \in [Paths -> Known \cup {None}]
  BY DEF ReclaimTypes, TypesInv
<1> SUFFICES ASSUME NEW p \in Paths, saved[p] # None
             PROVE  RightAt(saved[p], p, saved[p].time)'
  BY DEF EntriesRight
<1>2. RightAt(saved[p], p, saved[p].time) /\ saved[p].time \in Nat
  BY <1>1 DEF ReclaimSafe, EntriesRight, Known
<1>3. CASE UNCHANGED <<fs, edits>>
  BY <1>2, <1>3 DEF fs, RightAt, Right, Latest, Exists, ContentAt
<1>4. CASE FilesChange /\ (Cached => OnlyGo)
  <2>1. \A k, time : saved' = saved /\ RightAt(k, p, time)' /\ k = saved[p] /\ time = saved[p].time
                     => RightAt(saved[p], p, saved[p].time)'
    OBVIOUS
  <2> QED
    BY <1>1, <1>2, <1>4, <2>1, TimesTell
<1> QED
  BY <1>3, <1>4

LEMMA ReclaimKeepsSafe ==
  ASSUME ReclaimTypes, ReclaimSafe, [ReclaimNext]_reclaimVars,
         Cached => ~MayRestore /\ "hardlink" \notin Actions
  PROVE  ReclaimSafe'
<1>1. DupSafe /\ DupTypeOK
  BY DEF ReclaimSafe, ReclaimTypes, TypesInv
<1>2. CASE UNCHANGED <<vars, saved>>
  BY <1>1, <1>2, DupStutter, SavedLasts DEF vars, Keeps, ReclaimSafe
<1>3. CASE Next /\ UNCHANGED <<cmd, saved, trash>>
  <2>1. DupSafe'
    BY <1>1, <1>3, NextKeeps DEF Keeps
  <2>2. CASE User
    BY <1>1, <1>3, <2>1, <2>2, UserDoes, SavedLasts DEF ReclaimSafe
  <2>3. CASE \E t \in Tabs : Search(t)
    <3>1. UNCHANGED <<fs, edits>>
      BY <2>3, SearchLeaves
    <3> QED
      BY <1>3, <2>1, <3>1, SavedLasts DEF ReclaimSafe
  <2> QED
    BY <1>3, <2>2, <2>3 DEF Next
<1>4. ASSUME NEW k \in Commands, FileStep(k)
      PROVE  ReclaimSafe'
  <2>1. Cached => OnlyGo
    <3> SUFFICES ASSUME Cached PROVE OnlyGo
      OBVIOUS
    <3>1. cmd[k].todo # {} => cmd[k].act # "hardlink"
      BY DEF ReclaimTypes, CommandFit
    <3>2. PICK p \in cmd[k].todo : at'[p] \in {at[p], None} /\ \A x \in Paths \ {p} : at'[x] = at[x]
      BY <1>4, <3>1 DEF FileStep, Moves
    <3> QED
      BY <1>4, <3>2 DEF OnlyGo, FileStep
  <2>2. DupSafe'
    BY <1>1, <1>4, <2>1, ChangesKeep DEF FileStep, Keeps
  <2>3. EntriesRight(saved)'
    BY <1>4, <2>1, SavedLasts DEF FileStep
  <2> QED
    BY <2>2, <2>3 DEF ReclaimSafe
<1>5. CASE GroupsShrink /\ UNCHANGED <<fs, cache, search, changed, edits, searches, saved, trash>>
  BY <1>1, <1>5, ShrinkKeeps, SavedLasts DEF ReclaimSafe
<1>6. CASE SaveCache
  <2>1. UNCHANGED vars /\ saved' = cache /\ cache' = cache
    BY <1>6 DEF SaveCache, vars
  <2>2. DupSafe'
    BY <1>1, <2>1, DupStutter DEF Keeps
  <2>3. EntriesRight(saved)'
    BY <2>1, <2>2 DEF DupSafe, EntriesRight
  <2> QED
    BY <2>2, <2>3 DEF ReclaimSafe
<1>7. CASE Crash
  <2>1. UNCHANGED <<fs, edits, saved>>
    BY <1>7 DEF Crash
  <2> QED
    BY <1>7, <2>1, CrashKeeps, SavedLasts DEF ReclaimSafe
<1> QED
  BY <1>2, <1>3, <1>4, <1>5, <1>6, <1>7, StepsOfReclaim

LEMMA SafeAlways ==
  (Cached => ~MayRestore /\ "hardlink" \notin Actions) => (ReclaimSpec => []ReclaimSafe)
<1> SUFFICES ASSUME Cached => ~MayRestore /\ "hardlink" \notin Actions
             PROVE  ReclaimSpec => []ReclaimSafe
  OBVIOUS
<1>1. ReclaimInit => ReclaimSafe
  BY DupInit DEF ReclaimInit, ReclaimSafe, DupInv, EntriesRight, NoCache
<1>2. ReclaimTypes /\ ReclaimSafe /\ [ReclaimNext]_reclaimVars => ReclaimSafe'
  BY ReclaimKeepsSafe
<1> QED
  BY <1>1, <1>2, TypesAlways, PTL DEF ReclaimSpec

(* What dupes.rs says of a search (1-16) still holds of the groups a tab   *)
(* shows while commands of any tab work on them, and after the app went    *)
(* down and came up with the hash cache of before.                         *)
THEOREM GroupsStayIdentical ==
  (Cached => ~MayRestore /\ "hardlink" \notin Actions) => (ReclaimSpec => []GroupsIdentical)
<1> SUFFICES ASSUME Cached => ~MayRestore /\ "hardlink" \notin Actions
             PROVE  ReclaimSpec => []GroupsIdentical
  OBVIOUS
<1>1. ReclaimSafe => GroupsIdentical
  BY SafeGroups DEF ReclaimSafe
<1> QED
  BY <1>1, SafeAlways, PTL

(* So do the hard links that commands make, when no cache remembers what   *)
(* was at a path before: they are never shown as duplicates.               *)
THEOREM LinksStayCollapsed ==
  (Cached => ~MayRestore /\ "hardlink" \notin Actions) => (ReclaimSpec => []HardLinksNotDuplicates)
<1> SUFFICES ASSUME Cached => ~MayRestore /\ "hardlink" \notin Actions
             PROVE  ReclaimSpec => []HardLinksNotDuplicates
  OBVIOUS
<1>1. ReclaimSafe => HardLinksNotDuplicates
  BY SafeGroups DEF ReclaimSafe
<1> QED
  BY <1>1, SafeAlways, PTL

(* "Keep `keep`, act on every path in `remove`" (lib.rs 488-490): what is  *)
(* reclaimed is left in a copy, with no assumption on the groups.          *)
THEOREM ACopyIsKept ==
  (Cached => ~MayRestore /\ "hardlink" \notin Actions) => (ReclaimSpec => KeepsACopy)
<1> SUFFICES ASSUME Cached => ~MayRestore /\ "hardlink" \notin Actions
             PROVE  ReclaimSpec => KeepsACopy
  OBVIOUS
<1> QED
  BY GroupsStayIdentical, RightGroupsKeepACopy, PTL

=============================================================================
