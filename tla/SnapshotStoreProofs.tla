------------------------ MODULE SnapshotStoreProofs ------------------------
(***************************************************************************)
(* Proofs about SnapshotStore, for any number of scans, deletions and      *)
(* crashes, whatever each scan was told to keep and however long the       *)
(* snapshots are: a stored snapshot is whole, the newest ones stay, there  *)
(* are no more than may be kept, and a comparison is with the snapshot     *)
(* that was asked for.                                                     *)
(***************************************************************************)
EXTENDS SnapshotStore, FiniteSetTheorems, TLAPS

Names == Nat \X {"dgs", "json", "tmp"}

ScanSet == [st : {"none", "running", "ended", "lost"}, unix : Nat]
SaverSet == [at : {"idle", "capture", "open", "write", "rename", "clear"},
             file : 0..MaxScans, drop : SUBSET Names]
CompSet == [st : {"none", "list", "relist", "find", "load", "diff", "listed", "gone", "corrupt", "done"},
            history : SUBSET Nat, asked : Nat, name : Names \cup {NoName}, from : 0..MaxScans]
DataSet == [by : 0..MaxScans, len : Nat]
HistSet == [stored : SUBSET Nat, deleted : SUBSET Nat, crashes : Nat, messy : BOOLEAN, keep : Nat]

StoreType ==
  /\ clock \in Nat
  /\ scan \in [Scans -> ScanSet]
  /\ taken \in [Scans -> Nat]
  /\ saver \in [Scans -> SaverSet]
  /\ comp \in [Scans -> CompSet]
  /\ files \in [DOMAIN files -> 0..MaxScans] /\ DOMAIN files \subseteq Names
  /\ data \in [0..MaxScans -> DataSet]
  /\ hist \in HistSet

(* A scan begins after the snapshot of the older version was made, and its *)
(* tree is captured after that.                                            *)
Clocks ==
  /\ LegacyAt < clock
  /\ \A j \in Scans :
       /\ scan[j].st # "none" => LegacyAt < scan[j].unix /\ scan[j].unix <= clock
       /\ taken[j] # 0 => scan[j].st \in {"ended", "lost"} /\ scan[j].unix <= taken[j]
       /\ saver[j] # NoSaver => scan[j].st = "ended"
       /\ saver[j].at \in {"open", "write", "rename", "clear"} => taken[j] # 0
       /\ comp[j].st # "none" => scan[j].st = "ended"

(* No other scan was captured in the second of scan j. *)
Alone(j) == \A i \in Scans : taken[i] = taken[j] => i = j

(* A file has one name, and was made by a scan captured in that second,    *)
(* unless it is the one of the older version.                              *)
FilesOK ==
  /\ \A n \in DOMAIN files :
       IF n[2] = "json" THEN n[1] = LegacyAt /\ LegacyAt # 0 /\ files[n] = 0
       ELSE files[n] \in Scans /\ taken[files[n]] = n[1] /\ n[1] # 0
  /\ \A n, m \in DOMAIN files : files[n] = files[m] => n = m
  /\ \A j \in Scans : saver[j].at \in {"capture", "open"} => \A n \in DOMAIN files : files[n] # j

(* Who wrote a file was captured in its second; where that was one scan    *)
(* alone, what is stored and what is about to be renamed is whole.         *)
WrittenOK ==
  /\ data[0] = [by |-> 0, len |-> Bytes[0]]
  /\ \A f \in Scans : data[f].by # f => /\ data[f].by \in Scans /\ taken[f] # 0
                                        /\ taken[data[f].by] = taken[f]
  /\ \A j \in Scans : saver[j].at \in {"write", "rename"} =>
       /\ saver[j].file \in Scans /\ taken[saver[j].file] = taken[j]
       /\ (Alone(j) /\ saver[j].at = "write") => data[j] = [by |-> j, len |-> 0]
       /\ (Alone(j) /\ saver[j].at = "rename") => data[j] = [by |-> j, len |-> Bytes[j]]
  /\ \A n \in DOMAIN files : \A f \in Scans :
       (n[2] = "dgs" /\ files[n] = f /\ Alone(f)) => data[f] = [by |-> f, len |-> Bytes[f]]

(* More than s there were at least as many as one of the scans keeps. *)
MadeRoom(s) ==
  \E j \in Scans : /\ scan[j].st # "none"
                   /\ Cardinality({t \in hist.stored : t > s}) >= Max({Keep[j], 1})

(* What was stored is there, was deleted, or made room for newer ones; and *)
(* only what has to make room is going to be removed.                      *)
StaysOK ==
  /\ IsFiniteSet(hist.stored)
  /\ \A s \in Seconds(DOMAIN files) : s \in hist.stored
  /\ \A j \in Scans : \A n \in saver[j].drop : MadeRoom(n[1])
  /\ \A s \in hist.stored : s \in hist.deleted \/ s \in Seconds(DOMAIN files) \/ MadeRoom(s)

(* What a comparison c in the window of scan j holds. *)
ComparedOf(j, c) ==
  /\ c.history \subseteq hist.stored
  /\ c.st \in {"find", "load", "diff", "done", "gone", "corrupt"} =>
       c.asked \in hist.stored /\ c.asked < scan[j].unix
  /\ c.st = "load" => /\ c.name[1] = c.asked /\ c.name[2] \in {"dgs", "json"}
                      /\ c.name[2] = "json" <=> c.asked = LegacyAt
  /\ c.st \in {"diff", "done"} => IF c.from = 0 THEN c.asked = LegacyAt
                                  ELSE c.asked # 0 /\ taken[c.from] = c.asked
  /\ c.st = "gone" => c.asked \in hist.deleted \/ MadeRoom(c.asked)
  /\ c.st = "corrupt" =>
       c.asked # 0 /\ \E i, k \in Scans : i # k /\ taken[i] = c.asked /\ taken[k] = c.asked

ComparedOK == \A j \in Scans : ComparedOf(j, comp[j])

StoreInv == StoreType /\ Clocks /\ FilesOK /\ WrittenOK /\ StaysOK /\ ComparedOK

-----------------------------------------------------------------------------
LEMMA MaxOfTwo ==
  ASSUME NEW a \in Nat, NEW b \in Nat
  PROVE  /\ Max({a, b}) \in Nat /\ Max({a, b}) >= a /\ Max({a, b}) >= b
         /\ Max({a, b}) = a \/ Max({a, b}) = b
  <1>1. \E x \in {a, b} : \A y \in {a, b} : x >= y
    BY DEF Max
  <1>2. Max({a, b}) \in {a, b} /\ \A y \in {a, b} : Max({a, b}) >= y
    BY <1>1 DEF Max
  <1> QED BY <1>2

(* Of the parameters, and of the scans as file numbers. *)
LEMMA Constants ==
  /\ MaxScans \in Nat /\ LegacyAt \in Nat
  /\ \A j \in Scans : j \in 0..MaxScans /\ j # 0 /\ Keep[j] \in Nat
  /\ \A f \in 0..MaxScans : (f = 0 \/ f \in Scans) /\ Bytes[f] \in Nat /\ Bytes[f] # 0
  /\ 0 \in 0..MaxScans /\ IsFiniteSet(Scans)
  <1>1. MaxScans \in Nat /\ LegacyAt \in Nat
    BY StoreAssumption
  <1>2. \A j \in Scans : j \in 0..MaxScans /\ j # 0 /\ Keep[j] \in Nat
    BY <1>1, StoreAssumption DEF Scans
  <1>3. \A f \in 0..MaxScans : (f = 0 \/ f \in Scans) /\ Bytes[f] \in Nat /\ Bytes[f] # 0
    BY <1>1, StoreAssumption DEF Scans
  <1>4. 0 \in 0..MaxScans /\ IsFiniteSet(Scans)
    BY <1>1, FS_Interval DEF Scans
  <1> QED BY <1>1, <1>2, <1>3, <1>4

THEOREM InitInv == Init => StoreInv
  <1> SUFFICES ASSUME Init PROVE StoreInv
    OBVIOUS
  <1> USE Constants DEF Init, NoSaver, NoComp
  <1>1. /\ DOMAIN files = IF LegacyAt = 0 THEN {} ELSE {<<LegacyAt, "json">>}
        /\ \A n \in DOMAIN files : files[n] = 0
        /\ files \in [DOMAIN files -> 0..MaxScans]
    OBVIOUS
  <1>2. StoreType
    <2>1. DOMAIN files \subseteq Names
      <3> HIDE DEF Init
      <3> QED BY <1>1 DEF Names
    <2>2. hist \in HistSet
      BY DEF HistSet
    <2>3. data \in [0..MaxScans -> DataSet]
      BY DEF DataSet
    <2>4. saver \in [Scans -> SaverSet] /\ comp \in [Scans -> CompSet]
      BY DEF SaverSet, CompSet
    <2>5. clock \in Nat /\ scan \in [Scans -> ScanSet] /\ taken \in [Scans -> Nat]
      BY DEF ScanSet
    <2> HIDE DEF Init
    <2> QED BY <1>1, <2>1, <2>2, <2>3, <2>4, <2>5 DEF StoreType
  <1>3. Clocks
    BY DEF Clocks
  <1>4. FilesOK
    <2>1. \A n \in DOMAIN files : n = <<LegacyAt, "json">> /\ LegacyAt # 0 /\ files[n] = 0
      BY <1>1
    <2>2. \A j \in Scans : saver[j].at = "idle"
      OBVIOUS
    <2> HIDE DEF Init
    <2> QED BY <2>1, <2>2 DEF FilesOK
  <1>5. WrittenOK
    BY <1>1 DEF WrittenOK
  <1>6. StaysOK
    <2>1. hist.stored = {LegacyAt} \ {0}
      OBVIOUS
    <2>2. IsFiniteSet(hist.stored)
      BY <2>1, FS_Singleton, FS_RemoveElement
    <2>3. Seconds(DOMAIN files) = hist.stored
      <3>1. DOMAIN files = {<<s, "json">> : s \in hist.stored}
        BY <2>1
      <3> HIDE DEF Init
      <3>2. Stored(DOMAIN files) = DOMAIN files
        BY <3>1 DEF Stored
      <3>3. ASSUME NEW s \in hist.stored PROVE \E n \in Stored(DOMAIN files) : n[1] = s
        <4>1. <<s, "json">> \in Stored(DOMAIN files) /\ <<s, "json">>[1] = s
          BY <3>1, <3>2
        <4> QED BY <4>1
      <3>4. \A n \in Stored(DOMAIN files) : n[1] \in hist.stored
        BY <3>1, <3>2
      <3> QED BY <3>3, <3>4 DEF Seconds
    <2>4. \A j \in Scans : saver[j].drop = {}
      OBVIOUS
    <2> QED BY <2>2, <2>3, <2>4 DEF StaysOK
  <1>7. ComparedOK
    BY DEF ComparedOK, ComparedOf
  <1> QED BY <1>2, <1>3, <1>4, <1>5, <1>6, <1>7 DEF StoreInv

-----------------------------------------------------------------------------
(* What each step does to the variables, field by field, and that it keeps *)
(* their types.                                                            *)
LEMMA NamesOf ==
  ASSUME NEW s \in Nat
  PROVE  /\ Target(s) \in Names /\ TmpOf(s) \in Names
         /\ Target(s)[1] = s /\ TmpOf(s)[1] = s
         /\ Target(s)[2] = "dgs" /\ TmpOf(s)[2] = "tmp"
  BY DEF Target, TmpOf, Names

LEMMA WithName ==
  ASSUME StoreType, NEW n \in Names, NEW f \in 0..MaxScans
  PROVE  /\ With(files, n, f) \in [DOMAIN files \cup {n} -> 0..MaxScans]
         /\ With(files, n, f)[n] = f
         /\ \A m \in DOMAIN files : m # n => With(files, n, f)[m] = files[m]
  BY DEF StoreType, With

LEMMA OnlyNames ==
  ASSUME StoreType, NEW S \in SUBSET DOMAIN files
  PROVE  /\ Restrict(files, S) \in [S -> 0..MaxScans]
         /\ \A m \in S : Restrict(files, S)[m] = files[m]
         /\ S \subseteq Names
  BY DEF StoreType, Restrict

LEMMA OnlyNamesWithName ==
  ASSUME StoreType, NEW n \in Names, NEW f \in 0..MaxScans, NEW S \in SUBSET DOMAIN files
  PROVE  /\ With(Restrict(files, S), n, f) \in [S \cup {n} -> 0..MaxScans]
         /\ With(Restrict(files, S), n, f)[n] = f
         /\ \A m \in S : m # n => With(Restrict(files, S), n, f)[m] = files[m]
  BY DEF StoreType, With, Restrict

LEMMA TickStep ==
  ASSUME StoreType, Tick
  PROVE  /\ StoreType' /\ clock < clock'
         /\ UNCHANGED <<scan, taken, saver, comp, files, data, hist>>
  BY DEF StoreType, Tick

LEMMA CrashStep ==
  ASSUME StoreType, Crash
  PROVE  /\ StoreType'
         /\ \A i \in Scans : scan'[i].unix = scan[i].unix
         /\ \A i \in Scans : scan'[i].st = IF scan[i].st = "none" THEN "none" ELSE "lost"
         /\ \A i \in Scans : saver'[i] = NoSaver /\ comp'[i] = NoComp
         /\ hist'.stored = hist.stored /\ hist'.deleted = hist.deleted
         /\ UNCHANGED <<clock, taken, files, data>>
  <1>1. hist' \in HistSet /\ hist'.stored = hist.stored /\ hist'.deleted = hist.deleted
    <2> DEFINE h == [hist EXCEPT !.crashes = @ + 1]
    <2>4. hist \in HistSet
      BY DEF StoreType
    <2>1. h \in HistSet
      BY <2>4 DEF HistSet
    <2>3. h.stored = hist.stored /\ h.deleted = hist.deleted
      BY DEF StoreType, HistSet
    <2>2. hist' = [h EXCEPT !.messy = TRUE]
      BY DEF Crash
    <2> HIDE DEF h
    <2> QED BY <2>1, <2>2, <2>3 DEF HistSet
  <1>2. /\ scan' \in [Scans -> ScanSet]
        /\ \A i \in Scans : scan'[i].unix = scan[i].unix
        /\ \A i \in Scans : scan'[i].st = IF scan[i].st = "none" THEN "none" ELSE "lost"
    BY DEF StoreType, Crash, ScanSet
  <1>3. NoSaver \in SaverSet /\ NoComp \in CompSet
    BY Constants DEF NoSaver, NoComp, SaverSet, CompSet
  <1>4. /\ saver' \in [Scans -> SaverSet] /\ comp' \in [Scans -> CompSet]
        /\ \A i \in Scans : saver'[i] = NoSaver /\ comp'[i] = NoComp
        /\ UNCHANGED <<clock, taken, files, data>>
    BY <1>3 DEF Crash
  <1> QED BY <1>1, <1>2, <1>4 DEF StoreType

LEMMA StartScanStep ==
  ASSUME StoreType, NEW j \in Scans, StartScan(j)
  PROVE  /\ StoreType'
         /\ scan[j].st = "none" /\ scan'[j].st = "running" /\ scan'[j].unix = clock
         /\ \A i \in Scans : i # j => scan'[i] = scan[i]
         /\ UNCHANGED <<clock, taken, saver, comp, files, data, hist>>
  BY DEF StoreType, StartScan, ScanSet

LEMMA EndScanStep ==
  ASSUME StoreType, NEW j \in Scans, EndScan(j)
  PROVE  /\ StoreType'
         /\ scan[j].st = "running" /\ scan'[j].st = "ended" /\ scan'[j].unix = scan[j].unix
         /\ \A i \in Scans : i # j => scan'[i] = scan[i]
         /\ taken'[j] = 0 \/ (scan[j].unix <= taken'[j] /\ taken'[j] <= clock)
         /\ \A i \in Scans : i # j => taken'[i] = taken[i]
         /\ saver'[j].at = "capture" /\ saver'[j].drop = saver[j].drop
         /\ \A i \in Scans : i # j => saver'[i] = saver[i]
         /\ \A i \in Scans : comp'[i] = comp[i] \/ (i = j /\ comp'[i].st = "list" /\ comp'[i].history = comp[i].history)
         /\ UNCHANGED <<clock, files, data, hist>>
  <1>1. /\ scan' \in [Scans -> ScanSet]
        /\ scan[j].st = "running" /\ scan'[j].st = "ended" /\ scan'[j].unix = scan[j].unix
        /\ \A i \in Scans : i # j => scan'[i] = scan[i]
    BY DEF StoreType, EndScan, ScanSet
  <1>2. /\ taken' \in [Scans -> Nat]
        /\ taken'[j] = 0 \/ (scan[j].unix <= taken'[j] /\ taken'[j] <= clock)
        /\ \A i \in Scans : i # j => taken'[i] = taken[i]
    <2>1. PICK t \in {0} \cup scan[j].unix..clock : taken' = [taken EXCEPT ![j] = t]
      BY DEF EndScan
    <2>2. scan[j].unix \in Nat /\ clock \in Nat
      BY DEF StoreType, ScanSet
    <2> QED BY <2>1, <2>2 DEF StoreType
  <1>3. /\ saver' \in [Scans -> SaverSet]
        /\ saver'[j].at = "capture" /\ saver'[j].drop = saver[j].drop
        /\ \A i \in Scans : i # j => saver'[i] = saver[i]
    BY DEF StoreType, EndScan, SaverSet
  <1>4. /\ comp' \in [Scans -> CompSet]
        /\ \A i \in Scans : comp'[i] = comp[i] \/ (i = j /\ comp'[i].st = "list" /\ comp'[i].history = comp[i].history)
    <2>1. comp' = comp \/ comp' = [comp EXCEPT ![j].st = "list"]
      BY DEF EndScan
    <2>2. CASE comp' = comp
      BY <2>2 DEF StoreType
    <2>3. CASE comp' = [comp EXCEPT ![j].st = "list"]
      <3>1. comp' \in [Scans -> CompSet]
        BY <2>3 DEF StoreType, CompSet
      <3>2. comp'[j].st = "list" /\ comp'[j].history = comp[j].history
        BY <2>3 DEF StoreType, CompSet
      <3>3. \A i \in Scans : i # j => comp'[i] = comp[i]
        BY <2>3 DEF StoreType
      <3> QED BY <3>1, <3>2, <3>3
    <2> QED BY <2>1, <2>2, <2>3
  <1>5. UNCHANGED <<clock, files, data, hist>>
    BY DEF EndScan
  <1> QED BY <1>1, <1>2, <1>3, <1>4, <1>5 DEF StoreType

(* A tree is captured when it is asked for and was not before. *)
LEMMA CapturedStep ==
  ASSUME StoreType, NEW j \in Scans, taken' = Captured(j)
  PROVE  /\ taken' \in [Scans -> Nat]
         /\ taken'[j] = IF taken[j] = 0 THEN clock ELSE taken[j]
         /\ \A i \in Scans : i # j => taken'[i] = taken[i]
  BY DEF StoreType, Captured

LEMMA CaptureStep ==
  ASSUME StoreType, NEW j \in Scans, Capture(j)
  PROVE  /\ StoreType'
         /\ saver[j].at = "capture" /\ saver'[j].at = "open" /\ saver'[j].drop = saver[j].drop
         /\ \A i \in Scans : i # j => saver'[i] = saver[i]
         /\ taken' = Captured(j)
         /\ UNCHANGED <<clock, scan, comp, files, data, hist>>
  <1>1. /\ saver' \in [Scans -> SaverSet]
        /\ saver[j].at = "capture" /\ saver'[j].at = "open" /\ saver'[j].drop = saver[j].drop
        /\ \A i \in Scans : i # j => saver'[i] = saver[i]
    BY DEF StoreType, Capture, SaverSet
  <1>2. taken' = Captured(j) /\ UNCHANGED <<clock, scan, comp, files, data, hist>>
    BY DEF Capture
  <1> QED BY <1>1, <1>2, CapturedStep DEF StoreType

LEMMA OpenTmpStep ==
  ASSUME StoreType, NEW j \in Scans, OpenTmp(j)
  PROVE  LET tmp == TmpOf(taken[j]) IN
         \E f \in 0..MaxScans :
           /\ StoreType'
           /\ f = IF tmp \in DOMAIN files THEN files[tmp] ELSE j
           /\ files' \in [DOMAIN files \cup {tmp} -> 0..MaxScans] /\ files'[tmp] = f
           /\ \A m \in DOMAIN files : m # tmp => files'[m] = files[m]
           /\ data'[f] = [by |-> j, len |-> 0]
           /\ \A g \in 0..MaxScans : g # f => data'[g] = data[g]
           /\ saver[j].at = "open"
           /\ saver'[j].at = "write" /\ saver'[j].file = f /\ saver'[j].drop = saver[j].drop
           /\ \A i \in Scans : i # j => saver'[i] = saver[i]
           /\ UNCHANGED <<clock, scan, taken, comp, hist>>
  <1> DEFINE tmp == TmpOf(taken[j])
             f == IF tmp \in DOMAIN files THEN files[tmp] ELSE j
  <1>1. f \in 0..MaxScans /\ tmp \in Names
    BY Constants, NamesOf DEF StoreType
  <1>2. /\ files' = With(files, tmp, f)
        /\ data' = [data EXCEPT ![f] = [by |-> j, len |-> 0]]
        /\ saver' = [saver EXCEPT ![j].at = "write", ![j].file = f]
        /\ saver[j].at = "open"
        /\ UNCHANGED <<clock, scan, taken, comp, hist>>
    BY DEF OpenTmp
  <1> HIDE DEF f, tmp
  <1>3. /\ files' \in [DOMAIN files \cup {tmp} -> 0..MaxScans] /\ files'[tmp] = f
        /\ \A m \in DOMAIN files : m # tmp => files'[m] = files[m]
        /\ files' \in [DOMAIN files' -> 0..MaxScans] /\ DOMAIN files' \subseteq Names
    <2>1. DOMAIN files \subseteq Names
      BY DEF StoreType
    <2>2. /\ files' \in [DOMAIN files \cup {tmp} -> 0..MaxScans] /\ files'[tmp] = f
          /\ \A m \in DOMAIN files : m # tmp => files'[m] = files[m]
      BY <1>1, <1>2, WithName
    <2> QED BY <1>1, <2>1, <2>2
  <1>4. /\ data' \in [0..MaxScans -> DataSet]
        /\ data'[f] = [by |-> j, len |-> 0]
        /\ \A g \in 0..MaxScans : g # f => data'[g] = data[g]
    BY <1>1, <1>2, Constants DEF StoreType, DataSet
  <1>5. /\ saver' \in [Scans -> SaverSet]
        /\ saver'[j].at = "write" /\ saver'[j].file = f /\ saver'[j].drop = saver[j].drop
        /\ \A i \in Scans : i # j => saver'[i] = saver[i]
    BY <1>1, <1>2 DEF StoreType, SaverSet
  <1>6. StoreType'
    BY <1>2, <1>3, <1>4, <1>5 DEF StoreType
  <1>7. f = IF tmp \in DOMAIN files THEN files[tmp] ELSE j
    BY DEF f
  <1> QED BY <1>1, <1>2, <1>3, <1>4, <1>5, <1>6, <1>7 DEF tmp


LEMMA WriteTmpStep ==
  ASSUME StoreType, NEW j \in Scans, WriteTmp(j)
  PROVE  LET f == saver[j].file IN
         /\ StoreType'
         /\ f \in 0..MaxScans
         /\ data'[f].by = j
         /\ data[f].len = 0 => data'[f].len = Bytes[j]
         /\ \A g \in 0..MaxScans : g # f => data'[g] = data[g]
         /\ saver[j].at = "write"
         /\ saver'[j].at = "rename" /\ saver'[j].file = f /\ saver'[j].drop = saver[j].drop
         /\ \A i \in Scans : i # j => saver'[i] = saver[i]
         /\ UNCHANGED <<clock, scan, taken, comp, files, hist>>
  <1> DEFINE f == saver[j].file
             n == Max({data[f].len, Bytes[j]})
  <1>1. f \in 0..MaxScans /\ j \in 0..MaxScans /\ n \in Nat /\ (data[f].len = 0 => n = Bytes[j])
    <2>1. f \in 0..MaxScans /\ j \in 0..MaxScans
      BY Constants DEF StoreType, SaverSet
    <2>2. data[f].len \in Nat /\ Bytes[j] \in Nat
      BY <2>1, Constants DEF StoreType, DataSet
    <2>3. n \in Nat /\ n >= Bytes[j] /\ (n = data[f].len \/ n = Bytes[j])
      BY <2>2, MaxOfTwo
    <2> HIDE DEF n
    <2> QED BY <2>1, <2>2, <2>3
  <1>2. /\ data' = [data EXCEPT ![f] = [by |-> j, len |-> n]]
        /\ saver' = [saver EXCEPT ![j].at = "rename"]
        /\ saver[j].at = "write"
        /\ UNCHANGED <<clock, scan, taken, comp, files, hist>>
    BY DEF WriteTmp
  <1>3. /\ saver' \in [Scans -> SaverSet]
        /\ saver'[j].at = "rename" /\ saver'[j].file = saver[j].file /\ saver'[j].drop = saver[j].drop
        /\ \A i \in Scans : i # j => saver'[i] = saver[i]
    BY <1>2 DEF StoreType, SaverSet
  <1> HIDE DEF n, f
  <1>4. /\ data' \in [0..MaxScans -> DataSet]
        /\ data'[f] = [by |-> j, len |-> n]
        /\ \A g \in 0..MaxScans : g # f => data'[g] = data[g]
    BY <1>1, <1>2 DEF StoreType, DataSet
  <1>5. StoreType'
    BY <1>2, <1>3, <1>4 DEF StoreType
  <1> QED BY <1>1, <1>2, <1>3, <1>4, <1>5 DEF f

LEMMA RenameTmpStep ==
  ASSUME StoreType, NEW j \in Scans, RenameTmp(j)
  PROVE  LET tmp == TmpOf(taken[j])
             target == Target(taken[j])
             rest == DOMAIN files \ {tmp}
         IN /\ StoreType'
            /\ tmp \in DOMAIN files
            /\ files' \in [rest \cup {target} -> 0..MaxScans] /\ files'[target] = files[tmp]
            /\ \A m \in rest : m # target => files'[m] = files[m]
            /\ hist'.stored = hist.stored \cup {taken[j]} /\ hist'.deleted = hist.deleted
            /\ saver[j].at = "rename"
            /\ saver'[j].at = "clear" /\ saver'[j].drop = {}
            /\ \A i \in Scans : i # j => saver'[i] = saver[i]
            /\ UNCHANGED <<clock, scan, taken, comp, data>>
  <1> DEFINE tmp == TmpOf(taken[j])
             target == Target(taken[j])
             rest == DOMAIN files \ {tmp}
  <1>1. taken[j] \in Nat /\ tmp \in Names /\ target \in Names
    BY NamesOf DEF StoreType
  <1>2. /\ saver[j].at = "rename" /\ tmp \in DOMAIN files
        /\ files' = With(Restrict(files, rest), target, files[tmp])
        /\ hist' = [hist EXCEPT !.stored = @ \cup {taken[j]}]
        /\ saver' = [saver EXCEPT ![j] = [NoSaver EXCEPT !.at = "clear"]]
        /\ UNCHANGED <<clock, scan, taken, comp, data>>
    BY DEF RenameTmp
  <1> HIDE DEF tmp, target
  <1>3. files[tmp] \in 0..MaxScans /\ rest \in SUBSET DOMAIN files
    BY <1>2 DEF StoreType
  <1>4. /\ files' \in [rest \cup {target} -> 0..MaxScans] /\ files'[target] = files[tmp]
        /\ \A m \in rest : m # target => files'[m] = files[m]
    <2> DEFINE f == files[tmp]
    <2> HIDE DEF rest, f
    <2>1. f \in 0..MaxScans
      BY <1>3 DEF f
    <2>2. /\ With(Restrict(files, rest), target, f) \in [rest \cup {target} -> 0..MaxScans]
          /\ With(Restrict(files, rest), target, f)[target] = f
          /\ \A m \in rest : m # target => With(Restrict(files, rest), target, f)[m] = files[m]
      BY <1>1, <1>3, <2>1, OnlyNamesWithName
    <2>3. files' = With(Restrict(files, rest), target, f)
      BY <1>2 DEF f
    <2> QED BY <2>2, <2>3 DEF f
  <1>5. files' \in [DOMAIN files' -> 0..MaxScans] /\ DOMAIN files' \subseteq Names
    BY <1>1, <1>4 DEF StoreType
  <1>6. hist' \in HistSet /\ hist'.stored = hist.stored \cup {taken[j]} /\ hist'.deleted = hist.deleted
    <2>1. hist \in HistSet
      BY DEF StoreType
    <2> QED BY <1>1, <1>2, <2>1 DEF HistSet
  <1>7. /\ saver' \in [Scans -> SaverSet]
        /\ saver'[j].at = "clear" /\ saver'[j].drop = {}
        /\ \A i \in Scans : i # j => saver'[i] = saver[i]
    <2>1. [NoSaver EXCEPT !.at = "clear"] = [at |-> "clear", file |-> 0, drop |-> {}]
      BY DEF NoSaver
    <2>2. [at |-> "clear", file |-> 0, drop |-> {}] \in SaverSet
      BY Constants DEF SaverSet
    <2> QED BY <1>2, <2>1, <2>2 DEF StoreType
  <1>8. StoreType'
    BY <1>2, <1>5, <1>6, <1>7 DEF StoreType
  <1> QED BY <1>2, <1>4, <1>6, <1>7, <1>8 DEF tmp, target

LEMMA SaveFailsStep ==
  ASSUME StoreType, NEW j \in Scans, SaveFails(j)
  PROVE  /\ StoreType'
         /\ saver'[j] = NoSaver
         /\ \A i \in Scans : i # j => saver'[i] = saver[i]
         /\ UNCHANGED <<clock, scan, taken, comp, files, data, hist>>
  <1>1. NoSaver \in SaverSet
    BY Constants DEF NoSaver, SaverSet
  <1> QED BY <1>1 DEF StoreType, SaveFails

LEMMA ListStoreStep ==
  ASSUME StoreType, NEW j \in Scans, ListStore(j)
  PROVE  /\ StoreType'
         /\ saver[j].at = "clear"
         /\ saver'[j].at = "idle" /\ saver'[j].drop = Surplus(DOMAIN files, Keep[j])
         /\ \A i \in Scans : i # j => saver'[i] = saver[i]
         /\ hist'.stored = hist.stored /\ hist'.deleted = hist.deleted
         /\ UNCHANGED <<clock, scan, taken, comp, files, data>>
  <1> DEFINE D == Surplus(DOMAIN files, Keep[j])
             k == Max({Keep[j], 1})
  <1>1. D \in SUBSET Names /\ k \in Nat
    BY MaxOfTwo, Constants DEF Surplus, Stored, StoreType
  <1>2. /\ saver[j].at = "clear"
        /\ saver' = [saver EXCEPT ![j].at = "idle", ![j].drop = D]
        /\ hist' = [hist EXCEPT !.messy = FALSE, !.keep = k]
        /\ UNCHANGED <<clock, scan, taken, comp, files, data>>
    BY DEF ListStore
  <1> HIDE DEF D, k
  <1>3. /\ saver' \in [Scans -> SaverSet]
        /\ saver'[j].at = "idle" /\ saver'[j].drop = D
        /\ \A i \in Scans : i # j => saver'[i] = saver[i]
    BY <1>1, <1>2 DEF StoreType, SaverSet
  <1>4. hist \in HistSet
    BY DEF StoreType
  <1>5. hist' \in HistSet
    BY <1>1, <1>2, <1>4 DEF HistSet
  <1>6. hist'.stored = hist.stored /\ hist'.deleted = hist.deleted
    BY <1>2, <1>4 DEF HistSet
  <1> QED BY <1>2, <1>3, <1>5, <1>6 DEF StoreType, D

LEMMA DropOldStep ==
  ASSUME StoreType, NEW j \in Scans, DropOld(j)
  PROVE  \E n \in saver[j].drop :
           /\ StoreType'
           /\ saver'[j].at = saver[j].at /\ saver'[j].file = saver[j].file
           /\ saver'[j].drop \subseteq saver[j].drop
           /\ \A i \in Scans : i # j => saver'[i] = saver[i]
           /\ hist'.stored = hist.stored /\ hist'.deleted = hist.deleted
           /\ \/ files' = files
              \/ /\ files' \in [DOMAIN files \ {n} -> 0..MaxScans]
                 /\ \A m \in DOMAIN files \ {n} : files'[m] = files[m]
           /\ UNCHANGED <<clock, scan, taken, comp, data>>
  <1>1. PICK n \in saver[j].drop :
          /\ saver' = [saver EXCEPT ![j].drop = @ \ {n}]
          /\ \/ files' = Restrict(files, DOMAIN files \ {n}) /\ UNCHANGED hist
             \/ n \in DOMAIN files /\ hist' = [hist EXCEPT !.messy = TRUE] /\ UNCHANGED files
    BY DEF DropOld
  <1>2. UNCHANGED <<clock, scan, taken, comp, data>>
    BY DEF DropOld
  <1>3. /\ saver' \in [Scans -> SaverSet]
        /\ saver'[j].at = saver[j].at /\ saver'[j].file = saver[j].file
        /\ saver'[j].drop \subseteq saver[j].drop
        /\ \A i \in Scans : i # j => saver'[i] = saver[i]
    BY <1>1 DEF StoreType, SaverSet
  <1>4. hist' \in HistSet /\ hist'.stored = hist.stored /\ hist'.deleted = hist.deleted
    <2>1. hist \in HistSet
      BY DEF StoreType
    <2> QED BY <1>1, <2>1 DEF HistSet
  <1>5. \/ files' = files
        \/ /\ files' \in [DOMAIN files \ {n} -> 0..MaxScans]
           /\ \A m \in DOMAIN files \ {n} : files'[m] = files[m]
    <2> DEFINE S == DOMAIN files \ {n}
    <2>1. S \in SUBSET DOMAIN files
      OBVIOUS
    <2>2. files' = files \/ files' = Restrict(files, S)
      BY <1>1
    <2> HIDE DEF S
    <2>3. \/ files' = files
          \/ files' \in [S -> 0..MaxScans] /\ \A m \in S : files'[m] = files[m]
      BY <2>1, <2>2, OnlyNames
    <2> QED BY <2>3 DEF S
  <1>6. files' \in [DOMAIN files' -> 0..MaxScans] /\ DOMAIN files' \subseteq Names
    BY <1>5 DEF StoreType
  <1>7. StoreType'
    BY <1>2, <1>3, <1>4, <1>6 DEF StoreType
  <1> QED BY <1>1, <1>2, <1>3, <1>4, <1>5, <1>7


LEMMA ListHistoryStep ==
  ASSUME StoreType, NEW j \in Scans, ListHistory(j)
  PROVE  /\ StoreType'
         /\ comp[j].st # "none"
         /\ comp'[j].history = Seconds(DOMAIN files)
         /\ \/ /\ comp'[j].st = "find" /\ comp'[j].asked \in Seconds(DOMAIN files)
               /\ comp'[j].asked < scan[j].unix
            \/ comp'[j].st = "listed"
         /\ \A i \in Scans : i # j => comp'[i] = comp[i]
         /\ UNCHANGED <<clock, scan, taken, saver, files, data, hist>>
  <1> DEFINE H == Seconds(DOMAIN files)
  <1>1. H \in SUBSET Nat
    BY DEF Seconds, Stored, Names, StoreType
  <1>2. comp \in [Scans -> CompSet]
    BY DEF StoreType
  <1>3. UNCHANGED <<clock, scan, taken, saver, files, data, hist>> /\ comp[j].st # "none"
    BY DEF ListHistory
  <1>4. \/ \E s \in H : s < scan[j].unix /\ comp' = [comp EXCEPT ![j].st = "find", ![j].history = H, ![j].asked = s]
        \/ comp' = [comp EXCEPT ![j].st = "listed", ![j].history = H]
    BY DEF ListHistory, Older
  <1> HIDE DEF H
  <1>5. /\ comp' \in [Scans -> CompSet]
        /\ comp'[j].history = H
        /\ \A i \in Scans : i # j => comp'[i] = comp[i]
    <2>1. CASE \E s \in H : s < scan[j].unix /\ comp' = [comp EXCEPT ![j].st = "find", ![j].history = H, ![j].asked = s]
      <3>1. PICK s \in H : comp' = [comp EXCEPT ![j].st = "find", ![j].history = H, ![j].asked = s]
        BY <2>1
      <3>2. s \in Nat
        BY <1>1
      <3>3. comp' \in [Scans -> CompSet]
        <4>1. \A c \in CompSet : [[[c EXCEPT !.st = "find"] EXCEPT !.history = H] EXCEPT !.asked = s] \in CompSet
          BY <1>1, <3>2 DEF CompSet
        <4> QED BY <1>2, <3>1, <4>1
      <3>4. comp'[j].history = H /\ \A i \in Scans : i # j => comp'[i] = comp[i]
        BY <1>1, <1>2, <3>1, <3>2 DEF CompSet
      <3> QED BY <3>3, <3>4
    <2>2. CASE comp' = [comp EXCEPT ![j].st = "listed", ![j].history = H]
      BY <1>1, <1>2, <2>2 DEF CompSet
    <2> QED BY <1>4, <2>1, <2>2
  <1>6. \/ comp'[j].st = "find" /\ comp'[j].asked \in H /\ comp'[j].asked < scan[j].unix
        \/ comp'[j].st = "listed"
    BY <1>1, <1>2, <1>4 DEF CompSet
  <1> QED BY <1>3, <1>5, <1>6 DEF StoreType, H

LEMMA ShowChangesStep ==
  ASSUME StoreType, NEW j \in Scans, ShowChanges(j)
  PROVE  /\ StoreType'
         /\ comp[j].st # "none"
         /\ comp'[j].history = comp[j].history
         /\ comp'[j].st = "find" /\ comp'[j].asked \in comp[j].history
         /\ comp'[j].asked < scan[j].unix
         /\ \A i \in Scans : i # j => comp'[i] = comp[i]
         /\ UNCHANGED <<clock, scan, taken, saver, files, data, hist>>
  <1>1. comp \in [Scans -> CompSet] /\ comp[j].history \in SUBSET Nat
    BY DEF StoreType, CompSet
  <1>2. PICK s \in comp[j].history : s < scan[j].unix /\ comp' = [comp EXCEPT ![j].st = "find", ![j].asked = s]
    BY DEF ShowChanges, Older
  <1>3. UNCHANGED <<clock, scan, taken, saver, files, data, hist>> /\ comp[j].st # "none"
    BY DEF ShowChanges, Answered
  <1>4. comp' \in [Scans -> CompSet]
    BY <1>1, <1>2 DEF CompSet
  <1>5. /\ comp'[j].history = comp[j].history
        /\ comp'[j].st = "find" /\ comp'[j].asked = s
        /\ \A i \in Scans : i # j => comp'[i] = comp[i]
    BY <1>1, <1>2 DEF CompSet
  <1> QED BY <1>2, <1>3, <1>4, <1>5 DEF StoreType

LEMMA FindAskedStep ==
  ASSUME StoreType, NEW j \in Scans, FindAsked(j)
  PROVE  /\ StoreType'
         /\ comp[j].st = "find"
         /\ comp'[j].history = comp[j].history /\ comp'[j].asked = comp[j].asked
         /\ \/ comp'[j].st = "gone" /\ comp[j].asked \notin Seconds(DOMAIN files)
            \/ /\ comp'[j].st = "load" /\ comp'[j].name \in Stored(DOMAIN files)
               /\ comp'[j].name[1] = comp[j].asked
         /\ \A i \in Scans : i # j => comp'[i] = comp[i]
         /\ UNCHANGED <<clock, scan, taken, saver, files, data, hist>>
  <1>1. comp \in [Scans -> CompSet] /\ Stored(DOMAIN files) \subseteq Names
    BY DEF StoreType, Stored
  <1>2. UNCHANGED <<clock, scan, taken, saver, files, data, hist>> /\ comp[j].st = "find"
    BY DEF FindAsked
  <1>3. \/ /\ comp[j].asked \notin Seconds(DOMAIN files)
           /\ comp' = [comp EXCEPT ![j].st = "gone"]
        \/ \E n \in Stored(DOMAIN files) :
             n[1] = comp[j].asked /\ comp' = [comp EXCEPT ![j].st = "load", ![j].name = n]
    BY DEF FindAsked, Seconds
  <1>4. CASE comp[j].asked \notin Seconds(DOMAIN files) /\ comp' = [comp EXCEPT ![j].st = "gone"]
    <2>1. comp' \in [Scans -> CompSet]
      BY <1>1, <1>4 DEF CompSet
    <2>2. /\ comp'[j].history = comp[j].history /\ comp'[j].asked = comp[j].asked
          /\ comp'[j].st = "gone"
          /\ \A i \in Scans : i # j => comp'[i] = comp[i]
      BY <1>1, <1>4 DEF CompSet
    <2> QED BY <1>2, <1>4, <2>1, <2>2 DEF StoreType
  <1>5. CASE \E n \in Stored(DOMAIN files) :
               n[1] = comp[j].asked /\ comp' = [comp EXCEPT ![j].st = "load", ![j].name = n]
    <2>1. PICK n \in Stored(DOMAIN files) :
                 n[1] = comp[j].asked /\ comp' = [comp EXCEPT ![j].st = "load", ![j].name = n]
      BY <1>5
    <2>2. n \in Names
      BY <1>1
    <2>3. comp' \in [Scans -> CompSet]
      BY <1>1, <2>1, <2>2 DEF CompSet
    <2>4. /\ comp'[j].history = comp[j].history /\ comp'[j].asked = comp[j].asked
          /\ comp'[j].st = "load" /\ comp'[j].name = n
          /\ \A i \in Scans : i # j => comp'[i] = comp[i]
      BY <1>1, <2>1, <2>2 DEF CompSet
    <2> QED BY <1>2, <2>1, <2>3, <2>4 DEF StoreType
  <1> QED BY <1>3, <1>4, <1>5

LEMMA LoadAskedStep ==
  ASSUME StoreType, NEW j \in Scans, LoadAsked(j)
  PROVE  LET n == comp[j].name IN
         /\ StoreType'
         /\ comp[j].st = "load"
         /\ comp'[j].history = comp[j].history /\ comp'[j].asked = comp[j].asked
         /\ \/ comp'[j].st = "gone" /\ n \notin DOMAIN files
            \/ comp'[j].st = "corrupt" /\ n \in DOMAIN files /\ ~IsWhole(data[files[n]])
            \/ comp'[j].st = "diff" /\ n \in DOMAIN files /\ comp'[j].from = data[files[n]].by
         /\ \A i \in Scans : i # j => comp'[i] = comp[i]
         /\ UNCHANGED <<clock, scan, taken, saver, files, data, hist>>
  <1> DEFINE n == comp[j].name
             by == data[files[n]].by
  <1>1. comp \in [Scans -> CompSet] /\ NoName \in Names \cup {NoName}
    BY DEF StoreType
  <1>2. UNCHANGED <<clock, scan, taken, saver, files, data, hist>> /\ comp[j].st = "load"
    BY DEF LoadAsked
  <1>3. ASSUME n \in DOMAIN files PROVE by \in 0..MaxScans
    BY <1>3 DEF StoreType, DataSet
  <1>4. \/ n \notin DOMAIN files /\ comp' = [comp EXCEPT ![j].st = "gone", ![j].name = NoName]
        \/ /\ n \in DOMAIN files /\ ~IsWhole(data[files[n]])
           /\ comp' = [comp EXCEPT ![j].st = "corrupt", ![j].name = NoName]
        \/ /\ n \in DOMAIN files
           /\ comp' = [comp EXCEPT ![j].st = "diff", ![j].name = NoName, ![j].from = by]
    BY DEF LoadAsked
  <1>5. ASSUME NEW st \in {"gone", "corrupt"}, comp' = [comp EXCEPT ![j].st = st, ![j].name = NoName]
        PROVE  /\ comp' \in [Scans -> CompSet]
               /\ comp'[j].history = comp[j].history /\ comp'[j].asked = comp[j].asked
               /\ comp'[j].st = st
               /\ \A i \in Scans : i # j => comp'[i] = comp[i]
    <2>1. comp' \in [Scans -> CompSet]
      BY <1>1, <1>5 DEF CompSet
    <2>2. /\ comp'[j].history = comp[j].history /\ comp'[j].asked = comp[j].asked
          /\ comp'[j].st = st
          /\ \A i \in Scans : i # j => comp'[i] = comp[i]
      BY <1>1, <1>5 DEF CompSet
    <2> QED BY <2>1, <2>2
  <1>6. ASSUME NEW f \in 0..MaxScans,
               comp' = [comp EXCEPT ![j].st = "diff", ![j].name = NoName, ![j].from = f]
        PROVE  /\ comp' \in [Scans -> CompSet]
               /\ comp'[j].history = comp[j].history /\ comp'[j].asked = comp[j].asked
               /\ comp'[j].st = "diff" /\ comp'[j].from = f
               /\ \A i \in Scans : i # j => comp'[i] = comp[i]
    <2>1. comp' \in [Scans -> CompSet]
      <3>1. \A c \in CompSet : [[[c EXCEPT !.st = "diff"] EXCEPT !.name = NoName] EXCEPT !.from = f] \in CompSet
        BY <1>1 DEF CompSet
      <3> QED BY <1>1, <1>6, <3>1
    <2>2. /\ comp'[j].history = comp[j].history /\ comp'[j].asked = comp[j].asked
          /\ comp'[j].st = "diff" /\ comp'[j].from = f
          /\ \A i \in Scans : i # j => comp'[i] = comp[i]
      BY <1>1, <1>6 DEF CompSet
    <2> QED BY <2>1, <2>2
  <1>7. comp' \in [Scans -> CompSet] => StoreType'
    BY <1>2 DEF StoreType
  <1> HIDE DEF n, by
  <1>8. CASE n \notin DOMAIN files /\ comp' = [comp EXCEPT ![j].st = "gone", ![j].name = NoName]
    BY <1>2, <1>5, <1>7, <1>8 DEF n
  <1>9. CASE /\ n \in DOMAIN files /\ ~IsWhole(data[files[n]])
             /\ comp' = [comp EXCEPT ![j].st = "corrupt", ![j].name = NoName]
    BY <1>2, <1>5, <1>7, <1>9 DEF n
  <1>10. CASE /\ n \in DOMAIN files
              /\ comp' = [comp EXCEPT ![j].st = "diff", ![j].name = NoName, ![j].from = by]
    BY <1>2, <1>3, <1>6, <1>7, <1>10 DEF n, by
  <1> QED BY <1>4, <1>8, <1>9, <1>10

LEMMA DiffAskedStep ==
  ASSUME StoreType, NEW j \in Scans, DiffAsked(j)
  PROVE  /\ StoreType'
         /\ comp[j].st = "diff" /\ comp'[j].st = "done"
         /\ comp'[j].history = comp[j].history /\ comp'[j].asked = comp[j].asked
         /\ comp'[j].from = comp[j].from
         /\ \A i \in Scans : i # j => comp'[i] = comp[i]
         /\ taken' = Captured(j)
         /\ UNCHANGED <<clock, scan, saver, files, data, hist>>
  <1>1. comp \in [Scans -> CompSet]
    BY DEF StoreType
  <1>2. /\ comp[j].st = "diff" /\ comp' = [comp EXCEPT ![j].st = "done"]
        /\ taken' = Captured(j)
        /\ UNCHANGED <<clock, scan, saver, files, data, hist>>
    BY DEF DiffAsked
  <1>3. comp' \in [Scans -> CompSet]
    BY <1>1, <1>2 DEF CompSet
  <1>4. /\ comp'[j].st = "done"
        /\ comp'[j].history = comp[j].history /\ comp'[j].asked = comp[j].asked
        /\ comp'[j].from = comp[j].from
        /\ \A i \in Scans : i # j => comp'[i] = comp[i]
    BY <1>1, <1>2 DEF CompSet
  <1> QED BY <1>2, <1>3, <1>4, CapturedStep DEF StoreType

LEMMA DeleteSnapshotStep ==
  ASSUME StoreType, NEW j \in Scans, DeleteSnapshot(j)
  PROVE  \E s \in comp[j].history : \E S \in SUBSET DOMAIN files :
           /\ StoreType'
           /\ S = {n \in DOMAIN files : n \notin Stored(DOMAIN files) \/ n[1] # s}
           /\ files' \in [S -> 0..MaxScans]
           /\ \A m \in S : files'[m] = files[m]
           /\ hist'.stored = hist.stored /\ hist'.deleted = hist.deleted \cup {s}
           /\ comp[j].st # "none" /\ comp'[j].st = "relist" /\ comp'[j].history = {}
           /\ \A i \in Scans : i # j => comp'[i] = comp[i]
           /\ UNCHANGED <<clock, scan, taken, saver, data>>
  <1>1. PICK s \in comp[j].history :
          /\ files' = Restrict(files, {n \in DOMAIN files : n \notin Stored(DOMAIN files) \/ n[1] # s})
          /\ hist' = [hist EXCEPT !.deleted = @ \cup {s}]
    BY DEF DeleteSnapshot
  <1>2. PICK S \in SUBSET DOMAIN files : S = {n \in DOMAIN files : n \notin Stored(DOMAIN files) \/ n[1] # s}
    OBVIOUS
  <1>3. files' \in [S -> 0..MaxScans] /\ (\A m \in S : files'[m] = files[m]) /\ S \subseteq Names
    BY <1>1, <1>2, OnlyNames
  <1>4. hist' \in HistSet /\ hist'.stored = hist.stored /\ hist'.deleted = hist.deleted \cup {s}
    <2>1. hist \in HistSet /\ s \in Nat
      BY DEF StoreType, CompSet
    <2> QED BY <1>1, <2>1 DEF HistSet
  <1>5. /\ comp[j].st # "none"
        /\ comp' = [comp EXCEPT ![j] = [NoComp EXCEPT !.st = "relist"]]
        /\ UNCHANGED <<clock, scan, taken, saver, data>>
    BY DEF DeleteSnapshot, Answered
  <1>6. /\ comp' \in [Scans -> CompSet]
        /\ comp'[j].st = "relist" /\ comp'[j].history = {}
        /\ \A i \in Scans : i # j => comp'[i] = comp[i]
    <2> DEFINE c == [st |-> "relist", history |-> {}, asked |-> 0, name |-> NoName, from |-> 0]
    <2>1. [NoComp EXCEPT !.st = "relist"] = c
      BY DEF NoComp
    <2>2. c \in CompSet
      BY Constants DEF CompSet
    <2>3. comp \in [Scans -> CompSet]
      BY DEF StoreType
    <2>4. comp' = [comp EXCEPT ![j] = c]
      BY <1>5, <2>1
    <2> QED BY <2>2, <2>3, <2>4
  <1>7. StoreType'
    <2>1. files' \in [DOMAIN files' -> 0..MaxScans] /\ DOMAIN files' \subseteq Names
      BY <1>3
    <2> QED BY <1>4, <1>5, <1>6, <2>1 DEF StoreType
  <1> QED BY <1>2, <1>3, <1>4, <1>5, <1>6, <1>7


-----------------------------------------------------------------------------
(* The order of the clocks is kept. *)
LEMMA ClocksStep ==
  ASSUME StoreType, Clocks, Next
  PROVE  Clocks'
  <1>0. /\ clock \in Nat /\ LegacyAt \in Nat
        /\ \A i \in Scans : scan[i].unix \in Nat /\ taken[i] \in Nat
    BY Constants DEF StoreType, ScanSet
  <1> USE DEF NoSaver, NoComp
  <1>1. CASE Tick
    <2>1. clock' \in Nat /\ clock < clock' /\ UNCHANGED <<scan, taken, saver, comp>>
      BY <1>0, <1>1, TickStep DEF Tick
    <2> QED BY <1>0, <2>1 DEF Clocks
  <1>2. CASE Crash
    BY <1>0, <1>2, CrashStep DEF Clocks
  <1>3. ASSUME NEW j \in Scans, StartScan(j) PROVE Clocks'
    BY <1>0, <1>3, StartScanStep DEF Clocks
  <1>4. ASSUME NEW j \in Scans, EndScan(j) PROVE Clocks'
    BY <1>0, <1>4, EndScanStep DEF Clocks
  <1>5. ASSUME NEW j \in Scans, Capture(j) PROVE Clocks'
    BY <1>0, <1>5, CaptureStep, CapturedStep DEF Clocks
  <1>6. ASSUME NEW j \in Scans, OpenTmp(j) PROVE Clocks'
    <2>1. /\ saver[j].at = "open"
          /\ \A i \in Scans : i # j => saver'[i] = saver[i]
          /\ UNCHANGED <<clock, scan, taken, comp>>
      BY <1>6, OpenTmpStep
    <2> QED BY <1>0, <2>1 DEF Clocks
  <1>7. ASSUME NEW j \in Scans, WriteTmp(j) PROVE Clocks'
    BY <1>0, <1>7, WriteTmpStep DEF Clocks
  <1>8. ASSUME NEW j \in Scans, RenameTmp(j) PROVE Clocks'
    <2>1. /\ saver[j].at = "rename"
          /\ \A i \in Scans : i # j => saver'[i] = saver[i]
          /\ UNCHANGED <<clock, scan, taken, comp>>
      BY <1>8, RenameTmpStep
    <2> QED BY <1>0, <2>1 DEF Clocks
  <1>9. ASSUME NEW j \in Scans, SaveFails(j) PROVE Clocks'
    BY <1>0, <1>9, SaveFailsStep DEF Clocks
  <1>10. ASSUME NEW j \in Scans, ListStore(j) PROVE Clocks'
    BY <1>0, <1>10, ListStoreStep DEF Clocks
  <1>11. ASSUME NEW j \in Scans, DropOld(j) PROVE Clocks'
    <2>1. /\ saver[j].drop # {} /\ saver'[j].at = saver[j].at
          /\ \A i \in Scans : i # j => saver'[i] = saver[i]
          /\ UNCHANGED <<clock, scan, taken, comp>>
      BY <1>11, DropOldStep
    <2> QED BY <1>0, <2>1 DEF Clocks
  <1>12. ASSUME NEW j \in Scans, ListHistory(j) PROVE Clocks'
    BY <1>0, <1>12, ListHistoryStep DEF Clocks
  <1>13. ASSUME NEW j \in Scans, ShowChanges(j) PROVE Clocks'
    BY <1>0, <1>13, ShowChangesStep DEF Clocks
  <1>14. ASSUME NEW j \in Scans, FindAsked(j) PROVE Clocks'
    BY <1>0, <1>14, FindAskedStep DEF Clocks
  <1>15. ASSUME NEW j \in Scans, LoadAsked(j) PROVE Clocks'
    BY <1>0, <1>15, LoadAskedStep DEF Clocks
  <1>16. ASSUME NEW j \in Scans, DiffAsked(j) PROVE Clocks'
    BY <1>0, <1>16, DiffAskedStep, CapturedStep DEF Clocks
  <1>17. ASSUME NEW j \in Scans, DeleteSnapshot(j) PROVE Clocks'
    BY <1>0, <1>17, DeleteSnapshotStep DEF Clocks
  <1> QED BY <1>1, <1>2, <1>3, <1>4, <1>5, <1>6, <1>7, <1>8, <1>9, <1>10, <1>11, <1>12, <1>13,
            <1>14, <1>15, <1>16, <1>17 DEF Next


(* A tree is captured once. *)
LEMMA TakenStays ==
  ASSUME StoreType, Clocks, Next
  PROVE  \A i \in Scans : taken[i] # 0 => taken'[i] = taken[i]
  <1> DEFINE Stays == \A i \in Scans : taken[i] # 0 => taken'[i] = taken[i]
  <1>1. ASSUME NEW j \in Scans, EndScan(j) PROVE Stays
    BY <1>1, EndScanStep DEF Clocks
  <1>2. ASSUME NEW j \in Scans, Capture(j) PROVE Stays
    BY <1>2, CaptureStep, CapturedStep
  <1>3. ASSUME NEW j \in Scans, DiffAsked(j) PROVE Stays
    BY <1>3, DiffAskedStep, CapturedStep
  <1>4. \/ taken' = taken
        \/ \E j \in Scans : EndScan(j) \/ Capture(j) \/ DiffAsked(j)
    BY DEF Next, Tick, Crash, StartScan, OpenTmp, WriteTmp, RenameTmp, SaveFails, ListStore,
           DropOld, ListHistory, ShowChanges, FindAsked, LoadAsked, DeleteSnapshot
  <1> QED BY <1>1, <1>2, <1>3, <1>4

-----------------------------------------------------------------------------
(* A step keeps what the files of the folder are. *)
LEMMA FewerFiles ==
  ASSUME FilesOK,
         \A i \in Scans : taken[i] # 0 => taken'[i] = taken[i],
         DOMAIN files' \subseteq DOMAIN files,
         \A n \in DOMAIN files' : files'[n] = files[n],
         \A i \in Scans : saver'[i].at \in {"capture", "open"} => saver[i].at \in {"capture", "open"}
  PROVE  FilesOK'
  BY DEF FilesOK

LEMMA FilesStep ==
  ASSUME StoreType, Clocks, FilesOK, Next
  PROVE  FilesOK'
  <1> DEFINE ToSave == {"capture", "open"}
             Fewer == /\ DOMAIN files' \subseteq DOMAIN files
                      /\ \A n \in DOMAIN files' : files'[n] = files[n]
                      /\ \A i \in Scans : saver'[i].at \in ToSave => saver[i].at \in ToSave
  <1>1. \A i \in Scans : taken[i] # 0 => taken'[i] = taken[i]
    BY TakenStays
  <1>2. Fewer => FilesOK'
    BY <1>1, FewerFiles
  <1>3. ASSUME NEW j \in Scans, EndScan(j) PROVE FilesOK'
    <2>1. /\ taken[j] = 0 /\ files' = files
          /\ \A i \in Scans : i # j => saver'[i] = saver[i]
      BY <1>3, EndScanStep DEF Clocks
    <2>2. \A n \in DOMAIN files : files[n] # j
      BY <2>1, Constants DEF FilesOK
    <2> QED BY <1>1, <2>1, <2>2 DEF FilesOK
  <1>4. ASSUME NEW j \in Scans, OpenTmp(j) PROVE FilesOK'
    <2> DEFINE tmp == TmpOf(taken[j])
    <2>1. PICK f \in 0..MaxScans :
            /\ f = IF tmp \in DOMAIN files THEN files[tmp] ELSE j
            /\ files' \in [DOMAIN files \cup {tmp} -> 0..MaxScans] /\ files'[tmp] = f
            /\ \A m \in DOMAIN files : m # tmp => files'[m] = files[m]
            /\ saver[j].at = "open" /\ saver'[j].at = "write"
            /\ \A i \in Scans : i # j => saver'[i] = saver[i]
            /\ taken' = taken
      BY <1>4, OpenTmpStep
    <2>2. taken[j] \in Nat /\ taken[j] # 0 /\ tmp[1] = taken[j] /\ tmp[2] = "tmp"
      BY <2>1, NamesOf DEF Clocks, StoreType
    <2> HIDE DEF tmp
    <2>3. DOMAIN files' = DOMAIN files \cup {tmp}
      BY <2>1
    <2>4. f \in Scans /\ taken[f] = taken[j]
      BY <2>1, <2>2 DEF FilesOK
    <2>5. \A n \in DOMAIN files' :
            IF n[2] = "json" THEN n[1] = LegacyAt /\ LegacyAt # 0 /\ files'[n] = 0
            ELSE files'[n] \in Scans /\ taken'[files'[n]] = n[1] /\ n[1] # 0
      BY <2>1, <2>2, <2>3, <2>4 DEF FilesOK
    <2>6. \A n, m \in DOMAIN files' : files'[n] = files'[m] => n = m
      <3>1. \A n \in DOMAIN files : n # tmp => files[n] # f
        BY <2>1 DEF FilesOK
      <3> QED BY <2>1, <2>3, <3>1 DEF FilesOK
    <2>7. ASSUME NEW i \in Scans, saver'[i].at \in ToSave, NEW n \in DOMAIN files'
          PROVE  files'[n] # i
      <3>1. i # j /\ saver[i].at \in ToSave
        BY <2>1, <2>7
      <3> QED BY <2>1, <2>3, <3>1 DEF FilesOK
    <2> QED BY <2>5, <2>6, <2>7 DEF FilesOK
  <1>5. ASSUME NEW j \in Scans, RenameTmp(j) PROVE FilesOK'
    <2> DEFINE tmp == TmpOf(taken[j])
               target == Target(taken[j])
               rest == DOMAIN files \ {tmp}
    <2>1. /\ tmp \in DOMAIN files
          /\ files' \in [rest \cup {target} -> 0..MaxScans] /\ files'[target] = files[tmp]
          /\ \A m \in rest : m # target => files'[m] = files[m]
          /\ saver[j].at = "rename" /\ saver'[j].at = "clear"
          /\ \A i \in Scans : i # j => saver'[i] = saver[i]
          /\ taken' = taken
      BY <1>5, RenameTmpStep
    <2>2. /\ taken[j] \in Nat /\ taken[j] # 0 /\ tmp[1] = taken[j] /\ tmp[2] = "tmp"
          /\ target[1] = taken[j] /\ target[2] = "dgs"
      BY <2>1, NamesOf DEF Clocks, StoreType
    <2> HIDE DEF tmp, target
    <2>3. DOMAIN files' = rest \cup {target}
      BY <2>1
    <2>4. files[tmp] \in Scans /\ taken[files[tmp]] = taken[j]
      BY <2>1, <2>2 DEF FilesOK
    <2>5. \A n \in DOMAIN files' :
            IF n[2] = "json" THEN n[1] = LegacyAt /\ LegacyAt # 0 /\ files'[n] = 0
            ELSE files'[n] \in Scans /\ taken'[files'[n]] = n[1] /\ n[1] # 0
      BY <2>1, <2>2, <2>3, <2>4 DEF FilesOK
    <2>6. \A n, m \in DOMAIN files' : files'[n] = files'[m] => n = m
      <3>1. \A n \in rest : files[n] # files[tmp]
        BY <2>1 DEF FilesOK
      <3> QED BY <2>1, <2>3, <3>1 DEF FilesOK
    <2>7. ASSUME NEW i \in Scans, saver'[i].at \in ToSave, NEW n \in DOMAIN files'
          PROVE  files'[n] # i
      <3>1. i # j /\ saver[i].at \in ToSave
        BY <2>1, <2>7
      <3> QED BY <2>1, <2>3, <3>1 DEF FilesOK
    <2> QED BY <2>5, <2>6, <2>7 DEF FilesOK
  <1>6. CASE Tick
    BY <1>2, <1>6, TickStep
  <1>7. CASE Crash
    BY <1>2, <1>7, CrashStep DEF NoSaver
  <1>8. ASSUME NEW j \in Scans, StartScan(j) PROVE Fewer
    BY <1>8, StartScanStep
  <1>9. ASSUME NEW j \in Scans, Capture(j) PROVE Fewer
    BY <1>9, CaptureStep
  <1>10. ASSUME NEW j \in Scans, WriteTmp(j) PROVE Fewer
    BY <1>10, WriteTmpStep
  <1>11. ASSUME NEW j \in Scans, SaveFails(j) PROVE Fewer
    BY <1>11, SaveFailsStep DEF NoSaver
  <1>12. ASSUME NEW j \in Scans, ListStore(j) PROVE Fewer
    BY <1>12, ListStoreStep
  <1>13. ASSUME NEW j \in Scans, DropOld(j) PROVE Fewer
    <2>1. PICK n : /\ saver'[j].at = saver[j].at
                   /\ \A i \in Scans : i # j => saver'[i] = saver[i]
                   /\ \/ files' = files
                      \/ /\ files' \in [DOMAIN files \ {n} -> 0..MaxScans]
                         /\ \A m \in DOMAIN files \ {n} : files'[m] = files[m]
      BY <1>13, DropOldStep
    <2>2. DOMAIN files' \subseteq DOMAIN files /\ \A m \in DOMAIN files' : files'[m] = files[m]
      BY <2>1
    <2> QED BY <2>1, <2>2
  <1>14. ASSUME NEW j \in Scans, ListHistory(j) PROVE Fewer
    BY <1>14, ListHistoryStep
  <1>15. ASSUME NEW j \in Scans, ShowChanges(j) PROVE Fewer
    BY <1>15, ShowChangesStep
  <1>16. ASSUME NEW j \in Scans, FindAsked(j) PROVE Fewer
    BY <1>16, FindAskedStep
  <1>17. ASSUME NEW j \in Scans, LoadAsked(j) PROVE Fewer
    BY <1>17, LoadAskedStep
  <1>18. ASSUME NEW j \in Scans, DiffAsked(j) PROVE Fewer
    BY <1>18, DiffAskedStep
  <1>19. ASSUME NEW j \in Scans, DeleteSnapshot(j) PROVE Fewer
    <2>1. PICK S \in SUBSET DOMAIN files : /\ files' \in [S -> 0..MaxScans]
                                           /\ \A m \in S : files'[m] = files[m]
                                           /\ saver' = saver
      BY <1>19, DeleteSnapshotStep
    <2> QED BY <2>1
  <1> HIDE DEF Fewer
  <1> QED BY <1>2, <1>3, <1>4, <1>5, <1>6, <1>7, <1>8, <1>9, <1>10, <1>11, <1>12, <1>13, <1>14,
            <1>15, <1>16, <1>17, <1>18, <1>19 DEF Next


-----------------------------------------------------------------------------
(* A step keeps what the files hold.  What is written to is the file of a  *)
(* scan captured in the same second: of a scan captured alone, its own.    *)
LEMMA WrittenFrame ==
  ASSUME WrittenOK, FilesOK, Clocks,
         \A i \in Scans : taken[i] # 0 => taken'[i] = taken[i],
         DOMAIN files' \subseteq DOMAIN files,
         \A n \in DOMAIN files' : files'[n] = files[n],
         data' = data,
         \A i \in Scans : saver'[i].at \in {"write", "rename"} =>
           saver'[i].at = saver[i].at /\ saver'[i].file = saver[i].file
  PROVE  WrittenOK'
  <1>1. \A i \in Scans : (taken[i] # 0 /\ Alone(i)') => Alone(i)
    BY DEF Alone
  <1>2. \A f \in Scans : data[f].by # f => /\ data[f].by \in Scans /\ taken'[f] # 0
                                           /\ taken'[data[f].by] = taken'[f]
    BY DEF WrittenOK
  <1>3. ASSUME NEW j \in Scans, saver'[j].at \in {"write", "rename"}
        PROVE  /\ saver'[j].file \in Scans /\ taken'[saver'[j].file] = taken'[j]
               /\ (Alone(j)' /\ saver'[j].at = "write") => data[j] = [by |-> j, len |-> 0]
               /\ (Alone(j)' /\ saver'[j].at = "rename") => data[j] = [by |-> j, len |-> Bytes[j]]
    <2>1. saver[j].at \in {"write", "rename"} /\ saver'[j].at = saver[j].at /\ saver'[j].file = saver[j].file
      BY <1>3
    <2>2. taken[j] # 0 /\ saver[j].file \in Scans /\ taken[saver[j].file] = taken[j]
      BY <2>1 DEF Clocks, WrittenOK
    <2> QED BY <1>1, <2>1, <2>2 DEF WrittenOK
  <1>4. ASSUME NEW n \in DOMAIN files', NEW f \in Scans, n[2] = "dgs", files[n] = f, Alone(f)'
        PROVE  data[f] = [by |-> f, len |-> Bytes[f]]
    <2>1. n \in DOMAIN files /\ taken[f] # 0
      BY <1>4 DEF FilesOK
    <2> QED BY <1>1, <1>4, <2>1 DEF WrittenOK
  <1> QED BY <1>2, <1>3, <1>4 DEF WrittenOK

LEMMA OpenTmpWrites ==
  ASSUME StoreType, Clocks, FilesOK, WrittenOK, NEW j \in Scans, OpenTmp(j)
  PROVE  WrittenOK'
  <1> DEFINE tmp == TmpOf(taken[j])
  <1>1. PICK f \in 0..MaxScans :
          /\ f = IF tmp \in DOMAIN files THEN files[tmp] ELSE j
          /\ files' \in [DOMAIN files \cup {tmp} -> 0..MaxScans] /\ files'[tmp] = f
          /\ \A m \in DOMAIN files : m # tmp => files'[m] = files[m]
          /\ data'[f] = [by |-> j, len |-> 0]
          /\ \A g \in 0..MaxScans : g # f => data'[g] = data[g]
          /\ saver[j].at = "open"
          /\ saver'[j].at = "write" /\ saver'[j].file = f
          /\ \A i \in Scans : i # j => saver'[i] = saver[i]
          /\ taken' = taken
    BY OpenTmpStep
  <1>2. taken[j] \in Nat /\ taken[j] # 0 /\ tmp[1] = taken[j] /\ tmp[2] = "tmp"
    BY <1>1, NamesOf DEF Clocks, StoreType
  <1> HIDE DEF tmp
  <1>3. f \in Scans /\ taken[f] = taken[j] /\ f # 0
    BY <1>1, <1>2, Constants DEF FilesOK
  <1>4. \A i \in Scans : Alone(i)' <=> Alone(i)
    BY <1>1 DEF Alone
  <1>5. \A i \in Scans : (Alone(i) /\ i # j) => data'[i] = data[i]
    BY <1>1, <1>3, Constants DEF Alone
  <1>6. data'[0] = [by |-> 0, len |-> Bytes[0]]
    BY <1>1, <1>3, Constants DEF WrittenOK
  <1>7. ASSUME NEW g \in Scans, data'[g].by # g
        PROVE  /\ data'[g].by \in Scans /\ taken[g] # 0
               /\ taken[data'[g].by] = taken[g]
    <2>1. CASE g = f
      <3>1. data'[g].by = j
        BY <1>1, <2>1
      <3> QED BY <1>2, <1>3, <2>1, <3>1
    <2>2. CASE g # f
      <3>1. data'[g] = data[g]
        BY <1>1, <2>2, Constants
      <3> QED BY <1>7, <3>1 DEF WrittenOK
    <2> QED BY <2>1, <2>2
  <1>8. ASSUME NEW i \in Scans, saver'[i].at \in {"write", "rename"}
        PROVE  /\ saver'[i].file \in Scans /\ taken[saver'[i].file] = taken[i]
               /\ (Alone(i) /\ saver'[i].at = "write") => data'[i] = [by |-> i, len |-> 0]
               /\ (Alone(i) /\ saver'[i].at = "rename") => data'[i] = [by |-> i, len |-> Bytes[i]]
    <2>1. CASE i = j
      BY <1>1, <1>3, <2>1 DEF Alone
    <2>2. CASE i # j
      BY <1>1, <1>5, <1>8, <2>2 DEF WrittenOK
    <2> QED BY <2>1, <2>2
  <1>9. ASSUME NEW n \in DOMAIN files', NEW g \in Scans, n[2] = "dgs", files'[n] = g, Alone(g)
        PROVE  data'[g] = [by |-> g, len |-> Bytes[g]]
    <2>1. n \in DOMAIN files /\ n # tmp /\ files'[n] = files[n]
      BY <1>1, <1>2, <1>9
    <2>2. g # j
      BY <1>1, <1>9, <2>1 DEF FilesOK
    <2> QED BY <1>5, <1>9, <2>1, <2>2 DEF WrittenOK
  <1> QED BY <1>1, <1>4, <1>6, <1>7, <1>8, <1>9 DEF WrittenOK

LEMMA WriteTmpWrites ==
  ASSUME StoreType, Clocks, FilesOK, WrittenOK, NEW j \in Scans, WriteTmp(j)
  PROVE  WrittenOK'
  <1> DEFINE f == saver[j].file
  <1>1. /\ f \in 0..MaxScans
        /\ data'[f].by = j
        /\ data[f].len = 0 => data'[f].len = Bytes[j]
        /\ \A g \in 0..MaxScans : g # f => data'[g] = data[g]
        /\ saver[j].at = "write"
        /\ saver'[j].at = "rename" /\ saver'[j].file = f
        /\ \A i \in Scans : i # j => saver'[i] = saver[i]
        /\ taken' = taken /\ files' = files
    BY WriteTmpStep
  <1>2. f \in Scans /\ taken[f] = taken[j] /\ f # 0 /\ taken[j] # 0
    BY <1>1, Constants DEF WrittenOK, Clocks
  <1>3. Alone(j) => f = j /\ data[j] = [by |-> j, len |-> 0]
    BY <1>1, <1>2 DEF Alone, WrittenOK
  <1>4. Alone(j) => data'[j] = [by |-> j, len |-> Bytes[j]]
    <2>1. data'[f] \in DataSet
      BY <1>1, WriteTmpStep DEF StoreType
    <2> HIDE DEF f
    <2>2. Alone(j) => data'[j].by = j /\ data'[j].len = Bytes[j]
      BY <1>1, <1>3
    <2> QED BY <1>3, <2>1, <2>2 DEF DataSet
  <1> HIDE DEF f
  <1>5. \A i \in Scans : Alone(i)' <=> Alone(i)
    BY <1>1 DEF Alone
  <1>6. \A i \in Scans : (Alone(i) /\ i # j) => data'[i] = data[i]
    BY <1>1, <1>2, Constants DEF Alone
  <1>7. data'[0] = [by |-> 0, len |-> Bytes[0]]
    BY <1>1, <1>2, Constants DEF WrittenOK
  <1>8. ASSUME NEW g \in Scans, data'[g].by # g
        PROVE  /\ data'[g].by \in Scans /\ taken[g] # 0
               /\ taken[data'[g].by] = taken[g]
    <2>1. CASE g = f
      BY <1>1, <1>2, <2>1
    <2>2. CASE g # f
      <3>1. data'[g] = data[g]
        BY <1>1, <2>2, Constants
      <3> QED BY <1>8, <3>1 DEF WrittenOK
    <2> QED BY <2>1, <2>2
  <1>9. ASSUME NEW i \in Scans, saver'[i].at \in {"write", "rename"}
        PROVE  /\ saver'[i].file \in Scans /\ taken[saver'[i].file] = taken[i]
               /\ (Alone(i) /\ saver'[i].at = "write") => data'[i] = [by |-> i, len |-> 0]
               /\ (Alone(i) /\ saver'[i].at = "rename") => data'[i] = [by |-> i, len |-> Bytes[i]]
    <2>1. CASE i = j
      BY <1>1, <1>2, <1>4, <2>1
    <2>2. CASE i # j
      BY <1>1, <1>6, <1>9, <2>2 DEF WrittenOK
    <2> QED BY <2>1, <2>2
  <1>10. ASSUME NEW n \in DOMAIN files, NEW g \in Scans, n[2] = "dgs", files[n] = g, Alone(g)
         PROVE  data'[g] = [by |-> g, len |-> Bytes[g]]
    BY <1>4, <1>6, <1>10 DEF WrittenOK
  <1> QED BY <1>1, <1>5, <1>7, <1>8, <1>9, <1>10 DEF WrittenOK

LEMMA RenameTmpWrites ==
  ASSUME StoreType, Clocks, FilesOK, WrittenOK, NEW j \in Scans, RenameTmp(j)
  PROVE  WrittenOK'
  <1> DEFINE tmp == TmpOf(taken[j])
             target == Target(taken[j])
             rest == DOMAIN files \ {tmp}
  <1>1. /\ tmp \in DOMAIN files
        /\ files' \in [rest \cup {target} -> 0..MaxScans] /\ files'[target] = files[tmp]
        /\ \A m \in rest : m # target => files'[m] = files[m]
        /\ saver[j].at = "rename" /\ saver'[j].at = "clear"
        /\ \A i \in Scans : i # j => saver'[i] = saver[i]
        /\ taken' = taken /\ data' = data
    BY RenameTmpStep
  <1>2. /\ taken[j] \in Nat /\ taken[j] # 0 /\ tmp[1] = taken[j] /\ tmp[2] = "tmp"
        /\ target[1] = taken[j] /\ target[2] = "dgs"
    BY <1>1, NamesOf DEF Clocks, StoreType
  <1> HIDE DEF tmp, target
  <1>3. files[tmp] \in Scans /\ taken[files[tmp]] = taken[j]
    BY <1>1, <1>2 DEF FilesOK
  <1>4. \A i \in Scans : Alone(i)' <=> Alone(i)
    BY <1>1 DEF Alone
  <1>5. Alone(files[tmp]) => data[files[tmp]] = [by |-> files[tmp], len |-> Bytes[files[tmp]]]
    BY <1>1, <1>3 DEF Alone, WrittenOK
  <1>6. \A n \in DOMAIN files' : \A g \in Scans :
          (n[2] = "dgs" /\ files'[n] = g /\ Alone(g)) => data[g] = [by |-> g, len |-> Bytes[g]]
    BY <1>1, <1>5 DEF WrittenOK
  <1>8. \A i \in Scans : saver'[i].at \in {"write", "rename"} => saver'[i] = saver[i]
    BY <1>1
  <1> QED BY <1>1, <1>4, <1>6, <1>8 DEF WrittenOK

LEMMA WrittenStep ==
  ASSUME StoreType, Clocks, FilesOK, WrittenOK, Next
  PROVE  WrittenOK'
  <1> DEFINE Same == /\ DOMAIN files' \subseteq DOMAIN files
                     /\ \A n \in DOMAIN files' : files'[n] = files[n]
                     /\ data' = data
                     /\ \A i \in Scans : saver'[i].at \in {"write", "rename"} =>
                          saver'[i].at = saver[i].at /\ saver'[i].file = saver[i].file
  <1>1. Same => WrittenOK'
    BY TakenStays, WrittenFrame
  <1>2. CASE Tick
    BY <1>1, <1>2, TickStep
  <1>3. CASE Crash
    BY <1>1, <1>3, CrashStep DEF NoSaver
  <1>4. ASSUME NEW j \in Scans, StartScan(j) PROVE Same
    BY <1>4, StartScanStep
  <1>5. ASSUME NEW j \in Scans, EndScan(j) PROVE Same
    BY <1>5, EndScanStep
  <1>6. ASSUME NEW j \in Scans, Capture(j) PROVE Same
    BY <1>6, CaptureStep
  <1>7. ASSUME NEW j \in Scans, SaveFails(j) PROVE Same
    BY <1>7, SaveFailsStep DEF NoSaver
  <1>8. ASSUME NEW j \in Scans, ListStore(j) PROVE Same
    BY <1>8, ListStoreStep
  <1>9. ASSUME NEW j \in Scans, DropOld(j) PROVE Same
    <2>1. PICK n : /\ saver'[j].at = saver[j].at /\ saver'[j].file = saver[j].file
                   /\ \A i \in Scans : i # j => saver'[i] = saver[i]
                   /\ data' = data
                   /\ \/ files' = files
                      \/ /\ files' \in [DOMAIN files \ {n} -> 0..MaxScans]
                         /\ \A m \in DOMAIN files \ {n} : files'[m] = files[m]
      BY <1>9, DropOldStep
    <2>2. DOMAIN files' \subseteq DOMAIN files /\ \A m \in DOMAIN files' : files'[m] = files[m]
      BY <2>1
    <2> QED BY <2>1, <2>2
  <1>10. ASSUME NEW j \in Scans, ListHistory(j) PROVE Same
    BY <1>10, ListHistoryStep
  <1>11. ASSUME NEW j \in Scans, ShowChanges(j) PROVE Same
    BY <1>11, ShowChangesStep
  <1>12. ASSUME NEW j \in Scans, FindAsked(j) PROVE Same
    BY <1>12, FindAskedStep
  <1>13. ASSUME NEW j \in Scans, LoadAsked(j) PROVE Same
    BY <1>13, LoadAskedStep
  <1>14. ASSUME NEW j \in Scans, DiffAsked(j) PROVE Same
    BY <1>14, DiffAskedStep
  <1>15. ASSUME NEW j \in Scans, DeleteSnapshot(j) PROVE Same
    <2>1. PICK S \in SUBSET DOMAIN files : /\ files' \in [S -> 0..MaxScans]
                                           /\ \A m \in S : files'[m] = files[m]
                                           /\ saver' = saver /\ data' = data
      BY <1>15, DeleteSnapshotStep
    <2> QED BY <2>1
  <1> HIDE DEF Same
  <1> QED BY <1>1, <1>2, <1>3, <1>4, <1>5, <1>6, <1>7, <1>8, <1>9, <1>10, <1>11, <1>12, <1>13,
            <1>14, <1>15, OpenTmpWrites, WriteTmpWrites, RenameTmpWrites DEF Next


-----------------------------------------------------------------------------
(* A step keeps what is said of the snapshots that are gone. *)
LEMMA RoomStays ==
  ASSUME StoreType, IsFiniteSet(hist'.stored), hist.stored \subseteq hist'.stored,
         \A i \in Scans : scan[i].st # "none" => scan'[i].st # "none",
         NEW s \in Nat, MadeRoom(s)
  PROVE  MadeRoom(s)'
  <1>1. PICK j \in Scans : /\ scan[j].st # "none"
                           /\ Cardinality({t \in hist.stored : t > s}) >= Max({Keep[j], 1})
    BY DEF MadeRoom
  <1> DEFINE T == {t \in hist.stored : t > s}
             U == {t \in hist'.stored : t > s}
  <1>2. T \in SUBSET U /\ IsFiniteSet(U)
    BY FS_Subset
  <1>3. /\ Cardinality(T) <= Cardinality(U) /\ Cardinality(U) \in Nat
        /\ Cardinality(T) \in Nat
    <2> HIDE DEF T, U
    <2> QED BY <1>2, FS_Subset, FS_CardinalityType
  <1>4. Max({Keep[j], 1}) \in Nat
    BY Constants, MaxOfTwo
  <1>5. Cardinality(U) >= Max({Keep[j], 1})
    BY <1>1, <1>3, <1>4
  <1>6. scan'[j].st # "none"
    BY <1>1
  <1> QED BY <1>5, <1>6 DEF MadeRoom

(* The name of a stored snapshot follows from its second. *)
LEMMA StoredNames ==
  ASSUME StoreType, Clocks, FilesOK, NEW n \in Stored(DOMAIN files)
  PROVE  /\ n \in DOMAIN files /\ n \in Names /\ n[1] # 0
         /\ n[2] \in {"dgs", "json"} /\ (n[2] = "json" <=> n[1] = LegacyAt)
  <1>1. n \in DOMAIN files /\ n \in Names /\ n[2] \in {"dgs", "json"}
    BY DEF Stored, StoreType
  <1>2. CASE n[2] = "json"
    BY <1>1, <1>2 DEF FilesOK
  <1>3. CASE n[2] = "dgs"
    <2>1. files[n] \in Scans /\ taken[files[n]] = n[1] /\ n[1] # 0
      BY <1>1, <1>3 DEF FilesOK
    <2>2. \A i \in Scans : taken[i] \in Nat /\ scan[i].unix \in Nat /\ scan[i].st \in {"none", "running", "ended", "lost"}
      BY DEF StoreType, ScanSet
    <2>3. \A i \in Scans : taken[i] # 0 => LegacyAt < taken[i]
      BY <2>2, Constants DEF Clocks
    <2>4. n[1] # LegacyAt
      BY <2>1, <2>2, <2>3, Constants
    <2> QED BY <1>1, <1>3, <2>1, <2>4
  <1> QED BY <1>1, <1>2, <1>3

(* The stored snapshots newer than n are of as many seconds. *)
LEMMA SurplusMadeRoom ==
  ASSUME StoreType, Clocks, FilesOK, StaysOK, NEW j \in Scans, scan[j].st # "none",
         NEW n \in Surplus(DOMAIN files, Keep[j])
  PROVE  MadeRoom(n[1])
  <1> DEFINE M == {m \in Stored(DOMAIN files) : m[1] > n[1]}
             T == {t \in hist.stored : t > n[1]}
             f == [m \in M |-> m[1]]
  <1>1. Cardinality(M) >= Max({Keep[j], 1})
    BY DEF Surplus
  <1>2. IsFiniteSet(T)
    BY FS_Subset DEF StaysOK
  <1>3. \A m \in M : m[1] \in T
    BY DEF StaysOK, Seconds
  <1>4. \A m \in M : m \in Names /\ m[2] \in {"dgs", "json"} /\ (m[2] = "json" <=> m[1] = LegacyAt)
    BY StoredNames
  <1> USE DEF f
  <1>5. \A m, o \in M : f[m] = f[o] => m = o
    BY <1>4 DEF Names
  <1>6. f \in Injection(M, T)
    <2>1. f \in [M -> T]
      BY <1>3
    <2> HIDE DEF f, M, T
    <2> QED BY <1>5, <2>1 DEF Injection, IsInjective
  <1>7. IsFiniteSet(M) /\ Cardinality(M) <= Cardinality(T)
    <2> HIDE DEF f, M, T
    <2> QED BY <1>2, <1>6, FS_Injection
  <1>8. Cardinality(M) \in Nat /\ Cardinality(T) \in Nat /\ Max({Keep[j], 1}) \in Nat
    <2> HIDE DEF M, T
    <2> QED BY <1>2, <1>7, FS_CardinalityType, Constants, MaxOfTwo
  <1>9. Cardinality(T) >= Max({Keep[j], 1})
    BY <1>1, <1>7, <1>8
  <1> QED BY <1>9 DEF MadeRoom


LEMMA StaysStep ==
  ASSUME StoreType, Clocks, FilesOK, StaysOK, Next
  PROVE  StaysOK'
  <1> DEFINE Room == \A s \in Nat : MadeRoom(s) => MadeRoom(s)'

             Drops == \A i \in Scans : saver'[i].drop \subseteq saver[i].drop
             ScansStay == \A i \in Scans : scan[i].st # "none" => scan'[i].st # "none"
             Same == ScansStay /\ Drops /\ files' = files
                     /\ hist'.stored = hist.stored /\ hist'.deleted = hist.deleted
  <1>1. /\ hist.stored \in SUBSET Nat
        /\ \A i \in Scans : \A n \in saver[i].drop : n[1] \in Nat
    BY DEF StoreType, HistSet, SaverSet, Names
  <1>2. ASSUME ScansStay, IsFiniteSet(hist'.stored), hist.stored \subseteq hist'.stored
        PROVE  Room
    BY <1>2, RoomStays
  <1>3. Same => StaysOK'
    <2> HAVE Same
    <2>1. Room
      BY <1>2 DEF StaysOK
    <2> HIDE DEF Room
    <2>2. \A i \in Scans : \A n \in saver'[i].drop : MadeRoom(n[1])'
      BY <1>1, <2>1 DEF StaysOK, Room
    <2>3. \A s \in hist'.stored : s \in hist'.deleted \/ s \in Seconds(DOMAIN files') \/ MadeRoom(s)'
      BY <1>1, <2>1 DEF StaysOK, Room
    <2> QED BY <2>2, <2>3 DEF StaysOK
  <1>4. ASSUME NEW j \in Scans, OpenTmp(j) PROVE StaysOK'
    <2> DEFINE tmp == TmpOf(taken[j])
    <2>1. /\ DOMAIN files' = DOMAIN files \cup {tmp}
          /\ hist' = hist /\ scan' = scan
          /\ saver'[j].drop = saver[j].drop
          /\ \A i \in Scans : i # j => saver'[i] = saver[i]
      BY <1>4, OpenTmpStep
    <2>2. tmp[2] = "tmp"
      BY NamesOf DEF StoreType
    <2>3. Seconds(DOMAIN files') = Seconds(DOMAIN files)
      <3> HIDE DEF tmp
      <3>1. Stored(DOMAIN files') = Stored(DOMAIN files)
        BY <2>1, <2>2 DEF Stored
      <3> QED BY <3>1 DEF Seconds
    <2>4. \A s : MadeRoom(s)' <=> MadeRoom(s)
      BY <2>1 DEF MadeRoom
    <2>5. \A i \in Scans : saver'[i].drop = saver[i].drop
      BY <2>1
    <2> QED BY <2>1, <2>3, <2>4, <2>5 DEF StaysOK
  <1>5. ASSUME NEW j \in Scans, RenameTmp(j) PROVE StaysOK'
    <2> DEFINE tmp == TmpOf(taken[j])
               target == Target(taken[j])
               rest == DOMAIN files \ {tmp}
    <2>1. /\ DOMAIN files' = rest \cup {target}
          /\ hist'.stored = hist.stored \cup {taken[j]} /\ hist'.deleted = hist.deleted
          /\ scan' = scan
          /\ saver'[j].drop = {}
          /\ \A i \in Scans : i # j => saver'[i] = saver[i]
      BY <1>5, RenameTmpStep
    <2>2. tmp[2] = "tmp" /\ target[1] = taken[j] /\ target[2] = "dgs"
      BY NamesOf DEF StoreType
    <2> HIDE DEF tmp, target
    <2>3. Seconds(DOMAIN files') = Seconds(DOMAIN files) \cup {taken[j]}
      <3>1. Stored(DOMAIN files') = Stored(DOMAIN files) \cup {target}
        BY <2>1, <2>2 DEF Stored
      <3> QED BY <2>2, <3>1 DEF Seconds
    <2>4. IsFiniteSet(hist'.stored)
      BY <2>1, FS_AddElement DEF StaysOK
    <2>5. Room
      BY <1>2, <2>1, <2>4
    <2> HIDE DEF Room
    <2>6. \A i \in Scans : \A n \in saver'[i].drop : MadeRoom(n[1])'
      BY <1>1, <2>1, <2>5 DEF StaysOK, Room
    <2>7. \A s \in hist'.stored : s \in hist'.deleted \/ s \in Seconds(DOMAIN files') \/ MadeRoom(s)'
      BY <1>1, <2>1, <2>3, <2>5 DEF StaysOK, Room
    <2> QED BY <2>1, <2>3, <2>4, <2>6, <2>7 DEF StaysOK
  <1>6. ASSUME NEW j \in Scans, ListStore(j) PROVE StaysOK'
    <2>1. /\ files' = files /\ hist'.stored = hist.stored /\ hist'.deleted = hist.deleted
          /\ scan' = scan /\ saver[j].at = "clear"
          /\ saver'[j].drop = Surplus(DOMAIN files, Keep[j])
          /\ \A i \in Scans : i # j => saver'[i] = saver[i]
      BY <1>6, ListStoreStep
    <2>2. scan[j].st # "none"
      BY <2>1 DEF Clocks, NoSaver
    <2>3. \A n \in Surplus(DOMAIN files, Keep[j]) : MadeRoom(n[1])
      BY <2>2, SurplusMadeRoom
    <2>4. \A s : MadeRoom(s)' <=> MadeRoom(s)
      BY <2>1 DEF MadeRoom
    <2>5. \A i \in Scans : \A n \in saver'[i].drop : MadeRoom(n[1])'
      BY <2>1, <2>3, <2>4 DEF StaysOK
    <2> QED BY <2>1, <2>4, <2>5 DEF StaysOK
  <1>7. ASSUME NEW j \in Scans, DropOld(j) PROVE StaysOK'
    <2>1. PICK n \in saver[j].drop :
            /\ saver'[j].drop \subseteq saver[j].drop
            /\ \A i \in Scans : i # j => saver'[i] = saver[i]
            /\ hist'.stored = hist.stored /\ hist'.deleted = hist.deleted
            /\ files' = files \/ DOMAIN files' = DOMAIN files \ {n}
            /\ scan' = scan
      BY <1>7, DropOldStep
    <2>2. MadeRoom(n[1])
      BY DEF StaysOK
    <2>3. \A s : MadeRoom(s)' <=> MadeRoom(s)
      BY <2>1 DEF MadeRoom
    <2>4. /\ Seconds(DOMAIN files') \subseteq Seconds(DOMAIN files)
          /\ \A s \in Seconds(DOMAIN files) : s \in Seconds(DOMAIN files') \/ s = n[1]
      <3>1. /\ Stored(DOMAIN files') \subseteq Stored(DOMAIN files)
            /\ \A m \in Stored(DOMAIN files) : m \in Stored(DOMAIN files') \/ m = n
        BY <2>1 DEF Stored
      <3> QED BY <3>1 DEF Seconds
    <2>5. \A s \in hist'.stored : s \in hist'.deleted \/ s \in Seconds(DOMAIN files') \/ MadeRoom(s)'
      BY <2>1, <2>2, <2>3, <2>4 DEF StaysOK
    <2>6. \A i \in Scans : \A m \in saver'[i].drop : MadeRoom(m[1])'
      BY <2>1, <2>3 DEF StaysOK
    <2> QED BY <2>1, <2>4, <2>5, <2>6 DEF StaysOK
  <1>8. ASSUME NEW j \in Scans, DeleteSnapshot(j) PROVE StaysOK'
    <2>1. PICK s \in comp[j].history : \E S \in SUBSET DOMAIN files :
            /\ S = {n \in DOMAIN files : n \notin Stored(DOMAIN files) \/ n[1] # s}
            /\ files' \in [S -> 0..MaxScans]
            /\ hist'.stored = hist.stored /\ hist'.deleted = hist.deleted \cup {s}
            /\ scan' = scan /\ saver' = saver
      BY <1>8, DeleteSnapshotStep
    <2>2. DOMAIN files' = {n \in DOMAIN files : n \notin Stored(DOMAIN files) \/ n[1] # s}
      BY <2>1
    <2>3. \A t : MadeRoom(t)' <=> MadeRoom(t)
      BY <2>1 DEF MadeRoom
    <2>4. Seconds(DOMAIN files') = Seconds(DOMAIN files) \ {s}
      <3>1. Stored(DOMAIN files') = {n \in Stored(DOMAIN files) : n[1] # s}
        BY <2>2 DEF Stored
      <3> QED BY <3>1 DEF Seconds
    <2> QED BY <2>1, <2>3, <2>4 DEF StaysOK
  <1>9. CASE Tick
    BY <1>3, <1>9, TickStep
  <1>10. CASE Crash
    BY <1>3, <1>10, CrashStep DEF NoSaver
  <1>11. ASSUME NEW j \in Scans, StartScan(j) PROVE Same
    BY <1>11, StartScanStep
  <1>12. ASSUME NEW j \in Scans, EndScan(j) PROVE Same
    BY <1>12, EndScanStep
  <1>13. ASSUME NEW j \in Scans, Capture(j) PROVE Same
    BY <1>13, CaptureStep
  <1>14. ASSUME NEW j \in Scans, WriteTmp(j) PROVE Same
    BY <1>14, WriteTmpStep
  <1>15. ASSUME NEW j \in Scans, SaveFails(j) PROVE Same
    BY <1>15, SaveFailsStep DEF NoSaver
  <1>16. ASSUME NEW j \in Scans, ListHistory(j) PROVE Same
    BY <1>16, ListHistoryStep
  <1>17. ASSUME NEW j \in Scans, ShowChanges(j) PROVE Same
    BY <1>17, ShowChangesStep
  <1>18. ASSUME NEW j \in Scans, FindAsked(j) PROVE Same
    BY <1>18, FindAskedStep
  <1>19. ASSUME NEW j \in Scans, LoadAsked(j) PROVE Same
    BY <1>19, LoadAskedStep
  <1>20. ASSUME NEW j \in Scans, DiffAsked(j) PROVE Same
    BY <1>20, DiffAskedStep
  <1> HIDE DEF Same
  <1> QED BY <1>3, <1>4, <1>5, <1>6, <1>7, <1>8, <1>9, <1>10, <1>11, <1>12, <1>13, <1>14, <1>15,
            <1>16, <1>17, <1>18, <1>19, <1>20 DEF Next


-----------------------------------------------------------------------------
(* A step keeps what is said of the comparisons: of one that is as it was  *)
(* before the step, and of the one that takes the step.                    *)
LEMMA ComparedFrame ==
  ASSUME StoreType, Clocks, NEW j \in Scans, NEW c \in CompSet, ComparedOf(j, c),
         hist.stored \subseteq hist'.stored, hist.deleted \subseteq hist'.deleted,
         scan'[j].unix = scan[j].unix,
         \A i \in Scans : taken[i] # 0 => taken'[i] = taken[i],
         \A s \in Nat : MadeRoom(s) => MadeRoom(s)'
  PROVE  ComparedOf(j, c)'
  <1>1. c.asked \in Nat /\ c.from \in 0..MaxScans
    BY DEF CompSet
  <1>2. c.from = 0 \/ c.from \in Scans
    BY <1>1, Constants
  <1>3. c.history \subseteq hist'.stored
    BY DEF ComparedOf
  <1>4. c.st \in {"find", "load", "diff", "done", "gone", "corrupt"} =>
          c.asked \in hist'.stored /\ c.asked < scan'[j].unix
    BY DEF ComparedOf
  <1>5. c.st \in {"diff", "done"} => IF c.from = 0 THEN c.asked = LegacyAt
                                     ELSE c.asked # 0 /\ taken'[c.from] = c.asked
    BY <1>2 DEF ComparedOf
  <1>6. c.st = "gone" => c.asked \in hist'.deleted \/ MadeRoom(c.asked)'
    BY <1>1 DEF ComparedOf
  <1>7. c.st = "corrupt" =>
          c.asked # 0 /\ \E i, k \in Scans : i # k /\ taken'[i] = c.asked /\ taken'[k] = c.asked
    BY DEF ComparedOf
  <1>8. c.st = "load" => /\ c.name[1] = c.asked /\ c.name[2] \in {"dgs", "json"}
                         /\ c.name[2] = "json" <=> c.asked = LegacyAt
    BY DEF ComparedOf
  <1> QED BY <1>3, <1>4, <1>5, <1>6, <1>7, <1>8 DEF ComparedOf

(* What was deleted or stored only grows. *)
LEMMA HistoryGrows ==
  ASSUME StoreType, StaysOK, Next
  PROVE  /\ hist.stored \subseteq hist'.stored /\ hist.deleted \subseteq hist'.deleted
         /\ IsFiniteSet(hist'.stored)
  <1> DEFINE Same == hist'.stored = hist.stored /\ hist'.deleted = hist.deleted
  <1>1. CASE Crash
    BY <1>1, CrashStep DEF StaysOK
  <1>2. ASSUME NEW j \in Scans, RenameTmp(j)
        PROVE  hist'.stored = hist.stored \cup {taken[j]} /\ hist'.deleted = hist.deleted
    BY <1>2, RenameTmpStep
  <1>3. ASSUME NEW j \in Scans, ListStore(j) PROVE Same
    BY <1>3, ListStoreStep
  <1>4. ASSUME NEW j \in Scans, DropOld(j) PROVE Same
    BY <1>4, DropOldStep
  <1>5. ASSUME NEW j \in Scans, DeleteSnapshot(j)
        PROVE  hist'.stored = hist.stored /\ hist.deleted \subseteq hist'.deleted
    BY <1>5, DeleteSnapshotStep
  <1>6. \/ hist' = hist \/ Crash
        \/ \E j \in Scans : RenameTmp(j) \/ ListStore(j) \/ DropOld(j) \/ DeleteSnapshot(j)
    BY DEF Next, Tick, StartScan, EndScan, Capture, OpenTmp, WriteTmp, SaveFails,
           ListHistory, ShowChanges, FindAsked, LoadAsked, DiffAsked
  <1>7. ASSUME NEW j \in Scans, RenameTmp(j) PROVE IsFiniteSet(hist'.stored)
    BY <1>2, <1>7, FS_AddElement DEF StaysOK
  <1> QED BY <1>1, <1>2, <1>3, <1>4, <1>5, <1>6, <1>7 DEF StaysOK

LEMMA UnixStays ==
  ASSUME StoreType, Next, NEW j \in Scans, scan[j].st # "none"
  PROVE  scan'[j].unix = scan[j].unix /\ scan'[j].st # "none"
  <1>1. CASE Crash
    BY <1>1, CrashStep
  <1>2. ASSUME NEW i \in Scans, StartScan(i)
        PROVE  scan'[j].unix = scan[j].unix /\ scan'[j].st # "none"
    BY <1>2, StartScanStep
  <1>3. ASSUME NEW i \in Scans, EndScan(i)
        PROVE  scan'[j].unix = scan[j].unix /\ scan'[j].st # "none"
    BY <1>3, EndScanStep
  <1>4. scan' = scan \/ Crash \/ \E i \in Scans : StartScan(i) \/ EndScan(i)
    BY DEF Next, Tick, Capture, OpenTmp, WriteTmp, RenameTmp, SaveFails, ListStore, DropOld,
           ListHistory, ShowChanges, FindAsked, LoadAsked, DiffAsked, DeleteSnapshot
  <1> QED BY <1>1, <1>2, <1>3, <1>4

(* The snapshot that was asked for is found under its one name. *)
LEMMA FoundCompares ==
  ASSUME StoreType, Clocks, FilesOK, StaysOK, ComparedOK, NEW j \in Scans, FindAsked(j)
  PROVE  ComparedOf(j, comp'[j])
  <1>1. /\ comp[j].st = "find"
        /\ comp'[j].history = comp[j].history /\ comp'[j].asked = comp[j].asked
        /\ \/ comp'[j].st = "gone" /\ comp[j].asked \notin Seconds(DOMAIN files)
           \/ /\ comp'[j].st = "load" /\ comp'[j].name \in Stored(DOMAIN files)
              /\ comp'[j].name[1] = comp[j].asked
    BY FindAskedStep
  <1>2. /\ comp[j].history \subseteq hist.stored
        /\ comp[j].asked \in hist.stored /\ comp[j].asked < scan[j].unix
    BY <1>1 DEF ComparedOK, ComparedOf
  <1>3. CASE comp'[j].st = "gone" /\ comp[j].asked \notin Seconds(DOMAIN files)
    BY <1>1, <1>2, <1>3 DEF ComparedOf, StaysOK
  <1>4. CASE /\ comp'[j].st = "load" /\ comp'[j].name \in Stored(DOMAIN files)
             /\ comp'[j].name[1] = comp[j].asked
    <2>1. /\ comp'[j].name[2] \in {"dgs", "json"}
          /\ comp'[j].name[2] = "json" <=> comp'[j].name[1] = LegacyAt
      BY <1>4, StoredNames
    <2> QED BY <1>1, <1>2, <1>4, <2>1 DEF ComparedOf
  <1> QED BY <1>1, <1>3, <1>4

(* What is read was written by a scan captured in its second, and is whole *)
(* where there was one such scan.                                          *)
LEMMA LoadedCompares ==
  ASSUME StoreType, Clocks, FilesOK, WrittenOK, StaysOK, ComparedOK, NEW j \in Scans, LoadAsked(j)
  PROVE  ComparedOf(j, comp'[j])
  <1> DEFINE n == comp[j].name
             s == comp[j].asked
  <1>1. /\ comp[j].st = "load"
        /\ comp'[j].history = comp[j].history /\ comp'[j].asked = s
        /\ \/ comp'[j].st = "gone" /\ n \notin DOMAIN files
           \/ comp'[j].st = "corrupt" /\ n \in DOMAIN files /\ ~IsWhole(data[files[n]])
           \/ comp'[j].st = "diff" /\ n \in DOMAIN files /\ comp'[j].from = data[files[n]].by
    BY LoadAskedStep
  <1>2. /\ comp[j].history \subseteq hist.stored
        /\ s \in hist.stored /\ s < scan[j].unix
        /\ n[1] = s /\ n[2] \in {"dgs", "json"} /\ (n[2] = "json" <=> s = LegacyAt)
    BY <1>1 DEF ComparedOK, ComparedOf
  <1>3. n \in DOMAIN files => n \in Stored(DOMAIN files)
    BY <1>2 DEF Stored
  <1>4. n \in Names
    <2>1. n \in Names \cup {NoName}
      BY DEF StoreType, CompSet
    <2> QED BY <1>2, <2>1 DEF NoName
  <1>5. \A m \in Stored(DOMAIN files) : m[1] = s => m = n
    BY <1>2, <1>4, StoredNames DEF Names
  <1> HIDE DEF n, s
  <1>6. ASSUME n \in DOMAIN files
        PROVE  \/ files[n] = 0 /\ s = LegacyAt /\ data[files[n]] = [by |-> 0, len |-> Bytes[0]]
               \/ files[n] \in Scans /\ taken[files[n]] = s /\ s # 0 /\ n[2] = "dgs"
    BY <1>2, <1>6 DEF FilesOK, WrittenOK
  <1>7. CASE comp'[j].st = "gone" /\ n \notin DOMAIN files
    <2>1. s \notin Seconds(DOMAIN files)
      BY <1>5, <1>7 DEF Seconds, Stored
    <2> QED BY <1>1, <1>2, <1>7, <2>1 DEF ComparedOf, StaysOK
  <1>8. CASE comp'[j].st = "corrupt" /\ n \in DOMAIN files /\ ~IsWhole(data[files[n]])
    <2>1. files[n] \in Scans /\ taken[files[n]] = s /\ s # 0 /\ n[2] = "dgs"
      BY <1>6, <1>8 DEF IsWhole
    <2>2. ASSUME Alone(files[n]) PROVE FALSE
      <3>1. PICK f \in Scans : f = files[n]
        BY <2>1
      <3>2. data[f] = [by |-> f, len |-> Bytes[f]]
        BY <1>8, <2>1, <2>2, <3>1 DEF WrittenOK
      <3>3. data[f].len = Bytes[data[f].by]
        BY <3>2
      <3> QED BY <1>8, <3>1, <3>3 DEF IsWhole
    <2>3. \E i \in Scans : i # files[n] /\ taken[i] = s
      BY <2>1, <2>2 DEF Alone
    <2> QED BY <1>1, <1>2, <1>8, <2>1, <2>3 DEF ComparedOf
  <1>9. CASE comp'[j].st = "diff" /\ n \in DOMAIN files /\ comp'[j].from = data[files[n]].by
    <2>1. IF comp'[j].from = 0 THEN s = LegacyAt ELSE s # 0 /\ taken[comp'[j].from] = s
      <3>1. CASE files[n] = 0 /\ s = LegacyAt /\ data[files[n]] = [by |-> 0, len |-> Bytes[0]]
        BY <1>9, <3>1
      <3>2. CASE files[n] \in Scans /\ taken[files[n]] = s /\ s # 0
        <4>1. data[files[n]].by \in Scans /\ taken[data[files[n]].by] = s
          BY <3>2 DEF WrittenOK
        <4> QED BY <1>9, <3>2, <4>1, Constants
      <3> QED BY <1>6, <1>9, <3>1, <3>2
    <2> QED BY <1>1, <1>2, <1>9, <2>1 DEF ComparedOf
  <1> QED BY <1>1, <1>7, <1>8, <1>9 DEF n, s


LEMMA ComparedStep ==
  ASSUME StoreType, Clocks, FilesOK, WrittenOK, StaysOK, ComparedOK, StoreType', Next
  PROVE  ComparedOK'
  <1>1. /\ hist.stored \subseteq hist'.stored /\ hist.deleted \subseteq hist'.deleted
        /\ IsFiniteSet(hist'.stored)
        /\ \A i \in Scans : taken[i] # 0 => taken'[i] = taken[i]
    BY HistoryGrows, TakenStays
  <1>2. \A i \in Scans : scan[i].st # "none" => scan'[i].unix = scan[i].unix /\ scan'[i].st # "none"
    BY UnixStays
  <1>3. \A s \in Nat : MadeRoom(s) => MadeRoom(s)'
    BY <1>1, <1>2, RoomStays
  <1> SUFFICES ASSUME NEW j \in Scans PROVE ComparedOf(j, comp[j])'
    BY DEF ComparedOK
  <1> DEFINE Goal == ComparedOf(j, comp[j])'
             Idle == {"none", "list", "relist", "listed"}
  <1>4. comp[j] \in CompSet /\ comp'[j] \in CompSet /\ ComparedOf(j, comp[j])
    BY DEF StoreType, ComparedOK
  <1>5. ASSUME NEW c \in CompSet, ComparedOf(j, c), scan[j].st # "none", comp'[j] = c PROVE Goal
    <2>1. ComparedOf(j, c)'
      BY <1>1, <1>2, <1>3, <1>5, ComparedFrame
    <2> QED BY <1>5, <2>1 DEF ComparedOf, MadeRoom
  <1>6. ASSUME comp'[j].st \in Idle, comp'[j].history \subseteq hist.stored PROVE Goal
    BY <1>1, <1>6 DEF ComparedOf
  <1>7. ASSUME comp'[j] = comp[j] PROVE Goal
    <2>1. CASE scan[j].st # "none"
      BY <1>4, <1>5, <1>7, <2>1
    <2>2. CASE scan[j].st = "none"
      <3>1. comp'[j].st = "none" /\ comp'[j].history \subseteq hist.stored
        BY <1>4, <1>7, <2>2 DEF Clocks, ComparedOf
      <3> QED BY <1>6, <3>1
    <2> QED BY <2>1, <2>2
  <1>8. ASSUME comp[j].st # "none", ComparedOf(j, comp'[j]) PROVE Goal
    <2>1. scan[j].st # "none"
      BY <1>8 DEF Clocks
    <2>2. PICK c \in CompSet : c = comp'[j]
      BY <1>4
    <2> QED BY <1>5, <1>8, <2>1, <2>2
  <1>9. comp[j].history \subseteq hist.stored
    BY <1>4 DEF ComparedOf
  <1>10. Seconds(DOMAIN files) \subseteq hist.stored
    BY DEF StaysOK
  <1> HIDE DEF Goal
  <1>11. ASSUME Crash PROVE Goal
    <2>1. comp'[j].st = "none" /\ comp'[j].history = {}
      BY <1>11, CrashStep DEF NoComp
    <2> QED BY <1>6, <2>1
  <1>12. ASSUME NEW i \in Scans, EndScan(i) PROVE Goal
    BY <1>6, <1>7, <1>9, <1>12, EndScanStep
  <1>13. ASSUME NEW i \in Scans, ListHistory(i) PROVE Goal
    <2>1. CASE i # j
      BY <1>7, <1>13, <2>1, ListHistoryStep
    <2>2. CASE i = j
      <3>1. /\ comp[j].st # "none"
            /\ comp'[j].history = Seconds(DOMAIN files)
            /\ \/ /\ comp'[j].st = "find" /\ comp'[j].asked \in Seconds(DOMAIN files)
                  /\ comp'[j].asked < scan[j].unix
               \/ comp'[j].st = "listed"
        BY <1>13, <2>2, ListHistoryStep
      <3>2. ComparedOf(j, comp'[j])
        BY <1>10, <3>1 DEF ComparedOf
      <3> QED BY <1>8, <3>1, <3>2
    <2> QED BY <2>1, <2>2
  <1>14. ASSUME NEW i \in Scans, ShowChanges(i) PROVE Goal
    <2>1. CASE i # j
      BY <1>7, <1>14, <2>1, ShowChangesStep
    <2>2. CASE i = j
      <3>1. /\ comp[j].st # "none"
            /\ comp'[j].history = comp[j].history
            /\ comp'[j].st = "find" /\ comp'[j].asked \in comp[j].history
            /\ comp'[j].asked < scan[j].unix
        BY <1>14, <2>2, ShowChangesStep
      <3>2. ComparedOf(j, comp'[j])
        BY <1>9, <3>1 DEF ComparedOf
      <3> QED BY <1>8, <3>1, <3>2
    <2> QED BY <2>1, <2>2
  <1>15. ASSUME NEW i \in Scans, FindAsked(i) PROVE Goal
    <2>1. CASE i # j
      BY <1>7, <1>15, <2>1, FindAskedStep
    <2>2. CASE i = j
      BY <1>8, <1>15, <2>2, FindAskedStep, FoundCompares
    <2> QED BY <2>1, <2>2
  <1>16. ASSUME NEW i \in Scans, LoadAsked(i) PROVE Goal
    <2>1. CASE i # j
      BY <1>7, <1>16, <2>1, LoadAskedStep
    <2>2. CASE i = j
      BY <1>8, <1>16, <2>2, LoadAskedStep, LoadedCompares
    <2> QED BY <2>1, <2>2
  <1>17. ASSUME NEW i \in Scans, DiffAsked(i) PROVE Goal
    <2>1. CASE i # j
      BY <1>7, <1>17, <2>1, DiffAskedStep
    <2>2. CASE i = j
      <3>1. /\ comp[j].st = "diff" /\ comp'[j].st = "done"
            /\ comp'[j].history = comp[j].history /\ comp'[j].asked = comp[j].asked
            /\ comp'[j].from = comp[j].from
        BY <1>17, <2>2, DiffAskedStep
      <3>2. ComparedOf(j, comp'[j])
        BY <1>4, <3>1 DEF ComparedOf
      <3> QED BY <1>8, <3>1, <3>2
    <2> QED BY <2>1, <2>2
  <1>18. ASSUME NEW i \in Scans, DeleteSnapshot(i) PROVE Goal
    <2>1. /\ comp'[i].st = "relist" /\ comp'[i].history = {}
          /\ \A k \in Scans : k # i => comp'[k] = comp[k]
      BY <1>18, DeleteSnapshotStep
    <2> QED BY <1>6, <1>7, <2>1
  <1>19. \/ comp' = comp \/ Crash
         \/ \E i \in Scans : \/ EndScan(i) \/ ListHistory(i) \/ ShowChanges(i) \/ FindAsked(i)
                             \/ LoadAsked(i) \/ DiffAsked(i) \/ DeleteSnapshot(i)
    BY DEF Next, Tick, StartScan, Capture, OpenTmp, WriteTmp, RenameTmp, SaveFails,
           ListStore, DropOld
  <1>20. Goal
    <2>1. CASE comp' = comp
      BY <1>7, <2>1
    <2>2. CASE \E i \in Scans : \/ EndScan(i) \/ ListHistory(i) \/ ShowChanges(i) \/ FindAsked(i)
                                \/ LoadAsked(i) \/ DiffAsked(i) \/ DeleteSnapshot(i)
      BY <1>12, <1>13, <1>14, <1>15, <1>16, <1>17, <1>18, <2>2
    <2> QED BY <1>11, <1>19, <2>1, <2>2
  <1> QED BY <1>20 DEF Goal

(* Each step kept the types. *)
LEMMA TypeStep ==
  ASSUME StoreType, Next
  PROVE  StoreType'
  BY TickStep, CrashStep, StartScanStep, EndScanStep, CaptureStep, OpenTmpStep, WriteTmpStep,
     RenameTmpStep, SaveFailsStep, ListStoreStep, DropOldStep, ListHistoryStep, ShowChangesStep,
     FindAskedStep, LoadAskedStep, DiffAskedStep, DeleteSnapshotStep DEF Next

-----------------------------------------------------------------------------
(* StoreInv holds of every state a run can be in: the folder, the threads  *)
(* that save and the comparisons are as it says, through crashes too       *)
(* (Snapshot::save, store_snapshot, diff_since).                           *)
THEOREM StoreInvariant == Spec => []StoreInv
  <1>1. StoreInv /\ [Next]_vars => StoreInv'
    <2> SUFFICES ASSUME StoreInv, [Next]_vars PROVE StoreInv'
      OBVIOUS
    <2>1. CASE Next
      BY <2>1, TypeStep, ClocksStep, FilesStep, WrittenStep, StaysStep, ComparedStep DEF StoreInv
    <2>2. CASE UNCHANGED vars
      <3>1. StoreType' /\ Clocks'
        BY <2>2 DEF vars, StoreInv, StoreType, Clocks
      <3>2. FilesOK' /\ WrittenOK'
        BY <2>2 DEF vars, StoreInv, FilesOK, WrittenOK, Alone
      <3>3. StaysOK'
        BY <2>2 DEF vars, StoreInv, StaysOK, MadeRoom
      <3>4. ComparedOK'
        BY <2>2 DEF vars, StoreInv, ComparedOK, ComparedOf, MadeRoom
      <3> QED BY <3>1, <3>2, <3>3, <3>4 DEF StoreInv
    <2> QED BY <2>1, <2>2
  <1> QED BY <1>1, InitInv, PTL DEF Spec

(* A snapshot that was stored is there until the user deletes it or as     *)
(* many newer ones were stored as one of the scans keeps, however the      *)
(* threads of several scans save and clear the folder (store_snapshot).    *)
THEOREM StoredStay == Spec => []NewestStay
  <1>1. StoreInv => NewestStay
    BY DEF StoreInv, StaysOK, MadeRoom, NewestStay
  <1> QED BY <1>1, StoreInvariant, PTL

(* What is in the folder under the name of a snapshot is whole, at any     *)
(* moment and after any crash, and is the one of its second, where one     *)
(* scan alone was captured in that second (Snapshot::save).                *)
THEOREM StoredAreWhole == Spec => []WholeSnapshots
  <1>1. StoreInv => WholeSnapshots
    <2> SUFFICES ASSUME StoreInv, NEW n \in Stored(DOMAIN files), Cardinality(TakenIn(n[1])) <= 1
                 PROVE  IsWhole(data[files[n]]) /\ TakenIn(n[1]) \subseteq {data[files[n]].by}
      BY DEF WholeSnapshots
    <2> USE DEF StoreInv
    <2>1. n \in DOMAIN files /\ n[1] # 0 /\ n[2] \in {"dgs", "json"} /\ (n[2] = "json" <=> n[1] = LegacyAt)
      BY StoredNames
    <2>2. IsFiniteSet(TakenIn(n[1]))
      BY Constants, FS_Subset DEF TakenIn
    <2>3. CASE n[2] = "json"
      <3>1. files[n] = 0 /\ data[0] = [by |-> 0, len |-> Bytes[0]]
        BY <2>1, <2>3 DEF FilesOK, WrittenOK
      <3>2. \A i \in Scans : taken[i] \in Nat /\ scan[i].unix \in Nat
        BY DEF StoreType, ScanSet
      <3>3. \A i \in Scans : taken[i] # n[1]
        BY <2>1, <2>3, <3>2, Constants DEF Clocks
      <3> QED BY <3>1, <3>3 DEF IsWhole, TakenIn
    <2>4. CASE n[2] = "dgs"
      <3>1. PICK f \in Scans : files[n] = f /\ taken[f] = n[1]
        BY <2>1, <2>4 DEF FilesOK
      <3>2. TakenIn(n[1]) = {f}
        <4>1. {f} \in SUBSET TakenIn(n[1])
          BY <3>1 DEF TakenIn
        <4>2. Cardinality({f}) = 1 /\ Cardinality({f}) <= Cardinality(TakenIn(n[1]))
          BY <2>2, <4>1, FS_Singleton, FS_Subset
        <4>3. Cardinality({f}) = Cardinality(TakenIn(n[1]))
          BY <2>2, <4>2, FS_CardinalityType
        <4> QED BY <2>2, <4>1, <4>3, FS_Subset
      <3>3. Alone(f)
        BY <3>1, <3>2 DEF Alone, TakenIn
      <3>4. data[f] = [by |-> f, len |-> Bytes[f]]
        BY <2>1, <2>4, <3>1, <3>3 DEF WrittenOK
      <3> QED BY <3>1, <3>2, <3>4 DEF IsWhole
    <2> QED BY <2>1, <2>3, <2>4
  <1> QED BY <1>1, StoreInvariant, PTL

(* A comparison is with the snapshot that was asked for, of another scan   *)
(* captured before this one began; it fails only where that one was        *)
(* deleted, made room, or shared its second (diff_since, Snapshot::load).  *)
THEOREM ComparedAsAsked == Spec => []ComparesAsked
  <1>1. StoreInv => ComparesAsked
    <2> SUFFICES ASSUME StoreInv, NEW j \in Scans
                 PROVE  LET c == comp[j] IN
                        /\ c.st \in {"diff", "done"} =>
                             /\ c.asked < scan[j].unix /\ c.from # j
                             /\ c.asked = IF c.from = 0 THEN LegacyAt ELSE taken[c.from]
                        /\ c.st = "gone" => c.asked \in hist.deleted \/ MadeRoom(c.asked)
                        /\ c.st = "corrupt" => Cardinality(TakenIn(c.asked)) > 1
      BY DEF ComparesAsked, MadeRoom
    <2> USE DEF StoreInv
    <2> DEFINE c == comp[j]
    <2>1. ComparedOf(j, c)
      BY DEF ComparedOK
    <2>2. c.asked \in Nat /\ scan[j].unix \in Nat /\ taken[j] \in Nat /\ j # 0
      BY Constants DEF StoreType, CompSet, ScanSet
    <2> HIDE DEF c
    <2>3. ASSUME c.st \in {"diff", "done"}
          PROVE  /\ c.asked < scan[j].unix /\ c.from # j
                 /\ c.asked = IF c.from = 0 THEN LegacyAt ELSE taken[c.from]
      <3>1. c.asked < scan[j].unix
        BY <2>1, <2>3 DEF ComparedOf
      <3>2. c.asked = IF c.from = 0 THEN LegacyAt ELSE taken[c.from]
        BY <2>1, <2>3 DEF ComparedOf
      <3>3. c.from = j => taken[j] # 0 /\ taken[j] < scan[j].unix
        BY <2>1, <2>2, <2>3, <3>1 DEF ComparedOf
      <3> QED BY <2>2, <3>1, <3>2, <3>3 DEF Clocks
    <2>4. ASSUME c.st = "corrupt" PROVE Cardinality(TakenIn(c.asked)) > 1
      <3>1. PICK i, k \in Scans : i # k /\ taken[i] = c.asked /\ taken[k] = c.asked
        BY <2>1, <2>4 DEF ComparedOf
      <3>2. IsFiniteSet(TakenIn(c.asked)) /\ {i, k} \in SUBSET TakenIn(c.asked)
        BY <3>1, Constants, FS_Subset DEF TakenIn
      <3>3. IsFiniteSet({i}) /\ Cardinality({i}) = 1 /\ {i, k} = {i} \cup {k} /\ k \notin {i}
        BY <3>1, FS_Singleton
      <3>4. Cardinality({i, k}) = 2
        BY <3>3, FS_AddElement
      <3> QED BY <3>2, <3>4, FS_Subset, FS_CardinalityType
    <2>5. c.st = "gone" => c.asked \in hist.deleted \/ MadeRoom(c.asked)
      BY <2>1 DEF ComparedOf
    <2> QED BY <2>3, <2>4, <2>5 DEF c
  <1> QED BY <1>1, StoreInvariant, PTL

-----------------------------------------------------------------------------
(* What is stored and not going to be removed by a thread that has listed  *)
(* the folder.                                                             *)
Left == {n \in Stored(DOMAIN files) : \A j \in Scans : n \notin saver[j].drop}

(* A thread drops nothing before it has listed; and when every thread that *)
(* stored a snapshot has listed, what is left is no more than may be kept. *)
BoundedOK ==
  /\ \A j \in Scans : saver[j].at # "idle" => saver[j].drop = {}
  /\ (~hist.messy /\ \A j \in Scans : saver[j].at # "clear") => Cardinality(Left) <= hist.keep

(* The files that are kept have fewer than k newer ones each: no two of    *)
(* them equally many, as no two are of one second.                         *)
LEMMA KeptAreFew ==
  ASSUME NEW S, IsFiniteSet(S), NEW k \in Nat,
         \A n \in S : n[1] \in Nat,
         \A n, m \in S : n[1] = m[1] => n = m
  PROVE  LET K == {n \in S : ~(Cardinality({m \in S : m[1] > n[1]}) >= k)}
         IN  IsFiniteSet(K) /\ Cardinality(K) <= k
  <1> DEFINE Newer(n) == {m \in S : m[1] > n[1]}
             K == {n \in S : ~(Cardinality(Newer(n)) >= k)}
             f == [n \in K |-> Cardinality(Newer(n))]
  <1>1. \A n \in S : Newer(n) \in SUBSET S /\ IsFiniteSet(Newer(n)) /\ Cardinality(Newer(n)) \in Nat
    <2> SUFFICES ASSUME NEW n \in S
                 PROVE  Newer(n) \in SUBSET S /\ IsFiniteSet(Newer(n)) /\ Cardinality(Newer(n)) \in Nat
      OBVIOUS
    <2>1. Newer(n) \in SUBSET S
      OBVIOUS
    <2> HIDE DEF Newer
    <2> QED BY <2>1, FS_Subset, FS_CardinalityType
  <1>2. ASSUME NEW n \in S, NEW m \in S, m[1] > n[1]
        PROVE  Cardinality(Newer(n)) # Cardinality(Newer(m))
    <2>1. n[1] \in Nat /\ m[1] \in Nat
      OBVIOUS
    <2>2. Newer(m) \in SUBSET Newer(n)
      BY <1>2, <2>1
    <2>3. m \in Newer(n) /\ m \notin Newer(m)
      BY <1>2, <2>1
    <2> HIDE DEF Newer
    <2> QED BY <1>1, <2>2, <2>3, FS_Subset
  <1>3. \A n, m \in S : Cardinality(Newer(n)) = Cardinality(Newer(m)) => n = m
    <2> SUFFICES ASSUME NEW n \in S, NEW m \in S, Cardinality(Newer(n)) = Cardinality(Newer(m))
                 PROVE  n = m
      OBVIOUS
    <2>1. ~(m[1] > n[1]) /\ ~(n[1] > m[1])
      <3> HIDE DEF Newer
      <3> QED BY <1>2
    <2>2. n[1] = m[1]
      BY <2>1
    <2> QED BY <2>2
  <1>4. f \in Injection(K, 0..(k - 1))
    <2>1. \A n \in K : Cardinality(Newer(n)) \in 0..(k - 1)
      <3> HIDE DEF Newer
      <3> QED BY <1>1
    <2>2. K \in SUBSET S
      OBVIOUS
    <2> HIDE DEF Newer, K
    <2>3. f \in [K -> 0..(k - 1)] /\ \A n, m \in K : f[n] = f[m] => n = m
      BY <1>3, <2>1, <2>2
    <2> HIDE DEF f
    <2> QED BY <2>3 DEF Injection, IsInjective
  <1>5. IsFiniteSet(0..(k - 1)) /\ Cardinality(0..(k - 1)) = k
    BY FS_Interval
  <1>6. IsFiniteSet(K) /\ Cardinality(K) <= k
    <2> HIDE DEF K, f
    <2> QED BY <1>4, <1>5, FS_Injection
  <1> QED BY <1>6

(* The snapshots in the folder are finitely many, each of its own second.  *)
LEMMA StoredApart ==
  ASSUME StoreType, Clocks, FilesOK, StaysOK
  PROVE  /\ IsFiniteSet(Stored(DOMAIN files))
         /\ \A n \in Stored(DOMAIN files) : n[1] \in Nat
         /\ \A n, m \in Stored(DOMAIN files) : n[1] = m[1] => n = m
  <1> DEFINE S == Stored(DOMAIN files)
             f == [n \in S |-> n[1]]
  <1>1. \A n \in S : n \in Names /\ n[2] \in {"dgs", "json"} /\ (n[2] = "json" <=> n[1] = LegacyAt)
    BY StoredNames
  <1>2. \A n \in S : n[1] \in hist.stored
    BY DEF StaysOK, Seconds
  <1> HIDE DEF S
  <1>3. /\ \A n \in S : n[1] \in Nat
        /\ \A n, m \in S : n[1] = m[1] => n = m
    BY <1>1 DEF Names
  <1>4. f \in Injection(S, hist.stored)
    <2>1. f \in [S -> hist.stored] /\ \A n, m \in S : f[n] = f[m] => n = m
      BY <1>2, <1>3
    <2> HIDE DEF f
    <2> QED BY <2>1 DEF Injection, IsInjective
  <1>5. IsFiniteSet(S)
    <2> HIDE DEF f
    <2> QED BY <1>4, FS_Injection DEF StaysOK
  <1> QED BY <1>3, <1>5 DEF S

(* Nothing is stored, no thread lists, and what is left only shrinks. *)
LEMMA BoundFrame ==
  ASSUME StoreInv, StoreType', BoundedOK, Left' \subseteq Left,
         \A i \in Scans : /\ saver'[i].at # "idle" => saver'[i].drop = {}
                          /\ saver[i].at = "clear" => saver'[i].at = "clear",
         ~hist'.messy => ~hist.messy /\ hist'.keep = hist.keep
  PROVE  BoundedOK'
  <1> SUFFICES ASSUME ~hist'.messy, \A i \in Scans : saver'[i].at # "clear"
               PROVE  Cardinality(Left') <= hist'.keep
    BY DEF BoundedOK
  <1>1. Cardinality(Left) <= hist.keep /\ hist'.keep = hist.keep
    BY DEF BoundedOK
  <1>2. IsFiniteSet(Left)
    <2>1. Left \in SUBSET Stored(DOMAIN files)
      BY DEF Left
    <2> QED BY <2>1, StoredApart, FS_Subset DEF StoreInv
  <1>3. IsFiniteSet(Left') /\ Cardinality(Left') <= Cardinality(Left)
    <2> DEFINE L == Left'
    <2>1. L \in SUBSET Left
      OBVIOUS
    <2> HIDE DEF L
    <2>2. IsFiniteSet(L) /\ Cardinality(L) <= Cardinality(Left)
      BY <1>2, <2>1, FS_Subset
    <2> QED BY <2>2 DEF L
  <1>4. Cardinality(Left) \in Nat /\ hist.keep \in Nat
    BY <1>2, FS_CardinalityType DEF StoreInv, StoreType, HistSet
  <1>5. Cardinality(Left') \in Nat
    <2> DEFINE L == Left'
    <2> HIDE DEF L
    <2>1. IsFiniteSet(L)
      BY <1>3 DEF L
    <2>2. Cardinality(L) \in Nat
      BY <2>1, FS_CardinalityType
    <2> QED BY <2>2 DEF L
  <1> QED BY <1>1, <1>3, <1>4, <1>5

(* What steps do to the marks of history. *)
LEMMA CrashMarks ==
  ASSUME StoreType, Crash
  PROVE  hist'.messy
  <1> DEFINE h == [hist EXCEPT !.crashes = @ + 1]
  <1>3. hist \in HistSet
    BY DEF StoreType
  <1>1. h \in HistSet
    BY <1>3 DEF HistSet
  <1>2. hist' = [h EXCEPT !.messy = TRUE]
    BY DEF Crash
  <1> HIDE DEF h
  <1> QED BY <1>1, <1>2 DEF HistSet

LEMMA ListStoreMarks ==
  ASSUME StoreType, NEW j \in Scans, ListStore(j)
  PROVE  hist'.keep = Max({Keep[j], 1}) /\ hist'.keep \in Nat
  <1> DEFINE k == Max({Keep[j], 1})
             h == [hist EXCEPT !.messy = FALSE]
  <1>1. k \in Nat /\ hist' = [h EXCEPT !.keep = k]
    BY Constants, MaxOfTwo DEF ListStore
  <1>4. hist \in HistSet
    BY DEF StoreType
  <1>2. h \in HistSet
    BY <1>4 DEF HistSet
  <1> HIDE DEF h, k
  <1>3. hist'.keep = k
    BY <1>1, <1>2 DEF HistSet
  <1> QED BY <1>1, <1>3 DEF k

LEMMA DropOldMarks ==
  ASSUME StoreType, NEW j \in Scans, DropOld(j)
  PROVE  \/ hist'.messy
         \/ /\ hist' = hist
            /\ \E n \in saver[j].drop : /\ saver'[j].drop = saver[j].drop \ {n}
                                        /\ DOMAIN files' = DOMAIN files \ {n}
  <1>1. PICK n \in saver[j].drop :
          /\ saver' = [saver EXCEPT ![j].drop = @ \ {n}]
          /\ \/ files' = Restrict(files, DOMAIN files \ {n}) /\ UNCHANGED hist
             \/ n \in DOMAIN files /\ hist' = [hist EXCEPT !.messy = TRUE] /\ UNCHANGED files
    BY DEF DropOld
  <1>2. CASE hist' = [hist EXCEPT !.messy = TRUE]
    BY <1>2 DEF StoreType, HistSet
  <1>3. CASE files' = Restrict(files, DOMAIN files \ {n}) /\ UNCHANGED hist
    <2>1. saver'[j].drop = saver[j].drop \ {n}
      BY <1>1 DEF StoreType, SaverSet
    <2>2. DOMAIN files' = DOMAIN files \ {n}
      BY <1>3 DEF Restrict
    <2> QED BY <1>3, <2>1, <2>2
  <1> QED BY <1>1, <1>2, <1>3

LEMMA DeleteSnapshotMarks ==
  ASSUME StoreType, NEW j \in Scans, DeleteSnapshot(j)
  PROVE  hist'.messy = hist.messy /\ hist'.keep = hist.keep
  BY DEF StoreType, HistSet, DeleteSnapshot

LEMMA BoundStep ==
  ASSUME StoreInv, StoreType', BoundedOK, [Next]_vars
  PROVE  BoundedOK'
  <1> USE DEF StoreInv
  <1>1. CASE UNCHANGED <<saver, files, hist>>
    BY <1>1 DEF BoundedOK, Left
  <1>2. CASE Crash
    <2>1. hist'.messy /\ \A i \in Scans : saver'[i] = NoSaver
      BY <1>2, CrashMarks, CrashStep
    <2> QED BY <2>1 DEF BoundedOK, NoSaver
  <1>3. ASSUME NEW j \in Scans, EndScan(j) PROVE BoundedOK'
    <2>1. /\ scan[j].st = "running"
          /\ saver'[j].at = "capture" /\ saver'[j].drop = saver[j].drop
          /\ \A i \in Scans : i # j => saver'[i] = saver[i]
          /\ files' = files /\ hist' = hist
      BY <1>3, EndScanStep
    <2>2. saver[j].at = "idle" /\ saver[j].drop = {}
      BY <2>1 DEF Clocks, NoSaver
    <2>3. Left' \subseteq Left
      BY <2>1 DEF Left
    <2>4. \A i \in Scans : /\ saver'[i].at # "idle" => saver'[i].drop = {}
                           /\ saver[i].at = "clear" => saver'[i].at = "clear"
      BY <2>1, <2>2 DEF BoundedOK
    <2> QED BY <2>1, <2>3, <2>4, BoundFrame
  <1>4. ASSUME NEW j \in Scans, Capture(j) \/ OpenTmp(j) \/ WriteTmp(j) PROVE BoundedOK'
    <2>1. /\ saver[j].at \in {"capture", "open", "write"} /\ saver'[j].drop = saver[j].drop
          /\ \A i \in Scans : i # j => saver'[i] = saver[i]
          /\ hist' = hist
          /\ DOMAIN files' = DOMAIN files \/ DOMAIN files' = DOMAIN files \cup {TmpOf(taken[j])}
      <3>1. CASE Capture(j)
        BY <3>1, CaptureStep
      <3>2. CASE WriteTmp(j)
        BY <3>2, WriteTmpStep
      <3>3. CASE OpenTmp(j)
        BY <3>3, OpenTmpStep
      <3> QED BY <1>4, <3>1, <3>2, <3>3
    <2>2. saver[j].drop = {}
      BY <2>1 DEF BoundedOK
    <2>3. Stored(DOMAIN files') = Stored(DOMAIN files)
      BY <2>1 DEF Stored, TmpOf
    <2>4. Left' \subseteq Left
      BY <2>1, <2>3 DEF Left
    <2>5. \A i \in Scans : /\ saver'[i].at # "idle" => saver'[i].drop = {}
                           /\ saver[i].at = "clear" => saver'[i].at = "clear"
      BY <2>1, <2>2 DEF BoundedOK
    <2> QED BY <2>1, <2>4, <2>5, BoundFrame
  <1>5. ASSUME NEW j \in Scans, RenameTmp(j) PROVE BoundedOK'
    <2>1. /\ saver'[j].at = "clear" /\ saver'[j].drop = {}
          /\ \A i \in Scans : i # j => saver'[i] = saver[i]
      BY <1>5, RenameTmpStep
    <2> QED BY <2>1 DEF BoundedOK
  <1>6. ASSUME NEW j \in Scans, SaveFails(j) PROVE BoundedOK'
    <2>1. /\ saver[j].at \in {"open", "write", "rename"} /\ saver'[j] = NoSaver
          /\ \A i \in Scans : i # j => saver'[i] = saver[i]
          /\ files' = files /\ hist' = hist
      BY <1>6, SaveFailsStep DEF SaveFails
    <2>2. saver[j].drop = {}
      BY <2>1 DEF BoundedOK
    <2>3. Left' \subseteq Left
      BY <2>1, <2>2 DEF Left, NoSaver
    <2>4. \A i \in Scans : /\ saver'[i].at # "idle" => saver'[i].drop = {}
                           /\ saver[i].at = "clear" => saver'[i].at = "clear"
      BY <2>1 DEF BoundedOK, NoSaver
    <2> QED BY <2>1, <2>3, <2>4, BoundFrame
  <1>7. ASSUME NEW j \in Scans, ListStore(j) PROVE BoundedOK'
    <2> DEFINE S == Stored(DOMAIN files)
               k == Max({Keep[j], 1})
               K == {n \in S : ~(Cardinality({m \in S : m[1] > n[1]}) >= k)}
               L == Left'
    <2>1. /\ saver'[j].at = "idle" /\ saver'[j].drop = Surplus(DOMAIN files, Keep[j])
          /\ \A i \in Scans : i # j => saver'[i] = saver[i]
          /\ files' = files
      BY <1>7, ListStoreStep
    <2>2. hist'.keep = k /\ k \in Nat
      BY <1>7, ListStoreMarks
    <2>3. L \in SUBSET K
      BY <2>1 DEF Left, Surplus
    <2>4. IsFiniteSet(S) /\ (\A n \in S : n[1] \in Nat) /\ \A n, m \in S : n[1] = m[1] => n = m
      BY StoredApart
    <2>5. IsFiniteSet(K) /\ Cardinality(K) <= k
      <3> HIDE DEF S, k
      <3> QED BY <2>2, <2>4, KeptAreFew
    <2>6. Cardinality(L) <= k
      <3> HIDE DEF L, K, k
      <3> QED BY <2>2, <2>3, <2>5, FS_Subset, FS_CardinalityType
    <2>7. \A i \in Scans : saver'[i].at # "idle" => saver'[i].drop = {}
      BY <2>1 DEF BoundedOK
    <2>8. Cardinality(Left') <= hist'.keep
      BY <2>2, <2>6
    <2> QED BY <2>7, <2>8 DEF BoundedOK
  <1>8. ASSUME NEW j \in Scans, DropOld(j) PROVE BoundedOK'
    <2>1. /\ saver'[j].at = saver[j].at /\ saver'[j].drop \subseteq saver[j].drop
          /\ \A i \in Scans : i # j => saver'[i] = saver[i]
      BY <1>8, DropOldStep
    <2>2. \A i \in Scans : /\ saver'[i].at # "idle" => saver'[i].drop = {}
                           /\ saver[i].at = "clear" => saver'[i].at = "clear"
      BY <2>1 DEF BoundedOK
    <2>3. CASE hist'.messy
      BY <2>2, <2>3 DEF BoundedOK
    <2>4. CASE /\ hist' = hist
               /\ \E n \in saver[j].drop : /\ saver'[j].drop = saver[j].drop \ {n}
                                           /\ DOMAIN files' = DOMAIN files \ {n}
      <3>1. PICK n \in saver[j].drop : /\ saver'[j].drop = saver[j].drop \ {n}
                                       /\ DOMAIN files' = DOMAIN files \ {n}
        BY <2>4
      <3>2. Stored(DOMAIN files') = Stored(DOMAIN files) \ {n}
        BY <3>1 DEF Stored
      <3>3. Left' \subseteq Left
        BY <2>1, <3>1, <3>2 DEF Left
      <3> QED BY <2>2, <2>4, <3>3, BoundFrame
    <2> QED BY <1>8, <2>3, <2>4, DropOldMarks
  <1>9. ASSUME NEW j \in Scans, DeleteSnapshot(j) PROVE BoundedOK'
    <2>1. saver' = saver /\ DOMAIN files' \subseteq DOMAIN files
      BY <1>9, DeleteSnapshotStep
    <2>2. hist'.messy = hist.messy /\ hist'.keep = hist.keep
      BY <1>9, DeleteSnapshotMarks
    <2>3. Left' \subseteq Left
      BY <2>1 DEF Left, Stored
    <2>4. \A i \in Scans : /\ saver'[i].at # "idle" => saver'[i].drop = {}
                           /\ saver[i].at = "clear" => saver'[i].at = "clear"
      BY <2>1 DEF BoundedOK
    <2> QED BY <2>2, <2>3, <2>4, BoundFrame
  <1>10. ASSUME NEW j \in Scans, \/ StartScan(j) \/ ListHistory(j) \/ ShowChanges(j) \/ FindAsked(j)
                                 \/ LoadAsked(j) \/ DiffAsked(j)
         PROVE  BoundedOK'
    <2>1. UNCHANGED <<saver, files, hist>>
      BY <1>10 DEF StartScan, ListHistory, ShowChanges, FindAsked, LoadAsked, DiffAsked
    <2> QED BY <1>1, <2>1
  <1>11. CASE Tick \/ UNCHANGED vars
    BY <1>1, <1>11 DEF Tick, vars
  <1> QED BY <1>2, <1>3, <1>4, <1>5, <1>6, <1>7, <1>8, <1>9, <1>10, <1>11 DEF Next

LEMMA BoundInit ==
  ASSUME Init
  PROVE  BoundedOK
  <1>1. DOMAIN files \subseteq {<<LegacyAt, "json">>} /\ hist.keep = 1
        /\ \A j \in Scans : saver[j].drop = {}
    BY DEF Init, NoSaver
  <1>2. Left \in SUBSET {<<LegacyAt, "json">>}
    BY <1>1 DEF Left, Stored
  <1>3. Cardinality(Left) <= 1
    <2>1. IsFiniteSet({<<LegacyAt, "json">>}) /\ Cardinality({<<LegacyAt, "json">>}) = 1
      BY FS_Singleton
    <2> HIDE DEF Init
    <2>2. Cardinality(Left) <= Cardinality({<<LegacyAt, "json">>})
      BY <1>2, <2>1, FS_Subset
    <2> QED BY <2>1, <2>2
  <1> QED BY <1>1, <1>3 DEF BoundedOK

(* When nothing is being saved there are no more snapshots than the last   *)
(* scan that saved one was told to keep, unless the process died or a file *)
(* could not be removed since (store_snapshot in gui/src-tauri/src/main.rs): *)
(* so it is however the threads of the scans interleave.                   *)
THEOREM StoreStaysBounded == Spec => []StoreBounded
  <1>1. Init => BoundedOK
    BY BoundInit
  <1>2. StoreInv /\ StoreInv' /\ BoundedOK /\ [Next]_vars => BoundedOK'
    <2>1. StoreInv' => StoreType'
      BY DEF StoreInv
    <2> QED BY <2>1, BoundStep
  <1>3. BoundedOK => StoreBounded
    <2> SUFFICES ASSUME BoundedOK, \A j \in Scans : saver[j] = NoSaver, ~hist.messy
                 PROVE  Cardinality(Stored(DOMAIN files)) <= hist.keep
      BY DEF StoreBounded
    <2>1. \A j \in Scans : saver[j].at = "idle" /\ saver[j].drop = {}
      BY DEF NoSaver
    <2>2. Left = Stored(DOMAIN files)
      BY <2>1 DEF Left
    <2> QED BY <2>1, <2>2 DEF BoundedOK
  <1> QED BY <1>1, <1>2, <1>3, StoreInvariant, PTL DEF Spec

=============================================================================
