---------------------------- MODULE MCRemovePath ----------------------------
(***************************************************************************)
(* A disk with a folder "d" and one in it, a file with two names and an    *)
(* 8.3 name, a sparse file, a link from "d" to the folder "e", a folder of *)
(* the cloud with items only the cloud knows, and one OneDrive keeps.  Its *)
(* table of 18 records lies in three runs, the second before the first and *)
(* the third far behind, and has metafiles, a deleted record and one that  *)
(* is not in use.                                                          *)
(***************************************************************************)
EXTENDS RemovePath

Item(size, alloc, local) ==
  [dir |-> FALSE, link |-> FALSE, cloud |-> FALSE, odd |-> FALSE, hidden |-> FALSE,
   size |-> size, alloc |-> alloc, local |-> local, short |-> {}]
Folder == [Item(0, 0, 0) EXCEPT !.dir = TRUE]
Meta(name, parent, used, dir) ==
  [ok |-> TRUE, used |-> used, base |-> 0, dir |-> dir,
   attrs |-> {[kind |-> "name", parent |-> parent, name |-> name, dos |-> FALSE]}]

MCDisk ==
  [at |-> <<>> :> 1 @@ <<"d">> :> 3 @@ <<"d", "f">> :> 4 @@ <<"e", "g">> :> 4 @@ <<"d", "s">> :> 5
          @@ <<"d", "j">> :> 6 @@ <<"c">> :> 7 @@ <<"c", "x">> :> 8 @@ <<"c", "y">> :> 9
          @@ <<"c", "y", "z">> :> 16 @@ <<"d", "k">> :> 10 @@ <<"d", "k", "m">> :> 11 @@ <<"e">> :> 12
          @@ <<"o">> :> 15 @@ <<"o", "p">> :> 17,
   target |-> <<"d", "j">> :> <<"e">>,
   synced |-> {<<"o">>},
   about |-> 1 :> Folder @@ 3 :> Folder
             @@ 4 :> [Item(7, 8, 8) EXCEPT !.short = {<<"d", "F~1">>}]
             @@ 5 :> [Item(50, 3, 3) EXCEPT !.odd = TRUE]
             @@ 6 :> [Folder EXCEPT !.link = TRUE]
             @@ 7 :> [Folder EXCEPT !.cloud = TRUE]
             @@ 8 :> [Item(40, 40, 2) EXCEPT !.cloud = TRUE]
             @@ 9 :> [Folder EXCEPT !.cloud = TRUE, !.hidden = TRUE]
             @@ 10 :> Folder @@ 11 :> [Item(30, 32, 1) EXCEPT !.cloud = TRUE] @@ 12 :> Folder @@ 15 :> Folder
             @@ 16 :> [Item(5, 5, 5) EXCEPT !.hidden = TRUE]
             @@ 17 :> [Item(6, 6, 6) EXCEPT !.hidden = TRUE],
   other |-> 0 :> Meta("$MFT", 1, TRUE, FALSE) @@ 2 :> Meta("$Extend", 1, TRUE, TRUE)
             @@ 13 :> Meta("deleted", 3, FALSE, FALSE)]

(* Records 4 and 5 with some attributes in the extension record 14. *)
Split(i, moved) == [disk |-> MCDisk, of |-> i, ext |-> 14, moved |-> moved]
Moved(i, P(_)) == Split(i, {a \in Attributes(MCDisk, i) : P(a)})
Main(a) == a.kind = "data" /\ ~a.named /\ a.vcn = 0

MCLayouts ==
  {Split(0, {}),
   Moved(4, LAMBDA a : a.kind = "name" /\ ~a.dos /\ a.parent = 3),
   Moved(4, LAMBDA a : a.kind = "name" /\ a.parent = 3),
   Moved(4, LAMBDA a : a.kind = "data"),
   Moved(4, LAMBDA a : (a.kind = "data" /\ ~Main(a)) \/ (a.kind = "name" /\ a.parent = 12)),
   Moved(5, LAMBDA a : a.kind = "name"),
   Moved(11, LAMBDA a : a.kind = "reparse")}

(* A sparse file in so many pieces that its data is in an extension record.*)
MCSplit == {Moved(5, LAMBDA a : Main(a))}

MCExtents == <<<<10, 3>>, <<4, 3>>, <<400, 4>>>>
MCStarts == {<<>>, <<"d">>, <<"c">>}
MCTargets == {<<"d">>, <<"d", "s">>, <<"d", "j">>, <<"d", "k">>, <<"c">>, <<"e">>, <<"e", "g">>}
MCDepths == {1, 2, 9}
MCExcludes == {{}, {"d", "g", "y"}, {"f", "k", "c"}}

=============================================================================
