--------------------------- MODULE MCSnapshotDiff ---------------------------
(***************************************************************************)
(* Two scans of a root with up to four items: "a", "a!" and, in the folder *)
(* "a", the same two names.  "!" sorts before the separator, so the bytes  *)
(* of "a!" come before those of "a/a".  One of the two file sizes is the   *)
(* first that takes two bytes in the snapshot.  Every item may be a folder *)
(* in one scan and a file in the other.  Two more scans have files in two  *)
(* folders, one was cancelled before anything was read, and in two the     *)
(* names of a folder and of a file in it are not UTF-8: in one of them two *)
(* folders get one name when they are converted.                           *)
(***************************************************************************)
EXTENDS SnapshotDiff

A == <<<<3>>>>
AX == <<<<3, 1>>>>
AA == <<<<3>>, <<3>>>>
AAX == <<<<3>>, <<3, 1>>>>
AXA == <<<<3, 1>>, <<3>>>>

MCSep == 2

(* Of the bytes used here 4 and 5 are in no UTF-8 text.  The replacement   *)
(* character has three bytes.                                              *)
Replacement == <<7, 8, 9>>
MCLossy(name) ==
  FoldLeft(LAMBDA text, b : text \o IF b \in {4, 5} THEN Replacement ELSE <<b>>, <<>>, name)

MCSizes == {1, 128}
MCBounds == <<2, 128>>
MCAts == {<<>>, A, AX}

(* Items as a function from paths to sizes, "dir", "unread" or nothing. *)
Scan(item, cancelled) ==
  LET With(S) == {p \in DOMAIN item : item[p][1] \in S}
  IN [listed |-> [d \in With({"dir", "unread"}) \cup {<<>>} |-> d = <<>> \/ item[d][1] = "dir"],
      file |-> [f \in With({"file"}) |-> item[f][2]], cancelled |-> cancelled]

Nothing == <<"no">>
Files == {<<"file", s>> : s \in MCSizes}

Items ==
  {item \in [{A, AX, AA, AAX} -> {Nothing, <<"dir">>, <<"unread">>} \cup Files] :
     /\ item[A] # <<"dir">> => item[AA] = Nothing /\ item[AAX] = Nothing
     /\ <<"unread">> \notin {item[A], item[AA], item[AAX]}}

(* A folder with a file, and one with a file of size 1 and a bigger one. *)
TwoFolders(s) ==
  [listed |-> [d \in {<<>>, A, AX} |-> TRUE], cancelled |-> FALSE,
   file |-> AXA :> s @@ AA :> 1 @@ AAX :> 128]

(* Folders whose names end in a byte that is no text, one with a file. *)
NoText(bytes) ==
  LET Folder(b) == <<<<3, b>>>>
      file == Append(Folder(4), <<4, 1>>)
  IN [listed |-> [d \in {<<>>, A} \cup {Folder(b) : b \in bytes} |-> TRUE],
      file |-> file :> 128, cancelled |-> FALSE]

MCNoText == {NoText({4}), NoText({4, 5})} \cup {TwoFolders(s) : s \in MCSizes}

MCTrees ==
  {Scan(item, FALSE) : item \in Items}
    \cup MCNoText
    \cup {[listed |-> <<>> :> FALSE, file |-> <<>>, cancelled |-> TRUE]}
    \cup {Scan(item, TRUE) : item \in {i \in Items : i[A] = <<"dir">> /\ i[AX] = <<"dir">>}}

=============================================================================
