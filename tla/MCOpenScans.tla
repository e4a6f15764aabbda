---------------------------- MODULE MCOpenScans ----------------------------
(***************************************************************************)
(* Instances of OpenScans for TLC: a folder with one file in it.           *)
(***************************************************************************)
EXTENDS OpenScans, TLC

TwoItems == {"a", "ax"}
TwoFolders == {"r", "a"}
ItemsBelow == "r" :> TwoItems @@ "a" :> TwoItems @@ "ax" :> {"ax"}
FolderOf == "a" :> "r" @@ "ax" :> "a"

=============================================================================
