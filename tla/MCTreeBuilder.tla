--------------------------- MODULE MCTreeBuilder ---------------------------
(***************************************************************************)
(* Instances of TreeBuilder for TLC.  Deep is a chain of three levels next *)
(* to one of two: long enough for a batch to arrive before its parent's    *)
(* and its grandparent's, with a depth limit that cuts the last level off  *)
(* and a folder whose entries may fail.  Linked has two links to one       *)
(* directory with a sub-directory, which cannot be listed, and a link back *)
(* to the root.                                                            *)
(***************************************************************************)
EXTENDS TreeBuilder, TLC

DeepDirs == {"r", "a", "aa", "b", "bb", "bbb"}
DeepPath == "r" :> <<"r">> @@ "a" :> <<"r", "a">> @@ "aa" :> <<"r", "a", "aa">>
            @@ "b" :> <<"r", "b">> @@ "bb" :> <<"r", "b", "bb">> @@ "bbb" :> <<"r", "b", "bb", "bbb">>
DeepBytes == "r" :> 1 @@ "a" :> 2 @@ "aa" :> 4 @@ "b" :> 8 @@ "bb" :> 16 @@ "bbb" :> 32
DeepTarget == [d \in DeepDirs |-> d]

LinkDirs == {"r", "a", "ax", "b", "bx", "up"}
LinkPath == "r" :> <<"r">> @@ "a" :> <<"r", "a">> @@ "ax" :> <<"r", "a", "ax">>
            @@ "b" :> <<"r", "b">> @@ "bx" :> <<"r", "b", "bx">> @@ "up" :> <<"r", "up">>
LinkBytes == "r" :> 1 @@ "a" :> 2 @@ "ax" :> 4 @@ "b" :> 2 @@ "bx" :> 4 @@ "up" :> 1
LinkTarget == "r" :> "r" @@ "a" :> "x" @@ "ax" :> "xx" @@ "b" :> "x" @@ "bx" :> "xx" @@ "up" :> "r"

TwoThreads == {"w1", "w2"}
ThreeThreads == {"w1", "w2", "w3"}
NoDirs == {}
OnlyB == {"b"}
BothX == {"ax", "bx"}

=============================================================================
