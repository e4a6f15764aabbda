------------------------- MODULE MCDuplicateSearch -------------------------
(***************************************************************************)
(* An instance of DuplicateSearch for TLC: x and y are large contents with *)
(* the same ends.  Path c is a hard link of a, on a file system without    *)
(* reliable times, and tab u searches a folder below the one of tab t.     *)
(***************************************************************************)
EXTENDS DuplicateSearch, TLC

Text == "x" :> "large" @@ "y" :> "large"
SameEnds == "x" :> "e" @@ "y" :> "e"

ThreePaths == {"a", "b", "c"}
LinkedAt == "a" :> 1 @@ "b" :> 2 @@ "c" :> 1
TimelessData == 1 :> [content |-> "x", time |-> 0] @@ 2 :> [content |-> "y", time |-> 2]

TwoTabs == {"t", "u"}
NestedScopes == "t" :> ThreePaths @@ "u" :> {"b", "c"}

=============================================================================
