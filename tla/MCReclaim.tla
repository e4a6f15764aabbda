----------------------------- MODULE MCReclaim -----------------------------
(***************************************************************************)
(* Instances of Reclaim for TLC: two copies and their temporary paths.     *)
(* Twins have one modification time, as a file manager copies, the others  *)
(* have not; taken is a temporary path that is the name of another file.   *)
(* Of the contents x and y are large with the same ends, s is small.       *)
(***************************************************************************)
EXTENDS Reclaim, TLC

Text == "x" :> "large" @@ "y" :> "large" @@ "s" :> "small"
SameEnds == "x" :> "e" @@ "y" :> "e" @@ "s" :> "s"

FourPaths == {"a", "b", "at", "bt"}
PairAt == "a" :> 1 @@ "b" :> 2 @@ "at" :> None @@ "bt" :> None
PairTemp == "a" :> "at" @@ "b" :> "bt"
NoTemp == [p \in Paths |-> None]
TwinsData == 1 :> [content |-> "x", time |-> 2] @@ 2 :> [content |-> "x", time |-> 2]
AgedData == 1 :> [content |-> "x", time |-> 1] @@ 2 :> [content |-> "x", time |-> 2]
TakenAt == "a" :> 1 @@ "b" :> 2 @@ "at" :> 3 @@ "bt" :> None
TakenData == AgedData @@ 3 :> [content |-> "s", time |-> 1]

OneTab == {"t"}
OneScope == "t" :> Paths
TwoTabs == {"t", "u"}
TwoScopes == "t" :> Paths @@ "u" :> Paths

=============================================================================
