---------------------------- MODULE ScanContract ----------------------------
(***************************************************************************)
(* What a scan promises to the code that uses its tree, with the threads,  *)
(* the channel and the arena left out: it lists directories one by one, no *)
(* directory twice, and ends either cut (cancelled) or whole.  A whole     *)
(* tree has every visible directory whose parent was listed, except where  *)
(* an entry of the parent's listing failed.                                *)
(***************************************************************************)
EXTENDS DirTree

VARIABLES
  listed,   \* directories whose own listing is in the tree
  outcome   \* "running", "cut" or "whole"

vars == <<listed, outcome>>

Init == listed = {} /\ outcome = "running"

(* One more directory is listed, in any order. *)
List ==
  /\ outcome = "running"
  /\ \E d \in Visible \ listed : listed' = listed \cup {d}
  /\ UNCHANGED outcome

Closed ==
  /\ Root \in listed
  /\ \A d \in Visible \ {Root} :
       Parent(d) \in listed \ Flaky => d \in listed

Cut == outcome = "running" /\ outcome' = "cut" /\ UNCHANGED listed

Whole == outcome = "running" /\ Closed /\ outcome' = "whole" /\ UNCHANGED listed

Next == List \/ Cut \/ Whole

Spec == Init /\ [][Next]_vars

=============================================================================
