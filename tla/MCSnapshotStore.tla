-------------------------- MODULE MCSnapshotStore --------------------------
(***************************************************************************)
(* A root with a snapshot of an older version, scanned three times, the    *)
(* first snapshot being the longest one.                                   *)
(***************************************************************************)
EXTENDS SnapshotStore

MCKeep == <<2, 1, 2>>
MCBytes == [j \in 0..MaxScans |-> MaxScans + 1 - j]

=============================================================================
