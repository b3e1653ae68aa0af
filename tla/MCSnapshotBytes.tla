-------------------------- MODULE MCSnapshotBytes --------------------------
(***************************************************************************)
(* Small strings for SnapshotBytes.  The long value exceeds the limit of   *)
(* both files.                                                             *)
(***************************************************************************)
EXTENDS SnapshotBytes

TwoKeys == {<<>>, <<1>>}
FittingAndLong == {<<0, 3>>, <<1, 1, 1, 1, 1, 1, 1, 1, 1>>}
=============================================================================
