---------------------------- MODULE MCWorkloads ----------------------------
(***************************************************************************)
(* Numbers of one digit, of which some do not fit, and the keys that the   *)
(* longest run writes.                                                     *)
(***************************************************************************)
EXTENDS Workloads

MCCharacters == {" ", "+", "-", "0", "1", "4", "5", "6", "x"}
MCKey == {"key", "tail"} \X (0..(SizeMax - 1))
=============================================================================
