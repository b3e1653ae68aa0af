-------------------------- MODULE MCWriteAheadLog --------------------------
(***************************************************************************)
(* Small strings for WriteAheadLog.  With a limit of 8 bytes the two-byte  *)
(* value just fits into a SET record, the three-byte value does not.       *)
(***************************************************************************)
EXTENDS WriteAheadLog

OneKey == {<<1>>}
BoundaryValues == {<<0, 3>>, <<1, 1, 1>>}
=============================================================================
