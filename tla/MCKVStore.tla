----------------------------- MODULE MCKVStore -----------------------------
(***************************************************************************)
(* Small instances of KVStore for TLC: the configurations choose the       *)
(* commands and the faults.                                                *)
(***************************************************************************)
EXTENDS KVStore
=============================================================================
