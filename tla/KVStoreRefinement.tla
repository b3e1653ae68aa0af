------------------------- MODULE KVStoreRefinement -------------------------
(***************************************************************************)
(* KVStore implements DurableMap as long as neither the log is torn nor a  *)
(* CLEAR PERSISTENCE cut short.                                            *)
(***************************************************************************)
EXTENDS KVStore

\* CLEAR PERSISTENCE takes effect when it has truncated the log, and then
\* only has the snapshot files left to remove.
DiskMap == IF pc = "clearingSnapshot" THEN EmptyMap ELSE Recovered

\* A stopped or recovering process will hold what the files promise; a write
\* takes effect when its record is in the log.
MemMap ==
  IF pc \in {"down", "loading", "replaying"} THEN DiskMap
  ELSE IF pc = "applying" THEN apply_record(data, op)
  ELSE data

Promise == INSTANCE DurableMap
             WITH mem <- MemMap, disk <- DiskMap, unsure <- buffered

\* Commands, failures and restarts of the process show a client nothing that
\* the two maps of DurableMap would not.
ImplementsDurableMap == Promise!Spec
=============================================================================
