---------------------------- MODULE DurableMap ----------------------------
(***************************************************************************)
(* What a client of AgentKV can rely on: a map in memory and a map that    *)
(* survives the process.  A write reaches both at once.  A write that was  *)
(* answered with an error may still turn up at the next start, but only if *)
(* no other write was accepted in between.                                 *)
(***************************************************************************)
EXTENDS MapReplay

VARIABLES
  mem,    \* the map that reads answer from
  disk,   \* the map that the next start finds
  unsure  \* a write that failed and may yet reach the disk, or None

vars == <<mem, disk, unsure>>

Init == mem = EmptyMap /\ disk = EmptyMap /\ unsure = None

Write(r) ==
  /\ unsure = None
  /\ mem' = apply_record(mem, r) /\ disk' = apply_record(disk, r)
  /\ UNCHANGED unsure

Fail(r) ==
  /\ unsure = None
  /\ unsure' = r
  /\ UNCHANGED <<mem, disk>>

\* A snapshot makes memory and disk agree; a failed write forbids it.
Checkpoint ==
  /\ unsure = None
  /\ disk' = mem
  /\ UNCHANGED <<mem, unsure>>

\* CLEAR PERSISTENCE
Forget ==
  /\ disk' = EmptyMap /\ unsure' = None
  /\ UNCHANGED mem

\* KVStore::Clear
Wipe ==
  /\ mem' = EmptyMap
  /\ UNCHANGED <<disk, unsure>>

Restart ==
  /\ \/ UNCHANGED disk
     \/ unsure # None /\ disk' = apply_record(disk, unsure)
  /\ mem' = disk' /\ unsure' = None

Next ==
  \/ \E r \in Record : Write(r) \/ Fail(r)
  \/ Checkpoint \/ Forget \/ Wipe \/ Restart

Spec == Init /\ [][Next]_vars
=============================================================================
