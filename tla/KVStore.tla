------------------------------ MODULE KVStore ------------------------------
(***************************************************************************)
(* One AgentKV process over its two files.  The process is single          *)
(* threaded: it loads the snapshot, replays the tail of the write-ahead    *)
(* log, then answers one command at a time.  Every call that reaches the   *)
(* file system is a step of its own, so that the process can crash, or the *)
(* call can fail, between any two of them.                                 *)
(*                                                                         *)
(* Offsets count log entries.  What a byte offset that is not at a record  *)
(* boundary, or a torn record with other records behind it, makes of the   *)
(* replay is left open here (ReplayOffFrame) and computed in WalFormat.    *)
(***************************************************************************)
EXTENDS MapReplay

CONSTANTS
  kSnapshotInterval, \* write commands between two automatic snapshots
  Commands,          \* the commands clients send
  Oversized,         \* records longer than kMaxRecordLength
  Faults,            \* what can go wrong
  MaxLog             \* bound: no new command once a counter reaches it

AllCommands == {"SET", "DELETE", "SNAPSHOT", "CLEAR_PERSISTENCE", "CLEAR"}
AllFaults == {"crash", "clearCrash", "torn", "walError", "snapshotError",
              "clearError", "readError"}

ASSUME IntervalAssumption == kSnapshotInterval \in Nat \ {0}
ASSUME CommandsAssumption == Commands \subseteq AllCommands
ASSUME FaultsAssumption == Faults \subseteq AllFaults
ASSUME OversizedAssumption == Oversized \subseteq Record
ASSUME BoundAssumption == MaxLog \in Nat

VARIABLES
  \* the files, which survive the process
  wal,        \* the log: records, and Torn where an append was cut short
  snap,       \* the committed snapshot: None, Torn or a map and an offset
  tmp,        \* the temporary file a snapshot is written to
  \* the process
  data,       \* data_, the in-memory map
  writes,     \* writes_since_snapshot_
  stream,     \* state of the append stream output_: "good" or "bad"
  buffered,   \* record of which bytes are left in the bad stream's buffer
  pc,         \* what the process is about to do
  op,         \* the record of the current or last SET or DELETE, else None
  reply,      \* the last answer: "none", "OK" or "ERR"
  pos,        \* log position that replay has reached
  \* history
  durable,    \* the map that the effects so far promise to a recovery
  orphaned    \* the snapshot's offset points into a log since truncated

files == <<wal, snap, tmp, durable, orphaned>>
process == <<data, writes, stream, buffered, pc, op, reply, pos>>
vars == <<files, process>>

SnapshotFile == [map: Map, offset: Nat]
ASSUME FilesAssumption == {Torn, None} \cap SnapshotFile = {}

SnapMap == IF snap = None THEN EmptyMap ELSE snap.map
SnapOffset == IF snap = None THEN 0 ELSE snap.offset

\* What a new process makes of the files.
Recovered == Replayed(SnapMap, wal, SnapOffset, Len(wal))

\* Replay loses the record boundaries: it starts at an offset of another log,
\* or meets a torn record with bytes behind it.
Damaged ==
  \/ orphaned /\ wal # <<>>
  \/ \E i \in (SnapOffset + 1)..(Len(wal) - 1) : wal[i] = Torn

Init ==
  /\ wal = <<>> /\ snap = None /\ tmp = None
  /\ durable = EmptyMap /\ orphaned = FALSE
  /\ data = EmptyMap /\ writes = 0 /\ stream = "good" /\ buffered = None
  /\ pc = "down" /\ op = None /\ reply = "none" /\ pos = 0

\* The process is gone, and with it everything that is not in a file.
Stopped ==
  /\ data' = EmptyMap /\ writes' = 0 /\ stream' = "good" /\ buffered' = None
  /\ pc' = "down" /\ op' = None /\ reply' = "none" /\ pos' = 0

Answer(r) == pc' = "idle" /\ reply' = r

\* "unread" is replay after a file could not be read.  Without the snapshot
\* replay starts at the log's first byte.
Replaying == pc \in {"replaying", "unread"}
OffsetStale == orphaned /\ pc = "replaying"

----------------------------------------------------------------------------
\* Startup: main wires the files, loads the snapshot and replays the log.

Start ==
  /\ pc = "down"
  /\ pc' = "loading"
  /\ UNCHANGED <<files, data, writes, stream, buffered, op, reply, pos>>

\* Mutant of LoadSnapshot: the log is always replayed from its start.
LoadSnapshotReplayAll ==
  /\ pc = "loading" /\ snap # Torn
  /\ data' = SnapMap /\ pos' = 0
  /\ pc' = "replaying"
  /\ UNCHANGED <<files, writes, stream, buffered, op, reply>>

\* Mutant of LoadSnapshot: replay starts one record behind the offset.
LoadSnapshotPastOffset ==
  /\ pc = "loading" /\ snap # Torn
  /\ data' = SnapMap /\ pos' = SnapOffset + 1
  /\ pc' = "replaying"
  /\ UNCHANGED <<files, writes, stream, buffered, op, reply>>

LoadSnapshot ==
  /\ pc = "loading" /\ snap # Torn
  /\ data' = SnapMap /\ pos' = SnapOffset
  /\ pc' = "replaying"
  /\ UNCHANGED <<files, writes, stream, buffered, op, reply>>

\* The snapshot exists but cannot be opened or read: it counts as missing and
\* the whole log is replayed, or the exception of a read that fails half way
\* ends the process.
LoadUnread ==
  /\ pc = "loading" /\ snap # None /\ "readError" \in Faults
  /\ data' = EmptyMap /\ pos' = 0
  /\ pc' \in {"unread", "down"}
  /\ UNCHANGED <<files, writes, stream, buffered, op, reply>>

\* The log cannot be opened, or not be read on: replay ends as at its end.
ReplayUnread ==
  /\ Replaying /\ "readError" \in Faults
  /\ pos' = Len(wal) /\ pc' = "unread"
  /\ UNCHANGED <<files, data, writes, stream, buffered, op, reply>>

\* One round of ReplayFrom's loop.
ReplayRecord ==
  /\ Replaying /\ ~OffsetStale
  /\ pos < Len(wal) /\ wal[pos + 1] # Torn
  /\ data' = apply_record(data, wal[pos + 1]) /\ pos' = pos + 1
  /\ UNCHANGED <<files, writes, stream, buffered, pc, op, reply>>

\* Mutant of ReplayStops: the last record is left out.
ReplayStopsEarly ==
  /\ Replaying /\ (OffsetStale => wal = <<>>)
  /\ pos + 1 >= Len(wal)
  /\ pos' = 0 /\ pc' = "idle"
  /\ UNCHANGED <<files, data, writes, stream, buffered, op, reply>>

\* Mutant of ReplayStops: the loop waits for the rest of a torn record.
ReplayWaitsForTheRest ==
  /\ Replaying /\ (OffsetStale => wal = <<>>)
  /\ pos >= Len(wal)
  /\ pos' = 0 /\ pc' = "idle"
  /\ UNCHANGED <<files, data, writes, stream, buffered, op, reply>>

\* The loop ends at the end of the file or at a torn last record.
ReplayStops ==
  /\ Replaying /\ (OffsetStale => wal = <<>>)
  /\ pos >= Len(wal) \/ (pos + 1 = Len(wal) /\ wal[pos + 1] = Torn)
  /\ pos' = 0 /\ pc' = "idle"
  /\ UNCHANGED <<files, data, writes, stream, buffered, op, reply>>

\* Once off the record boundaries the bytes decide: any map can result.
ReplayOffFrame ==
  /\ Replaying
  /\ \/ OffsetStale /\ wal # <<>>
     \/ pos + 1 < Len(wal) /\ wal[pos + 1] = Torn
  /\ data' \in Map
  /\ pos' = 0 /\ pc' = "idle"
  /\ UNCHANGED <<files, writes, stream, buffered, op, reply>>

Recovery ==
  \/ LoadSnapshot \/ ReplayRecord \/ ReplayStops \/ ReplayOffFrame
  \/ LoadUnread \/ ReplayUnread

----------------------------------------------------------------------------
\* SET and DELETE: append, then memory, then perhaps a snapshot.

Request(command) ==
  /\ command \in Commands /\ pc = "idle"
  /\ Len(wal) < MaxLog /\ writes < MaxLog
  /\ reply' = "none"
  /\ UNCHANGED <<files, data, writes, stream, buffered, pos>>

Set(k, v) ==
  Request("SET") /\ op' = SetRecord(k, v) /\ pc' = "appending"

\* Absent keys are logged too.
Delete(k) ==
  Request("DELETE") /\ op' = DeleteRecord(k) /\ pc' = "appending"

AppendRecord ==
  /\ pc = "appending" /\ stream = "good" /\ op \notin Oversized
  /\ wal' = Append(wal, op) /\ durable' = apply_record(durable, op)
  /\ pc' = "applying"
  /\ UNCHANGED <<snap, tmp, orphaned, data, writes, stream, buffered, op,
                 reply, pos>>

\* Mutant of AppendFails: the stream is used on after the failure.
AppendFailsForgiven ==
  /\ pc = "appending" /\ stream = "good" /\ op \notin Oversized
  /\ "walError" \in Faults
  /\ UNCHANGED wal
  /\ buffered' = op
  /\ Answer("ERR")
  /\ UNCHANGED <<snap, tmp, durable, orphaned, data, writes, stream, op, pos>>

\* The first failed write sets badbit.  Part of the record may be in the file;
\* the bytes the buffer kept are written again when the stream is closed.
AppendFails ==
  /\ pc = "appending" /\ stream = "good" /\ op \notin Oversized
  /\ "walError" \in Faults
  /\ \/ UNCHANGED wal
     \/ "torn" \in Faults /\ wal' = Append(wal, Torn)
  /\ stream' = "bad" /\ buffered' = op
  /\ Answer("ERR")
  /\ UNCHANGED <<snap, tmp, durable, orphaned, data, writes, op, pos>>

\* Mutant of AppendRefused: nobody looks at the stream's state or the length.
AppendUnchecked ==
  /\ pc = "appending" /\ (stream = "bad" \/ op \in Oversized)
  /\ pc' = "applying"
  /\ UNCHANGED <<files, data, writes, stream, buffered, op, reply, pos>>

\* A record that replay would not read is not written.  badbit is sticky: every
\* later append throws before writing a byte.
AppendRefused ==
  /\ pc = "appending" /\ (stream = "bad" \/ op \in Oversized)
  /\ Answer("ERR")
  /\ UNCHANGED <<files, data, writes, stream, buffered, op, pos>>

\* Mutant of ApplyWrite: the snapshot comes one write too late.
ApplyWriteOffByOne ==
  /\ pc = "applying"
  /\ data' = apply_record(data, op) /\ writes' = writes + 1
  /\ IF writes' > kSnapshotInterval
     THEN pc' = "saving" /\ UNCHANGED reply
     ELSE Answer("OK")
  /\ UNCHANGED <<files, stream, buffered, op, pos>>

\* The map is updated, and MaybeSnapshot looks at the counter.
ApplyWrite ==
  /\ pc = "applying"
  /\ data' = apply_record(data, op) /\ writes' = writes + 1
  /\ IF writes' >= kSnapshotInterval
     THEN pc' = "saving" /\ UNCHANGED reply
     ELSE Answer("OK")
  /\ UNCHANGED <<files, stream, buffered, op, pos>>

----------------------------------------------------------------------------
\* Snapshots: read the offset, write the temporary file, rename it.

SaveSnapshot ==
  Request("SNAPSHOT") /\ op' = None /\ pc' = "saving"

\* CurrentOffset flushes the stream first, and throws when it is bad.
CurrentOffsetFails ==
  /\ pc = "saving" /\ stream = "bad"
  /\ Answer("ERR")
  /\ UNCHANGED <<files, data, writes, stream, buffered, op, pos>>

\* Mutant of SaveTemp: the recorded offset is one record too far.
SaveTempAhead ==
  /\ pc = "saving" /\ stream = "good"
  /\ tmp' = [map |-> data, offset |-> Len(wal) + 1]
  /\ pc' = "renaming"
  /\ UNCHANGED <<wal, snap, durable, orphaned, data, writes, stream, buffered,
                 op, reply, pos>>

SaveTemp ==
  /\ pc = "saving" /\ stream = "good"
  /\ tmp' = [map |-> data, offset |-> Len(wal)]
  /\ pc' = "renaming"
  /\ UNCHANGED <<wal, snap, durable, orphaned, data, writes, stream, buffered,
                 op, reply, pos>>

\* Mutant of SaveFails: a failed write of the file goes unnoticed.
SaveFailsUnnoticed ==
  /\ "snapshotError" \in Faults
  /\ pc = "saving" /\ stream = "good" /\ tmp' = Torn
  /\ pc' = "renaming"
  /\ UNCHANGED <<wal, snap, durable, orphaned, data, writes, stream, buffered,
                 op, reply, pos>>

\* Writing or renaming the temporary file fails; the counter is not reset.
SaveFails ==
  /\ "snapshotError" \in Faults
  /\ \/ pc = "saving" /\ stream = "good" /\ tmp' \in {tmp, Torn}
     \/ pc = "renaming" /\ UNCHANGED tmp
  /\ Answer("ERR")
  /\ UNCHANGED <<wal, snap, durable, orphaned, data, writes, stream, buffered,
                 op, pos>>

CommitSnapshot ==
  /\ pc = "renaming"
  /\ snap' = tmp /\ tmp' = None /\ orphaned' = FALSE /\ durable' = data
  /\ writes' = 0
  /\ Answer("OK")
  /\ UNCHANGED <<wal, data, stream, buffered, op, pos>>

----------------------------------------------------------------------------
\* CLEAR PERSISTENCE: truncate the log, then remove both snapshot files.

ClearPersistence ==
  Request("CLEAR_PERSISTENCE") /\ op' = None /\ pc' = "clearingWal"

\* Until the snapshot is removed too, a recovery finds just the snapshot.
Truncated ==
  /\ wal' = <<>> /\ durable' = SnapMap
  /\ orphaned' = (SnapOffset > 0)

\* Mutant of ClearWal: the old stream's bytes outlive the truncation.
ClearWalKeepsBuffer ==
  /\ pc = "clearingWal"
  /\ Truncated
  /\ stream' = "good" /\ UNCHANGED buffered
  /\ pc' = "clearingSnapshot"
  /\ UNCHANGED <<snap, tmp, data, writes, op, reply, pos>>

ClearWal ==
  /\ pc = "clearingWal"
  /\ Truncated
  /\ stream' = "good" /\ buffered' = None
  /\ pc' = "clearingSnapshot"
  /\ UNCHANGED <<snap, tmp, data, writes, op, reply, pos>>

\* Bytes that closing the stream writes out.
FlushBuffered ==
  \/ UNCHANGED <<wal, durable>>
  \/ /\ buffered # None
     /\ wal' = Append(wal, buffered)
     /\ durable' = apply_record(durable, buffered)
  \/ /\ buffered # None /\ "torn" \in Faults
     /\ wal' = Append(wal, Torn) /\ UNCHANGED durable

\* Closing succeeded or not; truncating or reopening then failed.  The stream
\* stays closed, so every append fails until the next CLEAR PERSISTENCE.
ClearWalFails ==
  /\ pc = "clearingWal" /\ "clearError" \in Faults
  /\ Truncated \/ (FlushBuffered /\ UNCHANGED orphaned)
  /\ stream' = "bad" /\ buffered' = None
  /\ Answer("ERR")
  /\ UNCHANGED <<snap, tmp, data, writes, op, pos>>

ClearSnapshot ==
  /\ pc = "clearingSnapshot"
  /\ snap' = None /\ durable' = EmptyMap /\ orphaned' = FALSE
  /\ pc' = "clearingTemp"
  /\ UNCHANGED <<wal, tmp, data, writes, stream, buffered, op, reply, pos>>

ClearTemp ==
  /\ pc = "clearingTemp"
  /\ tmp' = None /\ writes' = 0
  /\ Answer("OK")
  /\ UNCHANGED <<wal, snap, durable, orphaned, data, stream, buffered, op,
                 pos>>

ClearSnapshotFails ==
  /\ pc \in {"clearingSnapshot", "clearingTemp"} /\ "clearError" \in Faults
  /\ Answer("ERR")
  /\ UNCHANGED <<files, data, writes, stream, buffered, op, pos>>

\* KVStore::Clear, the library call that empties memory alone.
Clear ==
  /\ "CLEAR" \in Commands /\ pc = "idle"
  /\ data' = EmptyMap /\ writes' = 0
  /\ op' = None
  /\ Answer("OK")
  /\ UNCHANGED <<files, stream, buffered, pos>>

Get(k) == data[k]
Contains(k) == data[k] # NoValue

----------------------------------------------------------------------------
\* The end of a process.

\* EXIT or end of input: the stream's destructor closes it.
Exit ==
  /\ pc = "idle"
  /\ FlushBuffered
  /\ Stopped
  /\ UNCHANGED <<snap, tmp, orphaned>>

\* The process dies: an append or a temporary file may be half written, the
\* closed log stream's buffer may be in the log that was to be truncated.
Crash ==
  /\ pc # "down" /\ "crash" \in Faults
  /\ pc = "clearingSnapshot" => "clearCrash" \in Faults
  /\ \/ UNCHANGED <<wal, tmp, durable>>
     \/ /\ pc = "appending" /\ stream = "good" /\ op \notin Oversized
        /\ "torn" \in Faults
        /\ wal' = Append(wal, Torn) /\ UNCHANGED <<tmp, durable>>
     \/ /\ pc = "saving" /\ stream = "good"
        /\ tmp' = Torn /\ UNCHANGED <<wal, durable>>
     \/ /\ pc = "clearingWal"
        /\ FlushBuffered /\ UNCHANGED tmp
  /\ Stopped
  /\ UNCHANGED <<snap, orphaned>>

----------------------------------------------------------------------------
Serve ==
  \/ \E k \in Key, v \in Value : Set(k, v)
  \/ \E k \in Key : Delete(k)
  \/ SaveSnapshot \/ ClearPersistence \/ Clear

\* The steps the process takes by itself, the failing calls among them.
Proceed ==
  \/ Recovery
  \/ AppendRecord \/ AppendFails \/ AppendRefused \/ ApplyWrite
  \/ CurrentOffsetFails \/ SaveTemp \/ SaveFails \/ CommitSnapshot
  \/ ClearWal \/ ClearWalFails \/ ClearSnapshot \/ ClearTemp
  \/ ClearSnapshotFails

Next == Start \/ Serve \/ Proceed \/ Exit \/ Crash

Spec == Init /\ [][Next]_vars

\* The process is scheduled: a step it can take by itself is taken.  A read that
\* fails is none that replay may wait for.
FairSpec ==
  /\ Spec
  /\ WF_vars(ReplayRecord \/ ReplayStops \/ ReplayOffFrame)
  /\ WF_vars(Proceed /\ ~Replaying)

----------------------------------------------------------------------------
\* The type invariant.  An offset or position may exceed the log's length.
TypeOK ==
  /\ wal \in Seq(Record \cup {Torn})
  /\ snap \in SnapshotFile \cup {None, Torn}
  /\ tmp \in SnapshotFile \cup {None, Torn}
  /\ durable \in Map /\ data \in Map
  /\ orphaned \in BOOLEAN
  /\ writes \in Nat /\ pos \in Nat
  /\ stream \in {"good", "bad"}
  /\ buffered \in Record \cup {None} /\ op \in Record \cup {None}
  /\ buffered # None => stream = "bad"
  /\ pc \in {"down", "loading", "replaying", "unread", "idle", "appending",
             "applying", "saving", "renaming", "clearingWal",
             "clearingSnapshot", "clearingTemp"}
  /\ pc = "unread" => "readError" \in Faults
  /\ pc \in {"appending", "applying"} => op # None
  /\ reply \in {"none", "OK", "ERR"}

\* The snapshot and the log behind its offset always rebuild the map that the
\* appends, checkpoints and clears so far promise, whatever failed or crashed
\* on the way, unless replay cannot keep to record boundaries (kv_store.cpp
\* takes the offset after the flush, wal.cpp replays from it).
Recoverable == Damaged \/ Recovered = durable

\* A snapshot file that was only partly written is never committed: writing
\* goes to the temporary file and only a complete one is renamed
\* (Snapshot::Save).
CommittedSnapshotWhole == snap # Torn /\ (pc = "renaming" => tmp # Torn)

\* When a SET or DELETE has been answered without an error, a process that
\* started from the files now would find that write (KVStore::Set appends
\* before it touches memory).
AckedWriteIsDurable ==
  pc = "idle" /\ reply = "OK" /\ op # None =>
    Damaged \/ Recovered[op.key] = op.value

\* Recovery never brings back what a client can no longer read: for every key
\* it finds what Get answers, or nothing if persistence was cleared since the
\* key was written (KVStore::ClearPersistence leaves the map alone, failed
\* writes leave both alone).
MemoryCoversDurable ==
  pc = "idle" => Damaged \/ \A k \in Key : durable[k] \in {Get(k), NoValue}

\* A process that could read its files starts serving with the promised map
\* (LoadSnapshot, then ReplayFrom at the snapshot's offset).
RecoveryRebuilds ==
  [][pc = "replaying" /\ pc' = "idle" => Damaged \/ data' = durable]_vars

\* The counter can stand at the interval only because the last snapshot
\* attempt failed: no answered command leaves a checkpoint overdue
\* (KVStore::MaybeSnapshot).
OverdueOnlyAfterError ==
  pc = "idle" /\ writes >= kSnapshotInterval => reply = "ERR"

\* A started process or a command in progress always gets to an answer,
\* unless the process dies (every error path of CliServer::Execute answers).
Responsive == pc \notin {"idle", "down"} ~> pc \in {"idle", "down"}

\* DESIGN.md:85, snapshots are saved "automatically after every 1,000 write
\* commands": the log never holds an interval's worth of writes that no
\* snapshot covers once a command has been answered.
SnapshotEveryInterval ==
  pc = "idle" /\ reply = "OK" => Len(wal) - SnapOffset < kSnapshotInterval

----------------------------------------------------------------------------
\* What makes the properties above inductive.

\* While replaying, the map is what the snapshot and the records up to pos give.
ReplayedSoFar ==
  pc = "replaying" =>
    \/ Damaged
    \/ /\ pos >= SnapOffset
       /\ pos = SnapOffset \/ (~orphaned /\ pos <= Len(wal))
       /\ data = Replayed(SnapMap, wal, SnapOffset, pos)

\* A snapshot's offset is in the log, unless the log was truncated under it.
OffsetInLog == orphaned \/ SnapOffset <= Len(wal)

\* The file about to be renamed holds the current map and the log's end.
TempIsCurrent ==
  pc = "renaming" => tmp = [map |-> data, offset |-> Len(wal)]

\* Between truncation and the removal of the snapshot, the snapshot is all.
OnlySnapshotLeft == pc = "clearingSnapshot" => wal = <<>>

\* The effect of the current write is promised, and in memory, from the step
\* that puts it there until the answer.
WriteInEffect ==
  op # None =>
    /\ pc \in {"applying", "saving", "renaming"} \/ (pc = "idle" /\ reply = "OK")
         => durable[op.key] = op.value
    /\ pc \in {"saving", "renaming"} => data[op.key] = op.value

\* Only a SET or a DELETE leaves a record behind.
NoWriteWhileClearing ==
  pc \in {"clearingWal", "clearingSnapshot", "clearingTemp"} => op = None

\* A new process has answered nothing and counted nothing.
Fresh ==
  pc \in {"down", "loading", "replaying", "unread"} =>
    reply = "none" /\ writes = 0

IndInv ==
  /\ TypeOK /\ Recoverable /\ CommittedSnapshotWhole
  /\ ReplayedSoFar /\ OffsetInLog /\ TempIsCurrent /\ OnlySnapshotLeft
  /\ WriteInEffect /\ NoWriteWhileClearing /\ Fresh
=============================================================================
