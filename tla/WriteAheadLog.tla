--------------------------- MODULE WriteAheadLog ---------------------------
(***************************************************************************)
(* The store's files as bytes: a process that appends framed records,      *)
(* saves snapshots with the log's byte offset, clears both files, dies in  *)
(* the middle of an append or of a clear, and recovers from what is there. *)
(* KVStore has the same process step by step over whole records; here the  *)
(* steps between two requests are one, and every byte counts.              *)
(***************************************************************************)
EXTENDS WalFormat, SequencesExt

CONSTANTS
  Keys, Values, \* the strings clients use
  None,         \* no operation
  Torn,         \* an append that was cut short
  Faults,       \* what can go wrong
  MaxEntries    \* bound: appends to one log

ASSUME WalFaultsAssumption == Faults \subseteq {"torn", "clearCrash", "powerLoss"}

VARIABLES
  file,    \* bytes of the log
  snap,    \* map and offset of the committed snapshot; offset 0 without one
  data,    \* the in-memory map, from keys to values
  acked,   \* the entry of the last operation that was answered, or None
  entries, \* history: what was appended to this log, and where it ended
  stale,   \* history: the snapshot's offset was never in the log as it is now
  atRisk   \* history: the files need not give back what was answered last

vars == <<file, snap, data, acked, entries, stale, atRisk>>

ASSUME StringsAssumption == Keys \subseteq Seq(Byte) /\ Values \subseteq Seq(Byte)

Operation == [op: {SetOp}, key: Keys, value: Values] \cup [op: {DeleteOp}, key: Keys]

ASSUME MarkersAssumption == {Malformed, Torn} \cap Operation = {}

\* main's startup: the snapshot's map, then the log from its offset on.  At an
\* offset beyond the end nothing is read.
RecoveredFrom(bytes) == Applied(snap.map, ReplayFrom(bytes, snap.offset))
Recovered == RecoveredFrom(file)

Init ==
  /\ file = <<>> /\ snap = [map |-> EmptyMap, offset |-> 0]
  /\ data = EmptyMap /\ acked = None
  /\ entries = <<>> /\ stale = FALSE /\ atRisk = FALSE

Entry(what, bytes) == [what |-> what, end |-> Len(bytes)]

\* Where the n-th entry ends and the next one starts.
EndOf(n) == IF n = 0 THEN 0 ELSE entries[n].end

\* The fragments behind the snapshot's offset.
TornAt == {n \in 1..Len(entries) : entries[n].what = Torn /\ snap.offset < EndOf(n)}

\* Replay starts where no entry does, or meets a fragment with bytes behind it.
Damaged == stale \/ ~(TornAt \subseteq {Len(entries)})

\* A map that what was answered last has been applied to.
KeepsAcked(map) == acked # None => Apply(map, acked.what) = map

\* AppendSet and AppendDelete with the map's update; a payload beyond the limit
\* is refused before the first byte.
Write(operation) ==
  /\ Len(entries) < MaxEntries
  /\ WithinLimit(Payload(operation))
  /\ file' = file \o Frame(Payload(operation))
  /\ data' = Apply(data, operation) /\ acked' = Entry(operation, file')
  /\ entries' = Append(entries, acked')
  /\ UNCHANGED <<snap, stale>>
  /\ atRisk' = Damaged'

\* The process dies with part of a frame written, and a new one recovers.  The
\* constructor opens the log to append and leaves the fragment where it is.
TornWrite(operation) ==
  /\ "torn" \in Faults /\ Len(entries) < MaxEntries
  /\ WithinLimit(Payload(operation))
  /\ LET frame == Frame(Payload(operation))
     IN  \E n \in 1..(Len(frame) - 1) : file' = file \o SubSeq(frame, 1, n)
  /\ data' = RecoveredFrom(file')
  /\ entries' = Append(entries, Entry(Torn, file'))
  /\ UNCHANGED <<snap, acked, stale>>
  /\ atRisk' = (atRisk \/ Damaged')

Restart ==
  /\ data' = Recovered
  /\ UNCHANGED <<file, snap, acked, entries, stale, atRisk>>

\* A snapshot of a memory that holds what was answered last ends the risk.
SaveSnapshot ==
  /\ snap' = [map |-> data, offset |-> Len(file)] /\ stale' = FALSE
  /\ atRisk' = (atRisk /\ ~KeepsAcked(data))
  /\ UNCHANGED <<file, data, acked, entries>>

\* What was answered last the client has asked to forget.
ForgetAcked == acked' = None /\ atRisk' = FALSE

\* Mutant of ClearPersistence: the snapshot file is left where it is.
ClearLogOnly ==
  /\ file' = <<>> /\ entries' = <<>>
  /\ ForgetAcked
  /\ UNCHANGED <<snap, data, stale>>

ClearPersistence ==
  /\ file' = <<>> /\ entries' = <<>>
  /\ snap' = [map |-> EmptyMap, offset |-> 0] /\ stale' = FALSE
  /\ ForgetAcked
  /\ UNCHANGED data

\* The log is truncated, and the process dies before the snapshot is removed.
ClearCutShort ==
  /\ "clearCrash" \in Faults
  /\ file' = <<>> /\ entries' = <<>>
  /\ stale' = (snap.offset > 0)
  /\ data' = RecoveredFrom(file')
  /\ ForgetAcked
  /\ UNCHANGED snap

\* The power failure took the answered operation's record, and the snapshot had
\* not got it.
AckedCutOff ==
  acked # None /\ snap.offset < acked.end /\ Len(file) < acked.end

\* AppendRecord flushes to the operating system and never syncs: without power
\* the log loses an end of any length, answered or not, while the snapshot was
\* renamed into place.
PowerLoss ==
  /\ "powerLoss" \in Faults
  /\ \E n \in 0..(Len(file) - 1), kept \in 0..(Len(entries) - 1) :
       /\ EndOf(kept) <= n /\ n < EndOf(kept + 1)
       /\ file' = SubSeq(file, 1, n)
       /\ entries' = IF EndOf(kept) = n THEN SubSeq(entries, 1, kept)
                     ELSE Append(SubSeq(entries, 1, kept), Entry(Torn, file'))
  /\ stale' = (stale \/ snap.offset > Len(file'))
  /\ data' = RecoveredFrom(file')
  /\ UNCHANGED <<snap, acked>>
  /\ atRisk' = (atRisk \/ Damaged' \/ AckedCutOff')

Next ==
  \/ \E operation \in Operation : Write(operation) \/ TornWrite(operation)
  \/ Restart \/ SaveSnapshot \/ ClearPersistence \/ ClearCutShort
  \/ PowerLoss

Spec == Init /\ [][Next]_vars

----------------------------------------------------------------------------
\* How many entries the snapshot covers, unless its offset is stale.
Covered == CHOOSE n \in 0..Len(entries) : EndOf(n) = snap.offset

\* The operations behind the snapshot's offset, up to the first torn one.
LastWhole ==
  CHOOSE n \in Covered..Len(entries) :
    /\ TornAt \cap 1..n = {}
    /\ n = Len(entries) \/ n + 1 \in TornAt
Whole == [i \in 1..(LastWhole - Covered) |-> entries[Covered + i].what]

\* Replay reads back exactly the records behind the snapshot's offset; with a
\* fragment among them it still reads those before the fragment, and with the
\* fragment at the end no others.  This is what KVStore's replay rests on.
ReplayReadsTheRecords ==
  ~stale =>
    LET replayed == ReplayFrom(file, snap.offset)
    IN  /\ IsPrefix(Whole, replayed)
        /\ TornAt \subseteq {Len(entries)} => replayed = Whole

\* A write that was answered is found again by a recovery, whatever was cut
\* short since (kv_store.cpp:28, "a successful in-memory write has an earlier
\* durable record to replay after a crash").
AckedWriteIsReplayed == KeepsAcked(Recovered)

\* AckedWriteIsReplayed fails in three ways only: the write, or a later append
\* that was cut short, went behind a fragment; the snapshot's offset was stale;
\* or a power failure took the record that was flushed and not synced, or left
\* such damage behind it, before a snapshot had the write.  Processes that die,
\* also in the middle of one append, lose nothing that was answered, and a
\* snapshot of a memory that holds the write ends the risk
\* (WriteAheadLog::AppendRecord, KVStore::SaveSnapshot).
AckedUnlessDamaged == atRisk \/ AckedWriteIsReplayed

----------------------------------------------------------------------------
(***************************************************************************)
(* The inductive invariant: how the entries lie in the file, what the      *)
(* snapshot's offset means, and where the last answered operation is.      *)
(***************************************************************************)
TypeOK ==
  /\ file \in Seq(Byte) /\ stale \in BOOLEAN
  /\ entries \in Seq([what: Operation \cup {Torn}, end: Nat])
  /\ snap.offset \in Nat

\* The n-th entry's bytes are the first ones of the frame.
LiesAt(n, frame) ==
  \A i \in 1..(EndOf(n) - EndOf(n - 1)) : file[EndOf(n - 1) + i] = frame[i]

\* The n-th entry is a frame that a writer wrote, or a fragment of one.
EntryInFile(n) ==
  /\ EndOf(n - 1) < EndOf(n)
  /\ \E operation \in Operation :
       LET frame == Frame(Payload(operation))
       IN  /\ WithinLimit(Payload(operation)) /\ LiesAt(n, frame)
           /\ IF entries[n].what = Torn
              THEN EndOf(n) < EndOf(n - 1) + Len(frame)
              ELSE entries[n].what = operation /\ EndOf(n) = EndOf(n - 1) + Len(frame)

EntriesFillTheFile ==
  /\ EndOf(Len(entries)) = Len(file)
  /\ \A n \in 1..Len(entries) : EntryInFile(n)

\* The offset of a snapshot lies between two entries.
OffsetBetweenEntries == ~stale => \E n \in 0..Len(entries) : EndOf(n) = snap.offset

\* What was answered last is in the snapshot or an entry behind it, and behind
\* both are fragments only.
AckedInFiles ==
  \E n \in 0..Len(entries) :
    /\ \A i \in (n + 1)..Len(entries) : entries[i].what = Torn
    /\ \/ EndOf(n) = snap.offset /\ Apply(snap.map, acked.what) = snap.map
       \/ /\ n > 0 /\ entries[n] = acked /\ acked.what # Torn
          /\ snap.offset < EndOf(n)

\* What was answered last and is not at risk is in the memory and in the files.
AckedIsKept ==
  acked # None /\ ~atRisk =>
    ~Damaged /\ Apply(data, acked.what) = data /\ AckedInFiles

LogInv == TypeOK /\ EntriesFillTheFile

FileInv == LogInv /\ OffsetBetweenEntries /\ AckedIsKept
=============================================================================
