--------------------------- MODULE KVStoreProofs ---------------------------
(***************************************************************************)
(* The safety of KVStore for every set of keys and values, every snapshot  *)
(* interval, every choice of commands and faults and logs of any length.   *)
(***************************************************************************)
EXTENDS KVStoreRefinement, TLAPS

----------------------------------------------------------------------------
\* What Replayed makes of a log that grows, record by record.

\* Applying a record to a map yields a map.
LEMMA ApplyIsMap ==
  ASSUME NEW map \in Map, NEW r \in Record
  PROVE  apply_record(map, r) \in Map
  BY DEF Map, Record, apply_record

\* An empty range of the log changes nothing (ReplayFrom at or past the end).
LEMMA ReplayNothing ==
  ASSUME NEW map \in Map, NEW log, NEW lo \in Nat, NEW hi \in Nat, hi <= lo
  PROVE  Replayed(map, log, lo, hi) = map
<1>1. \A k : Writers(log, lo, hi, k) = {}
  BY DEF Writers
<1>2. \A k : NewestValue(log, lo, hi, k) = {}
  BY <1>1 DEF NewestValue
<1>3. Replayed(map, log, lo, hi) = [k \in Key |-> map[k]]
  BY <1>2 DEF Replayed
<1> QED
  BY <1>3 DEF Map

\* One more record has the effect of apply_record on what came before it: the
\* closed form is the loop of ReplayFrom.
LEMMA ReplayOneMore ==
  ASSUME NEW map, NEW log, NEW lo \in Nat, NEW hi \in Nat, lo <= hi,
         log[hi + 1] \in Record
  PROVE  Replayed(map, log, lo, hi + 1)
           = apply_record(Replayed(map, log, lo, hi), log[hi + 1])
<1> DEFINE r == log[hi + 1]
           W(k) == Writers(log, lo, hi, k)
           X(k) == Writers(log, lo, hi + 1, k)
<1>0. r.key \in Key /\ r # Torn
  BY MarkersAssumption DEF Record
<1>1. X(r.key) = W(r.key) \cup {hi + 1}
  BY <1>0 DEF Writers
<1>2. NewestValue(log, lo, hi + 1, r.key) = {r.value}
  <2>1. {j \in X(r.key) : \A other \in X(r.key) : other <= j} = {hi + 1}
    BY <1>1 DEF Writers
  <2> QED
    BY <2>1 DEF NewestValue
<1>3. ASSUME NEW k \in Key, k # r.key
      PROVE  NewestValue(log, lo, hi + 1, k) = NewestValue(log, lo, hi, k)
  <2>1. X(k) = W(k)
    BY <1>3 DEF Writers
  <2> QED
    BY <2>1 DEF NewestValue
<1>4. Replayed(map, log, lo, hi + 1)[r.key] = r.value
  BY <1>0, <1>2 DEF Replayed, TheElement
<1>5. ASSUME NEW k \in Key, k # r.key
      PROVE  Replayed(map, log, lo, hi + 1)[k] = Replayed(map, log, lo, hi)[k]
  BY <1>3, <1>5 DEF Replayed
<1> HIDE DEF r
<1>6. Replayed(map, log, lo, hi + 1)
        = [Replayed(map, log, lo, hi) EXCEPT ![r.key] = r.value]
  BY <1>0, <1>4, <1>5 DEF Replayed
<1> QED
  BY <1>6 DEF apply_record, r

\* A torn entry is passed over.
LEMMA ReplayTorn ==
  ASSUME NEW map, NEW log, NEW lo \in Nat, NEW hi \in Nat, log[hi + 1] = Torn
  PROVE  Replayed(map, log, lo, hi + 1) = Replayed(map, log, lo, hi)
<1>1. \A k : Writers(log, lo, hi + 1, k) = Writers(log, lo, hi, k)
  BY DEF Writers
<1>2. \A k : NewestValue(log, lo, hi + 1, k) = NewestValue(log, lo, hi, k)
  BY <1>1 DEF NewestValue
<1> QED
  BY <1>2 DEF Replayed

\* What is appended does not change the replay of what was there.
LEMMA ReplayPrefix ==
  ASSUME NEW S, NEW map, NEW log \in Seq(S), NEW e \in S,
         NEW lo \in Nat, NEW hi \in Nat, hi <= Len(log)
  PROVE  Replayed(map, Append(log, e), lo, hi) = Replayed(map, log, lo, hi)
<1>1. \A i \in (lo + 1)..hi : Append(log, e)[i] = log[i]
  OBVIOUS
<1>2. \A k : Writers(Append(log, e), lo, hi, k) = Writers(log, lo, hi, k)
  BY <1>1 DEF Writers
<1>3. ASSUME NEW k
      PROVE  NewestValue(Append(log, e), lo, hi, k)
               = NewestValue(log, lo, hi, k)
  BY <1>1, <1>2 DEF NewestValue, Writers
<1> QED
  BY <1>3 DEF Replayed

\* Appending a record and then recovering is recovering and then applying it.
LEMMA ReplayAppended ==
  ASSUME NEW map, NEW log \in Seq(Record \cup {Torn}), NEW r \in Record,
         NEW lo \in Nat, lo <= Len(log)
  PROVE  Replayed(map, Append(log, r), lo, Len(Append(log, r)))
           = apply_record(Replayed(map, log, lo, Len(log)), r)
<1>1. /\ Append(log, r)[Len(log) + 1] = r
      /\ Len(Append(log, r)) = Len(log) + 1
      /\ Len(log) \in Nat
  OBVIOUS
<1>2. Replayed(map, Append(log, r), lo, Len(log) + 1)
        = apply_record(Replayed(map, Append(log, r), lo, Len(log)), r)
  <2> DEFINE longer == Append(log, r)
  <2>1. longer[Len(log) + 1] \in Record
    BY <1>1
  <2> HIDE DEF longer
  <2>2. Replayed(map, longer, lo, Len(log) + 1)
          = apply_record(Replayed(map, longer, lo, Len(log)),
                         longer[Len(log) + 1])
    BY <1>1, <2>1, ReplayOneMore
  <2> QED
    BY <1>1, <2>2 DEF longer
<1>3. Replayed(map, Append(log, r), lo, Len(log))
        = Replayed(map, log, lo, Len(log))
  BY <1>1, ReplayPrefix
<1> QED
  BY <1>1, <1>2, <1>3

\* An append that was cut short leaves what recovery finds as it was.
LEMMA ReplayAppendedTorn ==
  ASSUME NEW map, NEW log \in Seq(Record \cup {Torn}), NEW lo \in Nat
  PROVE  Replayed(map, Append(log, Torn), lo, Len(Append(log, Torn)))
           = Replayed(map, log, lo, Len(log))
<1>1. /\ Append(log, Torn)[Len(log) + 1] = Torn
      /\ Len(Append(log, Torn)) = Len(log) + 1
      /\ Len(log) \in Nat
  OBVIOUS
<1>2. Replayed(map, Append(log, Torn), lo, Len(log) + 1)
        = Replayed(map, Append(log, Torn), lo, Len(log))
  BY <1>1, ReplayTorn
<1>3. Replayed(map, Append(log, Torn), lo, Len(log))
        = Replayed(map, log, lo, Len(log))
  BY <1>1, ReplayPrefix
<1> QED
  BY <1>1, <1>2, <1>3

----------------------------------------------------------------------------
\* The first layer of the induction: types, and no partial snapshot in place.
WellFormed == TypeOK /\ CommittedSnapshotWhole

USE DEF files, process

LEMMA SnapshotTypes ==
  ASSUME TypeOK, snap # Torn
  PROVE  SnapMap \in Map /\ SnapOffset \in Nat
  BY DEF TypeOK, SnapMap, SnapOffset, SnapshotFile, EmptyMap, Map

LEMMA InitWellFormed == Init => WellFormed
<1> SUFFICES ASSUME Init PROVE WellFormed
  OBVIOUS
<1>1. EmptyMap \in Map
  BY DEF EmptyMap, Map
<1>2. None # Torn
  BY MarkersAssumption
<1>3. orphaned \in BOOLEAN
  BY Zenon DEF Init
<1>4. wal \in Seq(Record \cup {Torn}) /\ pos \in Nat /\ writes \in Nat
  BY DEF Init
<1>5. TypeOK
  BY <1>1, <1>3, <1>4, Zenon DEF Init, TypeOK
<1>6. CommittedSnapshotWhole
  BY <1>2 DEF Init, CommittedSnapshotWhole
<1> QED
  BY <1>5, <1>6 DEF WellFormed

LEMMA NextWellFormed ==
  ASSUME WellFormed, [Next]_vars
  PROVE  WellFormed'
<1> USE DEF WellFormed, TypeOK, CommittedSnapshotWhole
<1>0. /\ SnapMap \in Map /\ SnapOffset \in Nat
      /\ EmptyMap \in Map
      /\ None \notin Record /\ Torn \notin Record /\ None # Torn
  BY SnapshotTypes, MarkersAssumption DEF EmptyMap, Map
<1>1. CASE Start
  BY <1>1 DEF Start
<1>2. CASE LoadSnapshot
  BY <1>2, <1>0 DEF LoadSnapshot
<1>3. CASE ReplayRecord
  <2>1. wal[pos + 1] \in Record
    BY <1>3 DEF ReplayRecord
  <2>2. apply_record(data, wal[pos + 1]) \in Map
    BY <2>1, ApplyIsMap
  <2> QED
    BY <1>3, <2>2 DEF ReplayRecord
<1>4. CASE ReplayStops
  BY <1>4 DEF ReplayStops
<1>5. CASE ReplayOffFrame
  BY <1>5 DEF ReplayOffFrame
<1>6. ASSUME NEW k \in Key, NEW v \in Value, Set(k, v)
      PROVE  WellFormed'
  <2>1. SetRecord(k, v) \in Record
    BY DEF SetRecord, Record
  <2> QED
    BY <1>6, <1>0, <2>1 DEF Set, Request
<1>7. ASSUME NEW k \in Key, Delete(k)
      PROVE  WellFormed'
  <2>1. DeleteRecord(k) \in Record
    BY DEF DeleteRecord, Record
  <2> QED
    BY <1>7, <1>0, <2>1 DEF Delete, Request
<1>8. CASE AppendRecord
  <2>1. op \in Record
    BY <1>8 DEF AppendRecord
  <2>2. apply_record(durable, op) \in Map
    BY <2>1, ApplyIsMap
  <2> QED
    BY <1>8, <2>1, <2>2 DEF AppendRecord
<1>9. CASE AppendFails
  BY <1>9, <1>0 DEF AppendFails, Answer
<1>10. CASE AppendRefused
  BY <1>10 DEF AppendRefused, Answer
<1>11. CASE ApplyWrite
  <2>1. apply_record(data, op) \in Map
    BY <1>11, ApplyIsMap DEF ApplyWrite
  <2> QED
    BY <1>11, <2>1 DEF ApplyWrite, Answer
<1>12. CASE SaveSnapshot
  BY <1>12 DEF SaveSnapshot, Request
<1>13. CASE CurrentOffsetFails
  BY <1>13 DEF CurrentOffsetFails, Answer
<1>14. CASE SaveTemp
  <2>1. [map |-> data, offset |-> Len(wal)] \in SnapshotFile
    BY DEF SnapshotFile
  <2> QED
    BY <1>14, <2>1, FilesAssumption DEF SaveTemp
<1>15. CASE SaveFails
  BY <1>15 DEF SaveFails, Answer
<1>16. CASE CommitSnapshot
  BY <1>16 DEF CommitSnapshot, Answer
<1>17. CASE ClearPersistence
  BY <1>17 DEF ClearPersistence, Request
<1>18. CASE ClearWal
  BY <1>18, <1>0 DEF ClearWal, Truncated
<1>19. CASE ClearWalFails
  <2>1. buffered # None => apply_record(durable, buffered) \in Map
    BY ApplyIsMap
  <2>2. wal' \in Seq(Record \cup {Torn}) /\ durable' \in Map
    <3>1. CASE Truncated
      BY <3>1, <1>0 DEF Truncated
    <3>2. CASE FlushBuffered
      BY <3>2, <1>0, <2>1 DEF FlushBuffered
    <3> QED
      BY <1>19, <3>1, <3>2 DEF ClearWalFails
  <2>3. orphaned' \in BOOLEAN
    <3>1. CASE Truncated
      <4>1. (SnapOffset > 0) \in BOOLEAN
        BY <1>0
      <4> QED
        BY <3>1, <4>1, Zenon DEF Truncated
    <3>2. CASE UNCHANGED orphaned
      BY <3>2
    <3> QED
      BY <1>19, <3>1, <3>2 DEF ClearWalFails
  <2> QED
    BY <1>19, <1>0, <2>2, <2>3 DEF ClearWalFails, Answer
<1>20. CASE ClearSnapshot
  BY <1>20, <1>0 DEF ClearSnapshot
<1>21. CASE ClearTemp
  BY <1>21, <1>0 DEF ClearTemp, Answer
<1>22. CASE ClearSnapshotFails
  BY <1>22 DEF ClearSnapshotFails, Answer
<1>23. CASE Clear
  BY <1>23, <1>0 DEF Clear, Answer
<1>24. CASE Exit
  <2>1. buffered # None => apply_record(durable, buffered) \in Map
    BY ApplyIsMap
  <2> QED
    BY <1>24, <1>0, <2>1 DEF Exit, Stopped, FlushBuffered
<1>25. CASE Crash
  <2>1. buffered # None => apply_record(durable, buffered) \in Map
    BY ApplyIsMap
  <2>2. wal' \in Seq(Record \cup {Torn}) /\ durable' \in Map
    <3>1. CASE UNCHANGED durable /\ wal' \in {wal, Append(wal, Torn)}
      BY <3>1
    <3>2. CASE FlushBuffered
      BY <3>2, <1>0, <2>1 DEF FlushBuffered
    <3> QED
      BY <1>25, <3>1, <3>2 DEF Crash
  <2> QED
    BY <1>25, <1>0, <2>2 DEF Crash, Stopped
<1>26. CASE UNCHANGED vars
  BY <1>26 DEF vars
<1>27. CASE LoadUnread
  BY <1>27, <1>0 DEF LoadUnread
<1>28. CASE ReplayUnread
  BY <1>28 DEF ReplayUnread
<1> QED
  BY <1>1, <1>2, <1>3, <1>4, <1>5, <1>6, <1>7, <1>8, <1>9, <1>10, <1>11,
     <1>12, <1>13, <1>14, <1>15, <1>16, <1>17, <1>18, <1>19, <1>20, <1>21,
     <1>22, <1>23, <1>24, <1>25, <1>26, <1>27, <1>28
     DEF Next, Serve, Proceed, Recovery

LEMMA AlwaysWellFormed == Spec => []WellFormed
  BY InitWellFormed, NextWellFormed, PTL DEF Spec

\* Every state of the store is of the types that TypeOK gives.
THEOREM TypeCorrect == Spec => []TypeOK
<1>1. WellFormed => TypeOK
  BY DEF WellFormed
<1> QED
  BY <1>1, AlwaysWellFormed, PTL

\* A partly written snapshot never gets the name of the committed one.
THEOREM SnapshotWhole == Spec => []CommittedSnapshotWhole
<1>1. WellFormed => CommittedSnapshotWhole
  BY DEF WellFormed
<1> QED
  BY <1>1, AlwaysWellFormed, PTL

----------------------------------------------------------------------------
\* The second layer: what recovery finds.
RecoveryInv ==
  Recoverable /\ ReplayedSoFar /\ OffsetInLog /\ TempIsCurrent
  /\ OnlySnapshotLeft

\* A step that leaves the files alone leaves alone what recovery finds.
LEMMA FilesStay ==
  ASSUME UNCHANGED <<wal, snap, durable, orphaned>>
  PROVE  /\ SnapMap' = SnapMap /\ SnapOffset' = SnapOffset
         /\ Recovered' = Recovered
         /\ Damaged <=> Damaged'
         /\ Recoverable => Recoverable'
         /\ OffsetInLog => OffsetInLog'
<1>1. SnapMap' = SnapMap /\ SnapOffset' = SnapOffset
  BY DEF SnapMap, SnapOffset
<1>2. Recovered' = Recovered
  BY <1>1 DEF Recovered
<1>3. Damaged <=> Damaged'
  BY <1>1 DEF Damaged
<1> QED
  BY <1>1, <1>2, <1>3 DEF Recoverable, OffsetInLog

\* Damage stays while the log grows: no append repairs a frame before it.
LEMMA DamageStays ==
  ASSUME WellFormed, Damaged, NEW e \in Record \cup {Torn},
         wal' = Append(wal, e), UNCHANGED <<snap, orphaned>>
  PROVE  Damaged'
<1>1. SnapOffset' = SnapOffset /\ SnapOffset \in Nat
  BY SnapshotTypes DEF SnapOffset, WellFormed, CommittedSnapshotWhole
<1>2. wal \in Seq(Record \cup {Torn})
  BY DEF WellFormed, TypeOK
<1>3. /\ Len(wal) \in Nat
      /\ wal' # <<>> /\ Len(wal') = Len(wal) + 1
      /\ \A i \in 1..Len(wal) : wal'[i] = wal[i]
  BY <1>2
<1>4. CASE orphaned /\ wal # <<>>
  BY <1>3, <1>4 DEF Damaged
<1>5. ASSUME NEW i \in (SnapOffset + 1)..(Len(wal) - 1), wal[i] = Torn
      PROVE  Damaged'
  BY <1>1, <1>3, <1>5 DEF Damaged
<1> QED
  BY <1>4, <1>5 DEF Damaged

\* A record that reaches the log together with the promise is recovered.
LEMMA RecordAppended ==
  ASSUME WellFormed, Recoverable, OffsetInLog, NEW r \in Record,
         wal' = Append(wal, r), durable' = apply_record(durable, r),
         UNCHANGED <<snap, orphaned>>
  PROVE  Recoverable' /\ OffsetInLog'
<1>1. /\ SnapOffset' = SnapOffset /\ SnapMap' = SnapMap
      /\ SnapOffset \in Nat
  BY SnapshotTypes DEF SnapOffset, SnapMap, WellFormed, CommittedSnapshotWhole
<1>2. wal \in Seq(Record \cup {Torn})
  BY DEF WellFormed, TypeOK
<1>3. /\ Len(wal) \in Nat
      /\ wal' # <<>> /\ Len(wal') = Len(wal) + 1
  BY <1>2
<1>4. OffsetInLog'
  BY <1>1, <1>3 DEF OffsetInLog
<1>5. CASE Damaged
  BY <1>4, <1>5, DamageStays DEF Recoverable
<1>6. CASE orphaned
  BY <1>3, <1>4, <1>6 DEF Recoverable, Damaged
<1>7. CASE ~Damaged /\ ~orphaned
  <2>1. SnapOffset <= Len(wal)
    BY <1>7 DEF OffsetInLog
  <2>2. Recovered' = Replayed(SnapMap, Append(wal, r), SnapOffset,
                              Len(Append(wal, r)))
    BY <1>1 DEF Recovered
  <2>3. Recovered' = apply_record(Recovered, r)
    BY <1>1, <1>2, <2>1, <2>2, ReplayAppended DEF Recovered
  <2> QED
    BY <1>4, <1>7, <2>3 DEF Recoverable
<1> QED
  BY <1>5, <1>6, <1>7

\* A torn append takes nothing from what recovery finds.
LEMMA TornAppended ==
  ASSUME WellFormed, Recoverable, OffsetInLog,
         wal' = Append(wal, Torn), UNCHANGED <<snap, durable, orphaned>>
  PROVE  Recoverable' /\ OffsetInLog'
<1>1. /\ SnapOffset' = SnapOffset /\ SnapMap' = SnapMap
      /\ SnapOffset \in Nat
  BY SnapshotTypes DEF SnapOffset, SnapMap, WellFormed, CommittedSnapshotWhole
<1>2. wal \in Seq(Record \cup {Torn})
  BY DEF WellFormed, TypeOK
<1>3. Len(wal) \in Nat /\ Len(wal') = Len(wal) + 1
  BY <1>2
<1>4. OffsetInLog'
  BY <1>1, <1>3 DEF OffsetInLog
<1>5. CASE Damaged
  BY <1>4, <1>5, DamageStays DEF Recoverable
<1>6. CASE ~Damaged
  <2>1. Recovered' = Replayed(SnapMap, Append(wal, Torn), SnapOffset,
                              Len(Append(wal, Torn)))
    BY <1>1 DEF Recovered
  <2>2. Recovered' = Recovered
    BY <1>1, <1>2, <2>1, ReplayAppendedTorn DEF Recovered
  <2> QED
    BY <1>4, <1>6, <2>2 DEF Recoverable
<1> QED
  BY <1>5, <1>6

\* After truncation a recovery finds the snapshot, whatever its offset.
LEMMA LogTruncated ==
  ASSUME WellFormed, Truncated, UNCHANGED snap
  PROVE  Recoverable' /\ OffsetInLog'
<1>1. /\ SnapOffset' = SnapOffset /\ SnapMap' = SnapMap
      /\ SnapOffset \in Nat /\ SnapMap \in Map
  BY SnapshotTypes DEF SnapOffset, SnapMap, WellFormed, CommittedSnapshotWhole
<1>2. wal' = <<>> /\ durable' = SnapMap /\ orphaned' = (SnapOffset > 0)
  BY DEF Truncated
<1>3. Len(wal') = 0
  BY <1>2
<1>4. Recovered' = Replayed(SnapMap, wal', SnapOffset, 0)
  BY <1>1, <1>3 DEF Recovered
<1>5. Recovered' = SnapMap
  BY <1>1, <1>4, ReplayNothing
<1>6. SnapOffset = 0 \/ SnapOffset > 0
  BY <1>1
<1>7. SnapOffset > 0 => orphaned'
  BY <1>2, Zenon
<1>8. OffsetInLog'
  BY <1>1, <1>3, <1>6, <1>7 DEF OffsetInLog
<1> QED
  BY <1>2, <1>5, <1>8 DEF Recoverable

\* Closing the stream may write out the record the failed append left.
LEMMA BufferFlushed ==
  ASSUME WellFormed, Recoverable, OffsetInLog,
         FlushBuffered, UNCHANGED <<snap, orphaned>>
  PROVE  Recoverable' /\ OffsetInLog'
<1>1. CASE UNCHANGED <<wal, durable>>
  BY <1>1, FilesStay
<1>2. CASE buffered # None /\ wal' = Append(wal, buffered)
           /\ durable' = apply_record(durable, buffered)
  BY <1>2, RecordAppended DEF WellFormed, TypeOK
<1>3. CASE wal' = Append(wal, Torn) /\ UNCHANGED durable
  BY <1>3, TornAppended
<1> QED
  BY <1>1, <1>2, <1>3 DEF FlushBuffered

\* Where startup stands is kept by every step that does not replay.
LEMMA InitRecovery == Init => RecoveryInv
<1> SUFFICES ASSUME Init PROVE RecoveryInv
  OBVIOUS
<1>1. SnapMap = EmptyMap /\ SnapOffset = 0 /\ Len(wal) = 0
  BY DEF Init, SnapMap, SnapOffset
<1>2. Recovered = EmptyMap
  <2>1. EmptyMap \in Map
    BY DEF EmptyMap, Map
  <2> QED
    BY <1>1, <2>1, ReplayNothing DEF Recovered
<1>3. Recoverable
  BY <1>2 DEF Recoverable, Init
<1>4. OffsetInLog
  BY <1>1 DEF OffsetInLog
<1>5. ReplayedSoFar /\ TempIsCurrent /\ OnlySnapshotLeft
  BY DEF Init, ReplayedSoFar, TempIsCurrent, OnlySnapshotLeft
<1> QED
  BY <1>3, <1>4, <1>5 DEF RecoveryInv

LEMMA NextRecovery ==
  ASSUME WellFormed, RecoveryInv, [Next]_vars
  PROVE  RecoveryInv'
<1> USE DEF RecoveryInv
<1>0. /\ SnapOffset \in Nat /\ SnapMap \in Map
      /\ wal \in Seq(Record \cup {Torn}) /\ pos \in Nat
  BY SnapshotTypes DEF WellFormed, TypeOK, CommittedSnapshotWhole
<1>1. CASE UNCHANGED files /\ pc' \notin {"replaying", "renaming",
                                         "clearingSnapshot"}
  <2>1. Recoverable' /\ OffsetInLog'
    BY <1>1, FilesStay
  <2> QED
    BY <1>1, <2>1 DEF ReplayedSoFar, TempIsCurrent, OnlySnapshotLeft
<1>2. CASE LoadSnapshot
  <2>1. UNCHANGED files /\ pc' = "replaying" /\ pos' = SnapOffset
        /\ data' = SnapMap
    BY <1>2 DEF LoadSnapshot
  <2>2. /\ Recoverable' /\ OffsetInLog'
        /\ SnapMap' = SnapMap /\ SnapOffset' = SnapOffset
    BY <2>1, FilesStay
  <2>3. Replayed(SnapMap, wal, SnapOffset, SnapOffset) = SnapMap
    BY <1>0, ReplayNothing
  <2>4. data' = Replayed(SnapMap', wal', SnapOffset', pos')
    BY <2>1, <2>2, <2>3
  <2>5. ReplayedSoFar'
    <3>1. pos' = SnapOffset' /\ pos' >= SnapOffset'
      BY <1>0, <2>1, <2>2
    <3> QED
      BY <2>4, <3>1 DEF ReplayedSoFar
  <2> QED
    BY <2>1, <2>2, <2>5 DEF TempIsCurrent, OnlySnapshotLeft
<1>3. CASE ReplayRecord /\ pc = "replaying"
  <2>1. /\ UNCHANGED files /\ pc = "replaying" /\ pc' = "replaying"
        /\ pos' = pos + 1 /\ pos < Len(wal) /\ wal[pos + 1] # Torn
        /\ data' = apply_record(data, wal[pos + 1])
    BY <1>3 DEF ReplayRecord
  <2>2. /\ Recoverable' /\ OffsetInLog'
        /\ SnapMap' = SnapMap /\ SnapOffset' = SnapOffset
        /\ Damaged <=> Damaged'
    BY <2>1, FilesStay
  <2>3. wal[pos + 1] \in Record
    BY <1>0, <2>1
  <2>4. CASE Damaged
    BY <2>1, <2>2, <2>4
       DEF ReplayedSoFar, TempIsCurrent, OnlySnapshotLeft
  <2>5. CASE ~Damaged
    <3>1. pos >= SnapOffset
          /\ data = Replayed(SnapMap, wal, SnapOffset, pos)
      BY <2>1, <2>5 DEF ReplayedSoFar
    <3>2. Replayed(SnapMap, wal, SnapOffset, pos + 1)
            = apply_record(Replayed(SnapMap, wal, SnapOffset, pos),
                           wal[pos + 1])
      BY <1>0, <2>3, <3>1, ReplayOneMore
    <3>3. data' = Replayed(SnapMap', wal', SnapOffset', pos')
      BY <2>1, <2>2, <3>1, <3>2
    <3>4. pos' >= SnapOffset' /\ ~orphaned' /\ pos' <= Len(wal')
      BY <1>0, <1>3, <2>1, <2>2, <3>1 DEF ReplayRecord, OffsetStale
    <3> QED
      BY <2>1, <2>2, <3>3, <3>4
         DEF ReplayedSoFar, TempIsCurrent, OnlySnapshotLeft
  <2> QED
    BY <2>4, <2>5
<1>4. CASE AppendRecord
  <2>1. Recoverable' /\ OffsetInLog'
    BY <1>4, RecordAppended DEF AppendRecord, WellFormed, TypeOK
  <2> QED
    BY <1>4, <2>1
       DEF AppendRecord, ReplayedSoFar, TempIsCurrent, OnlySnapshotLeft
<1>5. CASE AppendFails
  <2>1. Recoverable' /\ OffsetInLog'
    BY <1>5, TornAppended, FilesStay DEF AppendFails
  <2> QED
    BY <1>5, <2>1
       DEF AppendFails, Answer, ReplayedSoFar, TempIsCurrent, OnlySnapshotLeft
<1>6. CASE SaveTemp
  <2>1. Recoverable' /\ OffsetInLog'
    BY <1>6, FilesStay DEF SaveTemp
  <2> QED
    BY <1>6, <2>1
       DEF SaveTemp, ReplayedSoFar, TempIsCurrent, OnlySnapshotLeft
<1>7. CASE SaveFails
  <2>1. Recoverable' /\ OffsetInLog'
    BY <1>7, FilesStay DEF SaveFails
  <2> QED
    BY <1>7, <2>1 DEF SaveFails, Answer, ReplayedSoFar, TempIsCurrent,
                      OnlySnapshotLeft
<1>8. CASE CommitSnapshot
  <2>1. /\ snap' = [map |-> data, offset |-> Len(wal)]
        /\ wal' = wal /\ durable' = data /\ pc' = "idle"
    BY <1>8 DEF CommitSnapshot, Answer, TempIsCurrent
  <2>2. snap' # None /\ data \in Map /\ Len(wal) \in Nat
    <3>1. data \in Map /\ Len(wal) \in Nat
      BY <1>0 DEF WellFormed, TypeOK
    <3>2. snap' \in SnapshotFile
      BY <2>1, <3>1 DEF SnapshotFile
    <3> QED
      BY <3>1, <3>2, FilesAssumption
  <2>3. SnapMap' = data /\ SnapOffset' = Len(wal)
    BY <2>1, <2>2 DEF SnapMap, SnapOffset
  <2>4. Recovered' = data
    BY <2>1, <2>2, <2>3, ReplayNothing DEF Recovered
  <2>5. Recoverable' /\ OffsetInLog'
    BY <2>1, <2>2, <2>3, <2>4 DEF Recoverable, OffsetInLog
  <2> QED
    BY <2>1, <2>5 DEF ReplayedSoFar, TempIsCurrent, OnlySnapshotLeft
<1>9. CASE ClearWal
  <2>1. Recoverable' /\ OffsetInLog'
    BY <1>9, LogTruncated DEF ClearWal
  <2> QED
    BY <1>9, <2>1 DEF ClearWal, Truncated, ReplayedSoFar, TempIsCurrent,
                      OnlySnapshotLeft
<1>10. CASE ClearWalFails
  <2>1. Recoverable' /\ OffsetInLog'
    BY <1>10, LogTruncated, BufferFlushed DEF ClearWalFails
  <2> QED
    BY <1>10, <2>1 DEF ClearWalFails, Answer, ReplayedSoFar, TempIsCurrent,
                       OnlySnapshotLeft
<1>11. CASE ClearSnapshot
  <2>1. /\ snap' = None /\ durable' = EmptyMap /\ wal' = <<>>
        /\ pc' = "clearingTemp"
    BY <1>11 DEF ClearSnapshot, OnlySnapshotLeft
  <2>2. SnapMap' = EmptyMap /\ SnapOffset' = 0 /\ Len(wal') = 0
    BY <2>1 DEF SnapMap, SnapOffset
  <2>3. EmptyMap \in Map
    BY DEF EmptyMap, Map
  <2>4. Recovered' = EmptyMap
    BY <2>2, <2>3, ReplayNothing DEF Recovered
  <2>5. Recoverable' /\ OffsetInLog'
    BY <2>1, <2>2, <2>4 DEF Recoverable, OffsetInLog
  <2> QED
    BY <2>1, <2>5 DEF ReplayedSoFar, TempIsCurrent, OnlySnapshotLeft
<1>12. CASE ClearTemp
  <2>1. Recoverable' /\ OffsetInLog'
    BY <1>12, FilesStay DEF ClearTemp
  <2> QED
    BY <1>12, <2>1 DEF ClearTemp, Answer, ReplayedSoFar, TempIsCurrent,
                       OnlySnapshotLeft
<1>13. CASE Exit
  <2>1. Recoverable' /\ OffsetInLog'
    BY <1>13, BufferFlushed DEF Exit
  <2> QED
    BY <1>13, <2>1 DEF Exit, Stopped, ReplayedSoFar, TempIsCurrent,
                       OnlySnapshotLeft
<1>14. CASE Crash
  <2>1. Recoverable' /\ OffsetInLog'
    BY <1>14, TornAppended, BufferFlushed, FilesStay DEF Crash
  <2> QED
    BY <1>14, <2>1 DEF Crash, Stopped, ReplayedSoFar, TempIsCurrent,
                       OnlySnapshotLeft
<1>15. CASE UNCHANGED vars
  <2>1. Recoverable' /\ OffsetInLog' /\ SnapMap' = SnapMap
        /\ SnapOffset' = SnapOffset /\ (Damaged <=> Damaged')
    BY <1>15, FilesStay DEF vars
  <2> QED
    BY <1>15, <2>1
       DEF vars, ReplayedSoFar, TempIsCurrent, OnlySnapshotLeft
<1>16. CASE Start \/ ReplayStops \/ ReplayOffFrame \/ LoadUnread \/ ReplayUnread
             \/ (ReplayRecord /\ pc = "unread")
  BY <1>1, <1>16 DEF Start, ReplayStops, ReplayOffFrame, LoadUnread,
                     ReplayUnread, ReplayRecord
<1>17. CASE Serve
  BY <1>1, <1>17 DEF Serve, Set, Delete, SaveSnapshot, ClearPersistence, Clear,
                     Request, Answer
<1>18. CASE AppendRefused \/ ApplyWrite \/ CurrentOffsetFails
            \/ ClearSnapshotFails
  BY <1>1, <1>18 DEF AppendRefused, ApplyWrite, CurrentOffsetFails,
                     ClearSnapshotFails, Answer
<1> QED
  BY <1>2, <1>3, <1>4, <1>5, <1>6, <1>7, <1>8, <1>9, <1>10, <1>11, <1>12,
     <1>13, <1>14, <1>15, <1>16, <1>17, <1>18
     DEF Next, Proceed, Recovery, ReplayRecord, Replaying

LEMMA AlwaysRecoverable == Spec => [](WellFormed /\ RecoveryInv)
<1>1. Init => WellFormed /\ RecoveryInv
  BY InitWellFormed, InitRecovery
<1>2. WellFormed /\ RecoveryInv /\ [Next]_vars => (WellFormed /\ RecoveryInv)'
  BY NextWellFormed, NextRecovery
<1> QED
  BY <1>1, <1>2, PTL DEF Spec

\* In every state the files rebuild the promised map, unless replay cannot
\* keep to record boundaries.
THEOREM RecoverableAlways == Spec => []Recoverable
<1>1. RecoveryInv => Recoverable
  BY DEF RecoveryInv
<1> QED
  BY <1>1, AlwaysRecoverable, PTL

\* Replay ends in one of two ways.
LEMMA LeavingReplay ==
  ASSUME Next, Replaying, pc' = "idle"
  PROVE  ReplayStops \/ ReplayOffFrame
<1> USE DEF Replaying
<1>1. ~Start /\ ~Serve /\ ~Exit
  BY DEF Start, Serve, Set, Delete, SaveSnapshot, ClearPersistence, Clear,
         Request, Exit
<1>2. ~Crash
  BY DEF Crash, Stopped
<1>3. ~LoadSnapshot /\ ~ReplayRecord /\ ~LoadUnread /\ ~ReplayUnread
  BY DEF LoadSnapshot, ReplayRecord, LoadUnread, ReplayUnread
<1>4. ~(AppendRecord \/ AppendFails \/ AppendRefused \/ ApplyWrite
         \/ CurrentOffsetFails \/ SaveTemp \/ SaveFails \/ CommitSnapshot)
  BY DEF AppendRecord, AppendFails, AppendRefused, ApplyWrite,
         CurrentOffsetFails, SaveTemp, SaveFails, CommitSnapshot
<1>5. ~(ClearWal \/ ClearWalFails \/ ClearSnapshot \/ ClearTemp
         \/ ClearSnapshotFails)
  BY DEF ClearWal, ClearWalFails, ClearSnapshot, ClearTemp,
         ClearSnapshotFails
<1> QED
  BY <1>1, <1>2, <1>3, <1>4, <1>5 DEF Next, Proceed, Recovery

\* When replay stops with its boundaries intact, it has replayed everything.
LEMMA StopsAtTheEnd ==
  ASSUME WellFormed, RecoveryInv, ReplayStops, pc = "replaying", ~Damaged
  PROVE  data = Recovered
<1>1. /\ SnapOffset \in Nat /\ SnapMap \in Map /\ pos \in Nat
      /\ wal \in Seq(Record \cup {Torn}) /\ Len(wal) \in Nat
  BY SnapshotTypes DEF WellFormed, TypeOK, CommittedSnapshotWhole
<1>2. /\ pos >= SnapOffset /\ (pos = SnapOffset \/ pos <= Len(wal))
      /\ data = Replayed(SnapMap, wal, SnapOffset, pos)
  BY DEF RecoveryInv, ReplayedSoFar, ReplayStops
<1>3. CASE pos = Len(wal)
  BY <1>2, <1>3 DEF Recovered
<1>4. CASE pos = SnapOffset /\ pos > Len(wal)
  BY <1>1, <1>2, <1>4, ReplayNothing DEF Recovered
<1>5. CASE pos + 1 = Len(wal) /\ wal[pos + 1] = Torn
  BY <1>1, <1>2, <1>5, ReplayTorn DEF Recovered
<1> QED
  BY <1>1, <1>2, <1>3, <1>4, <1>5 DEF ReplayStops

\* A step from replay into service leaves the promised map in memory.
LEMMA ServingStarts ==
  ASSUME WellFormed, RecoveryInv, Next, pc = "replaying", pc' = "idle",
         ~Damaged
  PROVE  data' = durable
<1>1. CASE ReplayStops
  <2>1. data = Recovered
    BY <1>1, StopsAtTheEnd
  <2> QED
    BY <1>1, <2>1 DEF RecoveryInv, Recoverable, ReplayStops
<1>2. CASE ReplayOffFrame
  <2>1. ~(orphaned /\ wal # <<>>)
    BY DEF Damaged
  <2>2. pos + 1 < Len(wal) /\ wal[pos + 1] = Torn
    BY <1>2, <2>1 DEF ReplayOffFrame, OffsetStale
  <2>3. pos >= SnapOffset
    BY DEF RecoveryInv, ReplayedSoFar
  <2>4. pos + 1 \in (SnapOffset + 1)..(Len(wal) - 1)
    BY <2>2, <2>3, SnapshotTypes DEF WellFormed, TypeOK,
                                     CommittedSnapshotWhole
  <2> QED
    BY <2>2, <2>4 DEF Damaged
<1> QED
  BY <1>1, <1>2, LeavingReplay DEF Replaying

\* A process that starts serving holds the promised map.
THEOREM RecoveryTheorem == Spec => RecoveryRebuilds
<1>1. WellFormed /\ RecoveryInv /\ [Next]_vars
        => [pc = "replaying" /\ pc' = "idle"
              => Damaged \/ data' = durable]_vars
  BY ServingStarts DEF vars
<1> QED
  BY <1>1, AlwaysRecoverable, PTL DEF Spec, RecoveryRebuilds

----------------------------------------------------------------------------
\* The third layer: the write in progress.
WriteInv == WriteInEffect /\ NoWriteWhileClearing /\ Fresh

LEMMA NextWriteInEffect ==
  ASSUME WellFormed, WriteInv, [Next]_vars
  PROVE  WriteInv'
<1> USE DEF WriteInv, WriteInEffect, NoWriteWhileClearing, Fresh
<1>1. CASE AppendRecord
  <2>1. op \in Record /\ durable \in Map
    BY <1>1 DEF AppendRecord, WellFormed, TypeOK
  <2>2. durable'[op.key] = op.value
    BY <1>1, <2>1 DEF AppendRecord, apply_record, Record, Map
  <2> QED
    BY <1>1, <2>2 DEF AppendRecord
<1>2. CASE ApplyWrite
  <2>1. op \in Record /\ data \in Map
    BY <1>2 DEF ApplyWrite, WellFormed, TypeOK
  <2>2. data'[op.key] = op.value
    BY <1>2, <2>1 DEF ApplyWrite, apply_record, Record, Map
  <2> QED
    BY <1>2, <2>2 DEF ApplyWrite, Answer
<1>3. CASE Start \/ Recovery
  BY <1>3 DEF Start, Recovery, LoadSnapshot, ReplayRecord, ReplayStops,
              ReplayOffFrame, LoadUnread, ReplayUnread, Replaying
<1>4. CASE Serve
  BY <1>4 DEF Serve, Set, Delete, SaveSnapshot, ClearPersistence, Clear,
              Request, Answer
<1>5. CASE AppendFails \/ AppendRefused
  BY <1>5 DEF AppendFails, AppendRefused, Answer
<1>6. CASE CurrentOffsetFails \/ SaveTemp \/ SaveFails \/ CommitSnapshot
  BY <1>6 DEF CurrentOffsetFails, SaveTemp, SaveFails, CommitSnapshot, Answer
<1>7. CASE ClearWal \/ ClearWalFails \/ ClearSnapshot \/ ClearTemp
           \/ ClearSnapshotFails
  BY <1>7 DEF ClearWal, ClearWalFails, ClearSnapshot, ClearTemp,
              ClearSnapshotFails, Answer
<1>8. CASE Exit \/ Crash
  BY <1>8 DEF Exit, Crash, Stopped
<1>9. CASE UNCHANGED vars
  BY <1>9 DEF vars
<1> QED
  BY <1>1, <1>2, <1>3, <1>4, <1>5, <1>6, <1>7, <1>8, <1>9 DEF Next, Proceed

LEMMA AlwaysWriteInv == Spec => []WriteInv
<1>1. Init => WriteInv
  BY DEF Init, WriteInv, WriteInEffect, NoWriteWhileClearing, Fresh
<1> QED
  BY <1>1, NextWriteInEffect, AlwaysWellFormed, PTL DEF Spec

\* The three layers are the invariant that the model checker checks.
THEOREM IndInvTheorem == Spec => []IndInv
<1>1. WellFormed /\ RecoveryInv /\ WriteInv => IndInv
  BY DEF WellFormed, RecoveryInv, WriteInv, IndInv
<1> QED
  BY <1>1, AlwaysRecoverable, AlwaysWriteInv, PTL

\* A SET or DELETE that was answered without an error is found by a process
\* started from the files, as long as replay keeps to record boundaries.
THEOREM AckedWriteTheorem == Spec => []AckedWriteIsDurable
<1>1. RecoveryInv /\ WriteInv => AckedWriteIsDurable
  BY DEF RecoveryInv, Recoverable, WriteInv, WriteInEffect,
         AckedWriteIsDurable
<1> QED
  BY <1>1, AlwaysWriteInv, AlwaysRecoverable, PTL

\* A checkpoint is overdue only right after an error.
THEOREM OverdueTheorem == Spec => []OverdueOnlyAfterError
<1> DEFINE Inv == OverdueOnlyAfterError /\ Fresh
<1>1. Init => Inv
  BY IntervalAssumption DEF Init, OverdueOnlyAfterError, Fresh
<1>2. WellFormed /\ Inv /\ [Next]_vars => Inv'
  <2> SUFFICES ASSUME WellFormed, Inv, [Next]_vars
               PROVE  Inv'
    OBVIOUS
  <2> USE IntervalAssumption DEF OverdueOnlyAfterError, Fresh
  <2>1. writes \in Nat
    BY DEF WellFormed, TypeOK
  <2>2. CASE Start \/ Recovery
    BY <2>1, <2>2 DEF Start, Recovery, LoadSnapshot, ReplayRecord,
                      ReplayStops, ReplayOffFrame, LoadUnread, ReplayUnread,
                      Replaying
  <2>3. CASE Serve
    BY <2>1, <2>3 DEF Serve, Set, Delete, SaveSnapshot, ClearPersistence,
                      Clear, Request, Answer
  <2>4. CASE AppendRecord \/ AppendFails \/ AppendRefused
    BY <2>4 DEF AppendRecord, AppendFails, AppendRefused, Answer
  <2>5. CASE ApplyWrite
    BY <2>1, <2>5 DEF ApplyWrite, Answer
  <2>6. CASE CurrentOffsetFails \/ SaveTemp \/ SaveFails \/ CommitSnapshot
    BY <2>6 DEF CurrentOffsetFails, SaveTemp, SaveFails, CommitSnapshot,
                Answer
  <2>7. CASE ClearWal \/ ClearWalFails \/ ClearSnapshot \/ ClearTemp
             \/ ClearSnapshotFails
    BY <2>7 DEF ClearWal, ClearWalFails, ClearSnapshot, ClearTemp,
                ClearSnapshotFails, Answer
  <2>8. CASE Exit \/ Crash
    BY <2>8 DEF Exit, Crash, Stopped
  <2>9. CASE UNCHANGED vars
    BY <2>9 DEF vars
  <2> QED
    BY <2>2, <2>3, <2>4, <2>5, <2>6, <2>7, <2>8, <2>9 DEF Next, Proceed
<1>3. Inv => OverdueOnlyAfterError
  OBVIOUS
<1> HIDE DEF Inv
<1> QED
  BY <1>1, <1>2, <1>3, AlwaysWellFormed, PTL DEF Spec

----------------------------------------------------------------------------
\* The fourth layer: memory against the files, while the process serves.  The
\* key of a write whose record is in the log but not yet in memory is excepted.
Serving == pc \in {"idle", "appending", "applying", "saving", "renaming",
                   "clearingWal", "clearingTemp"}
CoveredBy(map, k) == durable[k] \in {map[k], NoValue}
Covering ==
  Serving =>
    \/ Damaged
    \/ \A k \in Key : (pc = "applying" /\ k = op.key) \/ CoveredBy(data, k)

LEMMA NextCovering ==
  ASSUME WellFormed, RecoveryInv, WriteInv, Covering, [Next]_vars,
         Clear => UNCHANGED data, {"clearError", "readError"} \cap Faults = {}
  PROVE  Covering'
<1> USE DEF Covering, Serving, CoveredBy
<1>0. /\ wal \in Seq(Record \cup {Torn}) /\ data \in Map /\ durable \in Map
      /\ pc \in {"appending", "applying"} => op \in Record
      /\ Replaying => pc = "replaying"
  BY DEF WellFormed, TypeOK, Replaying
<1>1. CASE ReplayStops \/ ReplayOffFrame
  <2>1. Next /\ pc = "replaying" /\ pc' = "idle"
    BY <1>0, <1>1 DEF ReplayStops, ReplayOffFrame, Next, Proceed, Recovery
  <2>2. UNCHANGED files
    BY <1>1 DEF ReplayStops, ReplayOffFrame
  <2>3. Damaged <=> Damaged'
    BY <2>2, FilesStay
  <2>4. ~Damaged => data' = durable
    BY <2>1, ServingStarts
  <2> QED
    BY <2>1, <2>2, <2>3, <2>4
<1>2. CASE Serve
  <2>0. Clear => UNCHANGED files /\ pc = "idle" /\ pc' # "applying" /\ data' = data
    BY DEF Clear, Answer
  <2>1. UNCHANGED files /\ pc = "idle" /\ pc' # "applying" /\ data' = data
    BY <1>2, <2>0 DEF Serve, Set, Delete, SaveSnapshot, ClearPersistence,
                      Request
  <2>2. Damaged <=> Damaged'
    BY <2>1, FilesStay
  <2> QED
    BY <2>1, <2>2
<1>3. CASE AppendRecord
  <2>1. /\ op \in Record /\ pc = "appending" /\ pc' = "applying"
        /\ wal' = Append(wal, op) /\ durable' = apply_record(durable, op)
        /\ UNCHANGED <<snap, orphaned, data, op>>
    BY <1>0, <1>3 DEF AppendRecord
  <2>2. Damaged => Damaged'
    BY <2>1, DamageStays
  <2>3. \A k \in Key : k # op.key => durable'[k] = durable[k]
    BY <1>0, <2>1 DEF apply_record, Record, Map
  <2> QED
    BY <2>1, <2>2, <2>3
<1>4. CASE AppendFails
  <2>1. /\ pc = "appending" /\ pc' = "idle"
        /\ UNCHANGED <<snap, durable, orphaned, data>>
        /\ wal' = wal \/ wal' = Append(wal, Torn)
    BY <1>4 DEF AppendFails, Answer
  <2>2. Damaged => Damaged'
    BY <2>1, DamageStays, FilesStay
  <2> QED
    BY <2>1, <2>2
<1>5. CASE ApplyWrite
  <2>1. /\ UNCHANGED files /\ pc = "applying" /\ pc' # "applying"
        /\ data' = apply_record(data, op)
    BY <1>5 DEF ApplyWrite, Answer
  <2>2. Damaged <=> Damaged'
    BY <2>1, FilesStay
  <2>3. \A k \in Key : data'[k] = IF k = op.key THEN op.value ELSE data[k]
    BY <1>0, <2>1 DEF apply_record, Record, Map
  <2>4. durable[op.key] = op.value
    BY <1>0, <2>1, MarkersAssumption DEF WriteInv, WriteInEffect
  <2> QED
    BY <2>1, <2>2, <2>3, <2>4
<1>6. CASE AppendRefused \/ CurrentOffsetFails \/ SaveTemp \/ SaveFails
           \/ ClearTemp
  <2>1. /\ UNCHANGED <<wal, snap, durable, orphaned, data>>
        /\ Serving /\ pc # "applying" /\ pc' # "applying"
    BY <1>6 DEF AppendRefused, CurrentOffsetFails, SaveTemp, SaveFails,
                ClearTemp, Answer
  <2>2. Damaged <=> Damaged'
    BY <2>1, FilesStay
  <2> QED
    BY <2>1, <2>2
<1>7. CASE CommitSnapshot
  BY <1>7 DEF CommitSnapshot, Answer
<1>8. CASE ClearSnapshot
  <2>1. durable' = EmptyMap /\ pc' = "clearingTemp"
    BY <1>8 DEF ClearSnapshot
  <2> QED
    BY <2>1 DEF EmptyMap
<1>9. CASE Start \/ LoadSnapshot \/ ReplayRecord \/ ClearWal \/ Exit \/ Crash
  BY <1>0, <1>9 DEF Start, LoadSnapshot, ReplayRecord, ClearWal, Exit, Crash,
                    Stopped
<1>10. CASE ClearWalFails \/ ClearSnapshotFails \/ LoadUnread \/ ReplayUnread
  BY <1>10 DEF ClearWalFails, ClearSnapshotFails, LoadUnread, ReplayUnread
<1>11. CASE UNCHANGED vars
  <2>1. Damaged <=> Damaged'
    BY <1>11, FilesStay DEF vars
  <2> QED
    BY <1>11, <2>1 DEF vars
<1> QED
  BY <1>1, <1>2, <1>3, <1>4, <1>5, <1>6, <1>7, <1>8, <1>9, <1>10, <1>11
     DEF Next, Proceed, Recovery

\* What a recovery would find is what clients read or nothing, as long as
\* memory is not emptied alone (KVStore::Clear), CLEAR PERSISTENCE does not
\* fail half way and no file is unreadable at a start.
THEOREM MemoryTheorem ==
  ASSUME "CLEAR" \notin Commands, {"clearError", "readError"} \cap Faults = {}
  PROVE  Spec => []MemoryCoversDurable
<1>1. Init => Covering
  BY DEF Init, Covering, Serving
<1>2. WellFormed /\ RecoveryInv /\ WriteInv /\ Covering /\ [Next]_vars
        => Covering'
  BY NextCovering DEF Clear
<1>3. Covering => MemoryCoversDurable
  BY DEF Covering, Serving, CoveredBy, MemoryCoversDurable, Get
<1> QED
  BY <1>1, <1>2, <1>3, AlwaysRecoverable, AlwaysWriteInv, PTL DEF Spec

----------------------------------------------------------------------------
(***************************************************************************)
(* The refinement: KVStore implements DurableMap for every set of keys and *)
(* values, every interval and logs of any length, as long as no fault      *)
(* tears the log, cuts a CLEAR PERSISTENCE short or hides a file.          *)
(***************************************************************************)
USE DEF files, process

\* The faults that the refinement does not survive.
CleanFaults == {"torn", "clearCrash", "clearError", "readError"} \cap Faults = {}

\* Without such faults the log holds whole records only, its snapshot's offset
\* is not ahead of it but within CLEAR PERSISTENCE, and nothing is left in the
\* buffer of the stream while a snapshot is written.
Clean ==
  /\ wal \in Seq(Record)
  /\ orphaned => pc = "clearingSnapshot"
  /\ pc = "renaming" => buffered = None

LEMMA NextClean ==
  ASSUME WellFormed, Clean, [Next]_vars, CleanFaults
  PROVE  Clean'
<1> USE DEF Clean, CleanFaults
<1>0. /\ buffered \in Record \cup {None} /\ op \in Record \cup {None}
      /\ pc = "appending" => op \in Record
      /\ stream = "good" => buffered = None
  BY DEF WellFormed, TypeOK
<1>1. CASE AppendRecord
  BY <1>0, <1>1 DEF AppendRecord
<1>2. CASE AppendFails
  BY <1>2 DEF AppendFails, Answer
<1>3. CASE SaveTemp
  BY <1>0, <1>3 DEF SaveTemp
<1>4. CASE ClearWal
  BY <1>4 DEF ClearWal, Truncated
<1>5. CASE ClearSnapshot
  BY <1>5 DEF ClearSnapshot
<1>6. CASE Exit
  BY <1>0, <1>6 DEF Exit, FlushBuffered, Stopped
<1>7. CASE Crash
  BY <1>0, <1>7 DEF Crash, FlushBuffered, Stopped
<1>8. CASE CommitSnapshot
  BY <1>8 DEF CommitSnapshot, Answer
<1>9. CASE Start \/ Recovery
  BY <1>9 DEF Start, Recovery, LoadSnapshot, ReplayRecord, ReplayStops,
              ReplayOffFrame, LoadUnread, ReplayUnread, Replaying
<1>10. CASE Serve
  BY <1>10 DEF Serve, Set, Delete, SaveSnapshot, ClearPersistence, Clear,
               Request, Answer
<1>11. CASE AppendRefused \/ ApplyWrite \/ CurrentOffsetFails \/ SaveFails
            \/ ClearTemp
  BY <1>11 DEF AppendRefused, ApplyWrite, CurrentOffsetFails, SaveFails,
               ClearTemp, Answer
<1>12. CASE ClearWalFails \/ ClearSnapshotFails
  BY <1>12 DEF ClearWalFails, ClearSnapshotFails
<1>13. CASE UNCHANGED vars
  BY <1>13 DEF vars
<1> QED
  BY <1>1, <1>2, <1>3, <1>4, <1>5, <1>6, <1>7, <1>8, <1>9, <1>10, <1>11,
     <1>12, <1>13 DEF Next, Proceed

\* In a clean state nothing disturbs replay, so recovery finds the promise.
LEMMA CleanIsWhole ==
  ASSUME WellFormed, RecoveryInv, Clean
  PROVE  ~Damaged /\ Recovered = durable
<1>1. ~(orphaned /\ wal # <<>>)
  BY DEF Clean, RecoveryInv, OnlySnapshotLeft
<1>2. ASSUME NEW i \in (SnapOffset + 1)..(Len(wal) - 1)
      PROVE  wal[i] # Torn
  <2>1. SnapOffset \in Nat /\ Len(wal) \in Nat
    BY SnapshotTypes DEF WellFormed, TypeOK, CommittedSnapshotWhole, Clean
  <2>2. i \in 1..Len(wal)
    BY <1>2, <2>1
  <2>3. wal[i] \in Record
    BY <2>2 DEF Clean
  <2> QED
    BY <2>3, MarkersAssumption
<1>3. ~Damaged
  BY <1>1, <1>2 DEF Damaged
<1> QED
  BY <1>3 DEF RecoveryInv, Recoverable

Inv == WellFormed /\ RecoveryInv /\ Clean

LEMMA NextInv ==
  ASSUME Inv, [Next]_vars, CleanFaults
  PROVE  Inv'
  BY NextWellFormed, NextRecovery, NextClean DEF Inv

\* The two maps need no file to be read.
DiskIsPromise ==
  DiskMap = IF pc = "clearingSnapshot" THEN EmptyMap ELSE durable

LEMMA InvDiskIsPromise == Inv => DiskIsPromise
  BY CleanIsWhole DEF Inv, DiskMap, DiskIsPromise

LEMMA InvDiskIsPromiseNext == Inv' => DiskIsPromise'
  BY InvDiskIsPromise, PTL

LEMMA StepRefines ==
  ASSUME Inv, Inv', [Next]_vars, CleanFaults
  PROVE  [Promise!Next]_(Promise!vars)
<1> USE DEF Promise!vars
<1>0. /\ DiskMap = (IF pc = "clearingSnapshot" THEN EmptyMap ELSE durable)
      /\ DiskMap' = (IF pc' = "clearingSnapshot" THEN EmptyMap ELSE durable')
      /\ ~Damaged
  BY InvDiskIsPromise, InvDiskIsPromiseNext, CleanIsWhole
     DEF Inv, DiskIsPromise
<1>1. /\ stream = "good" => buffered = None
      /\ pc \in {"appending", "applying"} => op \in Record
      /\ Replaying => pc = "replaying"
  BY DEF Inv, WellFormed, TypeOK, Replaying, CleanFaults
<1>2. CASE Start \/ LoadSnapshot \/ ReplayRecord
  BY <1>0, <1>1, <1>2 DEF MemMap, Start, LoadSnapshot, ReplayRecord
<1>3. CASE ReplayStops \/ ReplayOffFrame
  <2>1. Next /\ pc = "replaying" /\ pc' = "idle"
    BY <1>1, <1>3 DEF ReplayStops, ReplayOffFrame, Next, Proceed, Recovery
  <2>2. data' = durable
    BY <1>0, <2>1, ServingStarts DEF Inv
  <2>3. UNCHANGED <<files, buffered>>
    BY <1>3 DEF ReplayStops, ReplayOffFrame
  <2> QED
    BY <1>0, <2>1, <2>2, <2>3 DEF MemMap
<1>4. ASSUME NEW k \in Key, NEW v \in Value, Set(k, v)
      PROVE  UNCHANGED Promise!vars
  BY <1>0, <1>4 DEF MemMap, Set, Request
<1>5. ASSUME NEW k \in Key, Delete(k)
      PROVE  UNCHANGED Promise!vars
  BY <1>0, <1>5 DEF MemMap, Delete, Request
<1>6. CASE SaveSnapshot \/ ClearPersistence
  BY <1>0, <1>6 DEF MemMap, SaveSnapshot, ClearPersistence, Request
<1>7. CASE AppendRecord
  <2>1. /\ op \in Record /\ pc = "appending" /\ pc' = "applying"
        /\ durable' = apply_record(durable, op)
        /\ buffered = None /\ UNCHANGED <<data, op, buffered>>
    BY <1>1, <1>7 DEF AppendRecord
  <2>2. /\ DiskMap' = apply_record(DiskMap, op)
        /\ MemMap' = apply_record(MemMap, op)
    BY <1>0, <2>1 DEF MemMap
  <2>3. Promise!Write(op)
    BY <2>1, <2>2 DEF Promise!Write, Promise!apply_record, apply_record
  <2> QED
    BY <2>1, <2>3 DEF Promise!Next, Promise!Record, Record
<1>8. CASE AppendFails
  <2>1. /\ op \in Record /\ pc = "appending" /\ pc' = "idle"
        /\ buffered = None /\ buffered' = op
        /\ UNCHANGED <<data, durable>>
    BY <1>1, <1>8 DEF AppendFails, Answer
  <2>2. DiskMap' = DiskMap /\ MemMap' = MemMap
    BY <1>0, <2>1 DEF MemMap
  <2>3. Promise!Fail(op)
    BY <2>1, <2>2 DEF Promise!Fail
  <2> QED
    BY <2>1, <2>3 DEF Promise!Next, Promise!Record, Record
<1>9. CASE ApplyWrite
  BY <1>0, <1>9 DEF MemMap, ApplyWrite, Answer
<1>10. CASE AppendRefused \/ CurrentOffsetFails \/ SaveTemp \/ SaveFails
            \/ ClearTemp
  BY <1>0, <1>10 DEF MemMap, AppendRefused, CurrentOffsetFails, SaveTemp,
                     SaveFails, ClearTemp, Answer
<1>11. CASE CommitSnapshot
  <2>1. /\ pc = "renaming" /\ pc' = "idle" /\ durable' = data
        /\ buffered = None /\ UNCHANGED <<data, buffered>>
    BY <1>11 DEF CommitSnapshot, Answer, Inv, Clean
  <2>2. DiskMap' = MemMap /\ MemMap' = MemMap
    BY <1>0, <2>1 DEF MemMap
  <2> QED
    BY <2>1, <2>2 DEF Promise!Next, Promise!Checkpoint
<1>12. CASE ClearWal
  <2>1. /\ pc = "clearingWal" /\ pc' = "clearingSnapshot"
        /\ buffered' = None /\ UNCHANGED data
    BY <1>12 DEF ClearWal
  <2>2. DiskMap' = EmptyMap /\ MemMap' = MemMap
    BY <1>0, <2>1 DEF MemMap
  <2> QED
    BY <2>1, <2>2 DEF Promise!Next, Promise!Forget, Promise!EmptyMap, EmptyMap
<1>13. CASE ClearSnapshot
  BY <1>0, <1>13 DEF MemMap, ClearSnapshot
<1>14. CASE Clear
  <2>1. /\ pc = "idle" /\ pc' = "idle" /\ data' = EmptyMap
        /\ UNCHANGED <<durable, buffered>>
    BY <1>14 DEF Clear, Answer
  <2>2. DiskMap' = DiskMap /\ MemMap' = EmptyMap
    BY <1>0, <2>1 DEF MemMap
  <2> QED
    BY <2>1, <2>2 DEF Promise!Next, Promise!Wipe, Promise!EmptyMap, EmptyMap
<1>15. CASE Exit
  <2>1. /\ pc = "idle" /\ pc' = "down" /\ buffered' = None
        /\ \/ UNCHANGED durable
           \/ buffered # None /\ durable' = apply_record(durable, buffered)
    BY <1>15 DEF Exit, Stopped, FlushBuffered
  <2>2. /\ MemMap' = DiskMap'
        /\ \/ DiskMap' = DiskMap
           \/ buffered # None /\ DiskMap' = apply_record(DiskMap, buffered)
    BY <1>0, <2>1 DEF MemMap
  <2> QED
    BY <2>1, <2>2 DEF Promise!Next, Promise!Restart, Promise!apply_record,
                      apply_record
<1>16. CASE Crash
  <2>1. /\ pc # "clearingSnapshot" /\ pc' = "down" /\ buffered' = None
        /\ \/ UNCHANGED durable
           \/ buffered # None /\ durable' = apply_record(durable, buffered)
    BY <1>16 DEF Crash, Stopped, FlushBuffered, CleanFaults
  <2>2. /\ MemMap' = DiskMap'
        /\ \/ DiskMap' = DiskMap
           \/ buffered # None /\ DiskMap' = apply_record(DiskMap, buffered)
    BY <1>0, <2>1 DEF MemMap
  <2> QED
    BY <2>1, <2>2 DEF Promise!Next, Promise!Restart, Promise!apply_record,
                      apply_record
<1>17. CASE ClearWalFails \/ ClearSnapshotFails \/ LoadUnread \/ ReplayUnread
  BY <1>17 DEF ClearWalFails, ClearSnapshotFails, LoadUnread, ReplayUnread,
               CleanFaults
<1>18. CASE UNCHANGED vars
  BY <1>0, <1>18 DEF vars, MemMap
<1> QED
  BY <1>2, <1>3, <1>4, <1>5, <1>6, <1>7, <1>8, <1>9, <1>10, <1>11, <1>12,
     <1>13, <1>14, <1>15, <1>16, <1>17, <1>18
     DEF Next, Serve, Proceed, Recovery

\* The store implements the two maps of DurableMap.
THEOREM RefinementTheorem ==
  ASSUME CleanFaults
  PROVE  Spec => ImplementsDurableMap
<1>1. Init => Inv
  <2>1. Init => Clean
    BY DEF Init, Clean
  <2> QED
    BY <2>1, InitWellFormed, InitRecovery DEF Inv
<1>2. Inv /\ [Next]_vars => Inv'
  BY NextInv
<1>3. Init => Promise!Init
  <2> SUFFICES ASSUME Init PROVE Promise!Init
    OBVIOUS
  <2>1. Recovered = durable
    BY <1>1, CleanIsWhole DEF Inv
  <2> QED
    BY <2>1 DEF Init, Promise!Init, Promise!EmptyMap, EmptyMap, MemMap, DiskMap
<1>4. Inv /\ Inv' /\ [Next]_vars => [Promise!Next]_(Promise!vars)
  BY StepRefines
<1> QED
  BY <1>1, <1>2, <1>3, <1>4, PTL DEF Spec, ImplementsDurableMap, Promise!Spec
=============================================================================
