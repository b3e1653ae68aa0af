-------------------------- MODULE WorkloadsProofs --------------------------
(***************************************************************************)
(* What the benchmarks measure, for every number of operations that the    *)
(* argument may ask for, every interval, keyspace, tail and fault of the   *)
(* store: the inductive invariant of Workloads.                            *)
(***************************************************************************)
EXTENDS Workloads, KVStoreProofs, FiniteSetTheorems

USE DEF files, process

----------------------------------------------------------------------------
\* Scripts, call by call.
LEMMA NextCall ==
  ASSUME script \in Seq(CallSet), script # <<>>
  PROVE  /\ Head(script) = script[1] /\ Head(script) \in CallSet
         /\ Tail(script) \in Seq(CallSet) /\ Len(Tail(script)) = Len(script) - 1
         /\ Len(script) \in Nat /\ Len(script) >= 1
         /\ \A i \in 1..(Len(script) - 1) : Tail(script)[i] = script[i + 1]
  OBVIOUS

\* What StoreInv says of KVStore is what KVStoreProofs shows of it.
StoreInv == WellFormed /\ RecoveryInv /\ WriteInv

LEMMA InitStore == Init => StoreInv
<1>1. Init => WriteInv
  BY DEF Init, WriteInv, WriteInEffect, NoWriteWhileClearing, Fresh
<1> QED
  BY <1>1, InitWellFormed, InitRecovery DEF StoreInv

LEMMA NextStore ==
  ASSUME StoreInv, [Next]_vars \/ Init'
  PROVE  StoreInv'
<1>1. CASE [Next]_vars
  BY <1>1, NextWellFormed, NextRecovery, NextWriteInEffect DEF StoreInv
<1>2. CASE Init'
  BY <1>2, InitStore, PTL
<1> QED
  BY <1>1, <1>2

LEMMA DirectoryIsNew == NewDirectory => Init'
  BY DEF NewDirectory, Stopped, Init

\* What the program does to a store are steps of KVStore, or a new store.
LEMMA CallIsStoreStep ==
  ASSUME WorkloadInv, Call
  PROVE  Next \/ UNCHANGED vars
<1>1. script \in Seq(CallSet) /\ script # <<>>
  BY DEF WorkloadInv, Call
<1> DEFINE next == Head(script)
<1>2. next \in CallSet
  BY <1>1, NextCall
<1>3. \/ next.call = "set" /\ \E v \in Value : Set(next.key, v)
      \/ next.call = "get" /\ UNCHANGED vars
      \/ SaveSnapshot
      \/ Exit
  BY DEF Call
<1>4. next.call = "set" => next.key \in Key
  BY <1>2 DEF CallSet
<1> QED
  BY <1>3, <1>4 DEF Next, Serve

LEMMA StoreSteps ==
  ASSUME WorkloadInv, [WorkloadNext]_<<vars, workload>>
  PROVE  [Next]_vars \/ Init'
<1>1. CASE Call
  BY <1>1, CallIsStoreStep
<1>2. CASE Work
  BY <1>2 DEF Work, Next
<1>3. CASE Advance
  BY <1>3, DirectoryIsNew DEF Advance
<1>4. CASE Type \/ Run \/ Report \/ Fail
  BY <1>4 DEF Type, Run, Report, Fail
<1>5. CASE UNCHANGED <<vars, workload>>
  BY <1>5
<1> QED
  BY <1>1, <1>2, <1>3, <1>4, <1>5 DEF WorkloadNext

----------------------------------------------------------------------------
\* The files that the program has just written can be read.
Readable == "readError" \notin Faults

\* The store at work, as long as nothing is thrown.
Healthy == StoreInv /\ Sound /\ ~Threw /\ Readable

\* No frame is out of place.
LEMMA NotDamaged == ASSUME Healthy PROVE ~Damaged
<1>1. wal \in Seq(Record) /\ ~orphaned /\ Torn \notin Record
  BY MarkersAssumption DEF Healthy, Sound
<1>2. SnapOffset \in Nat
  BY SnapshotTypes DEF Healthy, StoreInv, WellFormed, CommittedSnapshotWhole
<1>3. \A i \in 1..Len(wal) : wal[i] \in Record
  BY <1>1
<1> QED
  BY <1>1, <1>2, <1>3 DEF Damaged

\* The steps that do not end in an error.
LEMMA StepsOfWork ==
  ASSUME Healthy, Work, ~Threw'
  PROVE  \/ Start \/ LoadSnapshot \/ ReplayRecord \/ ReplayStops
         \/ AppendRecord \/ ApplyWrite \/ SaveTemp \/ CommitSnapshot
<1>1. /\ ~orphaned /\ stream = "good" /\ wal \in Seq(Record)
      /\ Opening \/ pc \in {"idle", "appending", "applying", "saving", "renaming"}
      /\ Replaying => pc = "replaying"
      /\ ~LoadUnread /\ ~ReplayUnread
  BY DEF Healthy, Readable, Sound, Opening, Replaying, LoadUnread, ReplayUnread
<1>2. ~ReplayOffFrame
  <2> SUFFICES ASSUME ReplayOffFrame PROVE FALSE
    OBVIOUS
  <2>1. pc = "replaying" /\ pos + 1 < Len(wal) /\ wal[pos + 1] = Torn
    BY <1>1 DEF ReplayOffFrame, OffsetStale
  <2>2. pos \in Nat /\ pos >= SnapOffset /\ SnapOffset \in Nat
    BY <2>1, NotDamaged, SnapshotTypes
       DEF Healthy, StoreInv, WellFormed, TypeOK, CommittedSnapshotWhole, RecoveryInv, ReplayedSoFar
  <2>3. pos + 1 \in (SnapOffset + 1)..(Len(wal) - 1)
    BY <1>1, <2>1, <2>2
  <2> QED
    BY <2>1, <2>3, NotDamaged DEF Damaged
<1>3. ~(AppendFails \/ AppendRefused \/ CurrentOffsetFails \/ SaveFails)
  BY DEF AppendFails, AppendRefused, CurrentOffsetFails, SaveFails, Answer, Threw
<1>4. ~(ClearWal \/ ClearWalFails \/ ClearSnapshot \/ ClearTemp \/ ClearSnapshotFails)
  BY <1>1 DEF ClearWal, ClearWalFails, ClearSnapshot, ClearTemp, ClearSnapshotFails, Opening
<1> QED
  BY <1>1, <1>2, <1>3, <1>4 DEF Work, Proceed, Recovery

\* A record that has been put into the log is in memory when it has been applied;
\* snapshots and replay agree with the log.
LEMMA WorkKeepsSound ==
  ASSUME Healthy, Work, ~Threw'
  PROVE  Sound'
<1> USE DEF Sound, Opening, Replaying
<1>0. /\ wal \in Seq(Record) /\ ~orphaned /\ stream = "good" /\ buffered = None
      /\ data \in Map /\ durable \in Map /\ op \in Record \cup {None}
      /\ Opening \/ pc \in {"idle", "appending", "applying", "saving", "renaming"}
      /\ pc \in {"appending", "applying"} => op.value # NoValue /\ op \in Record
      /\ pc \in {"idle", "appending", "saving", "renaming"} => data = durable
      /\ pc = "applying" => durable = apply_record(data, op)
  BY DEF Healthy, StoreInv, WellFormed, TypeOK
<1>1. CASE Start
  BY <1>0, <1>1 DEF Start
<1>2. CASE LoadSnapshot
  BY <1>0, <1>2 DEF LoadSnapshot
<1>3. CASE ReplayRecord
  BY <1>0, <1>3 DEF ReplayRecord
<1>4. CASE ReplayStops
  <2>1. data' = durable
    <3>1. Next /\ pc = "replaying" /\ pc' = "idle"
      BY <1>0, <1>4 DEF ReplayStops, Next, Proceed, Recovery
    <3> QED
      BY <3>1, NotDamaged, ServingStarts DEF Healthy, StoreInv
  <2> QED
    BY <1>0, <1>4, <2>1 DEF ReplayStops
<1>5. CASE AppendRecord
  BY <1>0, <1>5 DEF AppendRecord
<1>6. CASE ApplyWrite
  BY <1>0, <1>6 DEF ApplyWrite, Answer
<1>7. CASE SaveTemp
  BY <1>0, <1>7 DEF SaveTemp
<1>8. CASE CommitSnapshot
  BY <1>0, <1>8 DEF CommitSnapshot, Answer
<1> QED
  BY <1>1, <1>2, <1>3, <1>4, <1>5, <1>6, <1>7, <1>8, StepsOfWork

LEMMA CallKeepsSound ==
  ASSUME Healthy, Call, script \in Seq(CallSet)
  PROVE  Sound'
<1> USE DEF Sound, Opening
<1>0. /\ wal \in Seq(Record) /\ ~orphaned /\ stream = "good" /\ buffered = None
      /\ pc = "idle" /\ data = durable /\ NoValue \notin Value
  BY ValuesAssumption DEF Healthy, Call, Running
<1> DEFINE next == Head(script)
<1>1. ASSUME NEW v \in Value, Set(next.key, v)
      PROVE  Sound'
  BY <1>0, <1>1 DEF Set, Request, SetRecord
<1>2. CASE UNCHANGED vars
  BY <1>0, <1>2 DEF Healthy, vars
<1>3. CASE SaveSnapshot
  BY <1>0, <1>3 DEF SaveSnapshot, Request
<1>4. CASE Exit
  BY <1>0, <1>4 DEF Exit, FlushBuffered, Stopped
<1> QED
  BY <1>1, <1>2, <1>3, <1>4 DEF Call

----------------------------------------------------------------------------
\* Reads find their keys.
LEMMA WorkKeepsGetsHit ==
  ASSUME Healthy, GetsHit, Work, ~Threw', script \in Seq(CallSet)
  PROVE  GetsHit'
<1> USE DEF GetsHit
<1>0. /\ data \in Map /\ durable \in Map /\ script' = script
      /\ pc \in {"appending", "applying"} => op.value # NoValue /\ op \in Record
      /\ pc \in {"saving", "renaming"} => data = durable
  BY DEF Healthy, Sound, StoreInv, WellFormed, TypeOK, Work
<1>1. CASE durable' = durable /\ pc # "appending"
  BY <1>0, <1>1
<1>2. CASE AppendRecord
  <2>1. /\ durable' = apply_record(durable, op) /\ op.key \in Key
        /\ op.value # NoValue
    BY <1>0, <1>2 DEF AppendRecord, Record
  <2>2. ASSUME NEW k \in Key, durable[k] # NoValue \/ op.key = k
        PROVE  durable'[k] # NoValue
    BY <1>0, <2>1, <2>2 DEF apply_record, Map
  <2>3. ASSUME NEW i \in DOMAIN script, script[i].call = "get"
        PROVE  script[i].key \in Key
    <3>1. script[i] \in CallSet
      OBVIOUS
    <3> QED
      BY <2>3, <3>1 DEF CallSet
  <2> QED
    BY <1>0, <2>2, <2>3
<1>3. CASE CommitSnapshot
  BY <1>0, <1>3 DEF CommitSnapshot, Answer
<1>4. CASE Start \/ LoadSnapshot \/ ReplayRecord \/ ReplayStops \/ ApplyWrite \/ SaveTemp
  BY <1>0, <1>1, <1>4 DEF Start, LoadSnapshot, ReplayRecord, ReplayStops, Replaying,
                          ApplyWrite, SaveTemp
<1> QED
  BY <1>2, <1>3, <1>4, StepsOfWork

LEMMA CallKeepsGetsHit ==
  ASSUME Healthy, GetsHit, Call, script \in Seq(CallSet)
  PROVE  GetsHit'
<1> DEFINE next == Head(script)
<1>0. /\ script # <<>> /\ script' = Tail(script) /\ pc = "idle"
  BY DEF Call, Running
<1>1. /\ next = script[1] /\ script' \in Seq(CallSet) /\ Len(script') = Len(script) - 1
      /\ \A i \in 1..(Len(script) - 1) : script'[i] = script[i + 1]
      /\ Len(script) \in Nat /\ Len(script) >= 1
  BY <1>0, NextCall
<1>2. /\ durable' = durable
      /\ next.call = "set" => pc' = "appending" /\ op'.key = next.key
  <2>1. ASSUME NEW v \in Value, Set(next.key, v)
        PROVE  durable' = durable /\ pc' = "appending" /\ op'.key = next.key
    BY <2>1 DEF Set, Request, SetRecord
  <2>2. Exit => durable' = durable
    BY DEF Exit, FlushBuffered, Healthy, Sound
  <2>3. SaveSnapshot => durable' = durable
    BY DEF SaveSnapshot, Request
  <2>4. UNCHANGED vars => durable' = durable
    BY DEF vars
  <2>5. \/ next.call = "set" /\ \E v \in Value : Set(next.key, v)
        \/ next.call = "get" /\ UNCHANGED vars
        \/ next.call = "save" /\ SaveSnapshot
        \/ next.call = "reopen" /\ Exit
    BY DEF Call
  <2> QED
    BY <2>1, <2>2, <2>3, <2>4, <2>5
<1>3. ASSUME NEW i \in DOMAIN script', script'[i].call = "get"
      PROVE  \/ durable'[script'[i].key] # NoValue
             \/ pc' = "appending" /\ op'.key = script'[i].key
             \/ \E j \in 1..(i - 1) :
                  script'[j].call = "set" /\ script'[j].key = script'[i].key
  <2>1. /\ i \in 1..(Len(script) - 1) /\ script'[i] = script[i + 1]
        /\ i + 1 \in DOMAIN script /\ script[i + 1].call = "get"
    BY <1>1, <1>3
  <2>2. CASE durable[script[i + 1].key] # NoValue
    BY <1>2, <2>1, <2>2
  <2>3. ASSUME NEW j \in 1..i, script[j].call = "set", script[j].key = script[i + 1].key
        PROVE  \/ pc' = "appending" /\ op'.key = script'[i].key
               \/ \E k \in 1..(i - 1) :
                    script'[k].call = "set" /\ script'[k].key = script'[i].key
    <3>1. CASE j = 1
      BY <1>1, <1>2, <2>1, <2>3, <3>1
    <3>2. CASE j # 1
      <4>1. j - 1 \in 1..(i - 1) /\ j - 1 \in 1..(Len(script) - 1)
        BY <1>1, <2>1, <3>2
      <4>2. script'[j - 1] = script[j]
        BY <1>1, <4>1
      <4> QED
        BY <2>1, <2>3, <4>1, <4>2
    <3> QED
      BY <3>1, <3>2
  <2>4. i + 1 - 1 = i
    BY <2>1
  <2>5. \/ durable[script[i + 1].key] # NoValue
        \/ \E j \in 1..i : script[j].call = "set" /\ script[j].key = script[i + 1].key
    BY <1>0, <2>1, <2>4 DEF GetsHit
  <2> QED
    BY <2>2, <2>3, <2>5
<1> QED
  BY <1>3 DEF GetsHit

----------------------------------------------------------------------------
\* The numbers of a benchmark.
LEMMA MinMaxOfTwo ==
  ASSUME NEW a \in Int, NEW b \in Int
  PROVE  /\ Min({a, b}) = IF a <= b THEN a ELSE b
         /\ Max({a, b}) = IF a >= b THEN a ELSE b
<1>1. Min({a, b}) \in {a, b} /\ \A y \in {a, b} : Min({a, b}) <= y
  <2>1. \E x \in {a, b} : \A y \in {a, b} : x <= y
    OBVIOUS
  <2> QED
    BY <2>1 DEF Min
<1>2. Max({a, b}) \in {a, b} /\ \A y \in {a, b} : Max({a, b}) >= y
  <2>1. \E x \in {a, b} : \A y \in {a, b} : x >= y
    OBVIOUS
  <2> QED
    BY <2>1 DEF Max
<1> QED
  BY <1>1, <1>2

\* The tail is not empty, and too short for an automatic snapshot.
LEMMA TailFits ==
  ASSUME NEW n \in Nat \ {0}
  PROVE  /\ RecoveryTailOperations(n) \in 1..(kSnapshotInterval - 1)
         /\ RecoveryTailOperations(n) <= n
<1> DEFINE part == n \div TailShare
           tail == IF TailLimit <= part THEN TailLimit ELSE part
<1>1. /\ TailShare \in Nat \ {0} /\ TailLimit \in 1..(kSnapshotInterval - 1)
      /\ kSnapshotInterval \in Nat
  BY WorkloadAssumption, IntervalAssumption
<1>2. part \in Nat /\ part <= n
  BY <1>1
<1> HIDE DEF part
<1>3. tail \in Int /\ tail <= TailLimit /\ tail <= n
  BY <1>1, <1>2
<1>4. Min({TailLimit, part}) = tail
  BY <1>1, <1>2, MinMaxOfTwo
<1> HIDE DEF tail
<1>5. Max({1, tail}) = IF 1 >= tail THEN 1 ELSE tail
  BY <1>3, MinMaxOfTwo
<1>6. RecoveryTailOperations(n) = IF 1 >= tail THEN 1 ELSE tail
  BY <1>4, <1>5 DEF RecoveryTailOperations, part
<1> QED
  BY <1>1, <1>3, <1>6

\* What a benchmark's run is measured against.
Counts ==
  /\ Healthy /\ script \in Seq(CallSet) /\ Counting
  /\ operations \in 1..SizeMax

LEMMA Numbers ==
  ASSUME Counts
  PROVE  /\ operations \in Nat /\ operations >= 1 /\ operations <= SizeMax
         /\ TailSize \in Nat /\ TailSize >= 1 /\ TailSize < kSnapshotInterval
         /\ TailSize <= operations
         /\ kSnapshotInterval \in Nat /\ kSnapshotInterval >= 1
         /\ Len(script) \in Nat /\ Len(wal) \in Nat /\ writes \in Nat /\ pos \in Nat
         /\ SnapOffset \in Nat
         /\ Planned \in Nat /\ Made \in Int /\ Made = Planned - Len(script)
         /\ benchmark = "write" => Planned = operations
         /\ benchmark = "snapshot" => Planned = operations + 1
         /\ benchmark = "recovery" => Planned = operations + TailSize + 2
         /\ benchmark = "write" \/ benchmark = "snapshot" \/ benchmark = "recovery"
<1>1. /\ operations \in Nat \ {0} /\ operations <= SizeMax /\ kSnapshotInterval \in Nat \ {0}
      /\ Len(script) \in Nat /\ benchmark \in {"write", "snapshot", "recovery"}
  BY WidthAssumption, IntervalAssumption DEF Counts, Counting
<1>2. TailSize \in 1..(kSnapshotInterval - 1) /\ TailSize <= operations
  BY <1>1, TailFits DEF TailSize
<1>3. Len(wal) \in Nat /\ writes \in Nat /\ pos \in Nat /\ SnapOffset \in Nat
  BY SnapshotTypes DEF Counts, Healthy, StoreInv, WellFormed, TypeOK, CommittedSnapshotWhole
<1>4. /\ Planned \in Nat /\ Made \in Int /\ Made = Planned - Len(script)
      /\ benchmark = "write" => Planned = operations
      /\ benchmark = "snapshot" => Planned = operations + 1
      /\ benchmark = "recovery" => Planned = operations + TailSize + 2
  BY <1>1, <1>2 DEF Planned, Made
<1> QED
  BY <1>1, <1>2, <1>3, <1>4

LEMMA SamePlan ==
  ASSUME UNCHANGED <<benchmark, operations>>
  PROVE  /\ Counting' <=> Counting
         /\ Planned' = Planned /\ TailSize' = TailSize
         /\ \A i : KeyAt(i)' = KeyAt(i)
         /\ \A i, call : IsPlanned(i, call)' <=> IsPlanned(i, call)
<1>1. TailSize' = TailSize
  BY DEF TailSize
<1>2. \A i : KeyAt(i)' = KeyAt(i)
  BY DEF KeyAt
<1> QED
  BY <1>1, <1>2 DEF Counting, Planned, IsPlanned

LEMMA SameCalls ==
  ASSUME UNCHANGED <<benchmark, operations, script>>
  PROVE  Made' = Made /\ (Reopened' <=> Reopened)
  BY SamePlan DEF Made, Reopened

\* One more call made: the one that the plan has next.
LEMMA CallMade ==
  ASSUME Counts, Logged, Call
  PROVE  /\ Made' = Made + 1 /\ Made + 1 <= Planned /\ ~Reopened
         /\ script' \in Seq(CallSet)
         /\ IsPlanned(Made + 1, Head(script))
         /\ \A i \in DOMAIN script' : IsPlanned(Made' + i, script'[i])
<1>1. script # <<>> /\ script' = Tail(script) /\ UNCHANGED <<benchmark, operations>>
  BY DEF Call
<1>2. /\ Head(script) = script[1] /\ script' \in Seq(CallSet)
      /\ Len(script') = Len(script) - 1 /\ Len(script) \in Nat /\ Len(script) >= 1
      /\ \A i \in 1..(Len(script) - 1) : script'[i] = script[i + 1]
  BY <1>1, NextCall DEF Counts
<1>3. Planned' = Planned /\ Planned \in Nat /\ Made = Planned - Len(script)
  BY <1>1, SamePlan, Numbers
<1>4. Made' = Planned' - Len(script')
  BY DEF Made
<1>5. Made' = Made + 1 /\ Made + 1 <= Planned /\ Made \in Int
  BY <1>2, <1>3, <1>4
<1>6. ~Reopened
  <2>1. Planned <= operations + TailSize + 2 /\ operations \in Nat /\ TailSize \in Nat
    BY Numbers
  <2> QED
    BY <1>3, <1>5, <2>1 DEF Reopened
<1>7. \A i \in 1..Len(script) : IsPlanned(Made + i, script[i])
  BY DEF Logged
<1>8. IsPlanned(Made + 1, Head(script))
  BY <1>2, <1>7
<1>9. ASSUME NEW i \in DOMAIN script'
      PROVE  IsPlanned(Made' + i, script'[i])
  <2>1. i \in 1..(Len(script) - 1) /\ i + 1 \in 1..Len(script)
    BY <1>2
  <2>2. script'[i] = script[i + 1]
    BY <1>2, <2>1
  <2>3. Made' + i = Made + (i + 1)
    BY <1>5, <2>1
  <2> QED
    BY <1>7, <2>1, <2>2, <2>3
<1> QED
  BY <1>2, <1>5, <1>6, <1>8, <1>9

\* What the call is, and what it does to the store.
LEMMA CallDone ==
  ASSUME Counts, Logged, Call
  PROVE  /\ pc = "idle" /\ data = durable
         /\ wal' = wal /\ durable' = durable /\ snap' = snap
         /\ \/ /\ Made + 1 # operations + 1 /\ Made + 1 # operations + TailSize + 2
               /\ pc' = "appending" /\ writes' = writes
               /\ op'.key = KeyAt(IF Made + 1 <= operations THEN Made + 1 ELSE Made)
            \/ Made = operations /\ pc' = "saving" /\ writes' = writes
            \/ Made = operations + TailSize + 1 /\ pc' = "down"
<1> DEFINE next == Head(script)
<1>1. pc = "idle" /\ data = durable /\ buffered = None
  BY DEF Call, Running, Counts, Healthy, Sound
<1>2. IsPlanned(Made + 1, next) /\ Made \in Int
  BY CallMade, Numbers
<1>3. operations \in Nat /\ TailSize \in Nat /\ TailSize >= 1
  BY Numbers
<1>4. ASSUME NEW v \in Value, Set(next.key, v), next.call = "set"
      PROVE  /\ wal' = wal /\ durable' = durable /\ snap' = snap
             /\ Made + 1 # operations + 1 /\ Made + 1 # operations + TailSize + 2
             /\ pc' = "appending" /\ writes' = writes
             /\ op'.key = KeyAt(IF Made + 1 <= operations THEN Made + 1 ELSE Made)
  <2>1. /\ wal' = wal /\ durable' = durable /\ snap' = snap /\ writes' = writes
        /\ pc' = "appending" /\ op'.key = next.key
    BY <1>4 DEF Set, Request, SetRecord
  <2>2. /\ Made + 1 # operations + 1 /\ Made + 1 # operations + TailSize + 2
        /\ next.key = KeyAt(IF Made + 1 <= operations THEN Made + 1 ELSE (Made + 1) - 1)
    BY <1>2, <1>4 DEF IsPlanned
  <2>3. (Made + 1) - 1 = Made
    BY <1>2
  <2> QED
    BY <2>1, <2>2, <2>3
<1>5. ASSUME SaveSnapshot, next.call = "save"
      PROVE  /\ wal' = wal /\ durable' = durable /\ snap' = snap
             /\ Made = operations /\ pc' = "saving" /\ writes' = writes
  <2>1. Made + 1 = operations + 1
    BY <1>2, <1>5 DEF IsPlanned
  <2> QED
    BY <1>2, <1>3, <1>5, <2>1 DEF SaveSnapshot, Request
<1>6. ASSUME Exit, next.call = "reopen"
      PROVE  /\ wal' = wal /\ durable' = durable /\ snap' = snap
             /\ Made = operations + TailSize + 1 /\ pc' = "down"
  <2>1. Made + 1 = operations + TailSize + 2
    BY <1>2, <1>6 DEF IsPlanned
  <2> QED
    BY <1>1, <1>2, <1>3, <1>6, <2>1 DEF Exit, FlushBuffered, Stopped
<1>7. next.call # "get"
  BY <1>2 DEF IsPlanned
<1>8. \/ next.call = "set" /\ \E v \in Value : Set(next.key, v)
      \/ next.call = "get"
      \/ next.call = "save" /\ SaveSnapshot
      \/ next.call = "reopen" /\ Exit
  BY DEF Call
<1> QED
  BY <1>1, <1>4, <1>5, <1>6, <1>7, <1>8

----------------------------------------------------------------------------
\* The log follows the plan.
Held(map) == {k \in Key : map[k] # NoValue}
KeysUpTo(n) == {KeyAt(i) : i \in 1..n}

LEMMA OneMoreHeld ==
  ASSUME NEW map \in Map, NEW r \in Record, r.value # NoValue
  PROVE  Held(apply_record(map, r)) = Held(map) \cup {r.key}
<1>1. r.key \in Key
  BY DEF Record
<1>2. ASSUME NEW k \in Key
      PROVE  apply_record(map, r)[k] = IF k = r.key THEN r.value ELSE map[k]
  BY <1>1 DEF apply_record, Map
<1> QED
  BY <1>1, <1>2, Zenon DEF Held

LEMMA OneMoreKey ==
  ASSUME NEW n \in Nat
  PROVE  KeysUpTo(n + 1) = KeysUpTo(n) \cup {KeyAt(n + 1)}
<1>1. 1..(n + 1) = (1..n) \cup {n + 1}
  OBVIOUS
<1> QED
  BY <1>1, Zenon DEF KeysUpTo

\* Every other step of the store leaves the log alone.
LEMMA LogStays ==
  ASSUME Healthy, Work, ~Threw', ~AppendRecord
  PROVE  /\ wal' = wal /\ durable' = durable /\ op' = op
         /\ pc \notin {"appending", "idle"} /\ pc' \notin {"appending", "applying"}
<1>1. pc \in {"saving", "renaming"} => data = durable
  BY DEF Healthy, Sound
<1>2. CASE Start \/ LoadSnapshot \/ ReplayRecord \/ ReplayStops
  BY <1>2 DEF Start, LoadSnapshot, ReplayRecord, ReplayStops, Replaying
<1>3. CASE ApplyWrite \/ SaveTemp
  BY <1>3 DEF ApplyWrite, SaveTemp, Answer
<1>4. CASE CommitSnapshot
  BY <1>1, <1>4 DEF CommitSnapshot, Answer
<1> QED
  BY <1>2, <1>3, <1>4, StepsOfWork

LEMMA WorkKeepsLogged ==
  ASSUME Counts, Logged, Work, ~Threw'
  PROVE  Logged'
<1>1. UNCHANGED <<benchmark, operations, script>>
  BY DEF Work
<1>2. /\ Made' = Made /\ Planned' = Planned /\ (Reopened' <=> Reopened)
      /\ \A i : KeyAt(i)' = KeyAt(i)
      /\ \A i, call : IsPlanned(i, call)' <=> IsPlanned(i, call)
  BY <1>1, SamePlan, SameCalls
<1>3. Healthy /\ Made \in Int /\ Len(wal) \in Nat /\ operations \in Nat
  BY Numbers DEF Counts
<1>4. (Made \in 0..Planned /\ \A i \in DOMAIN script : IsPlanned(Made + i, script[i]))'
  BY <1>1, <1>2 DEF Logged
<1>5. CASE AppendRecord
  <2>1. /\ pc = "appending" /\ pc' = "applying" /\ op' = op
        /\ wal' = Append(wal, op) /\ durable' = apply_record(durable, op)
    BY <1>5 DEF AppendRecord
  <2>2. /\ wal \in Seq(Record) /\ op \in Record /\ op.value # NoValue /\ durable \in Map
    BY <1>3, <2>1 DEF Healthy, Sound, StoreInv, WellFormed, TypeOK
  <2>3. Len(wal') = Len(wal) + 1
    BY <2>1, <2>2
  <2>4. op.key = KeyAt(Len(wal) + 1)
    BY <2>1 DEF Logged
  <2>5. Held(durable') = KeysUpTo(Len(wal) + 1)
    <3>1. Held(durable) = KeysUpTo(Len(wal))
      BY DEF Logged, Held, KeysUpTo
    <3> QED
      BY <1>3, <2>1, <2>2, <2>4, <3>1, OneMoreHeld, OneMoreKey
  <2>6. Held(durable') = KeysUpTo(Len(wal))'
    BY <1>2, <2>3, <2>5, Zenon DEF Held, KeysUpTo
  <2>7. (op.key = KeyAt(Len(wal)))'
    BY <1>2, <2>1, <2>3, <2>4
  <2>8. Len(wal') = Made' - (IF pc' = "appending" THEN 1 ELSE 0)
                          - (IF Made' > operations' THEN 1 ELSE 0)
                          - (IF Reopened' THEN 1 ELSE 0)
    BY <1>1, <1>2, <1>3, <2>1, <2>3 DEF Logged
  <2> QED
    BY <1>4, <2>1, <2>6, <2>7, <2>8 DEF Logged, Held, KeysUpTo
<1>6. CASE ~AppendRecord
  <2>1. /\ wal' = wal /\ durable' = durable /\ pc # "appending"
        /\ pc' \notin {"appending", "applying"}
    BY <1>3, <1>6, LogStays
  <2>2. Held(durable') = KeysUpTo(Len(wal))'
    BY <1>2, <2>1, Zenon DEF Logged, Held, KeysUpTo
  <2>3. Len(wal') = Made' - (IF pc' = "appending" THEN 1 ELSE 0)
                          - (IF Made' > operations' THEN 1 ELSE 0)
                          - (IF Reopened' THEN 1 ELSE 0)
    BY <1>1, <1>2, <2>1 DEF Logged
  <2> QED
    BY <1>4, <2>1, <2>2, <2>3 DEF Logged, Held, KeysUpTo
<1> QED
  BY <1>5, <1>6

LEMMA CallKeepsLogged ==
  ASSUME Counts, Logged, Call
  PROVE  Logged'
<1>1. UNCHANGED <<benchmark, operations>>
  BY DEF Call
<1>2. /\ Planned' = Planned /\ TailSize' = TailSize
      /\ \A i : KeyAt(i)' = KeyAt(i)
      /\ \A i, call : IsPlanned(i, call)' <=> IsPlanned(i, call)
  BY <1>1, SamePlan
<1>3. /\ Made' = Made + 1 /\ Made + 1 <= Planned /\ ~Reopened
      /\ \A i \in DOMAIN script' : IsPlanned(Made' + i, script'[i])
  BY CallMade
<1>4. /\ Made \in Int /\ Planned \in Nat /\ operations \in Nat /\ TailSize \in Nat
      /\ TailSize >= 1 /\ Len(wal) \in Nat
  BY Numbers
<1>5. Made >= 0 /\ Len(wal) = Made - (IF Made > operations THEN 1 ELSE 0)
  <2>1. pc = "idle"
    BY CallDone
  <2> QED
    BY <1>3, <1>4, <2>1 DEF Logged
<1>6. /\ wal' = wal /\ durable' = durable
      /\ \/ /\ Made + 1 # operations + 1 /\ Made + 1 # operations + TailSize + 2
            /\ pc' = "appending"
            /\ op'.key = KeyAt(IF Made + 1 <= operations THEN Made + 1 ELSE Made)
         \/ Made = operations /\ pc' = "saving"
         \/ Made = operations + TailSize + 1 /\ pc' = "down"
  BY CallDone
<1>7. Reopened' <=> Made + 1 = operations + TailSize + 2
  BY <1>1, <1>2, <1>3 DEF Reopened
<1>8. (Made \in 0..Planned /\ \A i \in DOMAIN script : IsPlanned(Made + i, script[i]))'
  BY <1>2, <1>3, <1>4, <1>5
<1>9. Held(durable') = KeysUpTo(Len(wal))'
  BY <1>2, <1>6, Zenon DEF Logged, Held, KeysUpTo
<1>10. Len(wal') = Made' - (IF pc' = "appending" THEN 1 ELSE 0)
                         - (IF Made' > operations' THEN 1 ELSE 0)
                         - (IF Reopened' THEN 1 ELSE 0)
  <2> DEFINE n == Len(wal)
             m == Made
             t == TailSize
  <2>1. n \in Nat /\ m \in Int /\ t \in Nat /\ t >= 1 /\ operations \in Nat
    BY <1>4
  <2>2. n = m - (IF m > operations THEN 1 ELSE 0)
    BY <1>5
  <2>3. operations' = operations /\ Len(wal') = n /\ Made' = m + 1
    BY <1>1, <1>3, <1>6
  <2>4. Reopened' <=> m + 1 = operations + t + 2
    BY <1>7
  <2>5. \/ /\ m + 1 # operations + 1 /\ m + 1 # operations + t + 2
           /\ pc' = "appending"
        \/ m = operations /\ pc' = "saving"
        \/ m = operations + t + 1 /\ pc' = "down"
    BY <1>6
  <2> HIDE DEF n, m, t
  <2>6. CASE m + 1 # operations + 1 /\ m + 1 # operations + t + 2 /\ pc' = "appending"
    BY <2>1, <2>2, <2>3, <2>4, <2>6
  <2>7. CASE m = operations /\ pc' = "saving"
    BY <2>1, <2>2, <2>3, <2>4, <2>7
  <2>8. CASE m = operations + t + 1 /\ pc' = "down"
    BY <2>1, <2>2, <2>3, <2>4, <2>8
  <2> QED
    BY <2>5, <2>6, <2>7, <2>8
<1>11. pc' # "applying" /\ (pc' = "appending" => (op.key = KeyAt(Len(wal) + 1))')
  <2>1. ASSUME pc' = "appending"
        PROVE  (IF Made + 1 <= operations THEN Made + 1 ELSE Made) = Len(wal') + 1
    BY <1>4, <1>5, <1>6, <2>1
  <2> QED
    BY <1>2, <1>6, <2>1
<1> QED
  BY <1>8, <1>9, <1>10, <1>11 DEF Logged, Held, KeysUpTo

----------------------------------------------------------------------------
\* The counter of MaybeSnapshot.
LEMMA WholeIntervals ==
  ASSUME NEW n \in Nat, NEW d \in Nat, d >= 1, n % d = 0
  PROVE  \E q \in Nat : n = d * q
  OBVIOUS

LEMMA NoRemainder ==
  ASSUME NEW q \in Nat, NEW d \in Nat, d >= 1
  PROVE  (d * q) % d = 0
  OBVIOUS

LEMMA NextInterval ==
  ASSUME NEW n \in Nat, NEW d \in Nat, d >= 1, n % d = 0
  PROVE  (n + d) % d = 0
<1>1. PICK q \in Nat : n = d * q
  BY WholeIntervals
<1>2. n + d = d * (q + 1) /\ q + 1 \in Nat
  BY <1>1
<1>3. (d * (q + 1)) % d = 0
  BY <1>2, NoRemainder
<1> QED
  BY <1>2, <1>3

LEMMA StartedInterval ==
  ASSUME NEW n \in Nat, NEW d \in Nat, d >= 1, n % d = 0, NEW r \in Nat, r < d
  PROVE  (n + r) % d = r
<1>1. PICK q \in Nat : n = d * q
  BY WholeIntervals
<1>2. (r + d * q) % d = r
  OBVIOUS
<1> QED
  BY <1>1, <1>2

\* Counted, about the numbers that it relates.
CountedAs(offset, count, length, state) ==
  /\ ~Reopened => offset + count + (IF state = "applying" THEN 1 ELSE 0) = length
  /\ benchmark = "write" =>
       /\ offset % kSnapshotInterval = 0
       /\ IF state \in {"saving", "renaming"} THEN count = kSnapshotInterval
          ELSE count < kSnapshotInterval

LEMMA WorkKeepsCounted ==
  ASSUME Counts, Counted, Work, ~Threw'
  PROVE  Counted'
<1>1. /\ Made' = Made /\ (Reopened' <=> Reopened) /\ UNCHANGED <<benchmark, operations>>
  BY SameCalls DEF Work
<1>2. /\ SnapOffset \in Nat /\ writes \in Nat /\ Len(wal) \in Nat /\ Healthy
      /\ kSnapshotInterval \in Nat /\ kSnapshotInterval >= 1
  BY Numbers DEF Counts
<1>3. CountedAs(SnapOffset, writes, Len(wal), pc)
  BY DEF Counted, CountedAs
<1>4. SnapOffset' = SnapOffset \/ CommitSnapshot
  BY <1>2, StepsOfWork
     DEF SnapOffset, Start, LoadSnapshot, ReplayRecord, ReplayStops, AppendRecord, ApplyWrite,
         SaveTemp
<1>5. Opening' => Opening /\ snap' = snap
  BY <1>2, StepsOfWork
     DEF Opening, Start, LoadSnapshot, ReplayRecord, ReplayStops, AppendRecord, ApplyWrite,
         SaveTemp, CommitSnapshot, Answer
<1>6. CountedAs(SnapOffset', writes', Len(wal'), pc')
  <2>1. CASE Start \/ LoadSnapshot \/ ReplayRecord \/ ReplayStops \/ SaveTemp
    <3>1. /\ wal' = wal /\ writes' = writes /\ SnapOffset' = SnapOffset
          /\ pc # "applying" /\ pc' # "applying"
          /\ pc \in {"saving", "renaming"} <=> pc' \in {"saving", "renaming"}
      BY <2>1 DEF SnapOffset, Start, LoadSnapshot, ReplayRecord, ReplayStops, Replaying,
                  SaveTemp
    <3> QED
      BY <1>3, <3>1 DEF CountedAs
  <2>2. CASE AppendRecord
    <3>1. /\ Len(wal') = Len(wal) + 1 /\ writes' = writes /\ SnapOffset' = SnapOffset
          /\ pc = "appending" /\ pc' = "applying"
      BY <1>2, <2>2 DEF SnapOffset, AppendRecord, Healthy, Sound, StoreInv, WellFormed, TypeOK
    <3> QED
      BY <1>2, <1>3, <3>1 DEF CountedAs
  <2>3. CASE ApplyWrite
    <3>1. /\ wal' = wal /\ writes' = writes + 1 /\ SnapOffset' = SnapOffset
          /\ pc = "applying"
          /\ pc' = IF writes + 1 >= kSnapshotInterval THEN "saving" ELSE "idle"
      BY <2>3 DEF SnapOffset, ApplyWrite, Answer
    <3> QED
      BY <1>2, <1>3, <3>1 DEF CountedAs
  <2>4. CASE CommitSnapshot
    <3>1. snap' = tmp /\ tmp = [map |-> data, offset |-> Len(wal)] /\ pc = "renaming"
      BY <1>2, <2>4 DEF CommitSnapshot, Healthy, StoreInv, RecoveryInv, TempIsCurrent
    <3>2. SnapOffset' = Len(wal)
      <4>1. snap' # None
        BY <1>2, <3>1, FilesAssumption
           DEF Healthy, StoreInv, WellFormed, TypeOK, SnapshotFile
      <4> QED
        BY <3>1, <4>1 DEF SnapOffset
    <3>3. wal' = wal /\ writes' = 0 /\ pc' = "idle"
      BY <2>4 DEF CommitSnapshot, Answer
    <3>4. ASSUME benchmark = "write"
          PROVE  Len(wal) % kSnapshotInterval = 0
      <4>1. /\ SnapOffset % kSnapshotInterval = 0 /\ writes = kSnapshotInterval
            /\ ~Reopened => SnapOffset + writes = Len(wal)
        BY <1>2, <1>3, <3>1, <3>4 DEF CountedAs
      <4>2. ~Reopened
        <5>1. Made <= operations /\ operations \in Nat /\ TailSize \in Nat /\ Made \in Int
          BY <3>4, Numbers
        <5> QED
          BY <5>1 DEF Reopened
      <4>3. Len(wal) = SnapOffset + kSnapshotInterval
        BY <4>1, <4>2
      <4>4. (SnapOffset + kSnapshotInterval) % kSnapshotInterval = 0
        BY <1>2, <4>1, NextInterval
      <4> QED
        BY <4>3, <4>4
    <3> QED
      BY <1>2, <3>2, <3>3, <3>4 DEF CountedAs
  <2> QED
    BY <1>2, <2>1, <2>2, <2>3, <2>4, StepsOfWork
<1> QED
  BY <1>1, <1>5, <1>6 DEF Counted, CountedAs

LEMMA CallKeepsCounted ==
  ASSUME Counts, Logged, Counted, Call
  PROVE  Counted'
<1>1. /\ UNCHANGED <<benchmark, operations>> /\ TailSize' = TailSize
      /\ Made' = Made + 1 /\ Made + 1 <= Planned /\ ~Reopened
  BY CallMade, SamePlan DEF Call
<1>2. /\ Made \in Int /\ operations \in Nat /\ TailSize \in Nat /\ TailSize >= 1
      /\ benchmark = "write" => Planned = operations
  BY Numbers
<1>3. pc = "idle" /\ wal' = wal /\ SnapOffset' = SnapOffset
  BY CallDone DEF SnapOffset
<1>4. \/ pc' = "appending" /\ writes' = writes
      \/ Made = operations /\ pc' = "saving" /\ writes' = writes
      \/ Made = operations + TailSize + 1 /\ pc' = "down"
  BY CallDone
<1>5. CountedAs(SnapOffset, writes, Len(wal), pc)
  BY DEF Counted, CountedAs
<1>6. Reopened' <=> Made + 1 = operations + TailSize + 2
  BY <1>1 DEF Reopened
<1>7. Opening' => Reopened'
  BY <1>2, <1>4, <1>6 DEF Opening
<1>8. ~Reopened' => SnapOffset' + writes' + (IF pc' = "applying" THEN 1 ELSE 0) = Len(wal')
  BY <1>1, <1>2, <1>3, <1>4, <1>5, <1>6 DEF CountedAs
<1>9. ASSUME benchmark = "write"
      PROVE  pc' = "appending" /\ writes' = writes
  BY <1>1, <1>2, <1>4, <1>9
<1> QED
  BY <1>1, <1>3, <1>5, <1>7, <1>8, <1>9 DEF Counted, CountedAs

----------------------------------------------------------------------------
\* The benchmark's own snapshot, and the tail behind it.
SnapshotHolds ==
  /\ snap \notin {None, Torn} /\ snap.offset = operations
  /\ Held(snap.map) = KeysUpTo(operations)

\* Behind the snapshot the log has as many records as calls were made, and too
\* few for another snapshot.
LEMMA TailIsShort ==
  ASSUME Counts, Logged, Counted, Saved, Recovering, pc = "applying", Made > operations
  PROVE  writes + 1 < kSnapshotInterval
<1>1. /\ Made \in Int /\ operations \in Nat /\ TailSize \in Nat /\ TailSize < kSnapshotInterval
      /\ writes \in Nat /\ Len(wal) \in Nat /\ kSnapshotInterval \in Nat
      /\ Planned \in Nat /\ Planned <= operations + TailSize + 2
  BY Numbers
<1>2. ~Reopened
  BY DEF Recovering, Opening
<1>3. Made # operations + 1 /\ Made > operations + 1
  BY <1>1 DEF Saved
<1>4. SnapOffset = operations
  BY <1>3 DEF Saved, SnapOffset
<1>5. operations + writes + 1 = Len(wal)
  BY <1>2, <1>4 DEF Counted
<1>6. Made \in 0..Planned /\ Len(wal) = Made - 1
  BY <1>1, <1>2 DEF Logged
<1>7. Made # operations + TailSize + 2
  BY <1>2 DEF Reopened
<1>8. Made <= operations + TailSize + 1
  BY <1>1, <1>6, <1>7
<1>9. writes + 1 <= TailSize
  BY <1>1, <1>5, <1>6, <1>8
<1> QED
  BY <1>1, <1>9

LEMMA WorkKeepsSaved ==
  ASSUME Counts, Logged, Counted, Saved, Recovering, Work, ~Threw'
  PROVE  Saved'
<1>1. /\ Made' = Made /\ UNCHANGED <<benchmark, operations>>
      /\ \A i : KeyAt(i)' = KeyAt(i)
  BY SameCalls, SamePlan DEF Work
<1>2. /\ Healthy /\ Made \in Int /\ operations \in Nat /\ TailSize \in Nat /\ TailSize >= 1
      /\ Planned <= operations + TailSize + 2
  BY Numbers DEF Counts
<1>3. /\ Made > operations + 1 => Opening \/ pc \in {"idle", "appending", "applying"}
      /\ Made = operations + 1 => pc \in {"idle", "saving", "renaming"}
      /\ Made > operations + 1 \/ (Made = operations + 1 /\ pc = "idle") => SnapshotHolds
  BY DEF Saved, SnapshotHolds, Held, KeysUpTo
<1>4. SnapshotHolds' = (/\ snap' \notin {None, Torn} /\ snap'.offset = operations
                        /\ Held(snap'.map) = KeysUpTo(operations))
  <2>1. KeysUpTo(operations)' = KeysUpTo(operations)
    BY <1>1 DEF KeysUpTo
  <2> QED
    BY <1>1, <2>1 DEF SnapshotHolds, Held
<1>5. CASE Made > operations + 1
  <2>1. pc \notin {"saving", "renaming"}
    BY <1>3, <1>5 DEF Opening
  <2>2. snap' = snap /\ (Opening' \/ pc' \in {"idle", "appending", "applying"})
    <3>1. CASE Start \/ LoadSnapshot \/ ReplayRecord \/ ReplayStops \/ AppendRecord
      BY <1>2, <3>1
         DEF Opening, Start, LoadSnapshot, ReplayRecord, ReplayStops, Replaying, AppendRecord,
             Healthy, Sound
    <3>2. CASE ApplyWrite
      <4>1. pc = "applying" /\ writes \in Nat /\ kSnapshotInterval \in Nat
        BY <3>2, Numbers DEF ApplyWrite
      <4>2. ~(writes + 1 >= kSnapshotInterval)
        BY <1>2, <1>5, <4>1, TailIsShort
      <4> QED
        BY <3>2, <4>2 DEF ApplyWrite, Answer
    <3>3. ~SaveTemp /\ ~CommitSnapshot
      BY <2>1 DEF SaveTemp, CommitSnapshot
    <3> QED
      BY <1>2, <3>1, <3>2, <3>3, StepsOfWork
  <2>3. SnapshotHolds'
    BY <1>3, <1>4, <1>5, <2>2 DEF SnapshotHolds
  <2>4. Made' > operations' + 1 /\ Made' # operations' + 1
    BY <1>1, <1>2, <1>5
  <2> QED
    BY <2>2, <2>3, <2>4 DEF Saved, SnapshotHolds, Held, KeysUpTo
<1>6. CASE Made = operations + 1
  <2>1. pc \in {"saving", "renaming"}
    <3>1. pc # "idle"
      BY <1>2, StepsOfWork
         DEF Start, LoadSnapshot, ReplayRecord, ReplayStops, Replaying, AppendRecord,
             ApplyWrite, SaveTemp, CommitSnapshot
    <3> QED
      BY <1>3, <1>6, <3>1
  <2>2. SaveTemp \/ CommitSnapshot
    BY <1>2, <2>1, StepsOfWork
       DEF Start, LoadSnapshot, ReplayRecord, ReplayStops, Replaying, AppendRecord, ApplyWrite
  <2>3. Made' = operations' + 1 /\ ~(Made' > operations' + 1)
    BY <1>1, <1>2, <1>6
  <2>4. pc' \in {"idle", "saving", "renaming"} /\ (pc' = "idle" => CommitSnapshot)
    BY <2>2 DEF SaveTemp, CommitSnapshot, Answer
  <2>5. ASSUME CommitSnapshot
        PROVE  SnapshotHolds'
    <3>1. snap' = tmp /\ tmp = [map |-> data, offset |-> Len(wal)] /\ data = durable
      BY <1>2, <2>5 DEF CommitSnapshot, Healthy, Sound, StoreInv, RecoveryInv, TempIsCurrent
    <3>2. snap' \notin {None, Torn}
      <4>1. tmp \in SnapshotFile
        BY <1>2, <3>1 DEF Healthy, StoreInv, WellFormed, TypeOK, SnapshotFile
      <4> QED
        BY <3>1, <4>1, FilesAssumption
    <3>3. Len(wal) = operations
      <4>1. ~Reopened /\ pc # "appending"
        BY <1>2, <1>6, <2>1 DEF Reopened
      <4> QED
        BY <1>2, <1>6, <4>1 DEF Logged
    <3>4. Held(snap'.map) = KeysUpTo(operations)
      BY <3>1, <3>3 DEF Logged, Held, KeysUpTo
    <3> QED
      BY <1>4, <3>1, <3>2, <3>3, <3>4
  <2> QED
    BY <2>3, <2>4, <2>5 DEF Saved, SnapshotHolds, Held, KeysUpTo
<1>7. CASE ~(Made > operations + 1) /\ Made # operations + 1
  <2>1. ~(Made' > operations' + 1) /\ Made' # operations' + 1
    BY <1>1, <1>7
  <2> QED
    BY <2>1 DEF Saved
<1> QED
  BY <1>5, <1>6, <1>7

LEMMA CallKeepsSaved ==
  ASSUME Counts, Logged, Saved, Call
  PROVE  Saved'
<1>1. /\ UNCHANGED <<benchmark, operations>> /\ Made' = Made + 1
      /\ \A i : KeyAt(i)' = KeyAt(i)
  BY CallMade, SamePlan DEF Call
<1>2. Made \in Int /\ operations \in Nat /\ TailSize \in Nat /\ TailSize >= 1
  BY Numbers
<1>3. /\ pc = "idle" /\ snap' = snap
      /\ \/ Made + 1 # operations + 1 /\ pc' = "appending"
         \/ Made = operations /\ pc' = "saving"
         \/ Made = operations + TailSize + 1 /\ pc' = "down"
  BY CallDone
<1>4. Made > operations + 1 \/ Made = operations + 1 => SnapshotHolds
  BY <1>3 DEF Saved, SnapshotHolds, Held, KeysUpTo
<1>5. SnapshotHolds => SnapshotHolds'
  <2>1. KeysUpTo(operations)' = KeysUpTo(operations)
    BY <1>1 DEF KeysUpTo
  <2> QED
    BY <1>1, <1>3, <2>1 DEF SnapshotHolds, Held
<1>6. /\ Made' > operations' + 1 => Opening' \/ pc' \in {"idle", "appending", "applying"}
      /\ Made' = operations' + 1 => pc' = "saving"
  BY <1>1, <1>2, <1>3 DEF Opening
<1>7. Made' > operations' + 1 => SnapshotHolds'
  BY <1>1, <1>2, <1>4, <1>5
<1> QED
  BY <1>6, <1>7 DEF Saved, SnapshotHolds, Held, KeysUpTo

----------------------------------------------------------------------------
\* The second store replays the tail.
LEMMA WorkKeepsRecovering ==
  ASSUME Counts, Logged, Saved, Recovering, Work, ~Threw'
  PROVE  Recovering'
<1>1. /\ UNCHANGED operations /\ TailSize' = TailSize /\ (Reopened' <=> Reopened)
  BY SameCalls, SamePlan DEF Work
<1> SUFFICES ASSUME Reopened PROVE Recovering'
  BY <1>1 DEF Recovering
<1>2. /\ Healthy /\ operations \in Nat /\ TailSize \in Nat /\ TailSize >= 1
      /\ pos \in Nat /\ Len(wal) \in Nat /\ Made = operations + TailSize + 2
  BY Numbers DEF Counts, Reopened
<1>3. /\ Opening \/ pc = "idle"
      /\ pc = "loading" => replayed = 0
      /\ pc = "replaying" => replayed = pos - operations /\ pos <= Len(wal)
      /\ pc = "idle" => replayed = TailSize
  BY DEF Recovering
<1>4. SnapOffset = operations /\ Len(wal) = operations + TailSize
  <2>1. Made > operations + 1 /\ Made > operations /\ pc # "appending"
    BY <1>2, <1>3 DEF Opening
  <2>2. snap # None /\ snap.offset = operations
    BY <2>1 DEF Saved
  <2> QED
    BY <1>2, <2>1, <2>2 DEF SnapOffset, Logged
<1>5. replayed' = IF ReplayRecord THEN replayed + 1 ELSE IF Start THEN 0 ELSE replayed
  BY DEF Work
<1>6. CASE Start
  <2>1. pc' = "loading" /\ ~ReplayRecord
    BY <1>6 DEF Start, ReplayRecord
  <2> QED
    BY <1>5, <1>6, <2>1 DEF Recovering, Opening
<1>7. CASE LoadSnapshot
  <2>1. pc = "loading" /\ pc' = "replaying" /\ pos' = operations /\ wal' = wal
        /\ ~ReplayRecord /\ ~Start
    BY <1>4, <1>7 DEF LoadSnapshot, Start, ReplayRecord
  <2> QED
    BY <1>1, <1>2, <1>3, <1>4, <1>5, <2>1 DEF Recovering, Opening
<1>8. CASE ReplayRecord
  <2>1. pc = "replaying" /\ pc' = "replaying" /\ pos' = pos + 1 /\ pos < Len(wal)
        /\ wal' = wal
    BY <1>3, <1>8 DEF ReplayRecord, Replaying, Opening
  <2> QED
    BY <1>1, <1>2, <1>3, <1>5, <1>8, <2>1 DEF Recovering, Opening
<1>9. CASE ReplayStops
  <2>1. /\ pc = "replaying" /\ pc' = "idle" /\ ~ReplayRecord /\ ~Start
    <3>1. (pos >= Len(wal) \/ wal[pos + 1] = Torn) /\ pc = "replaying"
      BY <1>3, <1>9 DEF ReplayStops, Replaying, Opening
    <3> QED
      BY <1>2, <1>9, <3>1 DEF ReplayStops, ReplayRecord, Start
  <2>2. pos = Len(wal)
    <3>1. wal \in Seq(Record) /\ Torn \notin Record
      BY <1>2, MarkersAssumption DEF Healthy, Sound
    <3>2. pos >= Len(wal) \/ (pos + 1 = Len(wal) /\ wal[pos + 1] = Torn)
      BY <1>9 DEF ReplayStops
    <3> QED
      BY <1>2, <1>3, <2>1, <3>1, <3>2
  <2> QED
    BY <1>1, <1>2, <1>3, <1>4, <1>5, <2>1, <2>2 DEF Recovering, Opening
<1>10. ~(AppendRecord \/ ApplyWrite \/ SaveTemp \/ CommitSnapshot)
  BY <1>3 DEF Opening, AppendRecord, ApplyWrite, SaveTemp, CommitSnapshot
<1> QED
  BY <1>2, <1>6, <1>7, <1>8, <1>9, <1>10, StepsOfWork

LEMMA CallKeepsRecovering ==
  ASSUME Counts, Logged, Call
  PROVE  Recovering'
<1>1. /\ UNCHANGED operations /\ TailSize' = TailSize /\ Made' = Made + 1
  BY CallMade, SamePlan DEF Call
<1>2. Made \in Int /\ operations \in Nat /\ TailSize \in Nat /\ TailSize >= 1
  BY Numbers
<1>3. \/ Made + 1 # operations + TailSize + 2
      \/ Made = operations
      \/ pc' = "down"
  BY CallDone
<1>4. Reopened' => pc' = "down"
  BY <1>1, <1>2, <1>3 DEF Reopened
<1> QED
  BY <1>4 DEF Recovering, Opening

----------------------------------------------------------------------------
\* The scripts.
LEMMA KeyCall ==
  ASSUME NEW call \in {"set", "get"}, NEW key \in Key, NEW timed \in BOOLEAN
  PROVE  [call |-> call, key |-> key, timed |-> timed] \in CallSet
BY DEF CallSet

LEMMA KeyCalls ==
  ASSUME NEW prefix \in {"key", "tail"}, NEW count \in Nat, count <= SizeMax,
         NEW call \in {"set", "get"}, NEW timed \in BOOLEAN
  PROVE  /\ Calls(call, MakeKeys(prefix, count), timed) \in Seq(CallSet)
         /\ Len(Calls(call, MakeKeys(prefix, count), timed)) = count
         /\ \A i \in 1..count :
              /\ Calls(call, MakeKeys(prefix, count), timed)[i].call = call
              /\ Calls(call, MakeKeys(prefix, count), timed)[i].key = <<prefix, i - 1>>
<1> DEFINE keys == MakeKeys(prefix, count)
           calls == Calls(call, keys, timed)
<1>1. DOMAIN keys = 1..count /\ \A i \in 1..count : keys[i] = <<prefix, i - 1>>
  BY DEF MakeKeys
<1>2. \A i \in 1..count : keys[i] \in Key
  <2>1. \A i \in 1..count : i - 1 \in 0..(SizeMax - 1)
    BY WidthAssumption
  <2> QED
    BY <1>1, <2>1, KeysAssumption
<1> HIDE DEF keys
<1>3. calls = [i \in 1..count |-> [call |-> call, key |-> keys[i], timed |-> timed]]
  BY <1>1 DEF Calls
<1>4. \A i \in 1..count : [call |-> call, key |-> keys[i], timed |-> timed] \in CallSet
  BY <1>2 DEF CallSet
<1> HIDE DEF calls
<1>5. calls \in [1..count -> CallSet]
  BY <1>3, <1>4
<1>6. calls \in Seq(CallSet) /\ Len(calls) = count
  BY <1>5
<1>7. \A i \in 1..count : calls[i].call = call /\ calls[i].key = <<prefix, i - 1>>
  BY <1>1, <1>3
<1> QED
  BY <1>6, <1>7 DEF calls, keys

LEMMA OneCall ==
  /\ Save \in Seq(CallSet) /\ Len(Save) = 1 /\ Save[1].call = "save"
  /\ Reopen \in Seq(CallSet) /\ Len(Reopen) = 1 /\ Reopen[1].call = "reopen"
BY DEF Save, Reopen, CallSet

LEMMA Joined ==
  ASSUME NEW s \in Seq(CallSet), NEW t \in Seq(CallSet)
  PROVE  /\ s \o t \in Seq(CallSet) /\ Len(s \o t) = Len(s) + Len(t)
         /\ \A i \in 1..Len(s) : (s \o t)[i] = s[i]
         /\ \A i \in 1..Len(t) : (s \o t)[Len(s) + i] = t[i]
  OBVIOUS

\* What a benchmark starts with.
Begun ==
  /\ Init /\ Readable /\ operations \in 1..SizeMax
  /\ benchmark \in {"write", "read", "mixed", "recovery", "snapshot"}
  /\ script \in Scripts(benchmark, operations) /\ report = None

LEMMA WriteScript ==
  ASSUME operations \in 1..SizeMax, script \in RunWriteBenchmark(operations),
         benchmark = "write"
  PROVE  /\ script \in Seq(CallSet) /\ Len(script) = Planned
         /\ \A i \in DOMAIN script : script[i].call # "get" /\ IsPlanned(i, script[i])
<1>1. operations \in Nat /\ operations <= SizeMax /\ operations >= 1
  BY WidthAssumption
<1> DEFINE sets == Calls("set", MakeKeys("key", operations), TRUE)
<1>2. script = sets
  BY DEF RunWriteBenchmark
<1>3. /\ sets \in Seq(CallSet) /\ Len(sets) = operations
      /\ \A i \in 1..operations : sets[i].call = "set" /\ sets[i].key = <<"key", i - 1>>
  BY <1>1, KeyCalls
<1> HIDE DEF sets
<1>4. TailSize \in Nat /\ TailSize >= 1
  BY <1>1, TailFits, IntervalAssumption DEF TailSize
<1>5. ASSUME NEW i \in 1..operations
      PROVE  IsPlanned(i, script[i])
  <2>1. i # operations + 1 /\ i # operations + TailSize + 2 /\ i <= operations
    BY <1>1, <1>4
  <2> QED
    BY <1>2, <1>3, <2>1 DEF IsPlanned, KeyAt
<1> QED
  BY <1>2, <1>3, <1>5 DEF Planned

LEMMA SnapshotScript ==
  ASSUME operations \in 1..SizeMax, script \in RunSnapshotBenchmark(operations),
         benchmark = "snapshot"
  PROVE  /\ script \in Seq(CallSet) /\ Len(script) = Planned
         /\ \A i \in DOMAIN script : script[i].call # "get" /\ IsPlanned(i, script[i])
<1>1. operations \in Nat /\ operations <= SizeMax /\ operations >= 1
  BY WidthAssumption
<1> DEFINE sets == Calls("set", MakeKeys("key", operations), FALSE)
<1>2. script = sets \o Save
  BY DEF RunSnapshotBenchmark, PreloadStore
<1>3. /\ sets \in Seq(CallSet) /\ Len(sets) = operations
      /\ \A i \in 1..operations : sets[i].call = "set" /\ sets[i].key = <<"key", i - 1>>
  BY <1>1, KeyCalls
<1> HIDE DEF sets
<1>4. /\ script \in Seq(CallSet) /\ Len(script) = operations + 1
      /\ \A i \in 1..operations : script[i] = sets[i]
      /\ script[operations + 1] = Save[1]
  <2>1. sets \in Seq(CallSet) /\ Save \in Seq(CallSet) /\ Len(sets) = operations
    BY <1>3, OneCall
  <2>2. /\ sets \o Save \in Seq(CallSet) /\ Len(sets \o Save) = Len(sets) + Len(Save)
        /\ \A i \in 1..Len(sets) : (sets \o Save)[i] = sets[i]
        /\ \A i \in 1..Len(Save) : (sets \o Save)[Len(sets) + i] = Save[i]
    BY <2>1, Joined
  <2>3. Len(Save) = 1
    BY <1>3, OneCall
  <2> QED
    BY <1>2, <2>1, <2>2, <2>3
<1>5. TailSize \in Nat /\ TailSize >= 1
  BY <1>1, TailFits, IntervalAssumption DEF TailSize
<1>6. ASSUME NEW i \in 1..operations
      PROVE  script[i].call # "get" /\ IsPlanned(i, script[i])
  <2>1. i # operations + 1 /\ i # operations + TailSize + 2 /\ i <= operations
    BY <1>1, <1>5
  <2> QED
    BY <1>3, <1>4, <2>1 DEF IsPlanned, KeyAt
<1>7. script[operations + 1].call # "get" /\ IsPlanned(operations + 1, script[operations + 1])
  BY <1>4, OneCall DEF IsPlanned
<1>8. ASSUME NEW i \in DOMAIN script
      PROVE  i \in 1..operations \/ i = operations + 1
  BY <1>1, <1>4
<1> QED
  BY <1>4, <1>6, <1>7, <1>8 DEF Planned

LEMMA RecoveryScript ==
  ASSUME operations \in 1..SizeMax, script \in RunRecoveryBenchmark(operations),
         benchmark = "recovery"
  PROVE  /\ script \in Seq(CallSet) /\ Len(script) = Planned
         /\ \A i \in DOMAIN script : script[i].call # "get" /\ IsPlanned(i, script[i])
<1> DEFINE n == operations
           t == TailSize
           sets == Calls("set", MakeKeys("key", n), FALSE)
           tail == Calls("set", MakeKeys("tail", t), FALSE)
<1>1. n \in Nat /\ n <= SizeMax /\ n >= 1
  BY WidthAssumption
<1>2. t \in Nat /\ t >= 1 /\ t <= SizeMax
  BY <1>1, TailFits, IntervalAssumption, WidthAssumption DEF TailSize
<1>3. script = ((sets \o Save) \o tail) \o Reopen
  BY DEF RunRecoveryBenchmark, PreloadStore, TailSize
<1> HIDE DEF t, n
<1>4. /\ sets \in Seq(CallSet) /\ Len(sets) = n
      /\ \A i \in 1..n : sets[i].call = "set" /\ sets[i].key = <<"key", i - 1>>
  BY <1>1, KeyCalls
<1>5. /\ tail \in Seq(CallSet) /\ Len(tail) = t
      /\ \A i \in 1..t : tail[i].call = "set" /\ tail[i].key = <<"tail", i - 1>>
  BY <1>2, KeyCalls
<1> HIDE DEF sets, tail
<1> DEFINE first == sets \o Save
           second == first \o tail
<1>6. /\ first \in Seq(CallSet) /\ Len(first) = n + 1
      /\ \A i \in 1..n : first[i] = sets[i]
      /\ first[n + 1] = Save[1]
  <2>1. sets \in Seq(CallSet) /\ Save \in Seq(CallSet) /\ Len(sets) = n
    BY <1>4, OneCall
  <2>2. /\ sets \o Save \in Seq(CallSet) /\ Len(sets \o Save) = Len(sets) + Len(Save)
        /\ \A i \in 1..Len(sets) : (sets \o Save)[i] = sets[i]
        /\ \A i \in 1..Len(Save) : (sets \o Save)[Len(sets) + i] = Save[i]
    BY <2>1, Joined
  <2>3. Len(Save) = 1
    BY <1>4, OneCall
  <2> QED
    BY <2>1, <2>2, <2>3
<1> HIDE DEF first
<1>7. /\ second \in Seq(CallSet) /\ Len(second) = n + 1 + t
      /\ \A i \in 1..(n + 1) : second[i] = first[i]
      /\ \A i \in 1..t : second[n + 1 + i] = tail[i]
  <2>1. first \in Seq(CallSet) /\ tail \in Seq(CallSet) /\ Len(first) = n + 1
    BY <1>5, <1>6
  <2>2. /\ first \o tail \in Seq(CallSet) /\ Len(first \o tail) = Len(first) + Len(tail)
        /\ \A i \in 1..Len(first) : (first \o tail)[i] = first[i]
        /\ \A i \in 1..Len(tail) : (first \o tail)[Len(first) + i] = tail[i]
    BY <2>1, Joined
  <2>3. Len(tail) = t
    BY <1>5, <1>6
  <2> QED
    BY <2>1, <2>2, <2>3
<1>8. script = second \o Reopen
  BY <1>3 DEF first
<1> HIDE DEF second
<1>9. /\ script \in Seq(CallSet) /\ Len(script) = n + 1 + t + 1
      /\ \A i \in 1..(n + 1 + t) : script[i] = second[i]
      /\ script[n + 1 + t + 1] = Reopen[1]
  <2>1. second \in Seq(CallSet) /\ Reopen \in Seq(CallSet) /\ Len(second) = n + 1 + t
    BY <1>7, OneCall
  <2>2. /\ second \o Reopen \in Seq(CallSet) /\ Len(second \o Reopen) = Len(second) + Len(Reopen)
        /\ \A i \in 1..Len(second) : (second \o Reopen)[i] = second[i]
        /\ \A i \in 1..Len(Reopen) : (second \o Reopen)[Len(second) + i] = Reopen[i]
    BY <2>1, Joined
  <2>3. Len(Reopen) = 1
    BY <1>7, OneCall
  <2> QED
    BY <1>8, <2>1, <2>2, <2>3
<1>10. n = operations /\ t = TailSize
  BY DEF n, t
<1>11. ASSUME NEW i \in 1..n
       PROVE  script[i].call # "get" /\ IsPlanned(i, script[i])
  <2>1. i # n + 1 /\ i # n + t + 2 /\ i <= n /\ i \in 1..(n + 1) /\ i \in 1..(n + 1 + t)
    BY <1>1, <1>2
  <2>2. script[i].call = "set" /\ script[i].key = <<"key", i - 1>>
    BY <1>4, <1>6, <1>7, <1>9, <2>1
  <2> QED
    BY <1>10, <2>1, <2>2 DEF IsPlanned, KeyAt
<1>12. script[n + 1].call # "get" /\ IsPlanned(n + 1, script[n + 1])
  <2>1. n + 1 \in 1..(n + 1) /\ n + 1 \in 1..(n + 1 + t)
    BY <1>1, <1>2
  <2> QED
    BY <1>6, <1>7, <1>9, <1>10, <2>1, OneCall DEF IsPlanned
<1>13. ASSUME NEW i \in 1..t
       PROVE  script[n + 1 + i].call # "get" /\ IsPlanned(n + 1 + i, script[n + 1 + i])
  <2>1. /\ n + 1 + i # n + 1 /\ n + 1 + i # n + t + 2 /\ ~(n + 1 + i <= n)
        /\ n + 1 + i \in 1..(n + 1 + t) /\ ~((n + 1 + i) - 1 <= n)
        /\ (n + 1 + i) - 1 - n - 1 = i - 1
    BY <1>1, <1>2
  <2>2. script[n + 1 + i].call = "set" /\ script[n + 1 + i].key = <<"tail", i - 1>>
    BY <1>5, <1>7, <1>9, <2>1
  <2>3. KeyAt((n + 1 + i) - 1) = <<"tail", i - 1>>
    BY <1>10, <2>1 DEF KeyAt
  <2> QED
    BY <1>10, <2>1, <2>2, <2>3 DEF IsPlanned
<1>14. /\ script[n + 1 + t + 1].call # "get"
       /\ IsPlanned(n + 1 + t + 1, script[n + 1 + t + 1])
  <2>1. n + 1 + t + 1 # n + 1 /\ n + 1 + t + 1 = n + t + 2
    BY <1>1, <1>2
  <2> QED
    BY <1>9, <1>10, <2>1, OneCall DEF IsPlanned
<1>15. ASSUME NEW i \in DOMAIN script
       PROVE  script[i].call # "get" /\ IsPlanned(i, script[i])
  <2>0. i \in 1..(n + 1 + t + 1)
    BY <1>9
  <2>1. \/ i \in 1..n \/ i = n + 1 \/ i = n + 1 + t + 1
        \/ i - n - 1 \in 1..t /\ i = n + 1 + (i - n - 1)
    BY <1>1, <1>2, <2>0
  <2>2. ASSUME i - n - 1 \in 1..t, i = n + 1 + (i - n - 1)
        PROVE  script[i].call # "get" /\ IsPlanned(i, script[i])
    <3> DEFINE j == i - n - 1
    <3>1. j \in 1..t /\ i = n + 1 + j
      BY <2>2
    <3> HIDE DEF j
    <3> QED
      BY <1>13, <3>1
  <2> QED
    BY <1>11, <1>12, <1>14, <2>1, <2>2
<1>16. Len(script) = Planned
  BY <1>1, <1>2, <1>9, <1>10 DEF Planned
<1> QED
  BY <1>9, <1>15, <1>16

\* Behind a preload of n keys, calls with one of those keys find it.
LEMMA Preloaded ==
  ASSUME NEW n \in Nat, n <= SizeMax, NEW plan \in Seq(CallSet),
         \A i \in DOMAIN plan : \E m \in 0..(n - 1) : plan[i].key = <<"key", m>>,
         script = PreloadStore(MakeKeys("key", n)) \o plan
  PROVE  /\ script \in Seq(CallSet)
         /\ \A i \in DOMAIN script : script[i].call = "get" =>
              \E j \in 1..(i - 1) :
                script[j].call = "set" /\ script[j].key = script[i].key
<1> DEFINE sets == Calls("set", MakeKeys("key", n), FALSE)
<1>1. script = sets \o plan
  BY DEF PreloadStore
<1>2. /\ sets \in Seq(CallSet) /\ Len(sets) = n
      /\ \A i \in 1..n : sets[i].call = "set" /\ sets[i].key = <<"key", i - 1>>
  BY KeyCalls
<1> HIDE DEF sets
<1>3. /\ sets \o plan \in Seq(CallSet) /\ Len(sets \o plan) = n + Len(plan)
      /\ \A i \in 1..n : (sets \o plan)[i] = sets[i]
      /\ \A i \in 1..Len(plan) : (sets \o plan)[n + i] = plan[i]
  BY <1>2, Joined
<1>4. ASSUME NEW i \in DOMAIN script, script[i].call = "get"
      PROVE  \E j \in 1..(i - 1) : script[j].call = "set" /\ script[j].key = script[i].key
  <2>1. i \in 1..(n + Len(plan)) /\ Len(plan) \in Nat
    BY <1>1, <1>3
  <2>2. i \notin 1..n
    BY <1>1, <1>2, <1>3, <1>4
  <2> DEFINE p == i - n
  <2>3. p \in 1..Len(plan) /\ n + p = i
    BY <2>1, <2>2
  <2> HIDE DEF p
  <2>4. script[i] = plan[p]
    BY <1>1, <1>3, <2>3
  <2>5. PICK m \in 0..(n - 1) : plan[p].key = <<"key", m>>
    BY <2>3
  <2>6. m + 1 \in 1..n /\ m + 1 \in 1..(i - 1) /\ (m + 1) - 1 = m
    BY <2>1, <2>2
  <2>7. script[m + 1].call = "set" /\ script[m + 1].key = <<"key", m>>
    <3>1. script[m + 1] = sets[m + 1]
      BY <1>1, <1>3, <2>6
    <3> QED
      BY <1>2, <2>6, <3>1
  <2> QED
    BY <2>4, <2>5, <2>6, <2>7
<1> QED
  BY <1>1, <1>3, <1>4

LEMMA ReadScript ==
  ASSUME operations \in 1..SizeMax, script \in RunReadBenchmark(operations)
  PROVE  /\ script \in Seq(CallSet)
         /\ \A i \in DOMAIN script : script[i].call = "get" =>
              \E j \in 1..(i - 1) :
                script[j].call = "set" /\ script[j].key = script[i].key
<1>1. operations \in Nat /\ operations <= SizeMax
  BY WidthAssumption
<1> DEFINE gets == Calls("get", MakeKeys("key", operations), TRUE)
<1>2. script = PreloadStore(MakeKeys("key", operations)) \o gets
  BY DEF RunReadBenchmark
<1>3. /\ gets \in Seq(CallSet) /\ Len(gets) = operations
      /\ \A i \in 1..operations : gets[i].key = <<"key", i - 1>>
  BY <1>1, KeyCalls
<1> HIDE DEF gets
<1>4. \A i \in DOMAIN gets : \E m \in 0..(operations - 1) : gets[i].key = <<"key", m>>
  <2> TAKE i \in DOMAIN gets
  <2>1. i \in 1..operations /\ i - 1 \in 0..(operations - 1)
    BY <1>1, <1>3
  <2> QED
    BY <1>3, <2>1
<1> QED
  BY <1>1, <1>2, <1>3, <1>4, Preloaded

\* The keyspace of the mixed benchmark is not empty, and no larger than the run.
LEMMA KeyspaceFits ==
  ASSUME NEW n \in Nat \ {0}
  PROVE  MixedKeyspaceSize(n) \in 1..n
<1> DEFINE least == IF n <= mixed_keyspace_size THEN n ELSE mixed_keyspace_size
<1>1. least \in Nat /\ least <= n /\ mixed_keyspace_size \in Nat
  BY WorkloadAssumption
<1>2. Min({n, mixed_keyspace_size}) = least
  BY <1>1, MinMaxOfTwo
<1> HIDE DEF least
<1>3. Max({1, least}) = IF 1 >= least THEN 1 ELSE least
  BY <1>1, MinMaxOfTwo
<1> QED
  BY <1>1, <1>2, <1>3 DEF MixedKeyspaceSize

LEMMA MixedScript ==
  ASSUME operations \in 1..SizeMax, script \in RunMixedBenchmark(operations)
  PROVE  /\ script \in Seq(CallSet)
         /\ \A i \in DOMAIN script : script[i].call = "get" =>
              \E j \in 1..(i - 1) :
                script[j].call = "set" /\ script[j].key = script[i].key
<1> DEFINE size == MixedKeyspaceSize(operations)
<1>1. size \in Nat /\ size >= 1 /\ size <= SizeMax /\ operations \in Nat
  <2>1. operations \in Nat \ {0} /\ SizeMax \in Nat
    BY WidthAssumption
  <2>2. size \in 1..operations
    BY <2>1, KeyspaceFits
  <2> QED
    BY <2>1, <2>2
<1>2. PICK plan \in BuildMixedPlan(operations, size) :
        script = PreloadStore(MakeKeys("key", size)) \o plan
  BY DEF RunMixedBenchmark
<1> HIDE DEF size
<1>3. \A i \in 0..(size - 1) : <<"key", i>> \in Key
  <2>1. \A i \in 0..(size - 1) : i \in 0..(SizeMax - 1)
    BY <1>1, WidthAssumption
  <2> QED
    BY <2>1, KeysAssumption
<1> DEFINE MixedCalls == {[call |-> call, key |-> <<"key", i>>, timed |-> TRUE] :
                         call \in {"get", "set"}, i \in 0..(size - 1)}
<1>4. plan \in [1..operations -> MixedCalls]
  BY <1>2 DEF BuildMixedPlan
<1>5. \A c \in MixedCalls : c \in CallSet /\ \E m \in 0..(size - 1) : c.key = <<"key", m>>
  <2> TAKE c \in MixedCalls
  <2>1. PICK call \in {"get", "set"}, m \in 0..(size - 1) :
          c = [call |-> call, key |-> <<"key", m>>, timed |-> TRUE]
    OBVIOUS
  <2> DEFINE key == <<"key", m>>
             timed == TRUE
  <2>2. /\ key \in Key /\ timed \in BOOLEAN /\ call \in {"set", "get"}
        /\ c = [call |-> call, key |-> key, timed |-> timed]
    BY <1>3, <2>1
  <2> HIDE DEF key, timed
  <2>3. [call |-> call, key |-> key, timed |-> timed] \in CallSet
    BY <2>2, KeyCall
  <2>4. c \in CallSet /\ c.key = key
    BY <2>2, <2>3
  <2> QED
    BY <2>4 DEF key
<1> HIDE DEF MixedCalls
<1>6. plan \in Seq(CallSet) /\ DOMAIN plan = 1..operations
  <2>1. plan \in [1..operations -> CallSet]
    BY <1>4, <1>5
  <2> QED
    BY <1>1, <2>1
<1>7. \A i \in DOMAIN plan : \E m \in 0..(size - 1) : plan[i].key = <<"key", m>>
  BY <1>4, <1>5, <1>6
<1> QED
  BY <1>1, <1>2, <1>6, <1>7, Preloaded

----------------------------------------------------------------------------
\* A benchmark begins with a new store and its script.
WellBegun ==
  /\ script \in Seq(CallSet) /\ Started /\ ~Threw /\ Frozen
  /\ Sound /\ GetsHit
  /\ Counting => Logged /\ Counted /\ Saved /\ Recovering

LEMMA BegunCounting ==
  ASSUME Begun, Counting, Healthy, script \in Seq(CallSet), Len(script) = Planned,
         \A i \in DOMAIN script : IsPlanned(i, script[i])
  PROVE  Logged /\ Counted /\ Saved /\ Recovering
<1>1. Counts
  BY DEF Begun, Counts
<1>2. /\ operations \in Nat /\ operations >= 1 /\ TailSize \in Nat /\ TailSize >= 1
      /\ Planned \in Nat /\ kSnapshotInterval \in Nat /\ kSnapshotInterval >= 1
      /\ Made = Planned - Len(script)
  BY <1>1, Numbers
<1>3. Made = 0 /\ ~Reopened
  BY <1>2 DEF Reopened
<1>4. /\ wal = <<>> /\ snap = None /\ durable = EmptyMap /\ writes = 0 /\ pc = "down"
  BY DEF Begun, Init
<1>5. {k \in Key : durable[k] # NoValue} = {KeyAt(i) : i \in 1..Len(wal)}
  BY <1>4 DEF EmptyMap
<1>6. Logged
  <2>1. \A i \in DOMAIN script : IsPlanned(Made + i, script[i])
    <3> TAKE i \in DOMAIN script
    <3>1. i \in 1..Len(script) /\ Made + i = i
      BY <1>3
    <3> QED
      BY <3>1
  <2>2. Len(wal) = 0 /\ Made \in 0..Planned /\ ~(Made > operations)
    BY <1>2, <1>3, <1>4
  <2>3. Len(wal) = Made - (IF pc = "appending" THEN 1 ELSE 0)
                        - (IF Made > operations THEN 1 ELSE 0) - (IF Reopened THEN 1 ELSE 0)
    <3> DEFINE a == IF pc = "appending" THEN 1 ELSE 0
               b == IF Made > operations THEN 1 ELSE 0
               c == IF Reopened THEN 1 ELSE 0
    <3>1. a = 0
      BY <1>4
    <3>2. b = 0
      BY <2>2, Zenon
    <3>3. c = 0
      BY <1>3, Zenon
    <3> HIDE DEF a, b, c
    <3>4. Len(wal) = Made - a - b - c
      BY <1>3, <2>2, <3>1, <3>2, <3>3
    <3> QED
      BY <3>4 DEF a, b, c
  <2>4. pc \notin {"appending", "applying"}
    BY <1>4
  <2> QED
    BY <1>5, <2>1, <2>2, <2>3, <2>4 DEF Logged
<1>7. Counted
  <2>1. SnapOffset = 0 /\ Len(wal) = 0 /\ 0 % kSnapshotInterval = 0
    BY <1>2, <1>4 DEF SnapOffset
  <2> QED
    BY <1>2, <1>3, <1>4, <2>1 DEF Counted
<1>8. Saved
  BY <1>2, <1>3 DEF Saved
<1>9. Recovering
  BY <1>3 DEF Recovering
<1> QED
  BY <1>6, <1>7, <1>8, <1>9

LEMMA BegunWell == Begun => WellBegun
<1> SUFFICES ASSUME Begun PROVE WellBegun
  OBVIOUS
<1>1. Sound /\ ~Threw
  BY DEF Begun, Init, Sound, Opening, Threw
<1>2. Healthy
  BY <1>1, InitStore DEF Begun, Healthy
<1>3. Started /\ Frozen
  BY DEF Begun, Started, Frozen
<1>4. /\ benchmark = "write" => script \in RunWriteBenchmark(operations)
      /\ benchmark = "read" => script \in RunReadBenchmark(operations)
      /\ benchmark = "mixed" => script \in RunMixedBenchmark(operations)
      /\ benchmark = "recovery" => script \in RunRecoveryBenchmark(operations)
      /\ benchmark = "snapshot" => script \in RunSnapshotBenchmark(operations)
  BY DEF Begun, Scripts
<1>5. ASSUME Counting
      PROVE  /\ script \in Seq(CallSet) /\ Len(script) = Planned
             /\ \A i \in DOMAIN script : script[i].call # "get" /\ IsPlanned(i, script[i])
  <2>1. operations \in 1..SizeMax /\ benchmark \in {"write", "snapshot", "recovery"}
    BY <1>5 DEF Begun, Counting
  <2>2. CASE benchmark = "write"
    BY <1>4, <2>1, <2>2, WriteScript
  <2>3. CASE benchmark = "snapshot"
    BY <1>4, <2>1, <2>3, SnapshotScript
  <2>4. CASE benchmark = "recovery"
    BY <1>4, <2>1, <2>4, RecoveryScript
  <2> QED
    BY <2>1, <2>2, <2>3, <2>4
<1>6. CASE Counting
  BY <1>1, <1>2, <1>3, <1>5, <1>6, BegunCounting DEF WellBegun, GetsHit
<1>7. CASE ~Counting
  <2>1. operations \in 1..SizeMax /\ benchmark \in {"read", "mixed"}
    BY <1>7 DEF Begun, Counting
  <2>2. script \in Seq(CallSet) /\ GetsHit
    <3>1. CASE benchmark = "read"
      BY <1>4, <2>1, <3>1, ReadScript DEF GetsHit
    <3>2. CASE benchmark = "mixed"
      BY <1>4, <2>1, <3>2, MixedScript DEF GetsHit
    <3> QED
      BY <2>1, <3>1, <3>2
  <2> QED
    BY <1>1, <1>3, <1>7, <2>2 DEF WellBegun
<1> QED
  BY <1>6, <1>7

----------------------------------------------------------------------------
\* The program's argument.  That < is well founded on Nat says that every set of
\* natural numbers has a least element.
LEMMA LeastNatural ==
  ASSUME NEW S \in SUBSET Nat, S # {}
  PROVE  \E m \in S : \A n \in S : m <= n
<1>1. \E m \in S : \A n \in S : <<n, m>> \notin OpToRel(<, Nat)
  BY NatLessThanWellFounded, WFMin
<1>2. \A n, m \in Nat : n < m => <<n, m>> \in OpToRel(<, Nat)
  BY DEF OpToRel
<1>3. \A n, m \in Nat : m <= n \/ n < m
  OBVIOUS
<1> QED
  BY <1>1, <1>2, <1>3

LEMMA SetInduction ==
  ASSUME NEW S, 0 \in S, \A n \in Nat : n \in S => n + 1 \in S
  PROVE  \A n \in Nat : n \in S
<1> SUFFICES ASSUME Nat \ S # {} PROVE FALSE
  OBVIOUS
<1>1. PICK m \in Nat \ S : \A n \in Nat \ S : m <= n
  BY LeastNatural
<1>2. m # 0
  BY <1>1
<1>3. m - 1 \in Nat /\ m - 1 \in S
  BY <1>1, <1>2
<1> QED
  BY <1>1, <1>3

LEMMA DigitIsNatural == \A c \in DOMAIN Digit : Digit[c] \in 0..9
<1> DEFINE names == <<"0", "1", "2", "3", "4", "5", "6", "7", "8", "9">>
           chars == {"0", "1", "2", "3", "4", "5", "6", "7", "8", "9"}
<1>1. ASSUME NEW c \in chars
      PROVE  \E d \in 0..9 : names[d + 1] = c
  <2>1. /\ names[0 + 1] = "0" /\ names[1 + 1] = "1" /\ names[2 + 1] = "2"
        /\ names[3 + 1] = "3" /\ names[4 + 1] = "4" /\ names[5 + 1] = "5"
        /\ names[6 + 1] = "6" /\ names[7 + 1] = "7" /\ names[8 + 1] = "8"
        /\ names[9 + 1] = "9"
    OBVIOUS
  <2> HIDE DEF names
  <2>2. \A n \in 0..9 : names[n + 1] = c => \E d \in 0..9 : names[d + 1] = c
    OBVIOUS
  <2>3. \E n \in 0..9 : names[n + 1] = c
    BY <2>1
  <2> QED
    BY <2>3
<1> HIDE DEF names
<1>2. Digit = [c \in chars |-> CHOOSE d \in 0..9 : names[d + 1] = c]
  BY DEF Digit, names
<1> QED
  BY <1>1, <1>2

\* The recursive function of Decimal, up to a position.
IsUpTo(f, digits, w) ==
  f = [i \in 0..w |-> IF i = 0 THEN 0 ELSE 10 * f[i - 1] + Digit[digits[i]]]

LEMMA UpToExists ==
  ASSUME NEW digits, NEW w \in Nat
  PROVE  \E f : IsUpTo(f, digits, w)
<1> DEFINE S == {k \in Nat : \E f : IsUpTo(f, digits, k)}
<1>1. 0 \in S
  <2>1. IsUpTo([i \in 0..0 |-> 0], digits, 0)
    BY DEF IsUpTo
  <2> QED
    BY <2>1
<1>2. ASSUME NEW k \in Nat, k \in S
      PROVE  k + 1 \in S
  <2>1. PICK f : IsUpTo(f, digits, k)
    BY <1>2
  <2> DEFINE g == [i \in 0..(k + 1) |->
                     IF i = k + 1 THEN 10 * f[k] + Digit[digits[k + 1]] ELSE f[i]]
  <2>2. ASSUME NEW i \in 0..(k + 1)
        PROVE  g[i] = IF i = 0 THEN 0 ELSE 10 * g[i - 1] + Digit[digits[i]]
    <3>1. CASE i = k + 1
      <4>1. g[i] = 10 * f[k] + Digit[digits[k + 1]] /\ g[i - 1] = f[k] /\ i # 0
        BY <3>1
      <4> HIDE DEF g
      <4> QED
        BY <3>1, <4>1
    <3>2. CASE i \in 0..k
      <4>1. g[i] = f[i] /\ (i # 0 => g[i - 1] = f[i - 1])
        BY <3>2
      <4> HIDE DEF g
      <4> QED
        BY <2>1, <3>2, <4>1 DEF IsUpTo
    <3> QED
      BY <3>1, <3>2
  <2>3. IsUpTo(g, digits, k + 1)
    BY <2>2 DEF IsUpTo
  <2> HIDE DEF g
  <2> QED
    BY <2>3
<1> HIDE DEF S
<1>3. \A k \in Nat : k \in S
  BY <1>1, <1>2, SetInduction
<1> QED
  BY <1>3 DEF S

\* A sequence of digits is a number.
LEMMA DecimalIsNatural ==
  ASSUME NEW digits \in Seq(DOMAIN Digit)
  PROVE  Decimal(digits) \in Nat
<1> DEFINE w == Len(digits)
           f == CHOOSE upTo : IsUpTo(upTo, digits, w)
<1>1. w \in Nat /\ \A i \in 1..w : digits[i] \in DOMAIN Digit
  OBVIOUS
<1>2. IsUpTo(f, digits, w)
  BY <1>1, UpToExists
<1>3. Decimal(digits) = f[w]
  BY DEF Decimal, IsUpTo
<1> HIDE DEF w, f
<1> DEFINE S == {j \in Nat : j <= w => f[j] \in Nat}
<1>4. 0 \in S
  <2>1. f[0] = 0
    BY <1>1, <1>2 DEF IsUpTo
  <2> QED
    BY <2>1
<1>5. ASSUME NEW j \in Nat, j \in S
      PROVE  j + 1 \in S
  <2> SUFFICES ASSUME j + 1 <= w PROVE f[j + 1] \in Nat
    OBVIOUS
  <2>1. j + 1 \in 0..w /\ j + 1 \in 1..w /\ j + 1 # 0 /\ (j + 1) - 1 = j
    BY <1>1
  <2>2. f[j + 1] = 10 * f[j] + Digit[digits[j + 1]]
    BY <1>2, <2>1 DEF IsUpTo
  <2>3. Digit[digits[j + 1]] \in Nat /\ f[j] \in Nat
    <3>1. Digit[digits[j + 1]] \in 0..9
      BY <1>1, <2>1, DigitIsNatural
    <3> QED
      BY <1>1, <1>5, <3>1
  <2> QED
    BY <2>2, <2>3
<1> HIDE DEF S
<1>6. w \in S
  BY <1>1, <1>4, <1>5, SetInduction
<1> QED
  BY <1>1, <1>3, <1>6 DEF S

\* Where stoull's scans end.
LEMMA ScanEnds ==
  ASSUME NEW input \in Seq(Characters), NEW i \in 1..(Len(input) + 1), NEW chars
  PROVE  \E j \in i..(Len(input) + 1) :
           /\ \A m \in i..(j - 1) : input[m] \in chars
           /\ j > Len(input) \/ input[j] \notin chars
<1> DEFINE S == {j \in i..(Len(input) + 1) : j > Len(input) \/ input[j] \notin chars}
<1>1. Len(input) \in Nat
  OBVIOUS
<1>2. Len(input) + 1 \in S /\ S \in SUBSET Nat
  BY <1>1
<1>3. PICK j \in S : \A m \in S : j <= m
  BY <1>2, LeastNatural
<1>4. ASSUME NEW m \in i..(j - 1)
      PROVE  input[m] \in chars
  <2>1. m \notin S /\ m \in i..(Len(input) + 1)
    BY <1>1, <1>3, <1>4
  <2> QED
    BY <1>1, <2>1
<1> QED
  BY <1>3, <1>4

LEMMA Negated ==
  ASSUME NEW m \in Nat, NEW u \in Nat, m <= u
  PROVE  /\ (-m) % (u + 1) \in Nat
         /\ (-m) % (u + 1) # 0 => (-m) % (u + 1) = u + 1 - m
  OBVIOUS

LEMMA SignsAreNoDigits == "-" \notin DOMAIN Digit
BY DEF Digit

\* What stoull takes before the digits.
Signs == {"+", "-"}
Blanks(input, n) == \A j \in 1..n : input[j] = " "
SignAt(input, sign, i) == i > 1 /\ input[i - 1] = sign /\ Blanks(input, i - 2)

\* What ParseOperations accepts, and stoull behind a minus sign at the start.
IsNumber(input, number) ==
  \E i \in 1..Len(input) :
    LET digits == SubSeq(input, i, Len(input))
    IN  /\ \A j \in 1..Len(digits) : digits[j] \in DOMAIN Digit
        /\ \/ (Blanks(input, i - 1) \/ SignAt(input, "+", i)) /\ number = Decimal(digits)
           \/ SignAt(input, "-", i) /\ number = UllMax + 1 - Decimal(digits)

LEMMA StoullReads ==
  ASSUME NEW input \in Seq(Characters)
  PROVE  /\ stoull(input).value \in Nat
         /\ stoull(input).value # 0 /\ stoull(input).parsed = Len(input) =>
              IsNumber(input, stoull(input).value)
<1> DEFINE From(i, chars) ==
             CHOOSE j \in i..(Len(input) + 1) :
               /\ \A m \in i..(j - 1) : input[m] \in chars
               /\ j > Len(input) \/ input[j] \notin chars
           sign == From(1, {" "})
           first == IF sign <= Len(input) /\ input[sign] \in Signs
                    THEN sign + 1 ELSE sign
           end == From(first, DOMAIN Digit)
           digits == SubSeq(input, first, end - 1)
           magnitude == Decimal(digits)
           value == IF input[sign] = "-" THEN (-magnitude) % (UllMax + 1) ELSE magnitude
           size == Len(input)
<1>1. stoull(input) =
        IF end = first \/ magnitude > UllMax THEN [value |-> 0, parsed |-> 0]
        ELSE [value |-> value, parsed |-> end - 1]
  BY DEF stoull, Signs
<1>2. size \in Nat /\ UllMax \in Nat
  BY WidthAssumption
<1>3. \A i \in 1..(size + 1) : \A chars :
        /\ From(i, chars) \in i..(size + 1)
        /\ \A m \in i..(From(i, chars) - 1) : input[m] \in chars
  BY ScanEnds
<1>4. size = Len(input)
  OBVIOUS
<1> HIDE DEF From, size
<1>5. sign \in 1..(size + 1) /\ Blanks(input, sign - 1)
  <2>1. 1 \in 1..(size + 1)
    BY <1>2
  <2> QED
    BY <1>3, <2>1 DEF Blanks
<1> HIDE DEF sign
<1>6. \/ first = sign
      \/ first = sign + 1 /\ sign <= size /\ input[sign] \in Signs
  BY <1>4
<1> HIDE DEF first
<1>7. first \in 1..(size + 1)
  BY <1>2, <1>5, <1>6
<1>8. /\ end \in first..(size + 1)
      /\ \A m \in first..(end - 1) : input[m] \in DOMAIN Digit
  BY <1>3, <1>7
<1> HIDE DEF end
<1>9. first \in Nat /\ end \in Nat /\ first >= 1 /\ first <= end /\ end <= size + 1
  BY <1>2, <1>7, <1>8
<1>10. digits \in Seq(DOMAIN Digit) /\ Len(digits) = end - first
  <2>1. \A i \in 1..(end - first) : digits[i] = input[first + i - 1]
    BY <1>2, <1>4, <1>9
  <2>2. ASSUME NEW i \in 1..(end - first)
        PROVE  input[first + i - 1] \in DOMAIN Digit
    <3>1. first + i - 1 \in first..(end - 1)
      BY <1>9
    <3> QED
      BY <1>8, <3>1
  <2>3. digits \in Seq(Characters) /\ Len(digits) = end - first
    BY <1>2, <1>4, <1>9
  <2> HIDE DEF digits
  <2>4. digits \in [1..(end - first) -> DOMAIN Digit]
    BY <2>1, <2>2, <2>3
  <2>5. end - first \in Nat
    BY <1>9
  <2> QED
    BY <2>3, <2>4, <2>5
<1>11. magnitude \in Nat
  BY <1>10, DecimalIsNatural
<1> HIDE DEF digits
<1>12. CASE end = first \/ magnitude > UllMax
  BY <1>1, <1>12
<1>13. CASE ~(end = first \/ magnitude > UllMax)
  <2>1. stoull(input).value = value /\ stoull(input).parsed = end - 1
    BY <1>1, <1>13
  <2>2. /\ value \in Nat
        /\ input[sign] = "-" /\ value # 0 => value = UllMax + 1 - magnitude
        /\ input[sign] # "-" => value = magnitude
    <3>1. magnitude <= UllMax
      BY <1>2, <1>11, <1>13
    <3> HIDE DEF magnitude
    <3> QED
      BY <1>2, <1>11, <3>1, Negated
  <2> HIDE DEF value
  <2>3. ASSUME value # 0, end - 1 = Len(input)
        PROVE  IsNumber(input, value)
    <3>1. first \in 1..Len(input) /\ input[first] \in DOMAIN Digit
      <4>1. first \in first..(end - 1)
        BY <1>9, <1>13
      <4> QED
        BY <1>4, <1>8, <1>9, <1>13, <2>3
    <3>2. digits = SubSeq(input, first, Len(input))
      BY <2>3 DEF digits
    <3>3. \A j \in 1..Len(digits) : digits[j] \in DOMAIN Digit
      BY <1>10
    <3>4. \/ (Blanks(input, first - 1) \/ SignAt(input, "+", first)) /\ value = magnitude
          \/ SignAt(input, "-", first) /\ value = UllMax + 1 - magnitude
      <4>1. CASE first = sign
        <5>1. input[sign] # "-"
          BY <3>1, <4>1, SignsAreNoDigits
        <5> QED
          BY <1>5, <2>2, <4>1, <5>1
      <4>2. CASE first = sign + 1 /\ input[sign] \in Signs
        <5>1. first > 1 /\ first - 1 = sign /\ first - 2 = sign - 1
          BY <1>2, <1>5, <4>2
        <5>2. input[first - 1] = input[sign] /\ Blanks(input, first - 2)
          BY <1>5, <5>1
        <5>3. CASE input[sign] = "-"
          BY <2>2, <2>3, <5>1, <5>2, <5>3 DEF SignAt
        <5>4. CASE input[sign] = "+"
          BY <2>2, <5>1, <5>2, <5>4 DEF SignAt
        <5> QED
          BY <4>2, <5>3, <5>4 DEF Signs
      <4> QED
        BY <1>6, <4>1, <4>2
    <3>5. magnitude = Decimal(SubSeq(input, first, Len(input)))
      BY <3>2
    <3> HIDE DEF magnitude
    <3> QED
      BY <3>1, <3>2, <3>3, <3>4, <3>5 DEF IsNumber
  <2> QED
    BY <2>1, <2>2, <2>3
<1> QED
  BY <1>12, <1>13

\* The number of operations that the program runs with.
LEMMA OperationsFit ==
  ASSUME argument \in Seq(Characters)
  PROVE  /\ ParseOperations(<<>>) \in 1..SizeMax
         /\ ParseOperations(<<argument>>) \in 0..SizeMax
         /\ ParseOperations(<<argument>>) # Rejected =>
              /\ argument[1] # "-"
              /\ IsNumber(argument, ParseOperations(<<argument>>))
<1>1. ParseOperations(<<>>) \in 1..SizeMax
  BY DefaultAssumption DEF ParseOperations
<1> DEFINE number == stoull(argument)
<1>2. /\ number.value \in Nat
      /\ number.value # 0 /\ number.parsed = Len(argument) => IsNumber(argument, number.value)
  BY StoullReads
<1>3. <<argument>> # <<>> /\ <<argument>>[1] = argument /\ Len(<<argument>>) = 1
  OBVIOUS
<1>4. ParseOperations(<<argument>>) =
        IF /\ argument # <<>> /\ argument[1] # "-"
           /\ number.parsed = Len(argument) /\ number.value # 0
           /\ number.value <= SizeMax
        THEN number.value ELSE Rejected
  BY <1>3 DEF ParseOperations
<1> HIDE DEF number
<1>5. SizeMax \in Nat
  BY WidthAssumption
<1> QED
  BY <1>1, <1>2, <1>4, <1>5 DEF Rejected

----------------------------------------------------------------------------
\* The invariant.
Measured == Counting => Logged /\ Counted /\ Saved /\ Recovering

LEMMA InvIsHealthy ==
  ASSUME WorkloadInv, StoreInv, Started, ~Threw, Readable
  PROVE  /\ Healthy /\ GetsHit /\ Measured
         /\ script \in Seq(CallSet) /\ operations \in 1..SizeMax
         /\ Counting => Counts
<1>1. /\ Sound /\ GetsHit /\ Measured /\ script \in Seq(CallSet)
      /\ operations \in 0..SizeMax /\ operations # Rejected
  BY DEF WorkloadInv, Measured
<1>2. operations \in 1..SizeMax
  BY <1>1, WidthAssumption DEF Rejected
<1> QED
  BY <1>1, <1>2 DEF Healthy, Counts

LEMMA Unmoved ==
  ASSUME UNCHANGED <<vars, benchmark, operations, script, replayed>>
  PROVE  /\ Threw' <=> Threw
         /\ Started' <=> Started
         /\ RecoveryReport' = RecoveryReport /\ Size' = Size
         /\ Sound' <=> Sound
         /\ GetsHit' <=> GetsHit
         /\ Measured' <=> Measured
         /\ Init' <=> Init
<1> USE DEF vars
<1>1. /\ Threw' <=> Threw
      /\ Started' <=> Started
      /\ Size' = Size
  BY DEF Threw, Started, Size, Entries
<1>2. RecoveryReport' = RecoveryReport
  BY <1>1 DEF RecoveryReport, SnapMap, Entries
<1>3. Opening' <=> Opening
  BY DEF Opening
<1>4. Sound' <=> Sound
  BY <1>3 DEF Sound
<1>5. GetsHit' <=> GetsHit
  BY DEF GetsHit
<1>6. Init' <=> Init
  BY DEF Init
<1>7. /\ Made' = Made /\ (Reopened' <=> Reopened) /\ Planned' = Planned
      /\ TailSize' = TailSize /\ SnapOffset' = SnapOffset
      /\ \A i : KeyAt(i)' = KeyAt(i)
      /\ \A i, call : IsPlanned(i, call)' <=> IsPlanned(i, call)
      /\ Counting' <=> Counting
  BY SamePlan, SameCalls DEF SnapOffset
<1>8. Logged' <=> Logged
  BY <1>7 DEF Logged
<1>9. Counted' <=> Counted
  BY <1>3, <1>7 DEF Counted
<1>10. Saved' <=> Saved
  BY <1>3, <1>7 DEF Saved
<1>11. Recovering' <=> Recovering
  BY <1>3, <1>7 DEF Recovering
<1>12. Measured' <=> Measured
  BY <1>7, <1>8, <1>9, <1>10, <1>11 DEF Measured
<1> QED
  BY <1>1, <1>2, <1>4, <1>5, <1>6, <1>12

LEMMA InitWorkload == WorkloadInit => WorkloadInv
<1> SUFFICES ASSUME WorkloadInit PROVE WorkloadInv
  OBVIOUS
<1>1. /\ benchmark = "usage" /\ argument = <<>> /\ operations = Rejected
      /\ script = <<>> /\ report = None /\ Init
  BY DEF WorkloadInit
<1>2. operations \in 0..SizeMax /\ ~Started
  BY <1>1, WidthAssumption DEF Rejected, Started
<1>3. Frozen
  BY <1>1 DEF Frozen
<1>4. argument \in Seq(Characters) /\ script \in Seq(CallSet)
  BY <1>1
<1> QED
  BY <1>1, <1>2, <1>3, <1>4 DEF WorkloadInv

\* A step of the store, or none of it, does not meet a report.
LEMMA WorkIsNotIdle == Work => pc # "idle"
BY DEF Work, Start, Proceed, Recovery, LoadSnapshot, ReplayRecord, ReplayStops,
       ReplayOffFrame, LoadUnread, ReplayUnread, Replaying, AppendRecord,
       AppendFails, AppendRefused, ApplyWrite, CurrentOffsetFails,
       SaveTemp, SaveFails, CommitSnapshot, ClearWal, ClearWalFails,
       ClearSnapshot, ClearTemp, ClearSnapshotFails

BenchmarkNames == {"write", "read", "mixed", "recovery", "snapshot"}

LEMMA NamesAreBenchmarks ==
  /\ Len(Benchmarks) = 5
  /\ {Benchmarks[i] : i \in 1..Len(Benchmarks)} = BenchmarkNames
<1>1. /\ Len(Benchmarks) = 5 /\ Benchmarks[1] = "write" /\ Benchmarks[2] = "read"
      /\ Benchmarks[3] = "mixed" /\ Benchmarks[4] = "recovery" /\ Benchmarks[5] = "snapshot"
  BY DEF Benchmarks
<1>2. 1..5 = {1, 2, 3, 4, 5}
  OBVIOUS
<1>3. {Benchmarks[i] : i \in {1, 2, 3, 4, 5}}
        = {Benchmarks[1], Benchmarks[2], Benchmarks[3], Benchmarks[4], Benchmarks[5]}
  OBVIOUS
<1> QED
  BY <1>1, <1>2, <1>3 DEF BenchmarkNames

LEMMA NextOfWork ==
  ASSUME WorkloadInv, StoreInv, Readable, Work
  PROVE  WorkloadInv'
<1>1. /\ Started /\ ~Threw /\ report = None
      /\ UNCHANGED <<benchmark, argument, operations, script, report>>
  BY WorkIsNotIdle DEF Work, Threw, WorkloadInv, Frozen
<1>2. Started' /\ benchmark' # "failed" /\ benchmark' # "usage"
  BY <1>1 DEF Started
<1>3. Frozen'
  BY <1>1, <1>2 DEF Frozen
<1>4. /\ Healthy /\ GetsHit /\ Measured /\ script \in Seq(CallSet)
      /\ Counting => Counts
  BY <1>1, InvIsHealthy
<1>5. ASSUME ~Threw'
      PROVE  Sound' /\ GetsHit' /\ Measured'
  <2>1. Sound' /\ GetsHit'
    BY <1>4, <1>5, WorkKeepsSound, WorkKeepsGetsHit
  <2>2. ASSUME Counting
        PROVE  Logged' /\ Counted' /\ Saved' /\ Recovering'
    BY <1>4, <1>5, <2>2, WorkKeepsLogged, WorkKeepsCounted, WorkKeepsSaved,
       WorkKeepsRecovering DEF Measured
  <2>3. Counting' <=> Counting
    BY <1>1, SamePlan
  <2> QED
    BY <2>1, <2>2, <2>3 DEF Measured
<1>6. /\ benchmark' \in {Benchmarks[i] : i \in 1..Len(Benchmarks)} \cup {"usage", "failed"}
      /\ argument' \in Seq(Characters) /\ script' \in Seq(CallSet)
      /\ operations' \in 0..SizeMax /\ operations' # Rejected
  BY <1>1 DEF WorkloadInv
<1> QED
  BY <1>2, <1>3, <1>5, <1>6 DEF WorkloadInv, Measured

LEMMA NextOfCall ==
  ASSUME WorkloadInv, StoreInv, Readable, Call
  PROVE  WorkloadInv'
<1>1. /\ Started /\ ~Threw /\ report = None /\ script # <<>> /\ script' = Tail(script)
      /\ UNCHANGED <<benchmark, argument, operations, report>>
  BY DEF Call, Running
<1>2. Started' /\ benchmark' # "failed" /\ benchmark' # "usage"
  BY <1>1 DEF Started
<1>3. Frozen'
  BY <1>1, <1>2 DEF Frozen
<1>4. /\ Healthy /\ GetsHit /\ Measured /\ script \in Seq(CallSet)
      /\ Counting => Counts
  BY <1>1, InvIsHealthy
<1>5. Sound' /\ GetsHit' /\ Measured'
  <2>1. Sound' /\ GetsHit'
    BY <1>4, CallKeepsSound, CallKeepsGetsHit
  <2>2. ASSUME Counting
        PROVE  Logged' /\ Counted' /\ Saved' /\ Recovering'
    BY <1>4, <2>2, CallKeepsLogged, CallKeepsCounted, CallKeepsSaved,
       CallKeepsRecovering DEF Measured
  <2>3. Counting' <=> Counting
    BY <1>1, SamePlan
  <2> QED
    BY <2>1, <2>2, <2>3 DEF Measured
<1>6. /\ benchmark' \in {Benchmarks[i] : i \in 1..Len(Benchmarks)} \cup {"usage", "failed"}
      /\ argument' \in Seq(Characters) /\ script' \in Seq(CallSet)
      /\ operations' \in 0..SizeMax /\ operations' # Rejected
  BY <1>1, <1>4, NextCall DEF WorkloadInv
<1> QED
  BY <1>2, <1>3, <1>5, <1>6 DEF WorkloadInv, Measured

\* A benchmark that begins satisfies the invariant.
LEMMA BegunInv ==
  Begun /\ argument \in Seq(Characters) => WorkloadInv
<1> SUFFICES ASSUME Begun, argument \in Seq(Characters) PROVE WorkloadInv
  OBVIOUS
<1>1. WellBegun
  BY BegunWell
<1>2. /\ operations \in 1..SizeMax /\ benchmark \in BenchmarkNames
      /\ benchmark # "usage" /\ benchmark # "failed"
  BY DEF Begun, BenchmarkNames
<1>3. operations \in 0..SizeMax /\ operations # Rejected
  BY <1>2, WidthAssumption DEF Rejected
<1> QED
  BY <1>1, <1>2, <1>3, NamesAreBenchmarks DEF WellBegun, WorkloadInv, Measured

LEMMA NextOfRun ==
  ASSUME WorkloadInv, Readable, Run
  PROVE  WorkloadInv'
<1>1. /\ benchmark = "usage" /\ argument \in Seq(Characters) /\ Init /\ report = None
      /\ script = <<>>
  BY DEF Run, WorkloadInv
<1>2. /\ operations' \in 0..SizeMax /\ argument' = <<>> /\ report' = None
      /\ UNCHANGED vars /\ UNCHANGED report
      /\ operations' \in {ParseOperations(<<>>), ParseOperations(<<argument>>)}
  <2>1. operations' = ParseOperations(<<>>) \/ operations' = ParseOperations(<<argument>>)
    BY DEF Run
  <2>2. /\ ParseOperations(<<>>) \in 0..SizeMax
        /\ ParseOperations(<<argument>>) \in 0..SizeMax
    BY <1>1, OperationsFit, WidthAssumption
  <2> QED
    BY <1>1, <2>1, <2>2 DEF Run
<1>3. Init'
  BY <1>1, <1>2 DEF vars, Init
<1>4. (argument \in Seq(Characters))'
  BY <1>2
<1>5. CASE benchmark' = "failed" /\ script' = <<>>
  <2>1. Frozen' /\ ~Started'
    BY <1>2, <1>5 DEF Frozen, Started
  <2> QED
    BY <1>2, <1>4, <1>5, <2>1 DEF WorkloadInv
<1>6. CASE operations' # Rejected /\ benchmark' # "failed"
  <2>1. benchmark' = "write" /\ script' \in Scripts(benchmark', operations')
    BY <1>6 DEF Run, Begin, Benchmarks
  <2>2. operations' \in 1..SizeMax
    BY <1>2, <1>6, WidthAssumption DEF Rejected
  <2>3. Begun'
    BY <1>2, <1>3, <2>1, <2>2 DEF Begun, Readable
  <2> QED
    BY <1>4, <2>3, BegunInv, PTL
<1> QED
  BY <1>1, <1>5, <1>6 DEF Run, Begin, Benchmarks

LEMMA NextOfAdvance ==
  ASSUME WorkloadInv, Readable, Advance
  PROVE  WorkloadInv'
<1>1. /\ report # None /\ Started /\ operations \in 0..SizeMax /\ operations # Rejected
      /\ operations' = operations /\ report' = None
  BY DEF Advance, WorkloadInv, Frozen
<1>2. operations' \in 1..SizeMax
  BY <1>1, WidthAssumption DEF Rejected
<1>3. Init'
  BY DirectoryIsNew DEF Advance
<1>4. CASE benchmark' = "failed" /\ script' = script
  <2>1. Frozen' /\ ~Started'
    BY <1>1, <1>4 DEF Frozen, Started
  <2> QED
    BY <1>1, <1>4, <2>1 DEF Advance, WorkloadInv
<1>5. ASSUME NEW i \in 1..(Len(Benchmarks) - 1),
             benchmark' = Benchmarks[i + 1],
             script' \in Scripts(Benchmarks[i + 1], operations)
      PROVE  WorkloadInv'
  <2>1. i + 1 \in 1..Len(Benchmarks)
    BY NamesAreBenchmarks
  <2>2. benchmark' \in BenchmarkNames /\ script' \in Scripts(benchmark', operations')
    BY <1>1, <1>5, <2>1, NamesAreBenchmarks
  <2>3. Begun'
    BY <1>1, <1>2, <1>3, <2>2 DEF Begun, BenchmarkNames, Readable
  <2>4. (argument \in Seq(Characters))'
    BY DEF Advance, WorkloadInv
  <2> QED
    BY <2>3, <2>4, BegunInv, PTL
<1> QED
  BY <1>4, <1>5 DEF Advance, Begin

\* A read that is made finds its key.
LEMMA ReadsFind ==
  ASSUME WorkloadInv, StoreInv, Readable
  PROVE  ReadsHit
<1> SUFFICES ASSUME Running, script # <<>>, Head(script).call = "get"
             PROVE  Get(Head(script).key) # NoValue
  BY DEF ReadsHit
<1>1. Started /\ ~Threw /\ pc = "idle"
  BY DEF Running
<1>2. Healthy /\ GetsHit /\ script \in Seq(CallSet)
  BY <1>1, InvIsHealthy
<1>3. Head(script) = script[1] /\ 1 \in DOMAIN script
  BY <1>2, NextCall
<1>4. data = durable
  BY <1>1, <1>2 DEF Healthy, Sound
<1>5. \/ durable[script[1].key] # NoValue
      \/ pc = "appending"
      \/ \E j \in 1..(1 - 1) : script[j].call = "set"
  BY <1>2, <1>3 DEF GetsHit
<1>6. 1..(1 - 1) = {}
  OBVIOUS
<1> QED
  BY <1>1, <1>3, <1>4, <1>5, <1>6 DEF Get

LEMMA NextOfOthers ==
  ASSUME WorkloadInv, Type \/ Report \/ Fail \/ UNCHANGED <<vars, workload>>
  PROVE  WorkloadInv'
<1>1. UNCHANGED <<vars, operations, script, replayed>>
  BY DEF Type, Report, Fail, workload
<1>2. script' \in Seq(CallSet) /\ operations' \in 0..SizeMax
  BY <1>1 DEF WorkloadInv
<1>3. CASE Fail
  <2>1. Threw \/ report = None
    BY <1>3 DEF Fail, Running
  <2>2. report' = None /\ argument' \in Seq(Characters) /\ benchmark' = "failed"
    BY <1>3, <2>1 DEF Fail, WorkloadInv, Frozen
  <2>3. ~Started' /\ Frozen'
    BY <2>2 DEF Started, Frozen
  <2> QED
    BY <1>2, <2>2, <2>3 DEF WorkloadInv
<1>4. CASE Type \/ Report \/ UNCHANGED <<vars, workload>>
  <2>1. benchmark' = benchmark /\ argument' \in Seq(Characters)
    <3>1. CASE Type
      BY <3>1 DEF Type, WorkloadInv
    <3>2. CASE Report \/ UNCHANGED <<vars, workload>>
      BY <3>2 DEF Report, workload, WorkloadInv
    <3> QED
      BY <1>4, <3>1, <3>2
  <2>2. /\ Threw' <=> Threw
        /\ Started' <=> Started
        /\ RecoveryReport' = RecoveryReport /\ Size' = Size
        /\ Sound' <=> Sound
        /\ GetsHit' <=> GetsHit
        /\ Measured' <=> Measured
        /\ Init' <=> Init
    BY <1>1, <2>1, Unmoved
  <2>3. Frozen' /\ (benchmark = "usage" => report' = report)
    <3>1. CASE Report
      <4>1. /\ Started /\ pc = "idle" /\ ~Threw /\ script = <<>>
            /\ benchmark = "recovery" => report' = RecoveryReport
            /\ benchmark = "snapshot" => report'.records = Size
        BY <3>1 DEF Report, Running
      <4> QED
        BY <1>1, <2>1, <2>2, <4>1 DEF Frozen, Started, vars
    <3>2. CASE Type \/ UNCHANGED <<vars, workload>>
      <4>1. report' = report
        BY <3>2 DEF Type, workload
      <4> QED
        BY <1>1, <2>1, <2>2, <4>1 DEF Frozen, WorkloadInv, vars
    <3> QED
      BY <1>4, <3>1, <3>2
  <2> QED
    BY <1>1, <1>2, <2>1, <2>2, <2>3 DEF WorkloadInv, Measured
<1> QED
  BY <1>3, <1>4

LEMMA NextWorkload ==
  ASSUME WorkloadInv, StoreInv, Readable, [WorkloadNext]_<<vars, workload>>
  PROVE  WorkloadInv' /\ StoreInv'
<1>1. StoreInv'
  BY StoreSteps, NextStore
<1>2. WorkloadInv'
  BY NextOfWork, NextOfCall, NextOfRun, NextOfAdvance, NextOfOthers DEF WorkloadNext
<1> QED
  BY <1>1, <1>2

LEMMA AlwaysMeasured ==
  ASSUME Readable
  PROVE  WorkloadSpec => [](WorkloadInv /\ StoreInv)
<1>1. WorkloadInit => WorkloadInv /\ StoreInv
  BY InitWorkload, InitStore DEF WorkloadInit
<1>2. WorkloadInv /\ StoreInv /\ [WorkloadNext]_<<vars, workload>>
        => (WorkloadInv /\ StoreInv)'
  BY NextWorkload
<1> QED
  BY <1>1, <1>2, PTL DEF WorkloadSpec

----------------------------------------------------------------------------
\* As many keys as calls.
LEMMA KeysDiffer ==
  ASSUME operations \in Nat, NEW n \in Nat
  PROVE  Cardinality(KeysUpTo(n)) = n
<1> DEFINE f == [i \in 1..n |-> KeyAt(i)]
<1>1. IsFiniteSet(1..n) /\ Cardinality(1..n) = n
  <2>1. /\ IsFiniteSet(1..n)
        /\ Cardinality(1..n) = IF 1 > n THEN 0 ELSE n - 1 + 1
    BY FS_Interval
  <2> QED
    BY <2>1
<1>2. ASSUME NEW i \in 1..n, NEW j \in 1..n, KeyAt(i) = KeyAt(j)
      PROVE  i = j
  <2>1. "key" # "tail"
    OBVIOUS
  <2> QED
    BY <1>2, <2>1 DEF KeyAt
<1>3. f \in Surjection(1..n, KeysUpTo(n))
  BY DEF Surjection, KeysUpTo
<1>4. f \in Injection(1..n, KeysUpTo(n))
  <2>1. f \in [1..n -> KeysUpTo(n)]
    BY <1>3 DEF Surjection
  <2>2. IsInjective(f)
    BY <1>2 DEF IsInjective
  <2> QED
    BY <2>1, <2>2 DEF Injection
<1> QED
  BY <1>1, <1>3, <1>4, FS_Surjection

\* When a counting benchmark reports, every call was made.
LEMMA AllMade ==
  ASSUME WorkloadInv, StoreInv, Readable, Counting, report # None
  PROVE  /\ Counts /\ Logged /\ Counted /\ Saved /\ Recovering
         /\ pc = "idle" /\ Made = Planned /\ data = durable
<1>1. Started /\ pc = "idle" /\ ~Threw /\ script = <<>>
  BY DEF WorkloadInv, Frozen
<1>2. /\ Healthy /\ Measured /\ Counts
  BY <1>1, InvIsHealthy
<1>3. Made = Planned /\ data = durable
  <2>1. Len(script) = 0
    BY <1>1
  <2>2. Planned \in Nat /\ Made = Planned - Len(script)
    BY <1>2, Numbers
  <2> QED
    BY <1>1, <1>2, <2>1, <2>2 DEF Healthy, Sound
<1> QED
  BY <1>1, <1>2, <1>3 DEF Measured

LEMMA TookBothPaths ==
  ASSUME WorkloadInv, StoreInv, Readable
  PROVE  RecoveryTakesBothPaths
<1> SUFFICES ASSUME benchmark = "recovery", report # None
             PROVE  /\ RecoveryPathDescription(report) = "snapshot+wal"
                    /\ report.snapshot_entries = operations
                    /\ report.entries_restored
                         = report.snapshot_entries + report.wal_operations_replayed
  BY DEF RecoveryTakesBothPaths, Reported
<1>1. /\ Counts /\ Logged /\ Saved /\ Recovering
      /\ pc = "idle" /\ Made = Planned /\ data = durable
  BY AllMade DEF Counting
<1>2. /\ operations \in Nat /\ TailSize \in Nat /\ TailSize >= 1 /\ Len(wal) \in Nat
      /\ Made = operations + TailSize + 2
  BY <1>1, Numbers
<1>3. Reopened /\ Made > operations + 1 /\ Made > operations
  BY <1>2 DEF Reopened
<1>4. replayed = TailSize
  BY <1>1, <1>3 DEF Recovering
<1>5. snap # None /\ Entries(SnapMap) = operations
  <2>1. snap # None /\ Held(snap.map) = KeysUpTo(operations)
    BY <1>1, <1>3 DEF Saved, Held, KeysUpTo
  <2> QED
    BY <1>2, <2>1, KeysDiffer DEF Entries, SnapMap, Held
<1>6. Size = operations + TailSize
  <2>1. Len(wal) = operations + TailSize
    BY <1>1, <1>2, <1>3 DEF Logged
  <2>2. Held(data) = KeysUpTo(Len(wal))
    BY <1>1 DEF Logged, Held, KeysUpTo
  <2> QED
    BY <1>2, <2>1, <2>2, KeysDiffer DEF Size, Entries, Held
<1>7. report = [snapshot_loaded |-> TRUE, snapshot_entries |-> operations,
                wal_operations_replayed |-> TailSize,
                entries_restored |-> operations + TailSize]
  <2>1. report = RecoveryReport
    BY DEF WorkloadInv, Frozen
  <2>2. (snap # None) = TRUE
    BY <1>5
  <2> QED
    BY <1>4, <1>5, <1>6, <2>1, <2>2 DEF RecoveryReport
<1>8. /\ report.snapshot_loaded /\ report.wal_operations_replayed = TailSize
      /\ report.snapshot_entries = operations
      /\ report.entries_restored = operations + TailSize
  BY <1>7
<1>9. RecoveryPathDescription(report) = "snapshot+wal"
  BY <1>2, <1>8 DEF RecoveryPathDescription
<1> QED
  BY <1>8, <1>9

LEMMA SnapshotsPerInterval ==
  ASSUME WorkloadInv, StoreInv, Readable
  PROVE  OneSnapshotPerInterval
<1> SUFFICES ASSUME benchmark = "write", report # None
             PROVE  /\ Len(wal) = operations
                    /\ SnapOffset = operations - (operations % kSnapshotInterval)
  BY DEF OneSnapshotPerInterval, Reported
<1>1. /\ Counts /\ Logged /\ Counted /\ pc = "idle" /\ Made = Planned
  BY AllMade DEF Counting
<1>2. /\ operations \in Nat /\ TailSize \in Nat /\ Len(wal) \in Nat /\ Made = operations
      /\ SnapOffset \in Nat /\ writes \in Nat
      /\ kSnapshotInterval \in Nat /\ kSnapshotInterval >= 1
  BY <1>1, Numbers
<1>3. ~Reopened
  BY <1>2 DEF Reopened
<1>4. Len(wal) = operations
  BY <1>1, <1>2, <1>3 DEF Logged
<1>5. /\ SnapOffset + writes = operations /\ SnapOffset % kSnapshotInterval = 0
      /\ writes < kSnapshotInterval
  BY <1>1, <1>2, <1>3, <1>4 DEF Counted
<1>6. (SnapOffset + writes) % kSnapshotInterval = writes
  BY <1>2, <1>5, StartedInterval
<1>7. SnapOffset = operations - writes
  BY <1>2, <1>5
<1> QED
  BY <1>4, <1>5, <1>6, <1>7

LEMMA ReportedIsWritten ==
  ASSUME WorkloadInv, StoreInv, Readable
  PROVE  ReportedSnapshotIsWritten
<1> SUFFICES ASSUME benchmark = "snapshot", report # None
             PROVE  /\ snap \notin {None, Torn}
                    /\ Entries(snap.map) = report.records /\ report.records = operations
                    /\ snap.offset = Len(wal)
  BY DEF ReportedSnapshotIsWritten, Reported
<1>1. /\ Counts /\ Logged /\ Saved /\ pc = "idle" /\ Made = Planned /\ data = durable
  BY AllMade DEF Counting
<1>2. /\ operations \in Nat /\ TailSize \in Nat /\ TailSize >= 1 /\ Len(wal) \in Nat
      /\ Made = operations + 1
  BY <1>1, Numbers
<1>3. ~Reopened /\ Made > operations
  BY <1>2 DEF Reopened
<1>4. Len(wal) = operations
  BY <1>1, <1>2, <1>3 DEF Logged
<1>5. /\ snap \notin {None, Torn} /\ snap.offset = operations
      /\ Held(snap.map) = KeysUpTo(operations)
  BY <1>1, <1>2 DEF Saved, Held, KeysUpTo
<1>6. Held(data) = KeysUpTo(operations)
  BY <1>1, <1>4 DEF Logged, Held, KeysUpTo
<1>7. Entries(snap.map) = operations /\ Size = operations
  BY <1>2, <1>5, <1>6, KeysDiffer DEF Size, Entries, Held
<1>8. report.records = Size
  BY DEF WorkloadInv, Frozen
<1> QED
  BY <1>4, <1>5, <1>7, <1>8

LEMMA NumbersRun ==
  ASSUME argument \in Seq(Characters)
  PROVE  OnlyNumbersRun
<1> DEFINE number == ParseOperations(<<argument>>)
<1> SUFFICES ASSUME number # Rejected PROVE OnlyNumbersRun
  BY DEF OnlyNumbersRun
<1>1. number \in 0..SizeMax /\ argument[1] # "-" /\ IsNumber(argument, number)
  BY OperationsFit
<1>2. number \in 1..SizeMax
  BY <1>1, WidthAssumption DEF Rejected
<1> HIDE DEF number
<1>3. PICK i \in 1..Len(argument) :
        LET digits == SubSeq(argument, i, Len(argument))
        IN  /\ \A j \in 1..Len(digits) : digits[j] \in DOMAIN Digit
            /\ \/ (Blanks(argument, i - 1) \/ SignAt(argument, "+", i))
                    /\ number = Decimal(digits)
               \/ SignAt(argument, "-", i) /\ number = UllMax + 1 - Decimal(digits)
  BY <1>1 DEF IsNumber
<1>4. SignAt(argument, "-", i) => i > 2
  <2> SUFFICES ASSUME SignAt(argument, "-", i), i = 2 PROVE FALSE
    BY DEF SignAt
  <2> QED
    BY <1>1 DEF SignAt
<1> DEFINE rest == SubSeq(argument, i, Len(argument))
           value == Decimal(rest)
<1>5. /\ \A j \in 1..Len(rest) : rest[j] \in DOMAIN Digit
      /\ \/ (Blanks(argument, i - 1) \/ SignAt(argument, "+", i)) /\ number = value
         \/ SignAt(argument, "-", i) /\ i > 2 /\ number = UllMax + 1 - value
  BY <1>3, <1>4
<1> QED
  BY <1>2, <1>5, Zenon DEF OnlyNumbersRun, Blanks, SignAt, number

----------------------------------------------------------------------------
\* The invariant of the five benchmarks holds in every state: as long as no call
\* throws, the store is sound, the log is the plan of calls so far, and snapshot,
\* counter and replay share it out (benchmark.cpp against kv_store.cpp).
THEOREM WorkloadTheorem ==
  ASSUME "readError" \notin Faults
  PROVE  WorkloadSpec => []WorkloadInv
  BY AlwaysMeasured, PTL DEF Readable

\* Whatever the argument, the interval, the size of the keyspace and the plan of
\* the mixed benchmark, no read misses (RunReadBenchmark, RunMixedBenchmark).
THEOREM ReadsTheorem ==
  ASSUME "readError" \notin Faults
  PROVE  WorkloadSpec => []ReadsHit
<1>1. WorkloadInv /\ StoreInv => ReadsHit
  BY ReadsFind DEF Readable
<1> QED
  BY <1>1, AlwaysMeasured, PTL DEF Readable

\* The recovery that is measured has always read a snapshot of all the "key"s
\* and replayed the whole tail, for every limit below the interval
\* (RunRecoveryBenchmark), if the files can be read.
THEOREM RecoveryPathTheorem ==
  ASSUME "readError" \notin Faults
  PROVE  WorkloadSpec => []RecoveryTakesBothPaths
<1>1. WorkloadInv /\ StoreInv => RecoveryTakesBothPaths
  BY TookBothPaths DEF Readable
<1> QED
  BY <1>1, AlwaysMeasured, PTL DEF Readable

\* The writes that are measured include exactly one snapshot for each interval
\* that they fill (RunWriteBenchmark through MaybeSnapshot).
THEOREM IntervalTheorem ==
  ASSUME "readError" \notin Faults
  PROVE  WorkloadSpec => []OneSnapshotPerInterval
<1>1. WorkloadInv /\ StoreInv => OneSnapshotPerInterval
  BY SnapshotsPerInterval DEF Readable
<1> QED
  BY <1>1, AlwaysMeasured, PTL DEF Readable

\* A reported snapshot is the file, with every record of the run in it
\* (RunSnapshotBenchmark).
THEOREM ReportedTheorem ==
  ASSUME "readError" \notin Faults
  PROVE  WorkloadSpec => []ReportedSnapshotIsWritten
<1>1. WorkloadInv /\ StoreInv => ReportedSnapshotIsWritten
  BY ReportedIsWritten DEF Readable
<1> QED
  BY <1>1, AlwaysMeasured, PTL DEF Readable

\* For arguments of any length and integers of any width, what the program runs
\* is spelled by its argument: the number, or its complement behind a space and
\* one minus sign (ParseOperations).
THEOREM NumberTheorem == WorkloadSpec => []OnlyNumbersRun
<1> DEFINE TypedWell == argument \in Seq(Characters)
<1>1. WorkloadInit => TypedWell
  BY DEF WorkloadInit
<1>2. TypedWell /\ [WorkloadNext]_<<vars, workload>> => TypedWell'
  <2> SUFFICES ASSUME TypedWell, [WorkloadNext]_<<vars, workload>> PROVE TypedWell'
    OBVIOUS
  <2>1. argument' = argument \/ argument' = <<>> \/ Type
    <3>1. Run => argument' = <<>>
      BY DEF Run
    <3>2. Call \/ Work \/ Report \/ Advance \/ Fail => argument' = argument
      BY DEF Call, Work, Report, Advance, Fail
    <3> QED
      BY <3>1, <3>2 DEF WorkloadNext, workload
  <2>2. CASE Type
    <3>1. PICK c \in Characters : argument' = Append(argument, c)
      BY <2>2 DEF Type
    <3> QED
      BY <3>1
  <2>3. CASE argument' = argument
    BY <2>3
  <2>4. CASE argument' = <<>>
    <3>1. <<>> \in Seq(Characters)
      OBVIOUS
    <3> QED
      BY <2>4, <3>1
  <2> QED
    BY <2>1, <2>2, <2>3, <2>4
<1>3. TypedWell => OnlyNumbersRun
  BY NumbersRun
<1> QED
  BY <1>1, <1>2, <1>3, PTL DEF WorkloadSpec
=============================================================================
