----------------------------- MODULE Workloads -----------------------------
(***************************************************************************)
(* The benchmark program: its argument is typed, then five benchmarks run  *)
(* one after the other, each over a store of its own in a new directory.   *)
(* A benchmark is the script of its calls to the store; an exception out   *)
(* of one, or of the program's own work between them, ends the program.    *)
(* The stores are opened as main opens its own: in an empty directory,     *)
(* loading and replaying change nothing.                                   *)
(***************************************************************************)
EXTENDS KVStore, Benchmark

CONSTANTS
  Characters,          \* what the argument is made of
  MaxArgument,         \* bound: its length
  Times,               \* how long a call may take
  max_size,            \* the most keys that a vector can reserve room for
  mixed_keyspace_size,
  TailLimit, TailShare \* the 999 and the 20 of RecoveryTailOperations

ASSUME WorkloadAssumption ==
  /\ mixed_keyspace_size \in Nat /\ max_size \in Nat
  /\ TailShare \in Nat \ {0} /\ TailLimit \in 1..(kSnapshotInterval - 1)

\* The keys of the longest run are keys of the map.
ASSUME KeysAssumption == {"key", "tail"} \X (0..(SizeMax - 1)) \subseteq Key

VARIABLES
  benchmark,  \* the benchmark that runs, "usage" before or "failed" after it
  argument,   \* what is typed
  operations, \* config.operations
  script,     \* the calls it has yet to make
  samples,    \* the calls that are timed, each with its latency
  replayed,   \* records that the last recovery applied
  report      \* what it found, once it has ended

workload == <<benchmark, argument, operations, script, samples, replayed, report>>

Benchmarks == <<"write", "read", "mixed", "recovery", "snapshot">>

MakeKeys(prefix, count) == [i \in 1..count |-> <<prefix, i - 1>>]
Calls(call, keys, timed) ==
  [i \in DOMAIN keys |-> [call |-> call, key |-> keys[i], timed |-> timed]]
PreloadStore(keys) == Calls("set", keys, FALSE)
Save == <<[call |-> "save", timed |-> FALSE]>>
Reopen == <<[call |-> "reopen", timed |-> FALSE]>>

MixedKeyspaceSize(n) == Max({1, Min({n, mixed_keyspace_size})})

\* Mutant of BuildMixedPlan: the index is drawn from the number of operations.
BuildMixedPlanTooWide(n, keyspace_size) ==
  [1..n -> {[call |-> call, key |-> <<"key", i>>, timed |-> TRUE] :
              call \in {"get", "set"}, i \in 0..(n - 1)}]

\* The generator's numbers are arbitrary.
BuildMixedPlan(n, keyspace_size) ==
  [1..n -> {[call |-> call, key |-> <<"key", i>>, timed |-> TRUE] :
              call \in {"get", "set"}, i \in 0..(keyspace_size - 1)}]

\* Mutant of RecoveryTailOperations: the limit is left out.
RecoveryTailUnlimited(n) == Max({1, n \div TailShare})

RecoveryTailOperations(n) == Max({1, Min({TailLimit, n \div TailShare})})

RunWriteBenchmark(n) == {Calls("set", MakeKeys("key", n), TRUE)}

RunReadBenchmark(n) ==
  LET keys == MakeKeys("key", n)
  IN  {PreloadStore(keys) \o Calls("get", keys, TRUE)}

RunMixedBenchmark(n) ==
  LET size == MixedKeyspaceSize(n)
  IN  {PreloadStore(MakeKeys("key", size)) \o plan : plan \in BuildMixedPlan(n, size)}

RunRecoveryBenchmark(n) ==
  {PreloadStore(MakeKeys("key", n)) \o Save
     \o PreloadStore(MakeKeys("tail", RecoveryTailOperations(n))) \o Reopen}

RunSnapshotBenchmark(n) == {PreloadStore(MakeKeys("key", n)) \o Save}

Scripts(name, n) ==
  CASE name = "write" -> RunWriteBenchmark(n)
    [] name = "read" -> RunReadBenchmark(n)
    [] name = "mixed" -> RunMixedBenchmark(n)
    [] name = "recovery" -> RunRecoveryBenchmark(n)
    [] name = "snapshot" -> RunSnapshotBenchmark(n)

\* A benchmark makes its directory, its store and its keys, or throws.
Begin(name, n) ==
  \/ n <= max_size /\ benchmark' = name /\ script' \in Scripts(name, n)
  \/ benchmark' = "failed" /\ UNCHANGED script

----------------------------------------------------------------------------
Entries(map) == Cardinality({k \in Key : map[k] # NoValue})
Size == Entries(data)

RecoveryReport ==
  [snapshot_loaded |-> snap # None, snapshot_entries |-> Entries(SnapMap),
   wal_operations_replayed |-> replayed, entries_restored |-> Size]

RecoveryPathDescription(result) ==
  CASE result.snapshot_loaded /\ result.wal_operations_replayed > 0 -> "snapshot+wal"
    [] result.snapshot_loaded /\ result.wal_operations_replayed = 0 -> "snapshot"
    [] ~result.snapshot_loaded /\ result.wal_operations_replayed > 0 -> "wal"
    [] OTHER -> "empty"

WorkloadInit ==
  /\ Init
  /\ benchmark = "usage" /\ argument = <<>> /\ operations = Rejected
  /\ script = <<>> /\ samples = <<>> /\ replayed = 0 /\ report = None

Type ==
  /\ benchmark = "usage" /\ Len(argument) < MaxArgument
  /\ \E c \in Characters : argument' = Append(argument, c)
  /\ UNCHANGED <<vars, benchmark, operations, script, samples, replayed, report>>

\* main begins, with the argument or without one.
Run ==
  /\ benchmark = "usage"
  /\ \/ argument = <<>> /\ operations' = ParseOperations(<<>>)
     \/ operations' = ParseOperations(<<argument>>)
  /\ IF operations' = Rejected
     THEN benchmark' = "failed" /\ UNCHANGED script
     ELSE Begin(Benchmarks[1], operations')
  /\ argument' = <<>>
  /\ UNCHANGED <<vars, samples, replayed, report>>

Threw == pc = "idle" /\ reply = "ERR"
Started == benchmark \notin {"usage", "failed"}
Running == pc = "idle" /\ Started /\ ~Threw /\ report = None

\* A latency is noted with the call; if the call throws, nothing is reported.
Call ==
  /\ Running /\ script # <<>>
  /\ IF Head(script).timed
     THEN \E t \in Times :
            samples' = Append(samples, [call |-> Head(script).call, time |-> t])
     ELSE UNCHANGED samples
  /\ LET next == Head(script)
     IN  \/ next.call = "set" /\ \E v \in Value : Set(next.key, v)
         \/ /\ next.call = "get" /\ Get(next.key) # NoValue
            /\ UNCHANGED vars
         \/ next.call = "save" /\ SaveSnapshot
         \/ next.call = "reopen" /\ Exit
  /\ script' = Tail(script)
  /\ UNCHANGED <<benchmark, argument, operations, replayed, report>>

\* A call threw or a read missed, the log could not be opened again, or there
\* was no memory for the plan, the latencies or the keys of the tail.
Fail ==
  /\ Started
  /\ Threw \/ Running \/ (pc = "down" /\ report = None)
  /\ benchmark' = "failed"
  /\ UNCHANGED <<vars, argument, operations, script, samples, replayed, report>>

\* The store's own steps.
Work ==
  /\ Started /\ (Start \/ Proceed)
  /\ replayed' = IF ReplayRecord THEN replayed + 1
                 ELSE IF Start THEN 0 ELSE replayed
  /\ UNCHANGED <<benchmark, argument, operations, script, samples, report>>

Latencies(calls) ==
  LET timed == SelectSeq(samples, LAMBDA s : s.call \in calls)
  IN  [i \in DOMAIN timed |-> timed[i].time]
AllLatencies == Latencies({"get", "set"})

\* Mutant of MixedReport: the latencies of the reads are those of the writes.
MixedReportMisfiled ==
  [overall |-> ComputeLatencyStats(AllLatencies),
   read_operations |-> Len(Latencies({"get"})),
   write_operations |-> Len(Latencies({"set"})),
   read_latency |-> ComputeLatencyStats(Latencies({"set"})),
   write_latency |-> ComputeLatencyStats(Latencies({"set"}))]

MixedReport ==
  [overall |-> ComputeLatencyStats(AllLatencies),
   read_operations |-> Len(Latencies({"get"})),
   write_operations |-> Len(Latencies({"set"})),
   read_latency |-> ComputeLatencyStats(Latencies({"get"})),
   write_latency |-> ComputeLatencyStats(Latencies({"set"}))]

Report ==
  /\ Running /\ script = <<>>
  /\ report' = CASE benchmark = "recovery" -> RecoveryReport
                 [] benchmark = "snapshot" ->
                      [records |-> Size, snapshot_written |-> TRUE]
                 [] benchmark = "mixed" -> MixedReport
                 [] OTHER -> ComputeLatencyStats(AllLatencies)
  /\ UNCHANGED <<vars, benchmark, argument, operations, script, samples, replayed>>

\* The directory is removed, and another one is made.
NewDirectory ==
  /\ wal' = <<>> /\ snap' = None /\ tmp' = None
  /\ durable' = EmptyMap /\ orphaned' = FALSE
  /\ Stopped

\* The next benchmark begins.
Advance ==
  /\ report # None
  /\ \E i \in 1..(Len(Benchmarks) - 1) :
       benchmark = Benchmarks[i] /\ Begin(Benchmarks[i + 1], operations)
  /\ report' = None /\ samples' = <<>> /\ replayed' = 0
  /\ UNCHANGED <<argument, operations>>
  /\ NewDirectory

WorkloadNext == Type \/ Run \/ Call \/ Work \/ Report \/ Advance \/ Fail

WorkloadSpec == WorkloadInit /\ [][WorkloadNext]_<<vars, workload>>

----------------------------------------------------------------------------
Reported(name) == benchmark = name /\ report # None

\* The recovery benchmark measures what it is for, a snapshot and the tail of
\* the log behind it: no write of the tail fills the interval, so no automatic
\* snapshot swallows the tail (RecoveryTailOperations against MaybeSnapshot).
RecoveryTakesBothPaths ==
  Reported("recovery") =>
    /\ RecoveryPathDescription(report) = "snapshot+wal"
    /\ report.snapshot_entries = operations
    /\ report.entries_restored
         = report.snapshot_entries + report.wal_operations_replayed

\* Every read of the read and mixed benchmarks finds its key: the exceptions for
\* a read that misses are never thrown (BuildMixedPlan's indices against the keys
\* that PreloadStore has written, automatic snapshots in between).
ReadsHit ==
  Running /\ script # <<>> =>
    (Head(script).call = "get" => Get(Head(script).key) # NoValue)

\* The write benchmark's times include one automatic snapshot per full interval:
\* the log holds every write, and the snapshot ends where the last full interval
\* ended (the counter of MaybeSnapshot over a whole run).
OneSnapshotPerInterval ==
  Reported("write") =>
    /\ Len(wal) = operations
    /\ SnapOffset = operations - (operations % kSnapshotInterval)

\* A snapshot that the snapshot benchmark reports is in the file, whole, with
\* the number of records reported, and covers the log (SaveSnapshot throws when
\* any step of writing the file fails).
ReportedSnapshotIsWritten ==
  Reported("snapshot") =>
    /\ snap \notin {None, Torn}
    /\ Entries(snap.map) = report.records /\ report.records = operations
    /\ snap.offset = Len(wal)

\* What the program runs is spelled by the whole argument: spaces, at most one
\* sign, digits to the end.  Without a minus sign it is their decimal number; a
\* minus sign, which benchmark.cpp:33 refuses in the first place only and so
\* passes behind a space, makes it the complement; it never runs none or more
\* than fit (ParseOperations, with stoull's whitespace, signs and overflow).
OnlyNumbersRun ==
  LET number == ParseOperations(<<argument>>)
      Spaces(n) == \A j \in 1..n : argument[j] = " "
      Signed(sign, i) == i > 1 /\ argument[i - 1] = sign /\ Spaces(i - 2)
  IN  number # Rejected =>
        /\ number \in 1..SizeMax
        /\ \E i \in 1..Len(argument) :
             LET digits == SubSeq(argument, i, Len(argument))
             IN  /\ \A j \in 1..Len(digits) : digits[j] \in DOMAIN Digit
                 /\ \/ /\ Spaces(i - 1) \/ Signed("+", i)
                       /\ number = Decimal(digits)
                    \/ /\ Signed("-", i) /\ i > 2
                       /\ number = UllMax + 1 - Decimal(digits)

Percentages == {1, 20, 21, 50, 60, 95, 99, 100}
Percentile(percentile) == PercentileNearestRank(AllLatencies, percentile)

\* A percentile is the least latency that at least that many percent of the
\* latencies do not exceed (PercentileNearestRank's ceiling, its shift by one
\* and its clamp at both ends).
PercentileIsLeast ==
  LET Measured == {samples[i].time : i \in DOMAIN samples}
      AtMost(t) == {i \in DOMAIN samples : samples[i].time <= t}
      Covers(t, p) == 100 * Cardinality(AtMost(t)) >= p * Len(samples)
  IN  samples # <<>> =>
        \A p \in Percentages :
          /\ Percentile(p) \in Measured
          /\ Covers(Percentile(p), p)
          /\ \A t \in Measured : Covers(t, p) => Percentile(p) <= t

\* The mixed benchmark's overall percentiles lie between those of its reads and
\* of its writes, and its reads and writes are all its operations (the three
\* lists of latencies that RunMixedBenchmark fills side by side).
MixedSplitsItsCalls ==
  Reported("mixed") =>
    /\ report.read_operations + report.write_operations = operations
    /\ report.read_operations > 0 /\ report.write_operations > 0 =>
         \A p \in {"p50", "p95", "p99"} :
           LET parts == {report.read_latency[p], report.write_latency[p]}
           IN  report.overall[p] \in Min(parts)..Max(parts)

\* One more call can pull a percentile only towards its latency, never across
\* (whatever the order in which the latencies come).
SamplesPullTowardsThem ==
  [][\A p \in Percentages :
       samples # <<>> /\ Len(samples') > Len(samples) =>
         LET new == samples'[Len(samples')].time
         IN  /\ new >= Percentile(p) => Percentile(p)' \in Percentile(p)..new
             /\ new <= Percentile(p) => Percentile(p)' \in new..Percentile(p)
    ]_samples

----------------------------------------------------------------------------
\* What makes the properties above inductive.

CallSet ==
  [call: {"set", "get"}, key: Key, timed: BOOLEAN]
    \cup [call: {"save", "reopen"}, timed: {FALSE}]

Opening == pc \in {"down", "loading", "replaying"}

\* A report closes a benchmark: nothing happens until the next one begins.
Frozen ==
  report # None =>
    /\ Started /\ pc = "idle" /\ ~Threw /\ script = <<>>
    /\ benchmark = "recovery" => report = RecoveryReport
    /\ benchmark = "snapshot" => report.records = Size

\* As long as nothing was thrown the store is sound: the log holds whole records,
\* and memory is what the log promises.
Sound ==
  /\ wal \in Seq(Record) /\ ~orphaned /\ stream = "good" /\ buffered = None
  /\ Opening \/ pc \in {"idle", "appending", "applying", "saving", "renaming"}
  /\ pc \in {"appending", "applying"} => op.value # NoValue
  /\ pc \in {"idle", "appending", "saving", "renaming"} => data = durable
  /\ pc = "applying" => durable = apply_record(data, op)

\* A read that is still to come finds its key, or a write before it writes it.
GetsHit ==
  \A i \in DOMAIN script : script[i].call = "get" =>
    \/ durable[script[i].key] # NoValue
    \/ pc = "appending" /\ op.key = script[i].key
    \/ \E j \in 1..(i - 1) : script[j].call = "set" /\ script[j].key = script[i].key

\* The write, snapshot and recovery benchmarks write their keys one after the
\* other, save behind the last "key", and reopen behind the last "tail".
Counting == benchmark \in {"write", "snapshot", "recovery"}
TailSize == RecoveryTailOperations(operations)
KeyAt(i) ==
  IF i <= operations THEN <<"key", i - 1>> ELSE <<"tail", i - operations - 1>>
Planned ==
  IF benchmark = "write" THEN operations
  ELSE IF benchmark = "snapshot" THEN operations + 1
  ELSE operations + TailSize + 2
Made == Planned - Len(script)
Reopened == Made = operations + TailSize + 2
IsPlanned(i, call) ==
  IF i = operations + 1 THEN call.call = "save"
  ELSE IF i = operations + TailSize + 2 THEN call.call = "reopen"
  ELSE call.call = "set" /\ call.key = KeyAt(IF i <= operations THEN i ELSE i - 1)

\* The log has a record of each call to Set made so far, in that order.
Logged ==
  /\ Made \in 0..Planned
  /\ \A i \in DOMAIN script : IsPlanned(Made + i, script[i])
  /\ Len(wal) = Made - (IF pc = "appending" THEN 1 ELSE 0)
                     - (IF Made > operations THEN 1 ELSE 0) - (IF Reopened THEN 1 ELSE 0)
  /\ pc \in {"appending", "applying"} =>
       op.key = KeyAt(IF pc = "appending" THEN Len(wal) + 1 ELSE Len(wal))
  /\ {k \in Key : durable[k] # NoValue} = {KeyAt(i) : i \in 1..Len(wal)}

\* Snapshot and counter share out the log between them, until a new process
\* starts its own count.
Counted ==
  /\ Opening => Reopened \/ (Made = 0 /\ snap = None)
  /\ ~Reopened =>
       SnapOffset + writes + (IF pc = "applying" THEN 1 ELSE 0) = Len(wal)
  /\ benchmark = "write" =>
       /\ SnapOffset % kSnapshotInterval = 0
       /\ IF pc \in {"saving", "renaming"} THEN writes = kSnapshotInterval
          ELSE writes < kSnapshotInterval

\* From the benchmark's own SaveSnapshot on, the snapshot holds the "key"s.
Saved ==
  /\ Made > operations + 1 => Opening \/ pc \in {"idle", "appending", "applying"}
  /\ Made = operations + 1 => pc \in {"idle", "saving", "renaming"}
  /\ Made > operations + 1 \/ (Made = operations + 1 /\ pc = "idle") =>
       /\ snap \notin {None, Torn} /\ snap.offset = operations
       /\ {k \in Key : snap.map[k] # NoValue} = {KeyAt(i) : i \in 1..operations}

\* The second store counts the records that it replays.
Recovering ==
  Reopened =>
    /\ Opening \/ pc = "idle"
    /\ pc = "loading" => replayed = 0
    /\ pc = "replaying" => replayed = pos - operations /\ pos <= Len(wal)
    /\ pc = "idle" => replayed = TailSize

WorkloadInv ==
  /\ benchmark \in {Benchmarks[i] : i \in 1..Len(Benchmarks)} \cup {"usage", "failed"}
  /\ argument \in Seq(Characters)
  /\ operations \in 0..SizeMax /\ (Started => operations # Rejected)
  /\ script \in Seq(CallSet)
  /\ benchmark = "usage" => Init /\ script = <<>> /\ report = None
  /\ Frozen
  /\ Started /\ ~Threw =>
       Sound /\ GetsHit /\ (Counting => Logged /\ Counted /\ Saved /\ Recovering)
=============================================================================
