# AgentKV in TLA+

AgentKV is a single-process, single-threaded key-value store with a command
line. Its substance is durability: every write goes to a write-ahead log
before it goes to memory, snapshots bound the log that has to be replayed, and
a start rebuilds the map from both. Around that stand a command parser, a
validator of JSON requests and a benchmark program. This directory models all
of them and checks the models with TLC. With TLAPS it proves the store's safety,
that it implements an abstract promise, also inside a session of its clients,
and what is read back from the bytes of its files. Paths below are relative to the
repository's root.

## Inventory

| Part | State | Operations | Talks to |
|---|---|---|---|
| `KVStore` (`src/store/kv_store.cpp`) | the map `data_`, the counter `writes_since_snapshot_` | `Set`, `Get`, `Delete`, `Contains`, `Size`, `Clear`, `ClearPersistence`, `SaveSnapshot`, `MaybeSnapshot`, `LoadSnapshot`, `ReplayFromWal` | log and snapshot, by calls |
| `WriteAheadLog` (`src/persistence/wal.cpp`, `binary_io.h`) | the file, the append stream and its error state | `AppendSet`, `AppendDelete`, `CurrentOffset`, `Clear`, `Replay`, `ReplayFrom` | the file system |
| `Snapshot` (`src/persistence/snapshot.cpp`) | the committed and the temporary file | `Save`, `Load`, `Clear` | the file system |
| Startup (`src/main.cpp`) | none | wiring, recovery, choice of CLI or JSON mode | all of the above |
| `CliServer` (`src/server/cli_server.cpp`) | the loop | `Run`, `Execute` | parser, store |
| `CliParser`, string utilities | none | `Parse`, `Trim`, `ToUpper`, tokenizing | - |
| `JsonEnforcer`, action validation, helpers | none | `ValidateRequest` and the checks under it | - |
| Benchmarks (`bench/`) | the directory of the store under test, the latencies | `ParseOperations`, five workloads, `PercentileNearestRank` | store |
| Tests, scripts | none | - | - |

What is hard: nothing runs concurrently, so all interleaving is between the
process's own file operations and its death, and between one failing call and
the state it leaves for the next commands.

* A crash or error between two of the steps append, memory, temporary file,
  rename; or between truncating the log and removing the snapshot.
* An append that fails: badbit sticks, a fragment may be in the file, and
  libstdc++ keeps unwritten bytes in the buffer that closing the stream tries
  to write again.
* Byte offsets that outlive the log they point into; fragments that later
  records are appended to.
* Bytes that are flushed but not synced when the power fails; files that exist
  but cannot be read when a process starts.
* Garbage in the log: what the parser may accept, and whether it loses the
  frames behind it. Snapshot files of two layouts, or that lost their end.
* ERR as the answer to writes that did not happen, to writes that did, and to
  writes that may yet reach the file: what later answers may then be.
* The order of the validator's rules, each of which relies on what an earlier
  one secured; spacing and arity of command lines.
* Rounding and clamping in the statistics, and limits of one file (the tail of
  the recovery benchmark) that only make sense against those of another (the
  snapshot interval).

`PROJECT.json` lists each of these at its line with the properties that cover it.

What makes each part correct: the *store* answers a write only when a recovery
would find it, and answers reads from a map that recovery agrees with; the
*log* reads back the records that were written, in order, up to a torn end;
the *snapshot* file is always a complete one whose offset matches its map;
*startup* ends with the promised map; the *server* always comes to an answer;
the *parsers* accept exactly the documented commands and requests; a *benchmark*
measures what it is meant to, and reports nothing after a failure.

## Modules

| Module | Models |
|---|---|
| `MapReplay` | the map, records, `apply_record`, and the effect of replaying a range of a log in closed form |
| `KVStore` | the process over its two files, one action per file operation, with every failure |
| `DurableMap` | the abstract promise: a map in memory, a map that survives, a failed write that may still turn up |
| `KVStoreRefinement` | the mapping under which `KVStore` implements `DurableMap` |
| `WalFormat` | the log's bytes: fields, frames, limit, parser, the loop of `ReplayFrom` |
| `SnapshotFormat` | the snapshot's bytes: the present and the legacy layout, headers, entries, limits, `Load` |
| `WalFormatCheck`, `SnapshotFormatCheck` | both formats on every file up to a length |
| `WriteAheadLog` | log and snapshot offset as bytes, with torn appends, cut-short clears and power failures |
| `SnapshotBytes` | `WriteAheadLog` with the snapshot file as bytes too: old versions, lost ends |
| `CliParser`, `CliParserCheck` | from a line to a command; the lines |
| `CliServer` | a session: `CliParser`, the dispatch and the steps of `KVStore` composed, with a client's view |
| `JsonEnforcer`, `JsonEnforcerCheck` | the validator and JSON mode's answers; a client that makes and repairs mistakes |
| `Benchmark` | the program's argument and its statistics |
| `Workloads` | the five benchmarks composed with `KVStore` |
| `KVStoreProofs`, `CliServerProofs` | proofs about the store, its refinement and its sessions |
| `CliParserProofs`, `JsonEnforcerProofs`, `WorkloadsProofs` | proofs about lines and commands, about the validator, and about the benchmarks over the store |
| `FormatProofs` | lemmas about the two formats: what is written and what is read back |
| `FormatCheckProofs`, `BytesProofs` | proofs about any files, and about the log and the snapshot as bytes |
| `MCKVStore`, `MCWriteAheadLog`, `MCSnapshotBytes`, `MCCliParser`, `MCCliServer`, `MCJsonEnforcer`, `MCWorkloads` | instances for TLC |

### KVStore

`wal`, `snap`, `tmp` are the files and survive `Exit` and `Crash`. `data`,
`writes` are `data_` and `writes_since_snapshot_`. `stream` and `buffered` are
the error state of `output_` and the record of which it still holds bytes. `pc`
is the next file operation, `op` the record being written, `reply` the last
answer, `pos` the reader's position during replay. Two variables are history:
`durable` is the map that the effects so far promise to a recovery, `orphaned`
says that the snapshot's offset points into a log since truncated.

A SET is `Set` (request), `AppendRecord`, `AppendFails` or `AppendRefused` (the
stream is bad, or the record is longer than replay would read: a member of
`Oversized`), then `ApplyWrite`, which includes `MaybeSnapshot`'s decision, then perhaps
`SaveTemp` and `CommitSnapshot` or one of their failures. CLEAR PERSISTENCE is
`ClearPersistence`, `ClearWal`, `ClearSnapshot`, `ClearTemp`. Startup is
`Start`, `LoadSnapshot`, `ReplayRecord` once per record, `ReplayStops`. A
snapshot or a log that exists but cannot be opened or read counts as missing
(`LoadUnread`, `ReplayUnread`); the process goes on with what is left, and `pc`
is "unread" until it serves. A log that cannot be opened to append ends the
process at once, which is a `Start` that has not happened.

A crash may cut an append or a temporary file short. While CLEAR PERSISTENCE has
the log closed but not yet truncated, a crash may leave in it what the stream's
buffer held.

Here an offset counts log entries. When replay cannot keep to record boundaries
(`Damaged`: an offset of an older log, or a fragment with records behind it),
`ReplayOffFrame` allows any map as its result; what really happens then is
computed from bytes in `WriteAheadLog`. All properties of `KVStore` about
recovered contents have `Damaged` as an explicit exception, and the two ways
into it are the first two findings below.

The answers of `CliServer` are abstracted to "OK" (any regular output,
including DELETE's 0 or 1) and "ERR". `SaveSnapshot` and `Clear` are calls of
the library that the command line does not offer.

Each fault is a member of `Faults`: `crash` (the process dies between two
steps), `clearCrash` (it may also die between truncating the log and removing
the snapshot), `torn` (an append may be cut short), `walError`,
`snapshotError`, `clearError` (the calls fail), `readError` (a file exists but
cannot be opened or read at a start).

### The bytes

A byte has `Base` values and a length field `Width` bytes, least significant
first. `ReplayFrom(file, offset)` is the list of operations the loop applies,
`Load(file)` what `Snapshot::Load` makes of a file: `NotLoaded`, `Refused` (it
throws) or offset and entries. `WriteAheadLog` keeps `file` as bytes and the
offset as a byte position; steps between two requests are one action. Its
`entries` is a history of what was appended and where it ended, which ties the
bytes to the entries of `KVStore`. `acked` is the operation that was answered
last: it survives crashes and power failures, and only CLEAR PERSISTENCE forgets
it. `PowerLoss` cuts the log at any byte, answered or not, since `flush` does not
sync; a renamed snapshot is taken to survive it. `atRisk` is a history of the
ways in which the answered operation may have been lost. `SnapshotBytes` adds `image`, the bytes of the snapshot
file, next to `snap`, the map and offset that they stand for.

### CliParser and CliServer

A line is a sequence of symbols, of which some are separators; a symbol that is
none stands for a run of characters that no code takes apart. `CliServer`
extends `KVStore` and `CliParser`: an `Execute...` action reads a line, has it
parsed and makes the request, `Work` is a step of the store and writes the
answer when the last one is taken, `Die` and `Restart` end and begin processes.
`explained` is a history: for each key, the values that the commands and answers
so far give a client reason to expect. `SessionInv` is the inductive invariant behind the two
properties of answers.

### JsonEnforcer

A request is a function from the paths that are present to what stands there.
Every validator is the list of its checks in their order, and its result the
first that fails (`Then`). Three inputs are no requests: `Unparsable`, which is
answered with a parse error; `Unprintable`, whose parse error cannot be printed
because it quotes bytes that are no UTF-8; and `OutOfRange`, on which the library
throws what `main` does not catch. The last two end the process without an answer
(`Terminated`). `IsValidJson`, which `main` does not call, is modelled for itself.
`JsonEnforcerCheck` states the contract as a
table of paths, which is what `AcceptsTheContract` compares the validators with.

### Benchmark and Workloads

`main` parses its argument and runs five benchmarks. Each is the script of its
calls to the store (`RunWriteBenchmark(n)` and the others give the scripts that
are possible), over a store in a new directory; the calls take the steps of
`KVStore`. The program's own work may throw as well: there is no room for more
keys than `max_size`, and the directory, the plan or the lists of latencies may
not be had (`Begin`, `Fail`). Either way the program has failed and reports
nothing more. `samples` holds the latencies of the calls that are timed. The last
section of `Workloads` is the invariant of the proofs.

Operators named after a comment "Mutant of ..." stand next to the definition
that they change. They are no part of the model: each is a plausible slip in
that piece of code, and some property fails when it replaces the definition.

## Runs

| Run | Shows |
|---|---|
| `faults` | every command of `KVStore` under all faults: `Recoverable` (snapshot plus log tail give the promised map), `RecoveryRebuilds` (record-by-record replay reaches it), `AckedWriteIsDurable`, `CommittedSnapshotWhole`, `OverdueOnlyAfterError`, `IndInv`, the invariant of the proofs, and `Responsive`: every startup and command comes to an answer |
| `session` | clients over failing appends, failing snapshots, exits, crashes and restarts: `GetIsExplained` and `DeleteIsExplained` (every answer has an explanation in the commands and answers before it), `MemoryCoversDurable` (recovery brings back what `Get` answers, or nothing if cleared since), `ImplementsDurableMap`, and `SessionInv`, the invariant of the proofs |
| `format` | `ParserInvertsWriter`, `FramedGarbageIsSkipped`, `LimitsAligned`, `CutLosesOnlyTheTail` of the log, `OnlyWrittenFilesLoad`, `CutNeverMisleads` of the snapshot, on all files of at most seven bytes |
| `wal_bytes` | over byte offsets, every cut of every append and power failures: `ReplayReadsTheRecords` (replay reads exactly the whole records up to the first fragment), `AckedUnlessDamaged` (an answered write is lost in three ways only: behind a fragment, before a stale offset, or cut off by a power failure before a snapshot held it; a snapshot of a memory that holds it ends the risk), and `FileInv`, the invariant of the proofs |
| `snapshot_bytes` | `SavedSnapshotLoads` (what was saved can be loaded, whatever its length), `StartupRebuilds` (startup rebuilds the map from present, legacy and cut files), and `BytesInv`, the invariant of the proofs |
| `cli_parser` | `TokensAreTheWords`, `NoWordIsLost`, `SpacingDoesNotMatter` on all lines of at most seven symbols |
| `json` | requests with mistakes, and inputs that are none: `AcceptsTheContract`, `ErrorNamesADefect`, `RepairsSucceed` (whoever follows the errors is accepted in the end) |
| `workloads` | the argument: `OnlyNumbersRun`; the benchmarks: `ReadsHit`, `OneSnapshotPerInterval`, `RecoveryTakesBothPaths`, `ReportedSnapshotIsWritten`, `MixedSplitsItsCalls`; the statistics: `PercentileIsLeast`, `SamplesPullTowardsThem`; and `WorkloadInv`, the invariant of the proofs |
| `interval` | violation: the snapshot interval is not kept across restarts |
| `wal_torn`, `wal_clear` | violations: an answered write is not replayed |
| `json_readme` | violation: the README's canonical operations are rejected |

### Bounds

* `faults`: all faults, one key, two values, an interval of 2 and no new command once the
  log or the counter holds `MaxLog` = 3. Two values and "absent" tell the old
  value from the new; three log entries leave room for a snapshot between
  records, a fragment between records, and an automatic snapshot with a tail
  behind it. The bound is on log length, not on behaviour: clears reset it, so
  sequences of commands, failures and restarts of any length are covered. With
  one key no write is unrelated to another; the proofs are about any number of
  keys, and `session` has two. No record is `Oversized` here.
* `session`: two keys, a value of one word and one of two, which for one of the
  keys makes a record that is too long, a log of two entries, and lines for every
  command and every kind of error. Neither the faults `torn`, `clearCrash`,
  `clearError` and `readError` nor the library's `Clear` occur: they break the
  properties of this run (see Findings; `MemoryCoversDurable` is about a memory
  that no call empties alone).
* `format`: six byte values, one-byte fields, limits of four for records and two
  for snapshot fields: two minimal frames or an entry behind a full header fit
  into seven bytes, as do lengths at and just beyond the limits.
* `WriteAheadLog`, `SnapshotBytes`: four byte values, two-byte lengths (so a
  length field can be cut in half and byte order matters), a limit of eight that
  one value meets and another exceeds, two or three appends to one log. In
  `wal_bytes` they have one key: a fragment, a stale offset and a cut each need
  one answered write before or behind them, of either length.
* `cli_parser`: every symbol in the first place, and in the others two
  separators, the one keyword that may stand there and two words. Seven symbols
  hold four words.
* `json`: the requests that conform with few fields below `context`, and up to
  two mistakes anywhere: two rules can fail in either order.
* `workloads`: arguments of up to four characters, numbers of one digit of which
  some overflow each type (`SizeMax` = 6, `UllMax` = 7), up to five operations
  with an interval of 2 while six are more than a vector can hold, and a limit of
  1 on the tail: as 999 is to 1,000.

Deadlock is not checked where the system really stops: files and lines stop
growing at their bounds, a request is accepted, the benchmark program ends.

### Fairness

`FairSpec` asks weak fairness of `Proceed`, the steps the running process takes
by itself, including failing ones. During replay it asks it of the steps that
read the log and not of reads that fail, so that no error ends a loop that would
not end by itself. The code justifies it: nothing in startup or
in a command waits for anything but the file system. No fairness is assumed of
clients, restarts or crashes. `RepairsSucceed` assumes that the client goes on
repairing as long as its request is rejected, which is what the property is
about.

## Findings

* **Torn append, then more appends** (`wal_torn`, `src/persistence/wal.cpp:97`).
  The log is reopened to append behind the fragment; its length field swallows
  the beginning of the next record. Answered writes are lost or misread at the
  next start, until a snapshot is saved.
* **CLEAR PERSISTENCE cut short** (`wal_clear`, `src/store/kv_store.cpp:73`). The
  log is truncated before the snapshot is removed. If only the first happens,
  the old offset makes the next recovery skip answered writes.
* **Interval across restarts** (`interval`, `src/store/kv_store.cpp:14`). The
  counter starts at zero in every process, whatever was replayed.
* **README and JSON mode** (`json_readme`, `src/parser/json_enforcer.cpp:109`).
  None of the requests that README.md gives as canonical is accepted, the `set`
  it sends to JSON mode included; `log_step` and `set_state` are.

Four more disagreements are parts of the models, which the properties that pass
name as exceptions:

* *Power failures.* `README.md:394` speaks of "durable replay records" for
  successful writes, but the log is flushed and never synced
  (`src/persistence/wal.cpp:120`). A power failure can take an answered write at
  a record boundary, where replay sees nothing missing (`AckedCutOff`, the third
  way of `AckedUnlessDamaged`).
* *Files that cannot be read.* `README.md:257` has startup load the snapshot
  "when present". One that is present and cannot be opened loads as empty
  (`src/persistence/snapshot.cpp:137`), a log that cannot be opened replays
  nothing (`wal.cpp:203`), startup goes on with part of the data, and the next
  snapshot replaces the file that could not be read. `LoadUnread` and
  `ReplayUnread` are the steps; `RecoveryRebuilds` is about starts that read
  their files.
* *The benchmark's argument.* "operation_count must be a positive integer"
  (`bench/benchmark.cpp:34`), but a minus sign is looked for in the first place
  only, and `std::stoull` skips spaces and negates modulo 2^64: `" -5"` asks for
  2^64 - 5 operations, in the code as in the model. `OnlyNumbersRun` admits the
  complement behind exactly that: a space and one minus sign.
* *Malformed JSON.* Parse errors are to be reported "separately"
  (`src/main.cpp:67`), but where the input is no UTF-8 `response.dump()` throws
  inside the handler (`main.cpp:79`), and where a number is out of range `parse`
  throws what the handler does not catch (`main.cpp:71`): the process ends
  without an answer.

## Proofs

All theorems hold for every value of the constants that the `ASSUME`s of the
modules admit. These say that the markers (`Torn`, `None`, `NoValue`,
`Malformed`, `NotLoaded`, `Refused`) are none of the values they mark, that the
interval is positive, and that the sets of commands and faults are the known
ones. What else they ask:

* `LinesAssumption` in `CliServer`: the keys and values that a line names are keys
  and values of the map.
* `BytesAssumption`, `LimitAssumption`, `SnapshotAssumption`: a byte has at least
  three values (two record tags must fit), and the limits, the magic number and
  the version fit into a length field. In the code these are 256, four bytes and
  64 MiB.
* `StringsAssumption`: keys and values are sequences of bytes. The sets may be
  infinite for the theorems about the log.
* `SizesAssumption` in `SnapshotBytes`: there are fewer keys than the magic
  number, about 8 * 10^8, says. A legacy snapshot begins with its entry count,
  and one of just that many entries would be taken for a present one. The code
  has no guard against it; it is out of reach of a map that is held in memory
  only because of its size. The limit on a record is at most the limit on a
  snapshot's field (they are equal in the code), and the longest log that the
  bound on appends admits has a length that fits into the offset's field. The
  proofs about the log alone do not use it.
* `SpaceAssumption`: the space is a separator. What else separates, what symbols
  there are and what `Upper` makes of them is open.
* `JsonAssumption`, `NameAssumption`, `SeedsAssumption`: an object and other
  values are no texts, the field names of the contract are names, and the client
  begins with a request. There may be any further texts and names.
* `OversizedAssumption`: the records that are too long are records.
* `WorkloadAssumption`, `KeysAssumption`, `WidthAssumption`: the limit on the tail
  is positive and below the interval (999 and 1,000), `max_size` is a number, the keys that the
  benchmarks write are keys of the map, and `SizeMax` is at most `UllMax`.

### The store

`KVStoreProofs` shows that every behaviour of `Spec` has
`TypeOK`, `CommittedSnapshotWhole`, `Recoverable`, `RecoveryRebuilds`,
`AckedWriteIsDurable`, `OverdueOnlyAfterError` and `IndInv`; it has
`MemoryCoversDurable` if the library's `Clear` is not called, CLEAR
PERSISTENCE does not fail half way and the files can be read at every start.
`RefinementTheorem` shows that `Spec` implements `DurableMap` if moreover no fault
tears the log or cuts a CLEAR PERSISTENCE short; there the library's `Clear` is
admitted.

The induction has four layers; the first three make up `IndInv`.

1. `WellFormed`: types together with `CommittedSnapshotWhole`. Neither stands
   alone: loading a snapshot is well typed only if it is not a torn file.
2. `RecoveryInv`: `Recoverable` speaks of the files between steps, so it needs
   to know what the pending operation will do to them. `TempIsCurrent` says the
   file about to be renamed holds the current map and the log's end;
   `OnlySnapshotLeft` that the log is empty until the snapshot is removed;
   `OffsetInLog` that an append lies behind the snapshot's offset; and
   `ReplayedSoFar` is the loop invariant of `ReplayFrom`.
3. `WriteInv`: the write in progress is promised from the append on and in
   memory from its application to the answer.
4. `Covering`: what `MemoryCoversDurable` says, through all phases of a serving
   process; the key of a record that is in the log but not yet in memory is
   excepted, and `WriteInv` brings it back.

The refinement needs one more invariant, `Clean`: the log is whole, an offset
is stale only while CLEAR PERSISTENCE is under way, and the stream's buffer is
empty when a snapshot is about to be renamed. With it the disk map is `durable`,
and each action is one of `DurableMap` or a stutter: an append is the write (its
application to memory is none), a rename the checkpoint, the truncation of the
log the forgetting, a crash or an exit the restart.

The first lemmas of `KVStoreProofs` carry the data: one more record in the range
is one `apply_record`, a torn entry is none, and an append changes nothing
before it. `Replayed` is defined in closed form (the newest record of a key
decides); `ReplayOneMore` shows that the closed form is the loop.

### Sessions

`CliServerProofs` first shows that a session takes only steps of `KVStore`
(`SessionTheorem`), so that the theorems above carry over. `SessionInv` then
relates the client's expectations to the store: `explained` contains what the
map has for each key while the store is idle; while a write is under way, what
the map will have; and whatever the log or the stream's buffer may bring back at
a restart. `GetIsExplained` and `DeleteIsExplained` follow from it for every
vocabulary of lines, as long as no fault tears the log, cuts a CLEAR
PERSISTENCE short or fails it, or keeps a file from being read.

### The bytes

The codecs, the parser, the replay loop and the loading loop are recursive
functions, and what they compute is proved by induction: over sets of numbers
with `SetInduction` (a set that has 0, and with n has n + 1, has all), and
backwards from a file's end. Each loop's function is shown to exist and to satisfy
its own equation (`ReplayUnrolled`, `LoadUnrolled`, `AppliedUnrolled`), after
which the proofs use the equation only.

* *Format.* `DecodeEncoded` and `EncodeDecoded`: length fields of any base and
  width are read back as written, and every field is one that was written.
  From these, `ParserTheorem` (the parser accepts exactly what a writer writes),
  `CutTheorem` (a log that lost its end loses only records from its end),
  `GarbageTheorem` (a frame of garbage changes nothing behind it), `LimitsTheorem`,
  `WrittenTheorem` (what loads as a snapshot was written as one) and
  `SnapshotCutTheorem` (no prefix of a snapshot loads as something else).
* *Log.* `FileInv`: the log is the frames and fragments in `entries`, one behind
  the other; the offset of a snapshot lies between two of them unless `stale`;
  the operation answered last, unless it is `atRisk`, is in memory, and it is in
  the snapshot or an entry behind it with nothing but fragments behind both
  (`AckedIsKept`, `AckedInFiles`). It is needed because `ReplayReadsTheRecords` says nothing of the bytes before the
  offset, and a power failure may expose any of them. `ReplayTheorem` and
  `AckedTheorem` follow, for all faults.
* *Snapshot.* `BytesInv` has of the log that it is whole, that the snapshot was
  saved at the end of an entry and that its offset is that end or zero; of the
  image that it is exactly what `Save` or the older version writes for the
  snapshot's map and offset, or a prefix that does not load; and of the maps
  that they hold only keys and values that fit into a record, without which
  `Load` would refuse what `Save` has written. `SavedTheorem` and `StartupTheorem`
  follow. For a legacy or cut snapshot the log is replayed from its beginning:
  `AppliedTwice` shows that replaying over a map what made it changes nothing.

### Lines

`WordsOf` says that the tokens of a string are its words. The code goes over the
line once, from the left; the words are defined by where they begin and by how
many have begun before, so that neither definition contains the other. The proof
goes from the right: of the positions between two words, none is the last from
which the tokens are not the words (`TokensFromOn`). It does so for a string
within another with only separators around it (`Within`), of which the string
itself and what `Trim` leaves of it are two cases.

`WordAppended` says what one more word behind a separator does to the words;
with it a line typed with single spaces has the same words (`PlainKeepsWords`),
and the command is one of the words alone. `TokensTheorem`, `WordsTheorem` and
`SpacingTheorem` follow, for lines of any length.

### Requests

`JsonEnforcerProofs` has nothing inductive about the validator, which is one
function of the request: the work is to see that a few dozen checks in a row and
a table of paths say the same.

* Every check is *sound*: it answers Ok, or an error whose rule and path are a
  defect of the request (`MissingSound`, `TypeSound`, `ValueSound`,
  `UnknownSound`); a chain of sound checks is sound (`ThenSound`).
  `ErrorAlwaysNamesADefect` follows.
* Every object's checks are passed exactly if its fields are `Right` and none is
  unknown, one lemma per validator of the code (`MetadataJudged` to
  `RequestJudged`).
* That all objects are right is the contract (`AllRightIsTheContract`). A path
  that the contract does not admit has a shortest prefix that it does not admit;
  the object above that prefix is admitted, and its check for unknown fields
  finds the prefix. `AlwaysAcceptsTheContract` follows.
* `InputIsARequest`, that every field present has an object to stand in, is the
  invariant: mistakes and repairs keep it (`MistakeKeepsRequest`,
  `RepairKeepsRequest`). Without it the shortest path would hang in the air.

### Benchmarks

A benchmark's last report says something of the store only through everything
that happened before it. `WorkloadInv` says it of every state, as long as no call
threw. A benchmark's start that could not read its (empty) files is excluded:

* `Sound`: the log is whole and memory is what it promises. Most of it comes
  from `KVStoreProofs`, whose invariants hold here because every step of a
  benchmark is one of `KVStore` or a new directory.
* `GetsHit`: each key still to be read is in the map, or is written by a call
  before the read. It gives `ReadsTheorem`.
* `Logged`: the log has the records of the calls made so far, in the order of
  `KeyAt`, and the map their keys.
* `Counted`: what the snapshot covers and the counter of `MaybeSnapshot` add up to
  the log, and in the write benchmark the former is a multiple of the interval.
  It gives `IntervalTheorem`.
* `Saved` and `Recovering`: the tail is shorter than the interval, so that the
  snapshot that the benchmark saved itself stays the newest, and the second
  store counts what it replays. They give `RecoveryPathTheorem`.

`StoreSteps` and the lemmas named `Work...` and `Call...` show that each part
survives a step of the store and a call; `WriteScript` to `MixedScript`, that
each benchmark begins with it.

`NumberTheorem` is about `std::stoull` on arguments of any length. The ends of
the two scans are least elements of sets of positions (`LeastNatural`,
`ScanEnds`), and the recursive function that reads digits exists by induction
(`UpToExists`).

### Only model-checked

* Liveness (`Responsive`, `RepairsSucceed`), which is out of the prover's reach.
* `PercentileIsLeast`, `MixedSplitsItsCalls` and `SamplesPullTowardsThem`: the
  latencies are sorted with `SortSeq` and split with `SelectSeq`, for which the
  prover has no definition.
* The violations, of which a counterexample is all there is to show.

## Not modelled

* Power failures outside the log: `WriteAheadLog` cuts the log, but takes a
  renamed snapshot to be on the disk.
* A store without a log or without a snapshot, as the unit tests construct it.
* Wording of outputs and messages, except what tells answers apart; which of
  several unknown fields an error names.
* In the benchmarks: throughput, file sizes, the formatting of results, and the
  attempts at finding a free directory name. Averages are rounded down, and the
  ceiling in the percentile is that of the exact quotient, which the
  floating-point expression gives for the percentages in use (50, 95, 99) and
  realistic numbers of samples.
* Tests and scripts, read as statements of intent.

## What is left

Prove the percentiles right from what sorting promises (an ordered sequence of
the same elements) instead of from `SortSeq`.
