CONSTANTS
  Key <- MCKey
  Value = {v1}
  NoValue = NoValue
  Torn = Torn
  None = None
  Oversized = {}
  kSnapshotInterval = 2
  MaxLog = 20
  Commands = {"SET", "SNAPSHOT"}
  Faults = {"walError", "snapshotError"}
  Characters <- MCCharacters
  MaxArgument = 4
  Times = {1, 3, 4}
  UllMax = 7
  SizeMax = 6
  max_size = 5
  kDefaultOperations = 2
  mixed_keyspace_size = 2
  TailLimit = 1
  TailShare = 2
SPECIFICATION WorkloadSpec
INVARIANTS WorkloadInv RecoveryTakesBothPaths ReadsHit OneSnapshotPerInterval ReportedSnapshotIsWritten OnlyNumbersRun PercentileIsLeast MixedSplitsItsCalls
PROPERTY SamplesPullTowardsThem
CHECK_DEADLOCK FALSE
