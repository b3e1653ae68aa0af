CONSTANTS
  Key = {k1}
  Value = {v1, v2}
  NoValue = NoValue
  Torn = Torn
  None = None
  Oversized = {}
  kSnapshotInterval = 2
  MaxLog = 3
  Commands = {"SET", "DELETE", "CLEAR_PERSISTENCE", "CLEAR", "SNAPSHOT"}
  Faults = {"crash", "clearCrash", "torn", "walError", "snapshotError", "clearError", "readError"}
SPECIFICATION FairSpec
INVARIANTS TypeOK Recoverable CommittedSnapshotWhole AckedWriteIsDurable OverdueOnlyAfterError IndInv
PROPERTIES RecoveryRebuilds Responsive
