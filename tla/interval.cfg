CONSTANTS
  Key = {k1, k2}
  Value = {v1}
  NoValue = NoValue
  Torn = Torn
  None = None
  Oversized = {}
  kSnapshotInterval = 2
  MaxLog = 3
  Commands = {"SET", "DELETE"}
  Faults = {}
SPECIFICATION Spec
INVARIANT SnapshotEveryInterval
