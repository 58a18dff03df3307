SPECIFICATION Spec
CONSTANTS
  INDEX_SIZE = 4
  v1 = v1
  v2 = v2
  Value = {v1, v2}
  EntrySize <- MCEntrySize
  FirstPosition = 4
  Level = {0, 1}
  MaxN = 4
  Reader = {"r1"}
  Operation = {"get", "get_sample"}
INVARIANTS
  GetReturnsValue
  SnapshotIsPastState
  IntactNeverFails
  WalksNeverPanic
  FoundOrFailed
  SampleProvesRoot
  LeafIsLogged
