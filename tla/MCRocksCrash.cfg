SPECIFICATION Spec
CONSTANTS
  INDEX_SIZE = 4
  v1 = v1
  v2 = v2
  r1 = r1
  r2 = r2
  Value = {v1, v2}
  EntrySize <- MCEntrySize
  FirstPosition = 1
  MaxN = 3
  Kind = {"rocksdb"}
  Fault = {"crash_truncate"}
  MaxFaults = 1
  Reader = {}
  Callback = {"nothing"}
INVARIANT
  LastFindsAll
