SPECIFICATION FairSpec
CONSTANTS
  INDEX_SIZE = 4
  v1 = v1
  v2 = v2
  r1 = r1
  r2 = r2
  Value = {v1, v2}
  EntrySize <- MCEntrySize
  FirstPosition = 1
  MaxN = 3
  Kind = {"memkvs", "rocksdb"}
  Fault = {"crash_put", "write"}
  MaxFaults = 1
  Reader = {r1, r2}
  Callback = {"nothing", "read"}
INVARIANTS
  ScanSeesOneState
  AckedAreStored
PROPERTIES
  OpenRecovers
  ImplementsContract
  EveryoneReturns
CHECK_DEADLOCK FALSE
