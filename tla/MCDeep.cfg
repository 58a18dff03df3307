SPECIFICATION FairSpec
CONSTANTS
  INDEX_SIZE = 4
  v1 = v1
  v2 = v2
  Value = {v1}
  EntrySize <- MCEntrySize
  FirstPosition = 4
  Level = {0, 2}
  MaxN = 7
  Reader = {"r1"}
  Operation = {"get", "get_sample", "scan"}
INVARIANTS
  QueryInv
  ScanDeliversRange
  SampleProvesRoot
PROPERTY
  CallsReturn
