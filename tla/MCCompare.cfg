SPECIFICATION FairSpec
CONSTANTS
  INDEX_SIZE = 4
  v1 = v1
  v2 = v2
  Value = {v1, v2}
  EntrySize <- MCEntrySize
  FirstPosition = 1
  MaxN = 5
INVARIANTS
  CompareIsExact
  SearchFindsLatest
PROPERTY
  SearchEnds
