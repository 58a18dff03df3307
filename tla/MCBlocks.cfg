SPECIFICATION Spec
CONSTANTS
  INDEX_SIZE = 4
  v1 = v1
  v2 = v2
  Value = {v1, v2}
  EntrySize <- MCEntrySize
  FirstPosition = 2
  MaxN = 3
  SlateDevice = {"memory", "file", "append"}
  TraitDevice = {"memory"}
  Fault = {"crash", "put", "reload"}
  MaxFaults = 1
INVARIANT
  FaultsSpareOldEntries
PROPERTIES
  OpenRecovers
  ReadingHeals
  ImplementsContract
CHECK_DEADLOCK FALSE
