SPECIFICATION Spec
CONSTANTS
  INDEX_SIZE = 4
  v1 = v1
  v2 = v2
  Value = {v1, v2}
  EntrySize <- MCEntrySize
  FirstPosition = 2
  MaxN = 3
  SlateDevice = {"file"}
  TraitDevice = {}
  Fault = {"put"}
  MaxFaults = 1
INVARIANT
  AckedAreStored
CHECK_DEADLOCK FALSE
