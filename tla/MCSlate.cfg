SPECIFICATION SlateSpec
CONSTANTS
  INDEX_SIZE = 4
  v1 = v1
  v2 = v2
  Value = {v1, v2}
  EntrySize <- MCEntrySize
  PayloadSize <- MCPayloadSize
  FirstPosition = 4
  Level = {0, 1, 2}
  MaxN = 8
INVARIANTS
  TypeOK
  WriterInv
  NeverPanics
  CacheIsReloaded
  RootsAuthenticateLog
  AddressesResolve
  EntriesAreAdjacent
  ReadersAgree
  ValuesProveRoot
PROPERTIES
  ImplementsLog
  KeepsContract
