SPECIFICATION Spec
CONSTANTS
  INDEX_SIZE = 7
  MaxN = 127
INVARIANTS
  SpineIsAChain
  RootsTileLeaves
  FormulasDescribeTree
  DistancesAreHops
PROPERTIES
  LeftsAreOldRoots
  PbstsArePermanent
CHECK_DEADLOCK FALSE
