CONSTANTS
  s1 = s1  s2 = s2  t1 = t1  t2 = t2  t3 = t3  b1 = b1  b2 = b2
  Stores <- MCStores
  Threads <- MCThreads
  Blocks <- MCBlocks
  Home <- MCApart
  MaxFaults = 1
  None = None
  Missing = Missing
SYMMETRY ApartSymmetry
SPECIFICATION Spec
INVARIANTS
  TypeOK
  KnownBlocksStored
  IndexKeepsBlocks
  FlushListsBlocks
