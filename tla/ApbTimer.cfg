SPECIFICATION FairSpec
CONSTANTS
  WordMod = 4
  Addresses = {0, 16, 32, 48}
  X = X
INVARIANT TypeOK
PROPERTIES ReadsFresh EnableReloads TransactionEnds HitsInterrupt
