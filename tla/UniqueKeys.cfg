\* Three transactions, two rows and two keys: a holder of a key, one that
\* deletes or changes it, and a third that takes the key meanwhile. The filter
\* saturates at its third addition.
CONSTANTS
  MaxTxn = 3
  MaxRow = 2
  Value = {k1, k2}
  None = None
  Key <- MCKey
  Hash <- MCHash
  FilterCapacity = 2
SYMMETRY Symmetry
SPECIFICATION USpec
INVARIANTS
  UTypeOK
  DuplicatesHaveTwoOrigins
  FilterLossHasTwoOrigins
