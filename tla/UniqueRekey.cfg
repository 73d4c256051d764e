\* With the filter saturated from the start every check scans: what remains is
\* the in-flight change of a key.
CONSTANTS
  MaxTxn = 3
  MaxRow = 2
  Value = {k1, k2}
  None = None
  Key <- MCKey
  Hash <- MCHash
  FilterCapacity = 0
SPECIFICATION USpec
INVARIANT UniqueAtRest
