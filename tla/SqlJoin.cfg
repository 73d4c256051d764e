\* Joins of a and b, of every type.
CONSTANTS
  Int4Bits = 4
  Int8Bits = 8
  MaxDepth = 18
  MaxRows = 20
  Inputs <- MCJoins
SPECIFICATION Spec
INVARIANT JoinedRowsAreWhole
