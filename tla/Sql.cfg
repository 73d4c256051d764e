\* Integers of 4 and 8 bits, so that sums overflow; nesting of 18; 20 rows,
\* fewer than the product of three tables.
CONSTANTS
  Int4Bits = 4
  Int8Bits = 8
  MaxDepth = 18
  MaxRows = 20
  Inputs <- MCInputs
SPECIFICATION Spec
INVARIANTS
  TypeOK
  ParsedAsMeant
  HeightIsBounded
  QueryMeetsReference
  RowsFitSchema
  WriteMeetsReference
  OnlyFailedCommitsLeaveTraces
  StoredRowsConform
  
  CompletedIsPermitted
