\* A named and the unnamed statement, one portal, and results of up to three
\* rows, fetched in up to three pieces.
CONSTANTS
  Sql <- MCSql
  Statement = {unnamed, s}
  Unnamed = unnamed
  Portal = {p}
  MaxRows = 3
SPECIFICATION Spec
INVARIANTS
  TypeOK
  StatusIsTrueUnlessSpliced
  PortalsStayBound
  CountsAreWhole
