\* Two transactions and three rows: one commits two rows, the other splits
\* their leaf, so that a committed row moves to a page of its own. Two rows
\* beyond a torn crash.
CONSTANTS
  MaxTxn = 2
  MaxRow = 3
  MaxFaults = 1
  MaxFaultSize = 3

CONSTRAINTS NotExposed SmallWhenTorn SmallWithFaults

SPECIFICATION Spec

INVARIANTS
  TypeOK
  DurableUnlessTorn
  AllOrNothing
  IdsAreFresh
