\* One transaction commits two rows, the other splits their leaf.
CONSTANTS
  MaxTxn = 2
  MaxRow = 3
  MaxFaults = 0
  MaxFaultSize = 3
SPECIFICATION Spec
INVARIANT Durable
