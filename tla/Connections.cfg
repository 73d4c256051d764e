\* Two connections, an address and two users in a table of two: parallel
\* attempts, locks that outlast the window, a full table.
CONSTANTS
  Conn = {c1, c2}
  Address = {a}
  User = {u, v}
  MaxTracked = 2
  MaxFailures = 2
  Window = 2
  Lockout = 3
  Handshake = 1
  MaxLimit = 2

SPECIFICATION Spec

INVARIANTS
  TypeOK
  ServedAsConfigured
  FailuresAreBounded

PROPERTIES
  LocksHold
  HandshakeEnds
