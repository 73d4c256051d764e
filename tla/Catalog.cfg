\* Two sessions, two names and two ids: one rolls a creation back while the
\* other creates, drops or recreates.
CONSTANTS
  Session = {s1, s2}
  Name = {a, b}
  MaxId = 2
  MaxDoubt = 1
SYMMETRY Symmetry
SPECIFICATION Spec
INVARIANTS
  TypeOK
  
  ListedTablesAreSound
