\* One session is enough: DROP TABLE of a table that exists and one that does
\* not.
CONSTANTS
  Session = {s1}
  Name = {a, b}
  MaxId = 2
  MaxDoubt = 0
SPECIFICATION Spec
INVARIANT IndexAtRest
