\* Four transactions on one row: a reader that stays behind while two writers
\* follow each other and a third prunes, with an abort or a failed commit.
\* Three on two rows: one that writes both, a reader that must see both or
\* neither, and a second writer.
CONSTANTS
  MaxTxn = 4
  MaxRow = 2
  Value = {a, b}
  None = None
SPECIFICATION Spec
CONSTRAINT FourOnOneOrThreeOnTwo
SYMMETRY Symmetry
INVARIANTS
  TypeOK
  OneWriterPerRow
  OneVersionSeen
  VerdictIsExact
PROPERTIES
  ReadsAreStable
  SoloWriterCompacts
  ImplementsSnapshotStore
