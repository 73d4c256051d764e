CONSTANTS
  Orders <- MCOrders
  Payloads <- MCPayloads
  PageSpace = 12
  SlotSize = 1
  LeafHeader = 1
  MaxInline = 2
  OverflowDescriptor = 2
  OverflowChunk = 2
  InternalItem = 5
  MaxChanges = 8
SPECIFICATION Spec
INVARIANTS TypeOK SearchesAgree PagesAccounted InsertionsSucceed
