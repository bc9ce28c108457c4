SPECIFICATION Spec
CONSTANTS
  Capacity = 3
  MaxWrite = 4
  MaxBytes = 6
  MaxChunks = 4
INVARIANTS
  BufferHoldsTheUnreadBytes
  PeekReturnsTheNextBytes
