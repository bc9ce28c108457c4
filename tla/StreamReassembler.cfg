SPECIFICATION Spec
CONSTANTS
  Capacity = 4
  StreamLength = 6
  Byte <- MCByte
  Stream <- MCStream
INVARIANTS
  OutputIsPrefix
  SegmentsDisjoint
  SegmentsInWindow
  CountIsExact
  EndsOnlyAtTheEnd
PROPERTIES
  ImplementsReassembly
CHECK_DEADLOCK FALSE
