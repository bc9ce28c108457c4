SPECIFICATION Spec
CONSTANTS
  Half = 8
  MAX_PAYLOAD_SIZE = 2
  SendCapacity = 3
  RtTimeout = 1
  SizeMod = 1000
  Isn = 13
  MaxWindow = 3
  MaxBytes = 4
  MaxRetx = 2
  Ahead = {0, 6, 12, 18, 24, 30}
INVARIANTS
  SeqnoInStep
  PendingIsTheFlight
  WithinWindow
  TimerRunsIffPending
  BackoffIsBounded
  UnwrapIsClosest
