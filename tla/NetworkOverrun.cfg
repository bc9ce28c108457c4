SPECIFICATION Spec
CONSTANTS
  Half = 8
  MAX_PAYLOAD_SIZE = 1
  SendCapacity = 5
  RtTimeout = 1
  SizeMod = 1000
  Capacity = 2
  MAX_RETX_ATTEMPTS = 1
  MAX_WIN = 100
  LINGER = 2
  IsnA = 14
  IsnB = 3
  BytesA = 5
  BytesB = 0
  Isn <- MCIsn
  AppBytes <- MCAppBytes
  Losses = 0
  Duplicates = 1
  Jumps = 1
  Aborts = 0
  MaxNet = 3
  MaxIdle = 1
  Patient = TRUE
INVARIANT NeverThrows
CHECK_DEADLOCK FALSE
