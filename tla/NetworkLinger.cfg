SPECIFICATION Spec
CONSTANTS
  Half = 8
  MAX_PAYLOAD_SIZE = 1
  SendCapacity = 2
  RtTimeout = 1
  SizeMod = 1000
  Capacity = 1
  MAX_RETX_ATTEMPTS = 1
  MAX_WIN = 100
  LINGER = 2
  IsnA = 14
  IsnB = 3
  BytesA = 0
  BytesB = 1
  Isn <- MCIsn
  AppBytes <- MCAppBytes
  Losses = 1
  Duplicates = 0
  Jumps = 0
  Aborts = 0
  MaxNet = 3
  MaxIdle = 1
  Patient = TRUE
INVARIANT LingersLongEnough
CHECK_DEADLOCK FALSE
