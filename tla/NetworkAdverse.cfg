SPECIFICATION Spec
CONSTANTS
  Half = 8
  MAX_PAYLOAD_SIZE = 1
  SendCapacity = 3
  RtTimeout = 1
  SizeMod = 1000
  Capacity = 2
  MAX_RETX_ATTEMPTS = 1
  MAX_WIN = 100
  LINGER = 2
  IsnA = 3
  IsnB = 14
  BytesA = 0
  BytesB = 3
  Isn <- MCIsn
  AppBytes <- MCAppBytes
  Losses = 0
  Duplicates = 0
  Jumps = 1
  Aborts = 1
  MaxNet = 2
  MaxIdle = 0
  Patient = FALSE
INVARIANTS
  BytesArriveInPlace
  AckedWasReceived
  CleanCloseIsComplete
PROPERTY
  FollowsTheDiagram
CHECK_DEADLOCK FALSE
