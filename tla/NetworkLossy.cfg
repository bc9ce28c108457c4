SPECIFICATION FairSpec
CONSTANTS
  Half = 8
  MAX_PAYLOAD_SIZE = 1
  SendCapacity = 3
  RtTimeout = 1
  SizeMod = 1000
  Capacity = 2
  MAX_RETX_ATTEMPTS = 2
  MAX_WIN = 100
  LINGER = 2
  IsnA = 14
  IsnB = 3
  BytesA = 3
  BytesB = 0
  Isn <- MCIsn
  AppBytes <- MCAppBytes
  Losses = 1
  Duplicates = 1
  Jumps = 0
  Aborts = 0
  MaxNet = 3
  MaxIdle = 1
  Patient = TRUE
INVARIANTS
  RespectsPeerWindow
  EndMeansWholeStream
  SomeoneLingers
  NeverThrows
PROPERTIES
  EveryByteArrives
  BothEndsStop
CHECK_DEADLOCK FALSE
