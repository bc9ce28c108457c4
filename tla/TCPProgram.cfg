SPECIFICATION ProgramFairSpec
CONSTANTS
  Half = 8
  MAX_PAYLOAD_SIZE = 2
  SendCapacity = 2
  RtTimeout = 1
  SizeMod = 1000
  Capacity = 2
  MAX_RETX_ATTEMPTS = 0
  MAX_WIN = 100
  LINGER = 2
  IsnA = 14
  IsnB = 3
  BytesA = 2
  BytesB = 0
  Isn <- MCIsn
  AppBytes <- MCAppBytes
  Losses = 0
  Duplicates = 0
  Jumps = 0
  Aborts = 1
  MaxNet = 2
  MaxIdle = 0
  Patient = FALSE
  PipeRoom = 1
  CopyCapacity = 1
  Mine = {"A", "B"}
  Failures = 1
INVARIANTS
  BytesInOrder
  FailsOnlyAfterReset
  CleanReturnIsComplete

PROPERTIES ImplementsTCPNetwork ProgramEnds
CHECK_DEADLOCK FALSE
