SPECIFICATION Spec
CONSTANTS
  Clients <- MCClients
  Segments <- MCSegments
  IP <- MCIP
  Port <- MCPort
  MAC <- MCMAC
  NextHop <- MCNextHop
  ETHERNET_BROADCAST <- MCBroadcast
  DamagedWords <- MCDamagedWords
  MaxWrites = 2
  MaxClock = 1
  Faults = 1
  cache_ttl_ms = 1
  broadcast_interval_ms = 1
INVARIANTS
  ReadsWhatThePeerWrote
  HearsThePeer
  KeepsOnlyWhatItCannotSend
CHECK_DEADLOCK FALSE
