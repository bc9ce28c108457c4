SPECIFICATION Spec
CONSTANTS
  ETHERNET_BROADCAST = 99
  cache_ttl_ms = 1
  broadcast_interval_ms = 2
  Hosts = {1, 2}
  Hw <- MCHw
  NextHops <- TwoHops
  MaxDatagrams = 2
  MaxClock = 2
  Losses = 1
CHECK_DEADLOCK FALSE
INVARIANTS
  EveryDatagramOnce
  EntriesAreFresh
  RequestsAreSpaced
