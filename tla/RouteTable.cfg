SPECIFICATION Spec
CONSTANTS
  ETHERNET_BROADCAST = 99
  cache_ttl_ms = 1
  broadcast_interval_ms = 1
  Width = 3
  MaxRoutes = 3
CHECK_DEADLOCK FALSE
INVARIANTS
  FindsTheLongestMatch
