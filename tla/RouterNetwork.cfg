SPECIFICATION Spec
CONSTANTS
  ETHERNET_BROADCAST = 99
  cache_ttl_ms = 1
  broadcast_interval_ms = 1
  Width = 3
  Routers = {"p", "q"}
  Hosts = {"a", "b"}
  Ports <- MCPorts
  Routes <- MCRoutes
  Gateway <- MCGateway
  Destinations <- MCDestinations
  Ttls = {2, 3}
  Distance <- MCDistance
  MaxDatagrams <- MCMaxDatagrams
CHECK_DEADLOCK FALSE
INVARIANTS
  EveryDatagramOnce
  ArrivesOverTheRoute
  DroppedForAReason
PROPERTIES
  EveryDatagramSettles
