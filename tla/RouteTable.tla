----------------------------- MODULE RouteTable -----------------------------
(***************************************************************************)
(* The trie against the definition of a longest prefix match: a router is   *)
(* given any routes in any order, with overlapping and repeated prefixes    *)
(* and bits set beyond the prefix.                                          *)
(***************************************************************************)
EXTENDS Router

CONSTANT MaxRoutes     \* bound: the routes added

ASSUME RoutesAssumption == MaxRoutes \in Nat

VARIABLES
  router,    \* the Router
  routes     \* the arguments of its add_route calls

vars == << router, routes >>

Init ==
  /\ router = NewRouter([i \in {} |-> << >>])
  /\ routes = << >>

(* A route's interface tells it from the others. *)
AddRoute(route_prefix, prefix_length) ==
  /\ Len(routes) < MaxRoutes
  /\ router' = add_route(router, route_prefix, prefix_length, {}, Len(routes))
  /\ routes' = Append(routes, Entry(route_prefix, prefix_length, {}, Len(routes)))

Next == \E route_prefix \in IPs, prefix_length \in 0..Width : AddRoute(route_prefix, prefix_length)

Spec == Init /\ [][Next]_vars
-----------------------------------------------------------------------------
Matches(entry, ip) ==
  LET unit == 2^(Width - entry.prefix_length)
  IN  ip \div unit = entry.route_prefix \div unit

(* The route that applies: the longest that matches, and of equals the last added. *)
Applies(i, ip) ==
  /\ Matches(routes[i], ip)
  /\ \A j \in DOMAIN routes : Matches(routes[j], ip) =>
       \/ routes[j].prefix_length < routes[i].prefix_length
       \/ routes[j].prefix_length = routes[i].prefix_length /\ j <= i

(* Trie::longest_prefix_match finds "the route with the longest             *)
(* prefix_length that matches" (router.hh), for every address, and none     *)
(* when no route matches: the walk passes nodes without entries, stops in   *)
(* time, and falls back to the default only when it found nothing.          *)
FindsTheLongestMatch ==
  \A ip \in IPs :
    longest_prefix_match(router.route_table, ip) = {routes[i] : i \in {j \in DOMAIN routes : Applies(j, ip)}}
=============================================================================
