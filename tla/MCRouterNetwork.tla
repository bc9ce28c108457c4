-------------------------- MODULE MCRouterNetwork ---------------------------
(***************************************************************************)
(* Hosts a and b, routers p and q in between:  a --0-- p --1-- q --2-- b.   *)
(* The default route of each router is the other, so the address 7, which   *)
(* nobody has, goes back and forth between them.                            *)
(***************************************************************************)
EXTENDS RouterNetwork

Port(ip, segment) == [hw |-> 100 + ip, ip |-> ip, segment |-> segment]

MCPorts ==
  [n \in {"a", "b", "p", "q"} |->
     CASE n = "a" -> [i \in {0} |-> Port(0, 0)]
       [] n = "b" -> [i \in {0} |-> Port(5, 2)]
       [] n = "p" -> [i \in {0, 1} |-> IF i = 0 THEN Port(1, 0) ELSE Port(2, 1)]
       [] n = "q" -> [i \in {0, 1} |-> IF i = 0 THEN Port(3, 1) ELSE Port(4, 2)]]

MCRoutes ==
  [n \in {"p", "q"} |->
     IF n = "p" THEN << Entry(0, 2, {}, 0), Entry(2, 2, {}, 1), Entry(0, 0, {3}, 1) >>
     ELSE << Entry(0, 0, {2}, 0), Entry(2, 2, {}, 0), Entry(4, 2, {}, 1) >>]

MCGateway == [h \in {"a", "b"} |-> IF h = "a" THEN 1 ELSE 4]
MCDestinations == [h \in {"a", "b"} |-> IF h = "a" THEN {5, 7} ELSE {0}]
MCDistance(g, h) == 2
MCMaxDatagrams == [h \in {"a", "b"} |-> IF h = "a" THEN 2 ELSE 1]
=============================================================================
