--------------------------- MODULE RouterNetwork ----------------------------
(***************************************************************************)
(* Routers and hosts on several Ethernets, as in network_simulator.cc.  A   *)
(* host is a node with one interface that never calls route(); what its     *)
(* interface queues is read by Host::check.  The simulator's loop takes     *)
(* turns; here routers, hosts and wires act in any order.                   *)
(***************************************************************************)
EXTENDS Router

CONSTANTS
  Routers, Hosts,     \* the nodes
  Ports,              \* of each node: 0..n-1 -> [hw, ip, segment]
  Routes,             \* of each router: the sequence of its entries
  Gateway,            \* of each host: its next hop
  Destinations,       \* of each host: the addresses it sends to
  Ttls,               \* the times to live it uses
  Distance(_, _),     \* the routers between two hosts
  MaxDatagrams        \* of each host: bound on the datagrams it sends

Nodes == Routers \cup Hosts
Address(h) == Ports[h][0].ip
Segments == UNION {{Ports[n][i].segment : i \in DOMAIN Ports[n]} : n \in Nodes}

ASSUME TopologyAssumption ==
  /\ Routers \cap Hosts = {}
  /\ \A h \in Hosts : DOMAIN Ports[h] = {0} /\ MaxDatagrams[h] \in Nat

VARIABLES
  node,        \* the Router record of each node
  wire,        \* the frames on the way on each segment
  sent,        \* how many datagrams each host has sent
  received,    \* the datagrams Host::check has taken at each host
  dropped      \* the datagrams route_one_datagram has dropped

vars == << node, wire, sent, received, dropped >>

Init ==
  /\ node = [n \in Nodes |->
       LET new == NewRouter([i \in DOMAIN Ports[n] |-> NewInterface(Ports[n][i].hw, Ports[n][i].ip)])
           add(r, e) == add_route(r, e.route_prefix, e.prefix_length, e.next_hop, e.interface_num)
       IN  IF n \in Routers THEN FoldLeft(add, new, Routes[n]) ELSE new]
  /\ wire = [s \in Segments |-> << >>]
  /\ sent = [h \in Hosts |-> 0]
  /\ received = [h \in Hosts |-> {}]
  /\ dropped = {}

Drained(r) == [r EXCEPT !.interfaces = [i \in DOMAIN @ |-> [@[i] EXCEPT !.frames_out = << >>]]]

(* The frames node n, which is r now, has queued for a segment. *)
Queued(n, r, s) ==
  FlattenSeq([k \in 1..Cardinality(DOMAIN Ports[n]) |->
                IF Ports[n][k - 1].segment = s THEN r.interfaces[k - 1].frames_out ELSE << >>])

(* Node n has become r, and what it has queued goes to the wires. *)
Becomes(n, r) ==
  /\ node' = [node EXCEPT ![n] = Drained(r)]
  /\ wire' = [s \in Segments |-> wire[s] \o Queued(n, r, s)]

(* Host::send_to. *)
Send(h, dst, ttl) ==
  /\ sent[h] < MaxDatagrams[h]
  /\ sent' = [sent EXCEPT ![h] = @ + 1]
  /\ LET dgram == [src |-> h, id |-> sent'[h], dst |-> dst, ttl |-> ttl, ttl0 |-> ttl]
     IN  Becomes(h, [node[h] EXCEPT !.interfaces[0] = send_datagram(@, dgram, Gateway[h])])
  /\ UNCHANGED << received, dropped >>

(* Host::check. *)
Check(h) ==
  /\ node[h].datagrams_out[0] # << >>
  /\ received' = [received EXCEPT ![h] = @ \cup ToSet(node[h].datagrams_out[0])]
  /\ node' = [node EXCEPT ![h].datagrams_out[0] = << >>]
  /\ UNCHANGED << wire, sent, dropped >>

Route(n) ==
  /\ waiting(node[n]) # << >>
  /\ Becomes(n, route(node[n]))
  /\ dropped' = dropped \cup {d \in ToSet(waiting(node[n])) : lapses(node[n], d)}
  /\ UNCHANGED << sent, received >>

(* The interfaces on a segment but the one the frame is from. *)
Listeners(s, frame) ==
  {l \in UNION {{n} \X DOMAIN Ports[n] : n \in Nodes} :
     Ports[l[1]][l[2]].segment = s /\ Ports[l[1]][l[2]].hw # frame.src}

Deliver(s) ==
  /\ wire[s] # << >>
  /\ LET frame == Head(wire[s])
         listeners == Listeners(s, frame)
         after == [l \in listeners |-> async_recv_frame(node[l[1]], l[2], frame)]
     IN  /\ node' = [n \in Nodes |-> IF \E l \in listeners : l[1] = n
                                     THEN Drained(after[CHOOSE l \in listeners : l[1] = n])
                                     ELSE node[n]]
         /\ \E order \in SetToSeqs(listeners) :
              wire' = [wire EXCEPT ![s] = Tail(@) \o
                         FlattenSeq([k \in DOMAIN order |-> Queued(order[k][1], after[order[k]], s)])]
  /\ UNCHANGED << sent, received, dropped >>

Next ==
  \/ \E h \in Hosts : \E dst \in Destinations[h], ttl \in Ttls : Send(h, dst, ttl)
  \/ \E h \in Hosts : Check(h)
  \/ \E n \in Routers : Route(n)
  \/ \E s \in Segments : Deliver(s)

(* The simulator's loop keeps calling route() and exchange_frames() for     *)
(* every router and segment, and check() after them: weak fairness, with    *)
(* the guards of the actions in place of ENABLED.                           *)
Fairness ==
  /\ \A h \in Hosts : []<>(node[h].datagrams_out[0] = << >>) \/ []<><<Check(h)>>_vars
  /\ \A n \in Routers : []<>(waiting(node[n]) = << >>) \/ []<><<Route(n)>>_vars
  /\ \A s \in Segments : []<>(wire[s] = << >>) \/ []<><<Deliver(s)>>_vars

Spec == Init /\ [][Next]_vars /\ Fairness
-----------------------------------------------------------------------------
(* Where a datagram is: each queue, frame or host that holds it. *)
Mine(d, h, id) == d.src = h /\ d.id = id

Places(h, id) ==
  LET ports == UNION {{n} \X DOMAIN Ports[n] : n \in Nodes}
      pending(p) == node[p[1]].interfaces[p[2]].dgram_pending
      queue(p) == node[p[1]].datagrams_out[p[2]]
  IN  UNION {{<< p, "pending", i >> : i \in {j \in DOMAIN pending(p) : Mine(pending(p)[j].dgram, h, id)}} : p \in ports}
      \cup UNION {{<< p, "queue", i >> : i \in {j \in DOMAIN queue(p) : Mine(queue(p)[j], h, id)}} : p \in ports}
      \cup UNION {{<< s, "wire", i >> : i \in {j \in DOMAIN wire[s] :
                     wire[s][j].type = "IPv4" /\ Mine(wire[s][j].payload, h, id)}} : s \in Segments}
      \cup {<< g, "received" >> : g \in {k \in Hosts : \E d \in received[k] : Mine(d, h, id)}}
      \cup {<< "dropped" >> : d \in {e \in dropped : Mine(e, h, id)}}

(* Forwarding neither loses nor duplicates: through the ARP queues, frames, *)
(* and route()'s loop, a datagram sent is in exactly one place, or dropped. *)
EveryDatagramOnce ==
  \A h \in Hosts : \A id \in 1..sent[h] : Cardinality(Places(h, id)) = 1

(* A datagram that arrives is where its header says, and its time to live   *)
(* was taken down once for each router between the two hosts.               *)
ArrivesOverTheRoute ==
  \A h \in Hosts : \A d \in received[h] :
    d.dst = Address(h) /\ d.ttl0 - d.ttl = Distance(d.src, h)

(* route_one_datagram drops only a datagram whose time to live does not     *)
(* suffice for the way to its destination, or that has no destination.      *)
DroppedForAReason ==
  \A d \in dropped : \A h \in Hosts : Address(h) = d.dst => d.ttl0 <= Distance(d.src, h)

(* Every datagram arrives or is dropped, even one that two routers'         *)
(* default routes send back and forth.                                      *)
EveryDatagramSettles ==
  \A h \in Hosts : \A id \in 1..MaxDatagrams[h] :
    sent[h] >= id ~> \E d \in dropped \cup UNION {received[g] : g \in Hosts} : Mine(d, h, id)
=============================================================================
