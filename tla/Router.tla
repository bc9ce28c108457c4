------------------------------- MODULE Router -------------------------------
(***************************************************************************)
(* The classes Trie, AsyncNetworkInterface and Router (router.hh, .cc).     *)
(* A trie node is named by the path of bits from the root to it, so a trie  *)
(* is its set of nodes, the entries at some of them, and the default entry. *)
(* An optional is a set of at most one element.                             *)
(***************************************************************************)
EXTENDS NetworkInterface, SequencesExt

CONSTANT Width     \* the bits of an IP address: 32

ASSUME WidthAssumption == Width \in Nat \ {0}

IPs == 0 .. 2^Width - 1

(* The n high-order bits of an address, which the walks read through mask. *)
path(ip, n) == [i \in 1..n |-> (ip \div 2^(Width - i)) % 2]

Entry(route_prefix, prefix_length, next_hop, interface_num) ==
  [route_prefix |-> route_prefix, prefix_length |-> prefix_length,
   next_hop |-> next_hop, interface_num |-> interface_num]

NewTrie == [nodes |-> {<< >>}, entry |-> << >>, default |-> {}]

(* Trie::insert, which creates the nodes on the way; /0 is the default. *)
insert(t, entry) ==
  LET leaf == path(entry.route_prefix, entry.prefix_length)
  IN  IF entry.prefix_length = 0 THEN [t EXCEPT !.default = {entry}]
      ELSE [t EXCEPT !.nodes = @ \cup {SubSeq(leaf, 1, n) : n \in 1..Len(leaf)},
                     !.entry = Put(@, leaf, entry)]

(* The nodes the walk for an address passes: it ends at the first missing. *)
walk(t, ip) == {n \in 1..Width : \A k \in 1..n : path(ip, k) \in t.nodes}

longest_prefix_match_at_leaf(t, ip) ==
  LET end == Max({0} \cup walk(t, ip))
  IN  IF path(ip, end) \in DOMAIN t.entry THEN {t.entry[path(ip, end)]} ELSE t.default
(* Trie::longest_prefix_match: the deepest entry passed, or the default. *)
longest_prefix_match(t, ip) ==
  LET found == {n \in walk(t, ip) : path(ip, n) \in DOMAIN t.entry}
  IN  IF found = {} THEN t.default ELSE {t.entry[path(ip, Max(found))]}
-----------------------------------------------------------------------------
(* A Router: its interfaces, numbered from 0, each with the queue           *)
(* datagrams_out that AsyncNetworkInterface adds, and its route table.      *)
NewRouter(interfaces) ==
  [interfaces |-> interfaces, route_table |-> NewTrie,
   datagrams_out |-> [i \in DOMAIN interfaces |-> << >>]]

add_route(r, route_prefix, prefix_length, next_hop, interface_num) ==
  [r EXCEPT !.route_table = insert(@, Entry(route_prefix, prefix_length, next_hop, interface_num))]

(* AsyncNetworkInterface::recv_frame on interface i. *)
async_recv_frame(r, i, frame) ==
  [r EXCEPT !.interfaces[i] = recv_frame(@, frame),
            !.datagrams_out[i] = @ \o SetToSeq(recv_datagram(r.interfaces[i], frame))]

forward(r, dgram, entry) ==
  [r EXCEPT !.interfaces[entry.interface_num] =
     send_datagram(@, dgram, IF entry.next_hop # {} THEN CHOOSE a \in entry.next_hop : TRUE
                             ELSE dgram.dst)]

lapses_early(r, dgram) ==
  dgram.ttl <= 2 \/ longest_prefix_match(r.route_table, dgram.dst) = {}
(* A datagram whose time to live is up, or without a route, is dropped. *)
lapses(r, dgram) ==
  dgram.ttl <= 1 \/ longest_prefix_match(r.route_table, dgram.dst) = {}

route_one_datagram_same_ttl(r, dgram) ==
  IF lapses(r, dgram) THEN r
  ELSE forward(r, dgram, CHOOSE e \in longest_prefix_match(r.route_table, dgram.dst) : TRUE)
route_one_datagram(r, dgram) ==
  IF lapses(r, dgram) THEN r
  ELSE forward(r, [dgram EXCEPT !.ttl = @ - 1],
               CHOOSE e \in longest_prefix_match(r.route_table, dgram.dst) : TRUE)

(* Router::route: the queues of all interfaces, in order, to their ends. *)
waiting(r) ==
  FlattenSeq([n \in 1..Cardinality(DOMAIN r.interfaces) |-> r.datagrams_out[n - 1]])
route_keeps_queues(r) == FoldLeft(route_one_datagram, r, waiting(r))
route(r) ==
  [FoldLeft(route_one_datagram, r, waiting(r))
     EXCEPT !.datagrams_out = [i \in DOMAIN @ |-> << >>]]
=============================================================================
