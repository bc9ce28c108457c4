-------------------------- MODULE NetworkInterface --------------------------
(***************************************************************************)
(* The class NetworkInterface (network_interface.hh, .cc): datagrams to     *)
(* Ethernet frames, with ARP.  An interface is a record; a method is an     *)
(* operator on it.  _arp_table and _last_broadcast_time are functions on    *)
(* the IP addresses they have an entry for.  A frame's payload is what the  *)
(* bytes parse to; `valid` is FALSE for one that does not parse.            *)
(***************************************************************************)
EXTENDS Integers, Sequences, FiniteSetsExt, Functions

CONSTANTS
  ETHERNET_BROADCAST,
  cache_ttl_ms,             \* 30 s
  broadcast_interval_ms     \* 5 s

ASSUME InterfaceAssumption ==
  cache_ttl_ms \in Nat \ {0} /\ broadcast_interval_ms \in Nat \ {0}

NewInterface(ethernet_address, ip_address) ==
  [ethernet_address |-> ethernet_address, ip_address |-> ip_address, clock |-> 0,
   arp_table |-> << >>, last_broadcast_time |-> << >>, dgram_pending |-> << >>,
   frames_out |-> << >>]

EthernetFrame(src, dst, type, payload) ==
  [src |-> src, dst |-> dst, type |-> type, payload |-> payload, valid |-> TRUE]
ARPMessage(opcode, sender_ethernet_address, sender_ip_address, target_ip_address) ==
  [opcode |-> opcode, sender_ethernet_address |-> sender_ethernet_address,
   sender_ip_address |-> sender_ip_address, target_ip_address |-> target_ip_address]

Put(f, key, value) ==
  [k \in DOMAIN f \cup {key} |-> IF k = key THEN value ELSE f[k]]

emit(n, frame) == [n EXCEPT !.frames_out = Append(@, frame)]
-----------------------------------------------------------------------------
(* The address of the next hop is cached, and not for too long. *)
resolved(n, next_hop) ==
  next_hop \in DOMAIN n.arp_table /\ n.arp_table[next_hop].time_expired > n.clock

ipv4_frame(n, dgram, next_hop) ==
  EthernetFrame(n.ethernet_address, n.arp_table[next_hop].hw_address, "IPv4", dgram)

(* The last request for the address is recent. *)
recently_asked(n, next_hop) ==
  /\ next_hop \in DOMAIN n.last_broadcast_time
  /\ n.clock - n.last_broadcast_time[next_hop] < broadcast_interval_ms

ask_without_noting(n, next_hop) ==
  emit(n, EthernetFrame(n.ethernet_address, ETHERNET_BROADCAST, "ARP",
                        ARPMessage("REQUEST", n.ethernet_address, n.ip_address, next_hop)))
(* Broadcast an ARP request, unless there was one in the last five seconds. *)
ask(n, next_hop) ==
  IF recently_asked(n, next_hop) THEN n
  ELSE emit([n EXCEPT !.last_broadcast_time = Put(@, next_hop, n.clock)],
            EthernetFrame(n.ethernet_address, ETHERNET_BROADCAST, "ARP",
                          ARPMessage("REQUEST", n.ethernet_address, n.ip_address, next_hop)))

send_datagram(n, dgram, next_hop) ==
  IF resolved(n, next_hop) THEN emit(n, ipv4_frame(n, dgram, next_hop))
  ELSE ask([n EXCEPT !.dgram_pending = Append(@, [dgram |-> dgram, next_hop |-> next_hop])],
           next_hop)
-----------------------------------------------------------------------------
(* How many datagrams at the head of the queue can be sent. *)
sendable(n) ==
  Min({k \in 0..Len(n.dgram_pending) :
         \/ k = Len(n.dgram_pending)
         \/ ~resolved(n, n.dgram_pending[k + 1].next_hop)})

poll_keeps_the_head(n) ==
  LET k == sendable(n)
      sent == [i \in 1..k |-> ipv4_frame(n, n.dgram_pending[i].dgram, n.dgram_pending[i].next_hop)]
      rest == [n EXCEPT !.frames_out = @ \o sent,
                        !.dgram_pending = SubSeq(@, k + 1, Len(@))]
  IN  IF rest.dgram_pending = << >> THEN rest
      ELSE send_datagram(rest, Head(rest.dgram_pending).dgram, Head(rest.dgram_pending).next_hop)
(* "polling queued dgrams": those at the head are sent while their next     *)
(* hops are known; the first that is not goes through send_datagram to the  *)
(* back of the queue, and the loop ends there.                              *)
poll(n) ==
  LET k == sendable(n)
      sent == [i \in 1..k |-> ipv4_frame(n, n.dgram_pending[i].dgram, n.dgram_pending[i].next_hop)]
      rest == [n EXCEPT !.frames_out = @ \o sent,
                        !.dgram_pending = SubSeq(@, k + 1, Len(@))]
  IN  IF rest.dgram_pending = << >> THEN rest
      ELSE [send_datagram(rest, Head(rest.dgram_pending).dgram, Head(rest.dgram_pending).next_hop)
              EXCEPT !.dgram_pending = Tail(@)]

learn(n, arp) ==
  [n EXCEPT !.arp_table = Put(@, arp.sender_ip_address,
      [hw_address |-> arp.sender_ethernet_address, time_expired |-> n.clock + cache_ttl_ms])]

answer(n, arp) ==
  IF arp.target_ip_address = n.ip_address /\ arp.opcode = "REQUEST"
  THEN emit(n, EthernetFrame(n.ethernet_address, arp.sender_ethernet_address, "ARP",
                 ARPMessage("REPLY", n.ethernet_address, n.ip_address, arp.sender_ip_address)))
  ELSE n

for_me(n, frame) == frame.dst \in {n.ethernet_address, ETHERNET_BROADCAST}

(* recv_frame; what it returns is recv_datagram, a set of at most one. *)
recv_frame(n, frame) ==
  IF for_me(n, frame) /\ frame.type = "ARP"
  THEN poll(IF frame.valid THEN answer(learn(n, frame.payload), frame.payload) ELSE n)
  ELSE n

recv_datagram(n, frame) ==
  IF for_me(n, frame) /\ frame.type = "IPv4" /\ frame.valid THEN {frame.payload} ELSE {}

tick_without_expiry(n, ms) == [n EXCEPT !.clock = @ + ms]
(* tick: what has expired is forgotten. *)
interface_tick(n, ms) ==
  [n EXCEPT !.clock = @ + ms,
            !.arp_table = RestrictValues(@, LAMBDA e : e.time_expired > n.clock + ms)]
=============================================================================
