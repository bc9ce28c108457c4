------------------------ MODULE NetworkInterfaceSpec ------------------------
(***************************************************************************)
(* NetworkInterfaces on one Ethernet.  Each host is named by its IP         *)
(* address; a next hop that is no host never answers.  Every frame reaches  *)
(* all other hosts, in the order sent; some are lost or damaged.            *)
(***************************************************************************)
EXTENDS NetworkInterface, SequencesExt

CONSTANTS
  Hosts,         \* the IP addresses of the hosts
  Hw(_),         \* the Ethernet address of each
  NextHops(_),   \* the next hops each host sends datagrams to
  MaxDatagrams,  \* bound: the datagrams sent by each host
  MaxClock,      \* bound: the time
  Losses         \* bound: the frames lost, and those damaged

ASSUME SpecAssumption ==
  /\ \A g, h \in Hosts : Hw(g) = Hw(h) => g = h
  /\ \A h \in Hosts : Hw(h) # ETHERNET_BROADCAST
  /\ {MaxDatagrams, MaxClock, Losses} \subseteq Nat

VARIABLES
  nic,     \* the NetworkInterface of each host
  wire,    \* the frames on the way
  sent,    \* how many datagrams each host has sent
  got,     \* the datagrams recv_frame has returned to each host
  lost,    \* the frames lost or damaged
  asked    \* the ARP requests each host has made, with their times

vars == << nic, wire, sent, got, lost, asked >>

Init ==
  /\ nic = [h \in Hosts |-> NewInterface(Hw(h), h)]
  /\ wire = << >>
  /\ sent = [h \in Hosts |-> 0]
  /\ got = [h \in Hosts |-> {}]
  /\ lost = << >>
  /\ asked = [h \in Hosts |-> << >>]

(* The owner of an interface takes the frames it has queued to the wire. *)
Drained(n) == [n EXCEPT !.frames_out = << >>]

Requests(n) ==
  LET request(frame) == frame.type = "ARP" /\ frame.payload.opcode = "REQUEST"
      made == SelectSeq(n.frames_out, request)
  IN  [i \in DOMAIN made |-> [hop |-> made[i].payload.target_ip_address, at |-> n.clock]]

(* A datagram is its sender, its number and the hop it is for. *)
Send(h, next_hop) ==
  /\ sent[h] < MaxDatagrams
  /\ sent' = [sent EXCEPT ![h] = @ + 1]
  /\ LET n == send_datagram(nic[h], [from |-> h, id |-> sent'[h], hop |-> next_hop], next_hop)
     IN  /\ nic' = [nic EXCEPT ![h] = Drained(n)]
         /\ wire' = wire \o n.frames_out
         /\ asked' = [asked EXCEPT ![h] = @ \o Requests(n)]
  /\ UNCHANGED << got, lost >>

(* A frame reaches every host but its source, in some order. *)
Arrive(frame) ==
  LET others == {h \in Hosts : Hw(h) # frame.src}
      after == [h \in others |-> recv_frame(nic[h], frame)]
  IN  /\ nic' = [h \in Hosts |-> IF h \in others THEN Drained(after[h]) ELSE nic[h]]
      /\ \E order \in SetToSeqs(others) :
           wire' = Tail(wire) \o FlattenSeq([i \in DOMAIN order |-> after[order[i]].frames_out])
      /\ got' = [h \in Hosts |->
                   IF h \in others THEN got[h] \cup recv_datagram(nic[h], frame) ELSE got[h]]
      /\ asked' = [h \in Hosts |->
                     IF h \in others THEN asked[h] \o Requests(after[h]) ELSE asked[h]]

Deliver ==
  /\ wire # << >>
  /\ Arrive(Head(wire))
  /\ UNCHANGED << sent, lost >>

(* A damaged frame arrives, and does not parse. *)
Damage ==
  /\ wire # << >> /\ Len(lost) < Losses
  /\ Arrive([Head(wire) EXCEPT !.valid = FALSE])
  /\ lost' = Append(lost, Head(wire))
  /\ UNCHANGED sent

Lose ==
  /\ wire # << >> /\ Len(lost) < Losses
  /\ wire' = Tail(wire)
  /\ lost' = Append(lost, Head(wire))
  /\ UNCHANGED << nic, sent, got, asked >>

Tick(h) ==
  /\ nic[h].clock < MaxClock
  /\ nic' = [nic EXCEPT ![h] = interface_tick(@, 1)]
  /\ UNCHANGED << wire, sent, got, lost, asked >>

Next ==
  \/ \E h \in Hosts : \E next_hop \in NextHops(h) : Send(h, next_hop)
  \/ \E h \in Hosts : Tick(h)
  \/ Deliver
  \/ Damage
  \/ Lose

Spec == Init /\ [][Next]_vars

-----------------------------------------------------------------------------
(* A datagram given to send_datagram is in exactly one place: waiting for   *)
(* an address, in one frame, lost with its frame, or returned by recv_frame *)
(* once.  The polling loop, which sends from the queue it pops and queues   *)
(* again what it cannot send, neither drops nor duplicates one.             *)
EveryDatagramOnce ==
  \A h \in Hosts : \A id \in 1..sent[h] :
    LET mine(d) == d.from = h /\ d.id = id
        places == {<< "pending", i >> : i \in {j \in DOMAIN nic[h].dgram_pending :
                                                mine(nic[h].dgram_pending[j].dgram)}}
                  \cup {<< "wire", i >> : i \in {j \in DOMAIN wire :
                                                wire[j].type = "IPv4" /\ mine(wire[j].payload)}}
                  \cup {<< "lost", i >> : i \in {j \in DOMAIN lost :
                                                lost[j].type = "IPv4" /\ mine(lost[j].payload)}}
                  \cup {<< "got", g >> : g \in {k \in Hosts : \E d \in got[k] : mine(d)}}
    IN  Cardinality(places) = 1

(* "remember the mapping for 30 seconds": an entry of the ARP table is the  *)
(* address of that host, and is gone when its time to live has passed.      *)
EntriesAreFresh ==
  \A h \in Hosts : \A ip \in DOMAIN nic[h].arp_table :
    LET entry == nic[h].arp_table[ip]
    IN  /\ ip \in Hosts /\ entry.hw_address = Hw(ip)
        /\ entry.time_expired \in nic[h].clock + 1 .. nic[h].clock + cache_ttl_ms

(* An interface never asks twice for an address within the broadcast        *)
(* interval, however sends, arrivals that make it poll, and ticks mix.      *)
RequestsAreSpaced ==
  \A h \in Hosts : \A i, j \in DOMAIN asked[h] :
    i < j /\ asked[h][i].hop = asked[h][j].hop
      => asked[h][j].at - asked[h][i].at >= broadcast_interval_ms

=============================================================================
