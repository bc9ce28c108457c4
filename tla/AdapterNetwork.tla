--------------------------- MODULE AdapterNetwork ---------------------------
(***************************************************************************)
(* A server that listens and clients that connect to it, each behind an     *)
(* adapter of the same kind, on a link that delays, reorders, damages and   *)
(* cuts what it carries.  Everything on the link is bytes.  The TCP above   *)
(* an adapter may write any segment, a server only once it has a peer.      *)
(***************************************************************************)
EXTENDS FdAdapter

CONSTANTS
  Clients,       \* Clients[kind]: the hosts that connect, for each kind of adapter
  Segments,      \* what a client's or the server's TCP may write
  IP,            \* IP[h]: the address of a host
  Port,          \* Port[h]: the port of its end of the connection
  MAC,           \* MAC[h]: its Ethernet address
  NextHop,       \* NextHop[h]: the host its TAP adapter sends through
  DamagedWords,  \* the values a damaged word may take
  MaxWrites,     \* bound: calls of write
  MaxClock,      \* bound: time, for a TAP adapter
  Faults         \* bound: damages and cuts

Server == "server"
VARIABLES
  adapter,   \* adapter[h]
  link,      \* what is on its way
  written,   \* history: the segments written, with the writer's ports
  writes,    \* calls of write so far
  faults,    \* damages and cuts so far
  last       \* history: the last read

vars == << adapter, link, written, writes, faults, last >>

Host == DOMAIN adapter
Kind == adapter[Server].kind

AddressOf(h) == Address(IP[h], Port[h])
HostAt(address) == {h \in Host : AddressOf(h) = address}
ANY == << 0, 0 >>
Nothing == [reader |-> "nobody"]

(* connect and listen_and_accept set the adapter up (tcp_udp.cc,            *)
(* tcp_ipv4.cc, tcp_ip_ethernet.cc): a server on UDP or TUN takes any of    *)
(* its addresses, a client on UDP leaves its own to the kernel.             *)
NewAdapter(kind, h) ==
  [kind |-> kind, listening |-> h = Server,
   source |-> CASE kind = "udp" /\ h # Server -> Address(ANY, 0)
                [] kind # "tap" /\ h = Server -> Address(ANY, Port[h])
                [] OTHER -> AddressOf(h),
   destination |-> IF h = Server THEN Address(ANY, 0) ELSE AddressOf(Server),
   interface |-> IF kind = "tap" THEN NewInterface(MAC[h], IP[h]) ELSE << >>,
   next_hop |-> IP[NextHop[h]]]

Init ==
  /\ \E kind \in DOMAIN Clients : adapter = [h \in Clients[kind] \cup {Server} |-> NewAdapter(kind, h)]
  /\ link = {} /\ written = {} /\ writes = 0 /\ faults = 0 /\ last = Nothing
-----------------------------------------------------------------------------
(* Who gets what h writes: the kernel's routing for UDP and TUN, an         *)
(* Ethernet switch for TAP.                                                 *)
Receivers(h, a, bytes) ==
  IF a.kind = "tap"
  THEN {g \in Host \ {h} : SubSeq(bytes, 1, 6) \in {MAC[g], ETHERNET_BROADCAST}}
  ELSE {g \in Host \ {h} : IP[g] = a.destination.ip}

Packets(h, r) ==
  UNION {{[to |-> g, from |-> AddressOf(h), bytes |-> r.written[i]] :
            g \in Receivers(h, r.adapter, r.written[i])} : i \in DOMAIN r.written}

(* A call of the adapter's: its new state, and what it puts on the link. *)
Does(h, r) ==
  /\ adapter' = [adapter EXCEPT ![h] = r.adapter]
  /\ link' = link \cup Packets(h, r)

(* The bytes of the segment itself, wherever they end up. *)
Image(a, seg) ==
  IF a.kind = "udp" THEN segment_serialize(with_ports(a, seg), 0) ELSE wrap_tcp_in_ip(a, seg).payload

Write(h, seg, drop) ==
  /\ writes < MaxWrites
  /\ writes' = writes + 1
  /\ ~adapter[h].listening
  /\ drop => Kind # "tap"
  /\ Does(h, lossy_write(adapter[h], seg, drop))
  /\ written' = written \cup {[writer |-> h, segment |-> with_ports(adapter[h], seg),
                               image |-> Image(adapter[h], seg), to |-> HostAt(adapter[h].destination)]}
  /\ last' = Nothing
  /\ UNCHANGED faults

Above == [udp |-> 0, tun |-> 20, tap |-> 34]    \* bytes in front of a segment

(* The writes whose segment a packet carries. *)
Carried(p) ==
  {w \in written : /\ p.from = AddressOf(w.writer)
                   /\ p.to \in w.to
                   /\ Len(p.bytes) = Above[Kind] + Len(w.image)
                   /\ remove_prefix(p.bytes, Above[Kind]) = w.image}

(* A packet is read as the bytes that arrive of it, b; r is the outcome. *)
ReadAs(p, intact, r) ==
  /\ adapter' = [adapter EXCEPT ![p.to] = r.adapter]
  /\ link' = (link \ {p}) \cup Packets(p.to, r)
  /\ last' = [reader |-> p.to, listening |-> adapter[p.to].listening,
              destination |-> adapter[p.to].destination, carried |-> Carried(p),
              intact |-> intact, segments |-> r.segments]
Read(p, b, drop) ==
  /\ drop => Kind # "tap"
  /\ ReadAs(p, b = p.bytes /\ ~drop, lossy_read(adapter[p.to], p.from, b, drop))
  /\ UNCHANGED << written, writes >>

Arrive(p, drop) == Read(p, p.bytes, drop) /\ UNCHANGED faults

(* One word is not what it was; a last odd byte is a word of its own.  No   *)
(* checksum tells 0 from 65535, which are both zero in its arithmetic, so   *)
(* damage does not exchange these two.                                      *)
Damage(p, at, v) ==
  LET size == IF at = Len(p.bytes) THEN 1 ELSE 2
      new == IF size = 1 THEN << v % 256 >> ELSE put_u16(v)
      b == SubSeq(p.bytes, 1, at - 1) \o new \o remove_prefix(p.bytes, at - 1 + size)
  IN  /\ faults < Faults
      /\ b # p.bytes
      /\ size = 2 => {u16(p.bytes, at - 1), v} # {0, 65535}
      /\ Read(p, b, FALSE)
      /\ faults' = faults + 1

(* UDP keeps the length of a datagram, and UDPSocket::recv throws when it   *)
(* does not fit.                                                            *)
Cut(p, n) ==
  /\ faults < Faults
  /\ Kind # "udp"
  /\ Read(p, SubSeq(p.bytes, 1, n), FALSE)
  /\ faults' = faults + 1

Tick(h) ==
  /\ Kind = "tap"
  /\ adapter[h].interface.clock < MaxClock
  /\ Does(h, tap_tick(adapter[h], 1))
  /\ last' = Nothing
  /\ UNCHANGED << written, writes, faults >>

Next ==
  \/ \E h \in Host, seg \in Segments, drop \in BOOLEAN : Write(h, seg, drop)
  \/ \E p \in link, drop \in BOOLEAN : Arrive(p, drop)
  \/ \E p \in link, v \in DamagedWords :
       \E at \in {i \in DOMAIN p.bytes : i % 2 = 1} : Damage(p, at, v)
  \/ \E p \in link : \E n \in 0..(Len(p.bytes) - 1) : Cut(p, n)
  \/ \E h \in Host : Tick(h)

Spec == Init /\ [][Next]_vars
-----------------------------------------------------------------------------
(* read() returns only what the peer wrote, field by field: whatever one    *)
(* fault of the link does to the bytes, whoever else writes, and although   *)
(* IPv4Datagram::parse ignores the header's own checksum (the segment's,    *)
(* which covers the pseudo header, has to notice).  The peer of a server    *)
(* is the host whose SYN it read first.                                     *)
ReadsWhatThePeerWrote ==
  last # Nothing =>
    \A seg \in last.segments : \E w \in written :
      /\ w.writer \in HostAt(adapter[last.reader].destination)
      /\ w.segment = [seg EXCEPT !.header.cksum = 0]

(* An intact segment that no lossy adapter dropped is read if the peer      *)
(* wrote it, or if it is a SYN and the adapter still listens, and not       *)
(* otherwise.  For a client this says that the server answers from the      *)
(* address and the port that were contacted.                                *)
HearsThePeer ==
  last # Nothing /\ last.intact =>
    (last.segments # {} <=>
       \E w \in last.carried : IF last.listening THEN starts(w.segment)
                               ELSE w.writer \in HostAt(last.destination))

(* Between two calls a TAP adapter keeps only what it cannot send yet.  An  *)
(* ARP exchange runs inside read(), which has no segment to return then, so *)
(* that the TCP above does not notice it: no frame it queued is left in the *)
(* interface, and a segment waits only for an address that was asked for    *)
(* and that the cache lacks.  What the cache has is the truth, on a link    *)
(* without faults.                                                          *)
KeepsOnlyWhatItCannotSend ==
  Kind = "tap" =>
    \A h \in Host : LET n == adapter[h].interface IN
      /\ n.frames_out = << >>
      /\ n.dgram_pending # << >> =>
           /\ ~resolved(n, adapter[h].next_hop)
           /\ adapter[h].next_hop \in DOMAIN n.last_broadcast_time
      /\ faults = 0 =>
           \A ip \in DOMAIN n.arp_table :
             \E g \in Host \ {h} : IP[g] = ip /\ MAC[g] = n.arp_table[ip].hw_address
=============================================================================
