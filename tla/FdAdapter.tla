------------------------------ MODULE FdAdapter ------------------------------
(***************************************************************************)
(* The adapters between a TCPConnection and a file descriptor: UDP          *)
(* (fd_adapter.cc), a TUN device and a TAP device (tcp_over_ip.cc,          *)
(* tuntap_adapter.hh, .cc), and the one that drops at random                *)
(* (lossy_fd_adapter.hh).  read and write return the adapter, the segments  *)
(* read (a set of at most one) and what was written to the descriptor.      *)
(***************************************************************************)
EXTENDS EthernetCodec, TCPSegment

Address(ip, port) == [ip |-> ip, port |-> port]

Done(a, segments, written) == [adapter |-> a, segments |-> segments, written |-> written]

(* A segment that a listening adapter takes its peer from. *)
starts(seg) == seg.header.syn /\ ~seg.header.rst
-----------------------------------------------------------------------------
(* TCPOverUDPSocketAdapter.  The kernel tells where a datagram came from. *)
udp_accept(a, from, p) ==
  IF (~a.listening /\ from # a.destination) \/ p.result # "NoError" \/ (a.listening /\ ~starts(p.segment))
  THEN Done(a, {}, << >>)
  ELSE Done(IF a.listening THEN [a EXCEPT !.destination = from, !.listening = FALSE] ELSE a,
            {p.segment}, << >>)
udp_read(a, from, payload) == udp_accept(a, from, segment_parse(payload, 0))

with_ports(a, seg) == [seg EXCEPT !.header.sport = a.source.port, !.header.dport = a.destination.port]

udp_write(a, seg) == Done(a, {}, << segment_serialize(with_ports(a, seg), 0) >>)
-----------------------------------------------------------------------------
(* TCPOverIPv4Adapter::unwrap_tcp_in_ip. *)
for_this_connection(a, header) ==
  ~a.listening => header.dst = a.source.ip /\ header.src = a.destination.ip

targets_without_source(a, header, seg) ==
  [a EXCEPT !.destination = Address(header.src, seg.header.sport), !.listening = FALSE]
(* The address contacted becomes the source of what is written. *)
targets(a, header, seg) ==
  [a EXCEPT !.source.ip = header.dst, !.destination = Address(header.src, seg.header.sport),
            !.listening = FALSE]

ip_accept(a, header, p) ==
  LET b == IF a.listening THEN targets(a, header, p.segment) ELSE a
  IN  IF /\ for_this_connection(a, header)
         /\ header.proto = PROTO_TCP
         /\ p.result = "NoError"
         /\ p.segment.header.dport = a.source.port
         /\ a.listening => starts(p.segment)
      THEN Done(b, {s \in {p.segment} : s.header.sport = b.destination.port}, << >>)
      ELSE Done(a, {}, << >>)
unwrap_tcp_in_ip(a, dgram) ==
  ip_accept(a, dgram.header, segment_parse(dgram.payload, pseudo_cksum(dgram.header)))

wrap_tcp_in_ip(a, seg) ==
  LET header == [NewIPv4Header EXCEPT !.src = a.source.ip, !.dst = a.destination.ip,
                   !.len = 4 * NewIPv4Header.hlen + 4 * seg.header.doff + Len(seg.payload)]
  IN  [header |-> header, payload |-> segment_serialize(with_ports(a, seg), pseudo_cksum(header))]
-----------------------------------------------------------------------------
(* TCPOverIPv4OverTunFdAdapter. *)
tun_accept(a, dgram) ==
  IF dgram.result # "NoError" THEN Done(a, {}, << >>) ELSE unwrap_tcp_in_ip(a, dgram)
tun_read(a, bytes) == tun_accept(a, ipv4_parse(bytes))

tun_write(a, seg) == Done(a, {}, << ipv4_serialize(wrap_tcp_in_ip(a, seg)) >>)
-----------------------------------------------------------------------------
(* TCPOverIPv4OverEthernetAdapter: every call ends with send_pending. *)
send_pending(r) ==
  LET frames == r.adapter.interface.frames_out
  IN  [r EXCEPT !.adapter.interface.frames_out = << >>,
                !.written = [i \in DOMAIN frames |-> frame_serialize(frames[i])]]

tap_accept_sends_nothing(a, frame) ==
  LET b == [a EXCEPT !.interface = recv_frame(@, frame)]
      dgrams == recv_datagram(a.interface, frame)
  IN  IF dgrams = {} THEN Done(b, {}, << >>)
      ELSE unwrap_tcp_in_ip(b, CHOOSE d \in dgrams : TRUE)
(* read: what an ARP message made the interface queue is sent although      *)
(* there is no segment to return.                                           *)
tap_accept(a, frame) ==
  LET b == [a EXCEPT !.interface = recv_frame(@, frame)]
      dgrams == recv_datagram(a.interface, frame)
  IN  send_pending(IF dgrams = {} THEN Done(b, {}, << >>)
                   ELSE unwrap_tcp_in_ip(b, CHOOSE d \in dgrams : TRUE))
tap_read(a, bytes) == tap_accept(a, frame_parse(bytes))

tap_write(a, seg) ==
  send_pending(Done([a EXCEPT !.interface = send_datagram(@, wrap_tcp_in_ip(a, seg), a.next_hop)],
                    {}, << >>))

tap_tick(a, ms) == send_pending(Done([a EXCEPT !.interface = interface_tick(@, ms)], {}, << >>))
-----------------------------------------------------------------------------
(* The adapter a TCPSpongeSocket is instantiated with. *)
read(a, from, bytes) ==
  CASE a.kind = "udp" -> udp_read(a, from, bytes)
    [] a.kind = "tun" -> tun_read(a, bytes)
    [] a.kind = "tap" -> tap_read(a, bytes)

write(a, seg) ==
  CASE a.kind = "udp" -> udp_write(a, seg)
    [] a.kind = "tun" -> tun_write(a, seg)
    [] a.kind = "tap" -> tap_write(a, seg)

(* LossyFdAdapter::read drops what the adapter has read, and the adapter    *)
(* may have taken its peer from it.  Only UDP and TUN adapters are lossy.   *)
unless_dropped(r, drop) == [r EXCEPT !.segments = IF drop THEN {} ELSE @]
lossy_read(a, from, bytes, drop) == unless_dropped(read(a, from, bytes), drop)

lossy_write(a, seg, drop) == IF drop THEN Done(a, {}, << >>) ELSE write(a, seg)
=============================================================================
