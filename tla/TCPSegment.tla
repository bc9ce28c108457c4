----------------------------- MODULE TCPSegment -----------------------------
(***************************************************************************)
(* TCPHeader and TCPSegment: from fields to bytes and back.                 *)
(***************************************************************************)
EXTENDS NetParser

NewTCPHeader ==
  [sport |-> 0, dport |-> 0, seqno |-> << 0, 0 >>, ackno |-> << 0, 0 >>, doff |-> 5,
   urg |-> FALSE, ack |-> FALSE, psh |-> FALSE, rst |-> FALSE, syn |-> FALSE, fin |-> FALSE,
   win |-> 0, cksum |-> 0, uptr |-> 0]

tcp_fields(b) ==
  [sport |-> u16(b, 0), dport |-> u16(b, 2), seqno |-> u32(b, 4), ackno |-> u32(b, 8),
   doff |-> u8(b, 12) \div 16,
   urg |-> Bit(u8(b, 13), 32), ack |-> Bit(u8(b, 13), 16), psh |-> Bit(u8(b, 13), 8),
   rst |-> Bit(u8(b, 13), 4), syn |-> Bit(u8(b, 13), 2), fin |-> Bit(u8(b, 13), 1),
   win |-> u16(b, 14), cksum |-> u16(b, 16), uptr |-> u16(b, 18)]

(* TCPHeader::parse: the fields, whether the NetParser met its end, and     *)
(* what is left in it.  A data offset below 5 skips no options and sets no  *)
(* error.                                                                   *)
tcp_options(b, h) ==
  LET size == IF h.doff < 5 THEN 20 ELSE 4 * h.doff
  IN  [header |-> h, error |-> Len(b) < 20 \/ Len(b) < size, rest |-> remove_prefix(b, size)]
tcp_header_parse(b) == tcp_options(b, tcp_fields(b))

(* TCPHeader::serialize; the sender's headers have no options. *)
tcp_header_serialize(h) ==
  resize(put_u16(h.sport) \o put_u16(h.dport) \o put_u32(h.seqno) \o put_u32(h.ackno)
           \o put_u8(16 * h.doff)
           \o put_u8(Mask(h.urg, 32) + Mask(h.ack, 16) + Mask(h.psh, 8)
                       + Mask(h.rst, 4) + Mask(h.syn, 2) + Mask(h.fin, 1))
           \o put_u16(h.win) \o put_u16(h.cksum) \o put_u16(h.uptr),
         4 * h.doff)

(* TCPSegment::parse: the checksum first; of the header's own verdict only  *)
(* the NetParser's error counts.                                            *)
segment_payload(p, cksum) ==
  [segment |-> [header |-> p.header, payload |-> p.rest],
   result |-> IF cksum # 0 THEN "BadChecksum" ELSE IF p.error THEN "PacketTooShort" ELSE "NoError"]
segment_parse(b, datagram_layer_checksum) ==
  segment_payload(tcp_header_parse(b), value(add(InternetChecksum(datagram_layer_checksum), b)))

segment_serialize(seg, datagram_layer_checksum) ==
  LET zero == tcp_header_serialize([seg.header EXCEPT !.cksum = 0])
      cksum == value(add(add(InternetChecksum(datagram_layer_checksum), zero), seg.payload))
  IN  tcp_header_serialize([seg.header EXCEPT !.cksum = cksum]) \o seg.payload
=============================================================================
