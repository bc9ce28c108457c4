---------------------------- MODULE IPv4Datagram ----------------------------
(***************************************************************************)
(* IPv4Header and IPv4Datagram: from fields to bytes and back.              *)
(***************************************************************************)
EXTENDS NetParser

PROTO_TCP == 6

NewIPv4Header ==
  [ver |-> 4, hlen |-> 5, tos |-> 0, len |-> 0, id |-> 0, df |-> TRUE, mf |-> FALSE,
   offset |-> 0, ttl |-> 128, proto |-> PROTO_TCP, cksum |-> 0,
   src |-> << 0, 0 >>, dst |-> << 0, 0 >>]

ipv4_fields(b) ==
  [ver |-> u8(b, 0) \div 16, hlen |-> u8(b, 0) % 16, tos |-> u8(b, 1), len |-> u16(b, 2),
   id |-> u16(b, 4), df |-> Bit(u16(b, 6), 16384), mf |-> Bit(u16(b, 6), 8192),
   offset |-> u16(b, 6) % 8192, ttl |-> u8(b, 8), proto |-> u8(b, 9), cksum |-> u16(b, 10),
   src |-> u32(b, 12), dst |-> u32(b, 16)]

(* The verdict on the fields h, and what is left in the NetParser.  Only a  *)
(* header that passes the first checks has its options skipped.             *)
ipv4_header_verdict(b, h) ==
  LET early(result) == [header |-> h, result |-> result, rest |-> remove_prefix(b, 20)]
  IN  CASE Len(b) < 20         -> [header |-> NewIPv4Header, result |-> "PacketTooShort", rest |-> b]
        [] Len(b) < 4 * h.hlen -> early("PacketTooShort")
        [] h.ver # 4           -> early("WrongIPVersion")
        [] h.hlen < 5          -> early("HeaderTooShort")
        [] Len(b) # h.len      -> early("TruncatedPacket")
        [] OTHER -> [header |-> h, rest |-> remove_prefix(b, 4 * h.hlen),
                     result |-> IF value(add(InternetChecksum(0), SubSeq(b, 1, 4 * h.hlen))) # 0
                                THEN "BadChecksum" ELSE "NoError"]
(* IPv4Header::parse.  No verdict sets the NetParser's error. *)
ipv4_header_parse(b) == ipv4_header_verdict(b, ipv4_fields(b))

(* IPv4Header::serialize; the checks before it hold of every header the     *)
(* program builds.                                                          *)
ipv4_header_serialize(h) ==
  resize(put_u8(16 * h.ver + h.hlen) \o put_u8(h.tos) \o put_u16(h.len) \o put_u16(h.id)
           \o put_u16(Mask(h.df, 16384) + Mask(h.mf, 8192) + h.offset)
           \o put_u8(h.ttl) \o put_u8(h.proto) \o put_u16(h.cksum)
           \o put_u32(h.src) \o put_u32(h.dst),
         4 * h.hlen)

payload_length(h) == (h.len - 4 * h.hlen) % 65536

pseudo_cksum_without_addresses(h) == h.proto + payload_length(h)
(* The IP header's part in the checksum of the segment it carries. *)
pseudo_cksum(h) ==
  h.src[1] + h.src[2] + h.dst[1] + h.dst[2] + h.proto + payload_length(h)

(* IPv4Datagram::parse drops the verdict on the header: what it returns     *)
(* depends on the length of the payload only.                               *)
ipv4_payload(p) ==
  [header |-> p.header, payload |-> p.rest,
   result |-> IF Len(p.rest) # payload_length(p.header) THEN "PacketTooShort" ELSE "NoError"]
ipv4_parse(b) == ipv4_payload(ipv4_header_parse(b))

ipv4_serialize(dgram) ==
  LET zero == ipv4_header_serialize([dgram.header EXCEPT !.cksum = 0])
      cksum == value(add(InternetChecksum(0), zero))
  IN  ipv4_header_serialize([dgram.header EXCEPT !.cksum = cksum]) \o dgram.payload
=============================================================================
