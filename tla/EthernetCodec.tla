---------------------------- MODULE EthernetCodec ----------------------------
(***************************************************************************)
(* EthernetHeader, EthernetFrame and ARPMessage: from the frames that       *)
(* NetworkInterface handles to bytes and back.  Types and opcodes are       *)
(* numbers on the wire and names in the frame.                              *)
(***************************************************************************)
EXTENDS NetworkInterface, IPv4Datagram, TLC

NoAddress == << 0, 0, 0, 0, 0, 0 >>
Type == "IPv4" :> 2048 @@ "ARP" :> 2054
Opcode == "REQUEST" :> 1 @@ "REPLY" :> 2

ethernet_header_serialize(frame) == frame.dst \o frame.src \o put_u16(Type[frame.type])

(* ARPMessage::serialize.  The target's hardware address is all zeros in a  *)
(* request, and the receiver's in a reply.                                  *)
arp_serialize(frame) ==
  LET arp == frame.payload
      target == IF arp.opcode = "REQUEST" THEN NoAddress ELSE frame.dst
  IN  put_u16(1) \o put_u16(2048) \o put_u8(6) \o put_u8(4) \o put_u16(Opcode[arp.opcode])
        \o arp.sender_ethernet_address \o put_u32(arp.sender_ip_address)
        \o target \o put_u32(arp.target_ip_address)

frame_serialize(frame) ==
  ethernet_header_serialize(frame)
    \o IF frame.type = "ARP" THEN arp_serialize(frame) ELSE ipv4_serialize(frame.payload)
-----------------------------------------------------------------------------
supported(b) ==
  /\ u16(b, 0) = 1 /\ u16(b, 2) = 2048 /\ u8(b, 4) = 6 /\ u8(b, 5) = 4
  /\ u16(b, 6) \in {1, 2}

arp_reads_the_target(b) ==
  ARPMessage(IF u16(b, 6) = 1 THEN "REQUEST" ELSE "REPLY", SubSeq(b, 19, 24), u32(b, 14), u32(b, 24))
(* The fields of an ARPMessage; the target's hardware address is not used. *)
arp_fields(b) ==
  ARPMessage(IF u16(b, 6) = 1 THEN "REQUEST" ELSE "REPLY", SubSeq(b, 9, 14), u32(b, 14), u32(b, 24))

(* ARPMessage::parse succeeds. *)
arp_parses(b) == Len(b) >= 28 /\ supported(b)

(* EthernetFrame::parse, with what recv_frame makes of the payload, which   *)
(* is dgram when taken for a datagram.  A frame shorter than a header is no *)
(* error: its header stays all zeros.                                       *)
frame_with(b, dgram) ==
  LET payload == remove_prefix(b, 14)
      header(type) == [src |-> SubSeq(b, 7, 12), dst |-> SubSeq(b, 1, 6), type |-> type]
      with(type, valid, p) == header(type) @@ [valid |-> valid, payload |-> p]
  IN  CASE Len(b) < 14 -> [EthernetFrame(NoAddress, NoAddress, "unknown", << >>) EXCEPT !.valid = FALSE]
        [] u16(b, 12) = Type["IPv4"] -> with("IPv4", dgram.result = "NoError", dgram)
        [] u16(b, 12) = Type["ARP"]  -> IF arp_parses(payload) THEN with("ARP", TRUE, arp_fields(payload))
                                        ELSE with("ARP", FALSE, << >>)
        [] OTHER -> with("unknown", FALSE, << >>)
frame_parse(b) == frame_with(b, ipv4_parse(remove_prefix(b, 14)))
=============================================================================
