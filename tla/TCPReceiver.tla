----------------------------- MODULE TCPReceiver -----------------------------
(***************************************************************************)
(* The class TCPReceiver (tcp_receiver.hh, .cc): sequence numbers in,       *)
(* ackno and window out.  A receiver is a record: _sender_isn and its       *)
(* StreamReassembler, taken as what Reassembly says one is.                 *)
(***************************************************************************)
EXTENDS Reassembly, WrappingIntegers

None == -1   \* an optional without a value

NewReceiver == [sender_isn |-> None, inbound |-> Empty, error |-> FALSE]

has_ackno(r) == r.sender_isn # None
in_listen(r) == ~has_ackno(r)
in_syn_recv(r) == has_ackno(r) /\ ~r.inbound.input_ended
inbound_eof(r) == r.inbound.input_ended /\ r.inbound.bytes_read = r.inbound.bytes_written

(* ackno(): the SYN takes one sequence number, the end of the stream one. *)
abs_ackno(r) == r.inbound.bytes_written + 1 + (IF r.inbound.input_ended THEN 1 ELSE 0)
ackno(r) == wrap(abs_ackno(r), r.sender_isn)

(* remaining_capacity() of the reassembled stream. *)
window_size(r) == Capacity - (r.inbound.bytes_written - r.inbound.bytes_read)

abs_seqno_never_back(r, seg) ==
  unwrap_without_backstep(seg.seqno, r.sender_isn, r.inbound.bytes_written)
(* The checkpoint is the end of what is assembled when the segment arrives. *)
abs_seqno(r, seg) == unwrap(seg.seqno, r.sender_isn, r.inbound.bytes_written)

(* The stream index of the first byte of the segment. *)
stream_index(r, seg) == IF abs_seqno(r, seg) = 0 THEN 0 ELSE abs_seqno(r, seg) - 1

(* segment_received: every SYN sets _sender_isn; bytes at the SYN's own     *)
(* sequence number are ignored unless the segment is the SYN.               *)
receiver_segment_received(r, seg) ==
  LET known == IF seg.syn THEN [r EXCEPT !.sender_isn = seg.seqno] ELSE r
  IN  IF in_syn_recv(known) /\ (abs_seqno(known, seg) = 0 => seg.syn)
      THEN [known EXCEPT !.inbound = Push(@, stream_index(known, seg), seg.len, seg.fin)]
      ELSE known
=============================================================================
