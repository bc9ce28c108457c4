----------------------------- MODULE TCPSender ------------------------------
(***************************************************************************)
(* The class TCPSender with its RetransmissionTimer (tcp_sender.hh, .cc)    *)
(* and the TCPSegments it builds (TCPSegmentBuilder, tcp_segment.cc).       *)
(*                                                                         *)
(* A sender is a record; a method is an operator on it.  Of the outgoing    *)
(* ByteStream the record keeps what ByteStreamSpec shows it to be: its two  *)
(* counters and its flags.  A payload is the interval of the outgoing       *)
(* stream it was read from: the position of its first byte and its length.  *)
(***************************************************************************)
EXTENDS Integers, Sequences, FiniteSetsExt, WrappingIntegers

CONSTANTS
  MAX_PAYLOAD_SIZE,   \* TCPConfig::MAX_PAYLOAD_SIZE
  SendCapacity,       \* capacity of the outgoing stream
  RtTimeout,          \* _initial_retransmission_timeout
  SizeMod             \* 2^64: size_t arithmetic is modulo this

ASSUME SenderAssumption ==
  /\ MAX_PAYLOAD_SIZE \in Nat \ {0} /\ SendCapacity \in Nat
  /\ RtTimeout \in Nat /\ SizeMod \in Nat \ {0}

Least(a, b) == IF a < b THEN a ELSE b
Bit(b) == IF b THEN 1 ELSE 0
-----------------------------------------------------------------------------
(* TCPSegmentBuilder::build_segment; ack, ackno, rst and win are filled in  *)
(* by the TCPConnection.                                                    *)
TCPSegment(seqno, syn, fin, from, len) ==
  [seqno |-> seqno, syn |-> syn, fin |-> fin, from |-> from, len |-> len,
   ack |-> FALSE, ackno |-> 0, rst |-> FALSE, win |-> 0]

length_in_sequence_space(seg) == seg.len + Bit(seg.syn) + Bit(seg.fin)

(* The absolute sequence number of a segment, from the bytes it carries. *)
AbsSeqno(seg) == IF seg.syn THEN 0 ELSE seg.from + 1
AbsEnd(seg) == AbsSeqno(seg) + length_in_sequence_space(seg)

(* RetransmissionTimer *)
started(timeout) == [timeout |-> timeout, elapsed |-> 0, running |-> TRUE]
stopped(timer) == [timer EXCEPT !.running = FALSE]
timed_out(timer) == timer.running /\ timer.elapsed >= timer.timeout

(* TCPSender::TCPSender *)
NewSender(isn) ==
  [isn |-> isn, bytes_written |-> 0, bytes_read |-> 0, input_ended |-> FALSE, error |-> FALSE,
   next_seqno |-> 0, zero_window_size |-> FALSE, window_left |-> 0, window_right |-> 1,
   retransmission_timeout |-> RtTimeout, segments_pending |-> << >>, fined |-> FALSE,
   timer |-> [timeout |-> 0, elapsed |-> 0, running |-> FALSE],
   consecutive_retransmissions |-> 0, segments_out |-> << >>]

next_seqno(s) == wrap(s.next_seqno, s.isn)
buffer_size(s) == s.bytes_written - s.bytes_read
stream_eof(s) == s.input_ended /\ buffer_size(s) = 0
bytes_in_flight(s) ==
  SumFunction([i \in DOMAIN s.segments_pending |->
                 length_in_sequence_space(s.segments_pending[i])])

in_closed(s) == s.next_seqno = 0
in_syn_sent(s) == s.next_seqno > 0 /\ s.next_seqno = bytes_in_flight(s)

(* stream_in().write(data): as many bytes as fit. *)
stream_write(s, n) ==
  [s EXCEPT !.bytes_written = @ + Least(n, SendCapacity - buffer_size(s))]
stream_end_input(s) == [s EXCEPT !.input_ended = TRUE]
-----------------------------------------------------------------------------
(* _send of new segments that occupy `length` sequence numbers together:    *)
(* they become pending, and the timer runs if it did not.                   *)
_send_without_timer(s, segs, length) ==
  [s EXCEPT !.segments_out = @ \o segs, !.segments_pending = @ \o segs,
            !.next_seqno = @ + length]
_send(s, segs, length) ==
  [s EXCEPT !.segments_out = @ \o segs, !.segments_pending = @ \o segs,
            !.next_seqno = @ + length,
            !.timer = IF segs = << >> \/ @.running THEN @
                      ELSE started(s.retransmission_timeout)]

(* _send of a segment without sequence numbers: not retransmitted. *)
send_empty_segment(s) ==
  [s EXCEPT !.segments_out =
              Append(@, TCPSegment(next_seqno(s), FALSE, FALSE, s.bytes_read, 0))]

(* receiver_window_remaining, a size_t. *)
window_remaining_pretends_room(s) == s.window_right + 1 - s.next_seqno
window_remaining_ignores_flight(s) == s.window_right - s.window_left
window_remaining(s) ==
  IF s.window_right >= s.next_seqno THEN s.window_right - s.next_seqno
  ELSE SizeMod + s.window_right - s.next_seqno

(***************************************************************************)
(* The segments fill_window makes after the SYN.  The loop reads            *)
(* n = min(window, buffered) bytes in pieces of MAX_PAYLOAD_SIZE; the FIN   *)
(* goes on the last piece, or on an empty one, once the stream is at its    *)
(* end and the window has room for one more sequence number.                *)
(***************************************************************************)
payload_total(s) == Least(window_remaining(s), buffer_size(s))
fin_sent_without_room(s) == s.input_ended /\ payload_total(s) = buffer_size(s)
fin_sent_before_the_end(s) ==
  payload_total(s) = buffer_size(s) /\ payload_total(s) < window_remaining(s)
fin_sent(s) ==
  /\ s.input_ended
  /\ payload_total(s) = buffer_size(s)
  /\ payload_total(s) < window_remaining(s)
pieces(s) ==
  IF payload_total(s) = 0 THEN Bit(fin_sent(s))
  ELSE (payload_total(s) + MAX_PAYLOAD_SIZE - 1) \div MAX_PAYLOAD_SIZE
piece_from(s, i) == s.bytes_read + (i - 1) * MAX_PAYLOAD_SIZE
piece(s, i) ==
  TCPSegment(wrap(s.next_seqno + (i - 1) * MAX_PAYLOAD_SIZE, s.isn), FALSE,
             fin_sent(s) /\ i = pieces(s), piece_from(s, i),
             Least(MAX_PAYLOAD_SIZE, payload_total(s) - (i - 1) * MAX_PAYLOAD_SIZE))

fill_window(s) ==
  IF in_closed(s)
  THEN _send(s, << TCPSegment(next_seqno(s), TRUE, FALSE, s.bytes_read, 0) >>, 1)
  ELSE IF s.fined THEN s
  ELSE _send([s EXCEPT !.bytes_read = @ + payload_total(s), !.fined = fin_sent(s)],
             [i \in 1..pieces(s) |-> piece(s, i)],
             payload_total(s) + Bit(fin_sent(s)))
-----------------------------------------------------------------------------
(* The first pending segment that left does not acknowledge completely.     *)
first_unacked(s, left) ==
  Min({i \in 1..(Len(s.segments_pending) + 1) :
         \/ i = Len(s.segments_pending) + 1
         \/ unwrap(s.segments_pending[i].seqno, s.isn, left)
              + length_in_sequence_space(s.segments_pending[i]) > left})

with_window_acks_the_window(s, left, window_size) ==
  [s EXCEPT !.window_left = left + window_size, !.window_right = left + window_size]
with_window(s, left, window_size) ==
  [s EXCEPT !.window_left = left, !.window_right = left + window_size]

acknowledge_keeps_pending(s, left) ==
  [s EXCEPT !.retransmission_timeout = RtTimeout, !.consecutive_retransmissions = 0,
            !.timer = started(RtTimeout)]
acknowledge_keeps_backoff(s, left) ==
  LET pending == SubSeq(s.segments_pending, first_unacked(s, left), Len(s.segments_pending))
  IN  [s EXCEPT !.consecutive_retransmissions = 0, !.segments_pending = pending,
                !.timer = IF pending = << >> THEN stopped(@)
                          ELSE started(s.retransmission_timeout)]
(* A new ackno: RTO and retry counter are reset, what it covers is no       *)
(* longer pending, and the timer restarts if something still is.            *)
acknowledge(s, left) ==
  LET pending == SubSeq(s.segments_pending, first_unacked(s, left), Len(s.segments_pending))
  IN  [s EXCEPT !.retransmission_timeout = RtTimeout, !.consecutive_retransmissions = 0,
                !.segments_pending = pending,
                !.timer = IF pending = << >> THEN stopped(@) ELSE started(RtTimeout)]

ack_received(s, ackno, window_size) ==
  LET absolute_ackno == unwrap(ackno, s.isn, s.window_left)
      flagged == [s EXCEPT !.zero_window_size = (window_size = 0)]
      window == IF window_size = 0 THEN 1 ELSE window_size
  IN  CASE absolute_ackno > s.window_right -> flagged
        [] absolute_ackno > s.window_left /\ absolute_ackno <= s.window_right ->
             fill_window(acknowledge(with_window(flagged, absolute_ackno, window),
                                     absolute_ackno))
        [] absolute_ackno = s.window_left -> with_window(flagged, absolute_ackno, window)
        [] OTHER -> flagged

(* tick: the oldest pending segment is sent again; the RTO doubles unless   *)
(* the last ACK announced a window of zero.                                 *)
tick(s, ms) ==
  LET timer == [s.timer EXCEPT !.elapsed = IF s.timer.running THEN @ + ms ELSE @]
      rto == IF s.zero_window_size THEN s.retransmission_timeout
             ELSE 2 * s.retransmission_timeout
  IN  CASE s.segments_pending = << >> -> [s EXCEPT !.timer = stopped(timer)]
        [] s.segments_pending # << >> /\ timed_out(timer) ->
             [s EXCEPT !.segments_out = Append(@, s.segments_pending[1]),
                       !.consecutive_retransmissions = @ + 1,
                       !.retransmission_timeout = rto, !.timer = started(rto)]
        [] OTHER -> [s EXCEPT !.timer = timer]
=============================================================================
