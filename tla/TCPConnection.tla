---------------------------- MODULE TCPConnection ----------------------------
(***************************************************************************)
(* The class TCPConnection (tcp_connection.hh, .cc): a TCPSender and a      *)
(* TCPReceiver joined.  A connection is a record; a method is an operator.  *)
(***************************************************************************)
EXTENDS TCPSender, TCPReceiver

CONSTANTS
  MAX_RETX_ATTEMPTS,   \* TCPConfig::MAX_RETX_ATTEMPTS
  MAX_WIN,             \* 65535: the largest value of the header's 16-bit win
  LINGER               \* 10: multiples of rt_timeout to linger

NewConnection(isn) ==
  [sender |-> NewSender(isn), receiver |-> NewReceiver, segments_out |-> << >>,
   linger |-> TRUE, time |-> 0, time_done |-> None, rst_set |-> FALSE]

(* The fields the TCPConnection fills in before it sends a segment. *)
stamp(c, seg) ==
  [seg EXCEPT !.ack = has_ackno(c.receiver),
              !.ackno = IF has_ackno(c.receiver) THEN ackno(c.receiver) ELSE 0,
              !.win = Least(window_size(c.receiver), MAX_WIN),
              !.rst = c.rst_set]

_send_outbound_segments(c) ==
  [c EXCEPT !.segments_out = @ \o [i \in DOMAIN c.sender.segments_out |->
                                     stamp(c, c.sender.segments_out[i])],
            !.sender.segments_out = << >>]

_done_with_bytes_in_flight(c) ==
  /\ inbound_eof(c.receiver) \/ c.receiver.error
  /\ c.sender.error \/ (stream_eof(c.sender) /\ c.sender.fined)
_done(c) ==
  /\ inbound_eof(c.receiver) \/ c.receiver.error
  /\ \/ c.sender.error
     \/ stream_eof(c.sender) /\ bytes_in_flight(c.sender) = 0 /\ c.sender.fined

_check_done(c) ==
  IF _done(c) /\ c.time_done = None THEN [c EXCEPT !.time_done = c.time] ELSE c

(* The difference of two size_t is a huge number when it is negative. *)
active(c) ==
  \/ ~_done(c)
  \/ /\ c.linger
     /\ c.time_done # None
     /\ c.time >= c.time_done
     /\ c.time - c.time_done < LINGER * RtTimeout

_reset_keeps_inbound(c, send_rst) ==
  LET failed == [c EXCEPT !.sender.error = TRUE, !.sender.input_ended = TRUE,
                          !.sender.segments_out = << >>, !.linger = FALSE]
  IN  IF ~send_rst THEN failed
      ELSE _send_outbound_segments(
             [failed EXCEPT !.rst_set = TRUE, !.sender = send_empty_segment(@)])
_reset(c, send_rst) ==
  LET failed == [c EXCEPT !.receiver.error = TRUE, !.sender.error = TRUE,
                          !.sender.input_ended = TRUE, !.sender.segments_out = << >>,
                          !.linger = FALSE]
  IN  IF ~send_rst THEN failed
      ELSE _send_outbound_segments(
             [failed EXCEPT !.rst_set = TRUE, !.sender = send_empty_segment(@)])
-----------------------------------------------------------------------------
connect(c) ==
  _check_done(_send_outbound_segments([c EXCEPT !.sender = fill_window(@)]))

write(c, n) ==
  _send_outbound_segments([c EXCEPT !.sender = fill_window(stream_write(@, n))])

end_input_stream(c) ==
  _check_done(_send_outbound_segments(
    [c EXCEPT !.sender = fill_window(stream_end_input(@))]))

(* TCPConnection::tick; tick is TCPSender::tick. *)
connection_tick(c, ms) ==
  LET ticked == [c EXCEPT !.time = @ + ms, !.sender = tick(@, ms)]
  IN  _check_done(_send_outbound_segments(
        IF ticked.sender.consecutive_retransmissions > MAX_RETX_ATTEMPTS
        THEN _reset(ticked, TRUE) ELSE ticked))

(* A segment a handshake in progress does not accept. *)
refused(c, seg) ==
  \/ in_listen(c.receiver) /\ ~seg.syn
  \/ in_syn_sent(c.sender) /\ seg.ack /\ seg.len > 0

ignored_rst(c, seg) ==
  \/ in_listen(c.receiver) /\ in_closed(c.sender)
  \/ in_syn_sent(c.sender) /\ ~seg.ack

(* The sender's part of segment_received: the ACK, then a SYN or an ACK in  *)
(* return for a segment that occupies sequence numbers.                     *)
answer(s, seg) ==
  CASE seg.syn /\ in_closed(s) -> fill_window(s)
    [] ~in_closed(s) /\ length_in_sequence_space(seg) > 0 -> send_empty_segment(s)
    [] OTHER -> s
respond(s, seg) ==
  answer(IF seg.ack /\ ~in_closed(s)
         THEN fill_window(ack_received(s, seg.ackno, seg.win)) ELSE s, seg)

note_remote_end_always(c) ==
  IF inbound_eof(c.receiver) THEN [c EXCEPT !.linger = FALSE] ELSE c
note_remote_end(c) ==
  IF inbound_eof(c.receiver) /\ ~stream_eof(c.sender)
  THEN [c EXCEPT !.linger = FALSE] ELSE c

(* What follows the receiver's part, unless that throws. *)
after_receiver(c, seg) ==
  IF c.receiver.inbound.thrown THEN c
  ELSE _check_done(note_remote_end(_send_outbound_segments(
         [c EXCEPT !.sender = respond(@, seg)])))

segment_received(conn, seg) ==
  LET c == [conn EXCEPT !.time = 0]
  IN  IF seg.rst THEN (IF ignored_rst(c, seg) THEN c ELSE _reset(c, FALSE))
      ELSE IF refused(c, seg) THEN c
      ELSE after_receiver([c EXCEPT !.receiver = receiver_segment_received(@, seg)], seg)

(* inbound_stream().pop_output(n) by the owner: no hook of the connection. *)
read_inbound(c, n) == [c EXCEPT !.receiver.inbound = Pop(@, n)]

(* TCPConnection::~TCPConnection *)
destroy(c) == IF active(c) THEN _reset(c, TRUE) ELSE c
=============================================================================
