--------------------------- MODULE TCPSpongeSocket ---------------------------
(***************************************************************************)
(* The rules of a TCPSpongeSocket's event loop (_initialize_TCP in          *)
(* tcp_sponge_socket.cc), on the state w of the thread that runs it:        *)
(*   tcp       _tcp, the TCPConnection                                      *)
(*   eof, outbound_shutdown, inbound_shutdown                               *)
(*             _thread_data.eof(), _outbound_shutdown, _inbound_shutdown    *)
(*   pair      the local sockets; _thread_data reads `up`, writes `down`    *)
(*   arriving  the segments the datagram adapter can read                   *)
(*   sent      those it has been given to write                             *)
(*   failed    "exception" or "sigpipe" once one has ended the process      *)
(***************************************************************************)
EXTENDS TCPState, LocalStreamSocket

SocketRules == << "adapter_in", "data_in", "data_out", "adapter_out" >>
SocketIn == {"adapter_in", "data_in"}

remaining_outbound_capacity(c) == SendCapacity - buffer_size(c.sender)

(* What is in the inbound stream: the positions of its unread bytes. *)
inbound_bytes(c) ==
  [i \in 1..(c.receiver.inbound.bytes_written - c.receiver.inbound.bytes_read)
     |-> c.receiver.inbound.bytes_read + i]
inbound_over(c) == inbound_eof(c.receiver) \/ c.receiver.error

data_in_interest_when_inactive(w) ==
  ~w.outbound_shutdown /\ remaining_outbound_capacity(w.tcp) > 0
data_in_interest(w) ==
  active(w.tcp) /\ ~w.outbound_shutdown /\ remaining_outbound_capacity(w.tcp) > 0

data_out_interest_again(w) == inbound_bytes(w.tcp) # << >> \/ inbound_over(w.tcp)
data_out_interest(w) ==
  inbound_bytes(w.tcp) # << >> \/ (inbound_over(w.tcp) /\ ~w.inbound_shutdown)

socket_interest(w, rule) ==
  CASE rule = "adapter_in"  -> active(w.tcp)
    [] rule = "data_in"     -> data_in_interest(w)
    [] rule = "data_out"    -> data_out_interest(w)
    [] rule = "adapter_out" -> w.tcp.segments_out # << >>

socket_ready(w, rule) ==
  CASE rule = "adapter_in"  -> w.arriving # << >>
    [] rule = "data_in"     -> readable(w.pair.up)
    [] rule = "data_out"    -> writable(w.pair.down)
    [] rule = "adapter_out" -> TRUE
socket_hung_up(w, rule) == rule \in {"data_in", "data_out"} /\ hung_up(w.pair)
socket_eof(w, rule) == rule = "data_in" /\ w.eof
socket_closed(w, rule) == FALSE
-----------------------------------------------------------------------------
(* rule 1: a datagram to the TCPConnection *)
or_fails(w) ==
  [w EXCEPT !.failed = IF w.tcp.receiver.inbound.thrown THEN "exception" ELSE "none"]
receive_datagram(w) ==
  or_fails([w EXCEPT !.tcp = segment_received(@, Head(w.arriving)), !.arriving = Tail(@)])

finish_outbound(w) ==
  [w EXCEPT !.tcp = end_input_stream(@), !.outbound_shutdown = TRUE]

(* rule 2: the owner's bytes to the TCPConnection; it throws unless all of  *)
(* them are accepted.  The owner is done when it has shut its end.          *)
owner_done_at_short_read(w) == remaining_outbound_capacity(w.tcp) > 0
owner_done(w) == w.eof

read_owner(w) ==
  LET limit == remaining_outbound_capacity(w.tcp)
      r == fd_read(w.pair.up, limit)
      tcp == write(w.tcp, Len(r.got))
      accepted == tcp.sender.bytes_written - w.tcp.sender.bytes_written
      after == [w EXCEPT !.tcp = tcp, !.pair.up = r.left, !.eof = @ \/ r.eof,
                         !.failed = IF accepted = Len(r.got)
                                    THEN read_error(w.pair.up, limit) ELSE "exception"]
  IN  IF owner_done(after) THEN finish_outbound(after) ELSE after

finish_inbound(w) ==
  IF inbound_over(w.tcp)
  THEN [w EXCEPT !.pair.down = shutdown(@), !.inbound_shutdown = TRUE] ELSE w

(* rule 3: inbound bytes to the owner; only what was written is popped. *)
write_owner_pops_all(w) ==
  LET bytes == inbound_bytes(w.tcp)
  IN  {finish_inbound(
         [w EXCEPT !.pair.down = fd_write(@, bytes, n), !.tcp = read_inbound(@, Len(bytes)),
                   !.failed = write_error(w.pair.down, bytes)])
         : n \in write_sizes(w.pair.down, bytes)}
write_owner(w) ==
  LET bytes == inbound_bytes(w.tcp)
  IN  {finish_inbound(
         [w EXCEPT !.pair.down = fd_write(@, bytes, n), !.tcp = read_inbound(@, n),
                   !.failed = write_error(w.pair.down, bytes)])
         : n \in write_sizes(w.pair.down, bytes)}

(* rule 4: segments to the adapter, which may keep them until it knows the  *)
(* Ethernet address: the descriptor need not be written.                    *)
send_datagrams(w) ==
  [w EXCEPT !.sent = @ \o w.tcp.segments_out, !.tcp.segments_out = << >>]

Outcome(w, serviced) == [w |-> w, serviced |-> serviced]
socket_callback(w, rule) ==
  CASE rule = "adapter_in"  -> {Outcome(receive_datagram(w), TRUE)}
    [] rule = "data_in"     -> {Outcome(read_owner(w), TRUE)}
    [] rule = "data_out"    -> {Outcome(after, TRUE) : after \in write_owner(w)}
    [] rule = "adapter_out" -> {Outcome(send_datagrams(w), FALSE)}

socket_cancel(w, rule) == IF rule = "data_in" THEN finish_outbound(w) ELSE w
=============================================================================
