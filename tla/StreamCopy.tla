----------------------------- MODULE StreamCopy ------------------------------
(***************************************************************************)
(* bidirectional_stream_copy (apps/bidirectional_stream_copy.cc): the rules *)
(* of its event loop, on the state v of the owner's thread:                 *)
(*   outbound, inbound   the two ByteStreams                                *)
(*   outbound_shutdown, inbound_shutdown                                    *)
(*   input_eof, socket_eof, output_closed   flags of the descriptors        *)
(*   stdin     bytes typed and not yet read; `shut` when no more will come  *)
(*   stdout    the bytes written                                            *)
(*   pair      the owner's socket writes `up` and reads `down`              *)
(*   failed    "sigpipe" once it has ended the process, or "exception"      *)
(***************************************************************************)
EXTENDS LocalStreamSocket

BS == INSTANCE ByteStream

CONSTANT CopyCapacity   \* buffer_size: 2^20

CopyRules == << "stdin", "socket_out", "socket_in", "stdout" >>
CopyIn == {"stdin", "socket_in"}

NewCopy ==
  [outbound |-> BS!New(CopyCapacity), inbound |-> BS!New(CopyCapacity),
   outbound_shutdown |-> FALSE, inbound_shutdown |-> FALSE,
   input_eof |-> FALSE, socket_eof |-> FALSE, output_closed |-> FALSE]

has_room(s, other) == ~s.error /\ BS!remaining_capacity(s) > 0 /\ ~other.error
to_write(s, done) == ~BS!buffer_empty(s) \/ (BS!eof(s) /\ ~done)

copy_interest_until_shutdown(v, rule) ==
  CASE rule = "stdin"      -> has_room(v.outbound, v.inbound)
    [] rule = "socket_out" -> to_write(v.outbound, v.outbound_shutdown)
    [] rule = "socket_in"  -> has_room(v.inbound, v.outbound) /\ ~v.outbound_shutdown
    [] rule = "stdout"     -> to_write(v.inbound, v.inbound_shutdown)
copy_interest(v, rule) ==
  CASE rule = "stdin"      -> has_room(v.outbound, v.inbound)
    [] rule = "socket_out" -> to_write(v.outbound, v.outbound_shutdown)
    [] rule = "socket_in"  -> has_room(v.inbound, v.outbound)
    [] rule = "stdout"     -> to_write(v.inbound, v.inbound_shutdown)

copy_ready(v, rule) ==
  CASE rule = "stdin"      -> readable(v.stdin)
    [] rule = "socket_out" -> writable(v.pair.up)
    [] rule = "socket_in"  -> readable(v.pair.down)
    [] rule = "stdout"     -> TRUE
copy_hung_up(v, rule) == rule \in {"socket_out", "socket_in"} /\ hung_up(v.pair)
copy_eof(v, rule) ==
  CASE rule = "stdin" -> v.input_eof [] rule = "socket_in" -> v.socket_eof [] OTHER -> FALSE
copy_closed(v, rule) == rule = "stdout" /\ v.output_closed
-----------------------------------------------------------------------------
(* What a stream is after reading r into it: written, and ended at eof. *)
filled(s, r) ==
  LET s1 == BS!write(s, r.got) IN IF r.eof THEN BS!end_input(s1) ELSE s1

(* rule 1 *)
read_stdin(v) ==
  LET limit == BS!remaining_capacity(v.outbound)
      r == fd_read(v.stdin, limit)
  IN  [v EXCEPT !.stdin = r.left, !.input_eof = @ \/ r.eof, !.outbound = filled(@, r),
                !.failed = read_error(v.stdin, limit)]

(* rule 2; the socket is shut for writing at the end of the stream. *)
write_socket(v) ==
  LET bytes == BS!peek_output(v.outbound, BS!buffer_size(v.outbound))
      written(n) == [v EXCEPT !.pair.up = fd_write(@, bytes, n),
                              !.outbound = BS!pop_output(@, n),
                              !.failed = write_error(v.pair.up, bytes)]
  IN  {IF BS!eof(written(n).outbound)
       THEN [written(n) EXCEPT !.pair.up = shutdown(@), !.outbound_shutdown = TRUE]
       ELSE written(n) : n \in write_sizes(v.pair.up, bytes)}

(* rule 3 *)
read_socket(v) ==
  LET limit == BS!remaining_capacity(v.inbound)
      r == fd_read(v.pair.down, limit)
  IN  [v EXCEPT !.pair.down = r.left, !.socket_eof = @ \/ r.eof, !.inbound = filled(@, r),
                !.failed = read_error(v.pair.down, limit)]

(* rule 4; stdout is closed at the end of the stream. *)
write_stdout(v) ==
  LET bytes == BS!peek_output(v.inbound, BS!buffer_size(v.inbound))
      written == [v EXCEPT !.stdout = @ \o bytes, !.inbound = BS!pop_output(@, Len(bytes))]
  IN  IF BS!eof(written.inbound)
      THEN [written EXCEPT !.output_closed = TRUE, !.inbound_shutdown = TRUE] ELSE written

copy_callback(v, rule) ==
  {[w |-> after, serviced |-> TRUE] : after \in
     CASE rule = "stdin"      -> {read_stdin(v)}
       [] rule = "socket_out" -> write_socket(v)
       [] rule = "socket_in"  -> {read_socket(v)}
       [] rule = "stdout"     -> {write_stdout(v)}}

copy_cancel(v, rule) ==
  IF rule \in {"stdin", "socket_out"} THEN [v EXCEPT !.outbound = BS!end_input(@)]
  ELSE [v EXCEPT !.inbound = BS!end_input(@)]
=============================================================================
