----------------------------- MODULE Reassembly -----------------------------
(***************************************************************************)
(* What a StreamReassembler promises, on stream positions: the bytes it     *)
(* holds are a set of positions, without any trace of the segments they     *)
(* came in.  StreamReassemblerSpec implements ReassemblySpec; TCPReceiver   *)
(* is built on the operators here.                                          *)
(***************************************************************************)
EXTENDS Integers, FiniteSetsExt

CONSTANT Capacity

Empty ==
  [bytes_written |-> 0, bytes_read |-> 0, input_ended |-> FALSE,
   got_eof |-> FALSE, end_index |-> 0, held |-> {}, thrown |-> FALSE]

(* How far the bytes held allow the output to grow within its capacity. *)
Reached(a, held) ==
  CHOOSE w \in a.bytes_written..(a.bytes_read + Capacity) :
    /\ a.bytes_written..(w - 1) \subseteq held
    /\ w = a.bytes_read + Capacity \/ w \notin held

Push_ends_at_any_fin(a, index, n, eof) ==
  LET held == a.held \cup ((index..(index + n - 1))
                           \cap (a.bytes_written..(a.bytes_written + Capacity - 1)))
      w == Reached(a, held)
  IN  [a EXCEPT !.bytes_written = w, !.held = held \ (0..(w - 1)),
                !.got_eof = @ \/ eof, !.input_ended = @ \/ eof]
(* push_substring of n bytes at index *)
Push(a, index, n, eof) ==
  LET window == a.bytes_written..(a.bytes_written + Capacity - 1)
      held == a.held \cup ((index..(index + n - 1)) \cap window)
      w == Reached(a, held)
      got_eof == a.got_eof \/ eof
      end_index == IF eof /\ ~a.got_eof THEN index + n ELSE a.end_index
  IN  IF a.input_ended \/ index + n < a.bytes_written THEN a
      ELSE IF index > a.bytes_written + Capacity
      THEN [a EXCEPT !.got_eof = got_eof, !.end_index = end_index, !.thrown = TRUE]
      ELSE [a EXCEPT !.got_eof = got_eof, !.end_index = end_index,
                     !.bytes_written = w, !.held = held \ (0..(w - 1)),
                     !.input_ended = got_eof /\ end_index = w]

(* The reader takes up to n bytes of the output. *)
Pop(a, n) ==
  [a EXCEPT !.bytes_read = Min({@ + n, a.bytes_written})]
=============================================================================
