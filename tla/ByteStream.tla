----------------------------- MODULE ByteStream -----------------------------
(***************************************************************************)
(* The class ByteStream (byte_stream.hh, byte_stream.cc) and the BufferList *)
(* it keeps its bytes in (util/buffer.hh, util/buffer.cc).                 *)
(*                                                                         *)
(* An object is a record with the fields of the class; a method is an      *)
(* operator on it.  _buffer is the deque of Buffers: a sequence of chunks, *)
(* each the sequence of bytes not yet removed from it.  A write appends    *)
(* one chunk, also when nothing fits and the chunk is empty.               *)
(***************************************************************************)
EXTENDS Integers, Sequences, SequencesExt

Smaller(a, b) == IF a < b THEN a ELSE b

(* ByteStream::ByteStream(capacity) *)
New(capacity) ==
  [capacity |-> capacity, bytes_written |-> 0, bytes_read |-> 0,
   input_ended |-> FALSE, error |-> FALSE, buffer |-> << >>]

buffer_size(s) == s.bytes_written - s.bytes_read
buffer_empty(s) == buffer_size(s) = 0
eof(s) == s.input_ended /\ buffer_empty(s)
remaining_capacity(s) == s.capacity - buffer_size(s)

(* ByteStream::write: the prefix that fits; _input_ended is not looked at. *)
write(s, data) ==
  LET wc == Smaller(Len(data), remaining_capacity(s))
  IN  [s EXCEPT !.bytes_written = @ + wc,
                !.buffer = Append(@, SubSeq(data, 1, wc))]

peek_walk_skips_no_break(segments, n) ==
  FoldLeft(LAMBDA acc, segment :
             [acc EXCEPT !.ret = @ \o SubSeq(segment, 1, Smaller(acc.remain, Len(segment)))],
           [remain |-> n, ret |-> << >>, done |-> FALSE], segments)
(***************************************************************************)
(* The loop of peek_output over the chunks: whole chunks while they fit in *)
(* remain, then Buffer::str(remain) of the next one.                       *)
(***************************************************************************)
peek_walk(segments, n) ==
  FoldLeft(LAMBDA acc, segment :
             CASE acc.done -> acc
               [] ~acc.done /\ acc.remain >= Len(segment) ->
                    [acc EXCEPT !.ret = @ \o segment, !.remain = @ - Len(segment),
                                !.done = (acc.remain = Len(segment))]
               [] OTHER ->
                    [acc EXCEPT !.ret = @ \o SubSeq(segment, 1, acc.remain), !.done = TRUE],
           [remain |-> n, ret |-> << >>, done |-> FALSE], segments)

peek_output(s, len) == peek_walk(s.buffer, Smaller(len, buffer_size(s))).ret

remove_prefix_drops_whole_chunk(buffers, n) ==
  FoldLeft(LAMBDA acc, b :
             IF acc.n = 0 THEN [acc EXCEPT !.left = Append(@, b)]
             ELSE [acc EXCEPT !.n = @ - Smaller(acc.n, Len(b))],
           [n |-> n, left |-> << >>], buffers).left
(***************************************************************************)
(* BufferList::remove_prefix: pops chunks while n covers them, then cuts   *)
(* the front one (Buffer::remove_prefix).  Chunks behind the cut stay, and *)
(* so does an empty chunk the loop stops in front of.                      *)
(***************************************************************************)
remove_prefix(buffers, n) ==
  FoldLeft(LAMBDA acc, b :
             CASE acc.n = 0 -> [acc EXCEPT !.left = Append(@, b)]
               [] acc.n > 0 /\ acc.n < Len(b) ->
                    [n |-> 0, left |-> Append(acc.left, SubSeq(b, acc.n + 1, Len(b)))]
               [] OTHER -> [acc EXCEPT !.n = @ - Len(b)],
           [n |-> n, left |-> << >>], buffers).left

pop_output(s, len) ==
  LET rc == Smaller(len, buffer_size(s))
  IN  [s EXCEPT !.bytes_read = @ + rc, !.buffer = remove_prefix(@, rc)]

end_input(s) == [s EXCEPT !.input_ended = TRUE]
set_error(s) == [s EXCEPT !.error = TRUE]

(* The bytes in the stream, oldest first: what BufferList::concatenate     *)
(* returns for the deque.                                                  *)
concatenate(buffers) == FlattenSeq(buffers)
=============================================================================
