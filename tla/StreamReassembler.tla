-------------------------- MODULE StreamReassembler --------------------------
(***************************************************************************)
(* The class StreamReassembler and its Segment (stream_reassembler.hh/.cc). *)
(*                                                                         *)
(* An object is a record; a method is an operator on it.  _output is kept  *)
(* as what ByteStreamSpec shows a ByteStream to be: the bytes ever written *)
(* to it and the number of them already read.  _segments, a std::set       *)
(* ordered by start_index, is a set of Segment records: the bytes of data, *)
(* the stream index of the first of them, and the part [start, end) that   *)
(* has not been trimmed.                                                   *)
(***************************************************************************)
EXTENDS Integers, Sequences, FiniteSets, FiniteSetsExt

CONSTANT Capacity   \* _capacity, also the capacity of _output

(* Segment::Segment, remove_prefix, remove_suffix, size *)
Segment(index, data) ==
  [index |-> index, data |-> data, start |-> index, end |-> index + Len(data)]
remove_prefix_moves_index(s, n) == [s EXCEPT !.start = @ + n, !.index = @ + n]
remove_prefix(s, n) == [s EXCEPT !.start = @ + n]
remove_suffix(s, n) == [s EXCEPT !.end = @ - n]
size(s) == s.end - s.start

(* StreamReassembler::StreamReassembler *)
New ==
  [written |-> << >>, bytes_read |-> 0, input_ended |-> FALSE,
   end_index |-> 0, unassembled_bytes |-> 0, got_eof |-> FALSE, segments |-> {}]

bytes_written(r) == Len(r.written)
buffer_size(r) == bytes_written(r) - r.bytes_read
remaining_capacity(r) == Capacity - buffer_size(r)
-----------------------------------------------------------------------------
(* std::lower_bound over _segments with Segment < index comparing ends: the *)
(* first segment that ends at or after index, or {} for _segments.end().    *)
lower_bound(segs, index) ==
  {s \in segs : /\ s.end >= index
                /\ \A t \in segs : t.end >= index => s.start <= t.start}

(* How far the segment at `it` reaches into seg from the left; none when    *)
(* `it` is end() or starts behind seg.start.                                *)
previous(segs, seg) == {s \in lower_bound(segs, seg.start) : s.start <= seg.start}
prefix_overlap(segs, seg) ==
  IF previous(segs, seg) = {} THEN 0
  ELSE (CHOOSE s \in previous(segs, seg) : TRUE).end - seg.start

following(segs, seg) == {s \in lower_bound(segs, seg.end) : s.start <= seg.end}
suffix_overlap(segs, seg) ==
  IF following(segs, seg) = {} THEN 0
  ELSE seg.end - (CHOOSE s \in following(segs, seg) : TRUE).start

(* std::set::insert: nothing happens if a segment with that start exists. *)
insert(segs, seg) ==
  IF \E s \in segs : s.start = seg.start THEN segs ELSE segs \cup {seg}

(* [remove_begin, remove_end): the stored segments that segment covers once *)
(* its front has been cut.                                                  *)
covered_not_erased(segs, segment, cut) == {}
covered(segs, segment, cut) ==
  {s \in segs \ previous(segs, segment) : s.end >= segment.start /\ s.end < cut.end}

erased_bytes_not_subtracted(gone) == 0
erased_bytes(gone) == MapThenSumSet(size, gone)

(***************************************************************************)
(* push_interval: trims the segment against the stored one that reaches    *)
(* into its front, then against the one that reaches into its back, gives  *)
(* up if either covers it, erases the stored segments it covers and        *)
(* inserts what is left.                                                   *)
(***************************************************************************)
push_interval(r, segment) ==
  LET cut == remove_prefix(segment, prefix_overlap(r.segments, segment))
      seg == remove_suffix(cut, suffix_overlap(r.segments, cut))
      gone == covered(r.segments, segment, cut)
  IN  IF \/ size(segment) = 0
         \/ prefix_overlap(r.segments, segment) > size(segment)
         \/ suffix_overlap(r.segments, cut) > size(cut)
      THEN r
      ELSE [r EXCEPT !.segments = insert(@ \ gone, seg),
                     !.unassembled_bytes = @ - erased_bytes(gone) + size(seg)]
-----------------------------------------------------------------------------
Holds(s, p) == s.start <= p /\ p < s.end
Held(segs, p) == \E s \in segs : Holds(s, p)
ByteAt(segs, p) ==
  LET s == CHOOSE t \in segs : Holds(t, p) IN s.data[p - s.index + 1]

assembled_end_ignores_room(r) ==
  CHOOSE w \in bytes_written(r)..(bytes_written(r) + Capacity) :
    /\ \A p \in bytes_written(r)..(w - 1) : Held(r.segments, p)
    /\ w = bytes_written(r) + Capacity \/ ~Held(r.segments, w)
(* Where the reassembly loop stops writing: at the first byte that is not   *)
(* stored, or when _output is full.                                         *)
assembled_end(r) ==
  CHOOSE w \in bytes_written(r)..(r.bytes_read + Capacity) :
    /\ \A p \in bytes_written(r)..(w - 1) : Held(r.segments, p)
    /\ w = r.bytes_read + Capacity \/ ~Held(r.segments, w)

(* `trimmed`: the rest of a segment _output only had room for in part. *)
rest_untrimmed(s, w) == s
rest(s, w) == IF s.start < w THEN remove_prefix(s, w - s.start) ELSE s

(* The loop: segments that start where _output ends are written to it and   *)
(* erased.                                                                  *)
reassemble(r) ==
  LET w == assembled_end(r)
  IN  [r EXCEPT !.written = [i \in 1..w |-> IF i <= bytes_written(r) THEN r.written[i]
                                            ELSE ByteAt(r.segments, i - 1)],
                !.segments = {rest(s, w) : s \in {t \in @ : t.end > w}},
                !.unassembled_bytes = @ - (w - bytes_written(r))]
-----------------------------------------------------------------------------
(* `len = expected + _capacity - index` (line 39) is unsigned: when the     *)
(* data starts behind expected + _capacity it wraps around and the string   *)
(* built from len bytes throws std::length_error.                           *)
length_error(r, data, index) ==
  ~r.input_ended /\ index > bytes_written(r) + Capacity

note_eof_at_window_edge(r, data, index, eof) ==
  IF eof /\ ~r.got_eof
  THEN [r EXCEPT !.got_eof = TRUE,
                 !.end_index = Min({index + Len(data), bytes_written(r) + Capacity})] ELSE r
note_eof(r, data, index, eof) ==
  IF eof /\ ~r.got_eof
  THEN [r EXCEPT !.got_eof = TRUE, !.end_index = index + Len(data)] ELSE r

(* "trim the overflow data": the data up to expected + _capacity. *)
within_capacity(r, data, index) ==
  IF index + Len(data) > bytes_written(r) + Capacity
  THEN SubSeq(data, 1, bytes_written(r) + Capacity - index) ELSE data

(* The Segment made of it, without the bytes _output already has. *)
new_segment(r, data, index) ==
  LET segment == Segment(index, within_capacity(r, data, index))
  IN  IF index < bytes_written(r)
      THEN remove_prefix(segment, bytes_written(r) - index) ELSE segment

check_end(r) ==
  IF r.got_eof /\ r.end_index = bytes_written(r)
  THEN [r EXCEPT !.input_ended = TRUE] ELSE r

(* push_substring.  The exception leaves the eof flag noted. *)
push_substring(r, data, index, eof) ==
  IF r.input_ended \/ index + Len(data) < bytes_written(r) THEN r
  ELSE LET noted == note_eof(r, data, index, eof)
       IN  IF length_error(r, data, index) THEN noted
           ELSE check_end(reassemble(push_interval(noted, new_segment(noted, data, index))))

(* stream_out().read(n) or pop_output(n) by the reader of _output *)
pop_output(r, n) ==
  [r EXCEPT !.bytes_read = @ + (IF n < buffer_size(r) THEN n ELSE buffer_size(r))]
=============================================================================
