------------------------ MODULE StreamReassemblerSpec ------------------------
(***************************************************************************)
(* A StreamReassembler fed with substrings of one stream, in any order,    *)
(* overlapping and repeated, while its output is being read.               *)
(***************************************************************************)
EXTENDS StreamReassembler

CONSTANTS
  Byte,    \* the values of a byte
  Stream   \* the bytes the peer sends

ASSUME CapacityAssumption == Capacity \in Nat \ {0}
ASSUME StreamAssumption == Stream \in Seq(Byte)

VARIABLES
  r,       \* the StreamReassembler
  thrown   \* an exception has left push_substring

vars == << r, thrown >>
N == Len(Stream)

Init == r = New /\ thrown = FALSE

(* A substring the peer may send: n bytes from index, with the FIN flag     *)
(* only where the stream ends; or no bytes at all, at any position up to    *)
(* the one behind the FIN.                                                  *)
Sent(index, n, eof) ==
  /\ n > 0 => index + n <= N
  /\ eof => index + n = N

Push(index, n, eof) ==
  /\ ~thrown
  /\ Sent(index, n, eof)
  /\ r' = push_substring(r, SubSeq(Stream, index + 1, index + n), index, eof)
  /\ thrown' = length_error(r, SubSeq(Stream, index + 1, index + n), index)

Read(n) ==
  /\ ~thrown
  /\ r' = pop_output(r, n)
  /\ UNCHANGED thrown

Next ==
  \/ \E index \in 0..(N + 1), n \in 0..N, eof \in BOOLEAN :
        Push(index, n, eof)
  \/ \E n \in 1..Capacity : Read(n)

Spec == Init /\ [][Next]_vars
-----------------------------------------------------------------------------
IsSegment(s) ==
  /\ s.index \in Nat /\ s.start \in Nat /\ s.end \in Nat
  /\ s.index <= s.start /\ s.start <= s.end /\ s.end <= s.index + Len(s.data)

(* Types; and a segment's untrimmed part lies within its data (the          *)
(* assertions of Segment::remove_prefix and remove_suffix).                 *)
TypeOK ==
  /\ r.bytes_read \in Nat /\ r.end_index \in Nat
  /\ r.input_ended \in BOOLEAN /\ r.got_eof \in BOOLEAN
  /\ \A s \in r.segments : IsSegment(s)
  /\ thrown \in BOOLEAN

(* Whatever order the substrings arrive in, _output receives the stream:    *)
(* byte i written is byte i of the stream (push_substring).                 *)
OutputIsPrefix ==
  /\ bytes_written(r) <= N
  /\ \A i \in 1..bytes_written(r) : r.written[i] = Stream[i]

(* The stored segments are non-empty and never overlap, which lower_bound   *)
(* and the ordering of the std::set rely on (push_interval; "ensure no      *)
(* overlapping when insert", stream_reassembler.hh:44).                     *)
SegmentsDisjoint ==
  \A s, t \in r.segments :
    /\ s.start < s.end
    /\ s # t => s.end <= t.start \/ t.end <= s.start

(* No stored segment reaches back into what was already written, or beyond  *)
(* expected + _capacity (the trimming in push_substring).                   *)
SegmentsInWindow ==
  \A s \in r.segments : bytes_written(r) <= s.start /\ s.end <= bytes_written(r) + Capacity

(* unassembled_bytes() counts each stored byte once (the increments and     *)
(* decrements of _unassembled_bytes in push_interval and push_substring).   *)
CountIsExact ==
  r.unassembled_bytes = Cardinality(UNION {s.start..(s.end - 1) : s \in r.segments})

(* _output is ended only when the whole stream has been written to it, and  *)
(* then nothing is left in the store (_got_eof, _end_index).                *)
EndsOnlyAtTheEnd ==
  /\ r.got_eof => r.end_index = N
  /\ r.input_ended => r.got_eof /\ bytes_written(r) = N /\ r.segments = {}

(* The refinement mapping: the same bytes held and written as if each byte  *)
(* were stored on its own.                                                  *)
Positions ==
  [bytes_written |-> bytes_written(r), bytes_read |-> r.bytes_read,
   input_ended |-> r.input_ended, got_eof |-> r.got_eof, end_index |-> r.end_index,
   held |-> UNION {s.start..(s.end - 1) : s \in r.segments}, thrown |-> thrown]

Abstract == INSTANCE ReassemblySpec WITH a <- Positions, StreamLength <- N

(* Every push and every read is a step of ReassemblySpec, on the bytes the  *)
(* segments hold (push_substring and push_interval).                        *)
ImplementsReassembly == Abstract!Spec

=============================================================================
