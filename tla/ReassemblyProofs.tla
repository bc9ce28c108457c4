-------------------------- MODULE ReassemblyProofs --------------------------
(***************************************************************************)
(* The StreamReassembler implements ReassemblySpec for every stream and     *)
(* every capacity: seen from outside, its trimmed, erased and merged        *)
(* segments are a set of positions.                                         *)
(***************************************************************************)
EXTENDS StreamReassemblerProofs

Bytes(segs) == UNION {s.start..(s.end - 1) : s \in segs}

Fields(w, i, ended, eof, last, held, t) ==
  [bytes_written |-> w, bytes_read |-> i, input_ended |-> ended, got_eof |-> eof,
   end_index |-> last, held |-> held, thrown |-> t]

(* The refinement mapping, of any reassembler. *)
Image(q, t) ==
  Fields(bytes_written(q), q.bytes_read, q.input_ended, q.got_eof, q.end_index,
         Bytes(q.segments), t)

IsImage(a) ==
  a = Fields(a.bytes_written, a.bytes_read, a.input_ended, a.got_eof, a.end_index, a.held,
             a.thrown)

LEMMA ImageFields ==
  ASSUME NEW q, NEW t
  PROVE  LET a == Image(q, t)
         IN  /\ IsImage(a) /\ a.bytes_written = bytes_written(q)
             /\ a.bytes_read = q.bytes_read /\ a.input_ended = q.input_ended
             /\ a.got_eof = q.got_eof /\ a.end_index = q.end_index
             /\ a.held = Bytes(q.segments) /\ a.thrown = t
  BY DEF Image, IsImage, Fields

(* A position is held when some segment covers it. *)
LEMMA HeldPositions ==
  ASSUME NEW segs, \A s \in segs : s \in Segments
  PROVE  \A p : p \in Bytes(segs) <=> p \in Nat /\ Held(segs, p)
  BY DEF Bytes, Held, Holds, Segments

(* The loop stops where ReassemblySpec says it does: there is one place     *)
(* only.                                                                    *)
LEMMA SameEnd ==
  ASSUME NEW q, Good(q), NEW a, a.bytes_written = bytes_written(q),
         a.bytes_read = q.bytes_read
  PROVE  Abstract!Reached(a, Bytes(q.segments)) = assembled_end(q)
<1> DEFINE first == bytes_written(q)
           last == q.bytes_read + Capacity
           held == Bytes(q.segments)
           Stops(w) == first..(w - 1) \subseteq held /\ (w = last \/ w \notin held)
           w == assembled_end(q)
           v == Abstract!Reached(a, held)
<1>1. first \in Nat /\ last \in Nat /\ first <= last
  BY CapacityAssumption DEF Good, Prefix, bytes_written
<1>2. \A p : p \in held <=> p \in Nat /\ Held(q.segments, p)
  BY HeldPositions DEF Good, Stored, Carries
<1>3. w \in first..last /\ Stops(w)
  <2>1. /\ w \in first..last /\ \A p \in first..(w - 1) : Held(q.segments, p)
        /\ w = last \/ ~Held(q.segments, w)
    BY AssembledEnd DEF Good
  <2> HIDE DEF w, held, first, last
  <2> QED BY <1>1, <1>2, <2>1
<1>4. v \in first..last /\ Stops(v)
  <2>1. v = CHOOSE x \in first..last : Stops(x)
    BY DEF Abstract!Reached
  <2> HIDE DEF v, w, Stops, held, first, last
  <2> QED BY <1>3, <2>1
<1> HIDE DEF v, w, held, first, last
<1> QED BY <1>1, <1>3, <1>4 DEF v, w, held

(* push_interval stores the positions of the data that lie in the window. *)
LEMMA PushedPositions ==
  ASSUME NEW q, Good(q), NEW index \in Nat, NEW n \in Nat, n > 0 => index + n <= N,
         bytes_written(q) <= index + n, index <= bytes_written(q) + Capacity
  PROVE  LET W == bytes_written(q)
             pushed == push_interval(q, new_segment(q, Data(index, n), index))
         IN  /\ Good(pushed) /\ SameOutput(pushed, q)
             /\ Bytes(pushed.segments) =
                  Bytes(q.segments) \cup ((index..(index + n - 1)) \cap (W..(W + Capacity - 1)))
<1> DEFINE W == bytes_written(q)
           segment == new_segment(q, Data(index, n), index)
           pushed == push_interval(q, segment)
           new == (index..(index + n - 1)) \cap (W..(W + Capacity - 1))
<1>1. W \in Nat /\ Capacity \in Nat
  BY CapacityAssumption DEF Good, Prefix, bytes_written
<1>2. \A s \in q.segments : s \in Segments
  BY DEF Good, Stored, Carries
<1>3. CASE n = 0
  <2>1. pushed = q
    BY <1>3, EmptySegment DEF Good
  <2>2. new = {}
    BY <1>1, <1>3
  <2> QED BY <2>1, <2>2 DEF SameOutput, Good
<1>4. CASE n > 0
  <2>1. /\ Carries(segment) /\ W <= segment.start /\ segment.end <= W + Capacity
        /\ \A p \in Nat : Holds(segment, p) <=>
             index <= p /\ p < index + n /\ W <= p /\ p < W + Capacity
    BY <1>4, NewSegment DEF Good
  <2> HIDE DEF segment
  <2>2. /\ SameOutput(pushed, q) /\ Stored(pushed.segments, W)
        /\ \A p \in Nat : Held(pushed.segments, p) <=> Held(q.segments, p) \/ Holds(segment, p)
    BY <1>1, <2>1, PushInterval DEF Good
  <2> HIDE DEF pushed
  <2>3. Good(pushed)
    BY <2>2 DEF Good, SameOutput, Prefix, Ends, bytes_written
  <2>4. \A p : p \in Bytes(pushed.segments) <=> p \in Nat /\ Held(pushed.segments, p)
    BY <2>2, HeldPositions DEF Stored, Carries
  <2>5. \A p : p \in Bytes(q.segments) <=> p \in Nat /\ Held(q.segments, p)
    BY <1>2, HeldPositions
  <2>6. \A p : p \in new <=> p \in Nat /\ Holds(segment, p)
    BY <1>1, <2>1
  <2> HIDE DEF new, W
  <2>7. Bytes(pushed.segments) = Bytes(q.segments) \cup new
    BY <2>2, <2>4, <2>5, <2>6
  <2> QED BY <2>2, <2>3, <2>7 DEF pushed, segment, new, W
<1> QED BY <1>3, <1>4

(* The loop takes away the positions it has written. *)
LEMMA ReassembledPositions ==
  ASSUME NEW q, Good(q)
  PROVE  Bytes(reassemble(q).segments) = Bytes(q.segments) \ (0..(assembled_end(q) - 1))
<1> DEFINE w == assembled_end(q)
           left == reassemble(q).segments
<1>1. /\ Stored(left, bytes_written(reassemble(q)))
      /\ \A p \in Nat : Held(left, p) <=> Held(q.segments, p) /\ w <= p
  BY Reassemble DEF Good
<1>2. w \in Nat
  BY AssembledEnd, CapacityAssumption DEF Good, Prefix, bytes_written
<1> HIDE DEF w, left
<1>3. \A p : p \in Bytes(left) <=> p \in Nat /\ Held(left, p)
  BY <1>1, HeldPositions DEF Stored, Carries
<1>4. \A p : p \in Bytes(q.segments) <=> p \in Nat /\ Held(q.segments, p)
  BY HeldPositions DEF Good, Stored, Carries
<1>5. Bytes(left) = Bytes(q.segments) \ (0..(w - 1))
  BY <1>1, <1>2, <1>3, <1>4
<1> QED BY <1>5 DEF w, left
-----------------------------------------------------------------------------
(* The image of a push is the abstract push. *)
LEMMA PushImage ==
  ASSUME NEW q, Good(q), NEW index \in Nat, NEW n \in Nat, NEW eof \in BOOLEAN,
         Sent(index, n, eof)
  PROVE  Image(push_substring(q, Data(index, n), index, eof),
               length_error(q, Data(index, n), index))
           = Abstract!Push(Image(q, FALSE), index, n, eof)
<1> DEFINE data == Data(index, n)
           a == Image(q, FALSE)
           W == bytes_written(q)
           window == W..(W + Capacity - 1)
           held == Bytes(q.segments) \cup ((index..(index + n - 1)) \cap window)
           v == Abstract!Reached(a, held)
           got_eof == q.got_eof \/ eof
           end_index == IF eof /\ ~q.got_eof THEN index + n ELSE q.end_index
           noted == note_eof(q, data, index, eof)
           pushed == push_interval(noted, new_segment(noted, data, index))
           assembled == reassemble(pushed)
           ended == check_end(assembled)
<1>1. /\ Len(data) = n /\ W \in Nat /\ Capacity \in Nat /\ N \in Nat
      /\ n > 0 => index + n <= N
      /\ eof => index + n = N
  BY DataFacts, StreamAssumption, CapacityAssumption
     DEF Sent, N, Good, Prefix, bytes_written
<1>2. /\ IsImage(a) /\ a.bytes_written = W
      /\ a.bytes_read = q.bytes_read /\ a.input_ended = q.input_ended
      /\ a.got_eof = q.got_eof /\ a.end_index = q.end_index /\ a.held = Bytes(q.segments)
      /\ a.thrown = FALSE
  BY ImageFields, Zenon
<1>3. q.input_ended \in BOOLEAN /\ q.got_eof \in BOOLEAN /\ q.end_index \in Nat
  BY DEF Good, Ends
<1>4. Abstract!Push(a, index, n, eof) =
        IF q.input_ended \/ index + n < W THEN a
        ELSE IF index > W + Capacity
        THEN [a EXCEPT !.got_eof = got_eof, !.end_index = end_index, !.thrown = TRUE]
        ELSE [a EXCEPT !.got_eof = got_eof, !.end_index = end_index,
                       !.bytes_written = v, !.held = held \ (0..(v - 1)),
                       !.input_ended = got_eof /\ end_index = v]
  BY <1>2 DEF Abstract!Push
<1>5. /\ IsRecord(noted) /\ noted.written = q.written /\ noted.bytes_read = q.bytes_read
      /\ noted.segments = q.segments /\ noted.input_ended = q.input_ended
      /\ noted.got_eof = got_eof /\ noted.end_index = end_index
  <2>1. CASE eof /\ ~q.got_eof
    BY <1>1, <1>3, <2>1 DEF note_eof, Good, IsRecord
  <2>2. CASE ~(eof /\ ~q.got_eof)
    <3>1. noted = q /\ end_index = q.end_index
      BY <2>2 DEF note_eof
    <3>2. got_eof = q.got_eof
      BY <1>3, <2>2
    <3> QED BY <3>1, <3>2 DEF Good
  <2> QED BY <2>1, <2>2
<1> HIDE DEF data, noted, a, v, held
<1>6. CASE q.input_ended \/ index + n < W
  <2>1. push_substring(q, data, index, eof) = q
    BY <1>1, <1>6 DEF push_substring
  <2>2. ~length_error(q, data, index)
    BY <1>1, <1>6 DEF length_error
  <2>3. length_error(q, data, index) = FALSE
    BY <2>2 DEF length_error
  <2> QED BY <1>4, <1>6, <2>1, <2>3 DEF data, a
<1>7. CASE ~(q.input_ended \/ index + n < W) /\ index > W + Capacity
  <2>1. length_error(q, data, index) = TRUE
    BY <1>7 DEF length_error
  <2>2. push_substring(q, data, index, eof) = noted
    BY <1>1, <1>7, <2>1 DEF push_substring, noted
  <2>3. Image(noted, TRUE) = [a EXCEPT !.got_eof = got_eof, !.end_index = end_index,
                                       !.thrown = TRUE]
    <3> HIDE DEF got_eof, end_index
    <3> DEFINE image == Fields(W, q.bytes_read, q.input_ended, got_eof, end_index,
                               Bytes(q.segments), TRUE)
    <3>1. Image(noted, TRUE) = image
      BY <1>5, Zenon DEF Image, bytes_written
    <3>2. ASSUME NEW t, NEW b, b = [a EXCEPT !.got_eof = got_eof, !.end_index = end_index,
                                             !.thrown = t]
          PROVE  b = Fields(a.bytes_written, a.bytes_read, a.input_ended, got_eof,
                            end_index, a.held, t)
      BY <1>2, <3>2 DEF IsImage, Fields
    <3>3. [a EXCEPT !.got_eof = got_eof, !.end_index = end_index, !.thrown = TRUE] = image
      BY <1>2, <3>2, Zenon
    <3> QED BY <3>1, <3>3, Zenon
  <2> QED BY <1>4, <1>7, <2>1, <2>2, <2>3 DEF data, a
<1>8. CASE ~(q.input_ended \/ index + n < W) /\ ~(index > W + Capacity)
  <2>1. length_error(q, data, index) = FALSE
    BY <1>8 DEF length_error
  <2>2. push_substring(q, data, index, eof) = ended
    BY <1>1, <1>8, <2>1 DEF push_substring, noted
  <2>3. Good(noted) /\ bytes_written(noted) = W
    <3>1. noted.got_eof \in BOOLEAN /\ noted.end_index \in Nat
      BY <1>1, <1>3, <1>5
    <3>2. noted.got_eof => noted.end_index = N
      BY <1>1, <1>5 DEF Good, Ends
    <3>3. noted.input_ended = FALSE
      BY <1>3, <1>5, <1>8
    <3> QED BY <1>5, <3>1, <3>2, <3>3 DEF Good, Prefix, Stored, Ends, bytes_written
  <2>4. /\ Good(pushed) /\ SameOutput(pushed, noted) /\ Bytes(pushed.segments) = held
    BY <1>1, <1>5, <1>8, <2>3, PushedPositions DEF data, held
  <2> HIDE DEF pushed
  <2>5. bytes_written(pushed) = W /\ pushed.bytes_read = q.bytes_read
    BY <1>5, <2>4 DEF SameOutput, bytes_written
  <2>6. v = assembled_end(pushed)
    BY <1>2, <2>4, <2>5, SameEnd DEF v
  <2>7. /\ IsRecord(assembled) /\ assembled.bytes_read = q.bytes_read
        /\ bytes_written(assembled) = v /\ Bytes(assembled.segments) = held \ (0..(v - 1))
        /\ assembled.got_eof = got_eof /\ assembled.end_index = end_index
        /\ assembled.input_ended = FALSE
    <3>1. /\ IsRecord(assembled) /\ assembled.bytes_read = pushed.bytes_read
          /\ bytes_written(assembled) = v /\ assembled.input_ended = pushed.input_ended
          /\ assembled.end_index = pushed.end_index /\ assembled.got_eof = pushed.got_eof
      BY <2>4, <2>6, Reassemble DEF Good
    <3>2. Bytes(assembled.segments) = held \ (0..(v - 1))
      BY <2>4, <2>6, ReassembledPositions
    <3>3. pushed.input_ended = FALSE
      BY <1>3, <1>5, <1>8, <2>4 DEF SameOutput
    <3> HIDE DEF assembled, got_eof, end_index
    <3> QED BY <1>5, <2>4, <2>5, <3>1, <3>2, <3>3 DEF SameOutput
  <2> HIDE DEF assembled
  <2>8. /\ bytes_written(ended) = v /\ ended.bytes_read = q.bytes_read
        /\ ended.segments = assembled.segments
        /\ ended.got_eof = got_eof /\ ended.end_index = end_index
    <3> HIDE DEF got_eof, end_index
    <3> QED BY <2>7 DEF check_end, IsRecord, bytes_written
  <2>9. ended.input_ended = (got_eof /\ end_index = v)
    <3> HIDE DEF got_eof, end_index
    <3>1. CASE got_eof /\ end_index = v
      BY <2>7, <3>1 DEF check_end, IsRecord
    <3>2. CASE ~(got_eof /\ end_index = v)
      BY <2>7, <3>2 DEF check_end
    <3> QED BY <3>1, <3>2
  <2> HIDE DEF ended, got_eof, end_index
  <2>10. Image(ended, FALSE) =
           [a EXCEPT !.got_eof = got_eof, !.end_index = end_index,
                     !.bytes_written = v, !.held = held \ (0..(v - 1)),
                     !.input_ended = got_eof /\ end_index = v]
    <3> DEFINE end == got_eof /\ end_index = v
               left == held \ (0..(v - 1))
               image == Fields(v, q.bytes_read, end, got_eof, end_index, left, FALSE)
    <3>1. Bytes(ended.segments) = left /\ ended.input_ended = end
      BY <2>7, <2>8, <2>9, Zenon
    <3> HIDE DEF end, left
    <3>2. Image(ended, FALSE) = image
      BY <2>8, <3>1, Zenon DEF Image
    <3>3. ASSUME NEW b, b = [a EXCEPT !.got_eof = got_eof, !.end_index = end_index,
                                      !.bytes_written = v, !.held = left, !.input_ended = end]
          PROVE  b = Fields(v, a.bytes_read, end, got_eof, end_index, left, a.thrown)
      BY <1>2, <3>3 DEF IsImage, Fields
    <3>4. [a EXCEPT !.got_eof = got_eof, !.end_index = end_index, !.bytes_written = v,
                    !.held = left, !.input_ended = end] = image
      BY <1>2, <3>3, Zenon
    <3> QED BY <3>2, <3>4, Zenon DEF end, left
  <2> QED BY <1>4, <1>8, <2>1, <2>2, <2>10 DEF data, a
<1> QED BY <1>6, <1>7, <1>8

(* The image of a read is the abstract read. *)
LEMMA PopImage ==
  ASSUME NEW q, Good(q), NEW n \in Nat
  PROVE  Image(pop_output(q, n), FALSE) = Abstract!Pop(Image(q, FALSE), n)
<1> DEFINE a == Image(q, FALSE)
           to == IF q.bytes_read + n < bytes_written(q) THEN q.bytes_read + n
                 ELSE bytes_written(q)
           popped == pop_output(q, n)
<1>1. /\ bytes_written(q) \in Nat /\ q.bytes_read \in Nat /\ q.bytes_read <= bytes_written(q)
  BY DEF Good, Prefix, bytes_written
<1>2. /\ popped.bytes_read = to /\ bytes_written(popped) = bytes_written(q)
      /\ popped.segments = q.segments /\ popped.input_ended = q.input_ended
      /\ popped.got_eof = q.got_eof /\ popped.end_index = q.end_index
  BY <1>1 DEF pop_output, buffer_size, bytes_written, Good, IsRecord
<1>3. Abstract!Min({q.bytes_read + n, bytes_written(q)}) = to
  BY <1>1 DEF Abstract!Min
<1>4. Abstract!Pop(a, n) = [a EXCEPT !.bytes_read = to]
  <2>1. a.bytes_read = q.bytes_read /\ a.bytes_written = bytes_written(q)
    BY ImageFields, Zenon
  <2> HIDE DEF a
  <2> QED BY <1>3, <2>1 DEF Abstract!Pop
<1> HIDE DEF popped, to
<1>5. Image(popped, FALSE) = [a EXCEPT !.bytes_read = to]
  <2> DEFINE image == Fields(bytes_written(q), to, q.input_ended, q.got_eof, q.end_index,
                             Bytes(q.segments), FALSE)
  <2>1. Image(popped, FALSE) = image
    BY <1>2, Zenon DEF Image
  <2>2. /\ IsImage(a) /\ a.bytes_written = bytes_written(q) /\ a.input_ended = q.input_ended
        /\ a.got_eof = q.got_eof /\ a.end_index = q.end_index /\ a.held = Bytes(q.segments)
        /\ a.thrown = FALSE
    BY ImageFields, Zenon
  <2> HIDE DEF a
  <2>3. ASSUME NEW b, b = [a EXCEPT !.bytes_read = to]
        PROVE  b = Fields(a.bytes_written, to, a.input_ended, a.got_eof, a.end_index, a.held,
                          a.thrown)
    BY <2>2, <2>3 DEF IsImage, Fields
  <2>4. [a EXCEPT !.bytes_read = to] = image
    BY <2>2, <2>3, Zenon
  <2> QED BY <2>1, <2>4, Zenon
<1> QED BY <1>4, <1>5 DEF popped
-----------------------------------------------------------------------------
(* Every behaviour of the StreamReassembler is one of ReassemblySpec        *)
(* (push_substring, push_interval and the reads of _output).                *)
THEOREM Refines == Spec => ImplementsReassembly
<1>1. Init => Abstract!Init
  <2> SUFFICES ASSUME Init PROVE Abstract!Init
    OBVIOUS
  <2>1. UNION {s.start..(s.end - 1) : s \in {}} = {}
    OBVIOUS
  <2> QED BY <2>1 DEF Init, New, Positions, bytes_written, Abstract!Init, Abstract!Empty
<1>2. Inv /\ [Next]_vars => [Abstract!Next]_Positions
  <2> SUFFICES ASSUME Inv, [Next]_vars PROVE [Abstract!Next]_Positions
    OBVIOUS
  <2>1. ASSUME NEW index \in 0..(N + 1), NEW n \in 0..N, NEW eof \in BOOLEAN,
               Push(index, n, eof)
        PROVE  Abstract!Next
    <3>1. index \in Nat /\ n \in Nat /\ Sent(index, n, eof) /\ thrown = FALSE
      BY <2>1, StreamAssumption DEF N, Push, Inv
    <3>2. /\ r' = push_substring(r, Data(index, n), index, eof)
          /\ thrown' = length_error(r, Data(index, n), index)
      BY <2>1 DEF Push, Data
    <3>3. Positions = Image(r, FALSE)
      BY <3>1 DEF Positions, Image, Fields, Bytes
    <3>4. Positions' = Image(r', thrown')
      BY DEF Positions, Image, Fields, Bytes, bytes_written
    <3>5. Positions' = Abstract!Push(Positions, index, n, eof)
      BY <3>1, <3>2, <3>3, <3>4, PushImage DEF Inv
    <3>6. ~Positions.thrown
      BY <3>1 DEF Positions
    <3>7. Abstract!Receive(index, n, eof)
      BY <3>5, <3>6 DEF Abstract!Receive
    <3> QED BY <3>1, <3>7 DEF Abstract!Next, Sent
  <2>2. ASSUME NEW n \in 1..Capacity, Read(n) PROVE Abstract!Next
    <3>1. n \in Nat /\ thrown = FALSE /\ thrown' = FALSE /\ r' = pop_output(r, n)
      BY <2>2, CapacityAssumption DEF Read, Inv
    <3>2. Positions = Image(r, FALSE)
      BY <3>1 DEF Positions, Image, Fields, Bytes
    <3>3. Positions' = Image(r', thrown')
      BY DEF Positions, Image, Fields, Bytes, bytes_written
    <3>4. Positions' = Abstract!Pop(Positions, n)
      BY <3>1, <3>2, <3>3, PopImage DEF Inv
    <3>5. ~Positions.thrown
      BY <3>1 DEF Positions
    <3>6. Abstract!Read(n)
      BY <3>4, <3>5 DEF Abstract!Read
    <3> QED BY <3>6 DEF Abstract!Next
  <2>3. CASE UNCHANGED vars
    BY <2>3 DEF vars, Positions, bytes_written
  <2> QED BY <2>1, <2>2, <2>3 DEF Next
<1> QED BY <1>1, <1>2, Invariance, PTL DEF Spec, ImplementsReassembly, Abstract!Spec
=============================================================================
