----------------------- MODULE StreamReassemblerProofs ----------------------
(***************************************************************************)
(* The StreamReassembler for every stream and every capacity: what it       *)
(* writes is the stream, and its segments never overlap.                    *)
(***************************************************************************)
EXTENDS StreamReassemblerSpec, WellFoundedInduction, TLAPS

Segments == [index : Nat, data : Seq(Byte), start : Nat, end : Nat]

(* The segment holds bytes of the stream, in their places. *)
Carries(s) ==
  /\ s \in Segments
  /\ s.index <= s.start /\ s.start <= s.end /\ s.end <= s.index + Len(s.data)
  /\ s.end <= N
  /\ \A p \in Nat : s.start <= p /\ p < s.end => s.data[p - s.index + 1] = Stream[p + 1]

Disjoint(segs) ==
  \A s, t \in segs :
    /\ s.start < s.end
    /\ s # t => s.end <= t.start \/ t.end <= s.start

Within(segs, w) == \A s \in segs : w <= s.start /\ s.end <= w + Capacity

(* What push_interval and reassemble keep of the stored segments. *)
Stored(segs, w) ==
  /\ \A s \in segs : Carries(s)
  /\ Disjoint(segs)
  /\ Within(segs, w)

(* A record with the fields of a StreamReassembler. *)
IsRecord(q) ==
  q = [written |-> q.written, bytes_read |-> q.bytes_read, input_ended |-> q.input_ended,
       end_index |-> q.end_index, unassembled_bytes |-> q.unassembled_bytes,
       got_eof |-> q.got_eof, segments |-> q.segments]

(* _output has the first bytes of the stream, and no more than fit. *)
Prefix(q) ==
  /\ q.written \in Seq(Byte) /\ Len(q.written) <= N
  /\ \A i \in 1..Len(q.written) : q.written[i] = Stream[i]
  /\ q.bytes_read \in Nat
  /\ q.bytes_read <= Len(q.written) /\ Len(q.written) <= q.bytes_read + Capacity

(* Two of them that differ at most in what they store. *)
SameOutput(p, q) ==
  /\ IsRecord(p)
  /\ p.written = q.written /\ p.bytes_read = q.bytes_read /\ p.input_ended = q.input_ended
  /\ p.end_index = q.end_index /\ p.got_eof = q.got_eof
-----------------------------------------------------------------------------
(* A non-empty set of natural numbers has a least element. *)
LEMMA LeastNumber ==
  ASSUME NEW T \in SUBSET Nat, T # {}
  PROVE  \E x \in T : \A y \in T : x <= y
<1>1. IsWellFoundedOn(OpToRel(<, Nat), Nat)
  BY NatLessThanWellFounded
<1>2. PICK x \in T : \A y \in T : ~(<<y, x>> \in OpToRel(<, Nat))
  BY <1>1, WFMin
<1>3. \A y \in T : ~(y < x)
  BY <1>2 DEF OpToRel
<1> QED BY <1>3

(* What is left of a segment cut at either end still carries the stream. *)
LEMMA CarriesPart ==
  ASSUME NEW s, Carries(s), NEW t \in Segments, t.index = s.index, t.data = s.data,
         s.start <= t.start, t.start <= t.end, t.end <= s.end
  PROVE  Carries(t)
<1>1. /\ s \in Segments /\ s.index <= s.start /\ s.end <= s.index + Len(s.data) /\ s.end <= N
      /\ \A p \in Nat : s.start <= p /\ p < s.end => s.data[p - s.index + 1] = Stream[p + 1]
  BY Zenon DEF Carries
<1>2. /\ s.start \in Nat /\ s.end \in Nat /\ s.index \in Nat /\ Len(s.data) \in Nat
      /\ t.start \in Nat /\ t.end \in Nat /\ N \in Nat
  BY <1>1, StreamAssumption DEF N, Segments
<1>3. t.index <= t.start /\ t.end <= t.index + Len(t.data) /\ t.end <= N
  BY <1>1, <1>2
<1>4. ASSUME NEW p \in Nat, t.start <= p, p < t.end
      PROVE  t.data[p - t.index + 1] = Stream[p + 1]
  <2>1. s.start <= p /\ p < s.end
    BY <1>2, <1>4
  <2>2. s.data[p - s.index + 1] = Stream[p + 1]
    BY <1>1, <2>1, Zenon
  <2> QED BY <2>2, Zenon
<1> QED BY <1>3, <1>4, Zenon DEF Carries

(* If some segment ends at or after i and starts at or before j, then so    *)
(* does the one lower_bound(i) finds.                                       *)
LEMMA LowerBound ==
  ASSUME NEW segs, \A s \in segs : s \in Segments, NEW i \in Nat, NEW j \in Nat,
         NEW t \in segs, t.end >= i, t.start <= j
  PROVE  \E s \in lower_bound(segs, i) : s.start <= j
<1> DEFINE T == {s.start : s \in {u \in segs : u.end >= i}}
<1>1. t.start \in T /\ T \in SUBSET Nat
  BY DEF Segments
<1> HIDE DEF T
<1>2. PICK x \in T : \A y \in T : x <= y
  BY <1>1, LeastNumber
<1>3. PICK s \in segs : s.end >= i /\ s.start = x
  BY <1>2 DEF T
<1>4. \A u \in segs : u.end >= i => s.start <= u.start
  BY <1>2, <1>3 DEF T
<1>5. s.start <= j
  BY <1>4 DEF Segments
<1> QED BY <1>3, <1>4, <1>5 DEF lower_bound

(* The front of the segment after the cut: it does not lie in the interior  *)
(* of any stored segment that starts at or before the segment.              *)
LEMMA PrefixCut ==
  ASSUME NEW segs, \A s \in segs : s \in Segments, Disjoint(segs), NEW seg \in Segments
  PROVE  /\ prefix_overlap(segs, seg) \in Nat
         /\ \A t \in previous(segs, seg) :
              t \in segs /\ t.start <= seg.start /\ seg.start <= t.end
                /\ t.end = seg.start + prefix_overlap(segs, seg)
         /\ previous(segs, seg) = {} =>
              /\ prefix_overlap(segs, seg) = 0
              /\ \A t \in segs : t.end >= seg.start => t.start > seg.start
<1>1. \A t \in previous(segs, seg) :
        /\ t \in segs /\ t.start <= seg.start /\ seg.start <= t.end
        /\ \A u \in segs : u.end >= seg.start => t.start <= u.start
  BY DEF previous, lower_bound, Segments
<1>2. CASE previous(segs, seg) = {}
  <2>1. ASSUME NEW t \in segs, t.end >= seg.start, t.start <= seg.start PROVE FALSE
    BY <1>2, <2>1, LowerBound DEF previous, Segments
  <2> QED BY <1>2, <2>1 DEF prefix_overlap, Segments
<1>3. CASE previous(segs, seg) # {}
  <2> DEFINE p == CHOOSE s \in previous(segs, seg) : TRUE
  <2>1. p \in previous(segs, seg)
    BY <1>3
  <2> HIDE DEF p
  <2>2. \A t \in previous(segs, seg) : t = p
    <3>1. ASSUME NEW t \in previous(segs, seg) PROVE t.start = p.start
      BY <1>1, <2>1, <3>1 DEF Segments
    <3> QED BY <1>1, <2>1, <3>1 DEF Disjoint, Segments
  <2>3. prefix_overlap(segs, seg) = p.end - seg.start
    BY <1>3 DEF prefix_overlap, p
  <2> QED BY <1>1, <1>3, <2>1, <2>2, <2>3 DEF Segments
<1> QED BY <1>2, <1>3

(* The back of the segment after the cut: at or before the start of every   *)
(* stored segment that ends at or after the segment does.                   *)
LEMMA SuffixCut ==
  ASSUME NEW segs, \A s \in segs : s \in Segments, NEW seg \in Segments
  PROVE  /\ suffix_overlap(segs, seg) \in Nat
         /\ following(segs, seg) # {} =>
              \E f \in segs :
                /\ f.end >= seg.end /\ f.start = seg.end - suffix_overlap(segs, seg)
                /\ \A t \in segs : t.end >= seg.end => f.start <= t.start
         /\ following(segs, seg) = {} =>
              /\ suffix_overlap(segs, seg) = 0
              /\ \A t \in segs : t.end >= seg.end => t.start > seg.end
<1>1. CASE following(segs, seg) = {}
  <2>1. ASSUME NEW t \in segs, t.end >= seg.end, t.start <= seg.end PROVE FALSE
    BY <1>1, <2>1, LowerBound DEF following, Segments
  <2> QED BY <1>1, <2>1 DEF suffix_overlap, Segments
<1>2. CASE following(segs, seg) # {}
  <2> DEFINE f == CHOOSE s \in following(segs, seg) : TRUE
  <2>1. f \in following(segs, seg)
    BY <1>2
  <2> HIDE DEF f
  <2>2. /\ f \in segs /\ f.end >= seg.end /\ f.start <= seg.end
        /\ \A t \in segs : t.end >= seg.end => f.start <= t.start
    BY <2>1 DEF following, lower_bound
  <2>3. suffix_overlap(segs, seg) = seg.end - f.start
    BY <1>2 DEF suffix_overlap, f
  <2> QED BY <1>2, <2>2, <2>3 DEF Segments
<1> QED BY <1>1, <1>2

(* What push_interval stores does not overlap anything that it keeps, and   *)
(* the bytes stored are then those stored before and those of the segment.  *)
LEMMA PushInterval ==
  ASSUME NEW q, IsRecord(q), NEW w \in Nat, Stored(q.segments, w), NEW segment,
         Carries(segment), w <= segment.start, segment.end <= w + Capacity
  PROVE  /\ SameOutput(push_interval(q, segment), q)
         /\ Stored(push_interval(q, segment).segments, w)
         /\ \A p \in Nat : Held(push_interval(q, segment).segments, p)
                             <=> Held(q.segments, p) \/ Holds(segment, p)
<1> DEFINE segs == q.segments
           before == prefix_overlap(segs, segment)
           cut == remove_prefix(segment, before)
           after == suffix_overlap(segs, cut)
           seg == remove_suffix(cut, after)
           gone == covered(segs, segment, cut)
           S == segment.start
           E == segment.end
           pushed == push_interval(q, segment)
<1>1. segs = q.segments /\ (\A s \in segs : Carries(s) /\ s \in Segments) /\ Disjoint(segs)
      /\ Within(segs, w) /\ S \in Nat /\ E \in Nat /\ segment \in Segments /\ S <= E
  BY DEF Stored, Carries, Segments
<1>2. /\ before \in Nat
      /\ \A t \in previous(segs, segment) :
           t \in segs /\ t.start <= S /\ S <= t.end /\ t.end = S + before
      /\ previous(segs, segment) = {} =>
           before = 0 /\ \A t \in segs : t.end >= S => t.start > S
  BY <1>1, PrefixCut
<1>3. /\ cut \in Segments /\ cut.start = S + before /\ cut.end = E
      /\ cut.index = segment.index /\ cut.data = segment.data
  <2>1. S + before \in Nat
    BY <1>1, <1>2
  <2> HIDE DEF before
  <2>2. cut = [segment EXCEPT !.start = S + before]
    BY <1>1 DEF remove_prefix, Segments
  <2> HIDE DEF cut
  <2> QED BY <1>1, <2>1, <2>2 DEF Segments
<1> HIDE DEF before, cut
<1>4. /\ after \in Nat
      /\ following(segs, cut) # {} =>
           \E f \in segs : /\ f.end >= E /\ f.start = E - after
                          /\ \A t \in segs : t.end >= E => f.start <= t.start
      /\ following(segs, cut) = {} =>
           after = 0 /\ \A t \in segs : t.end >= E => t.start > E
  BY <1>1, <1>3, SuffixCut
<1> HIDE DEF after
(* In front of the cut the segment is covered by the one before it, behind  *)
(* what remains of it by the one after it.                                  *)
<1>5. ASSUME NEW p \in Nat, S <= p, p < S + before
      PROVE  \E t \in previous(segs, segment) : t \in segs /\ Holds(t, p)
  <2>1. previous(segs, segment) # {}
    BY <1>1, <1>2, <1>5
  <2>2. PICK t \in previous(segs, segment) : TRUE
    BY <2>1
  <2>3. t \in segs /\ t \in Segments /\ t.start <= S /\ t.end = S + before
    BY <1>1, <1>2, <2>2
  <2> QED BY <1>1, <1>2, <1>5, <2>2, <2>3 DEF Holds, Segments
<1>6. ASSUME NEW p \in Nat, E - after <= p, p < E
      PROVE  \E t \in segs : t.end >= E /\ Holds(t, p)
  <2>1. following(segs, cut) # {}
    BY <1>1, <1>4, <1>6
  <2>2. PICK f \in segs : f.end >= E /\ f.start = E - after
    BY <1>4, <2>1
  <2> QED BY <1>1, <1>4, <1>6, <2>2 DEF Holds, Segments
<1>7. CASE size(segment) = 0 \/ before > size(segment) \/ after > size(cut)
  <2>1. pushed = q
    BY <1>7 DEF push_interval, cut, before, after
  <2>2. ASSUME NEW p \in Nat, Holds(segment, p) PROVE Held(segs, p)
    <3>1. S <= p /\ p < E /\ (p < S + before \/ E - after <= p)
      BY <1>1, <1>2, <1>3, <1>4, <1>7, <2>2 DEF Holds, size
    <3> QED BY <1>5, <1>6, <3>1 DEF Held
  <2> QED BY <2>1, <2>2 DEF SameOutput
<1>8. CASE ~(size(segment) = 0 \/ before > size(segment) \/ after > size(cut))
  <2>1. S + before <= E /\ S < E
    BY <1>1, <1>2, <1>8 DEF size
  <2>2. cut.start <= E - after
    BY <1>1, <1>2, <1>3, <1>4, <1>8, <2>1 DEF size
  <2>3. /\ seg \in Segments /\ seg.start = S + before /\ seg.end = E - after
        /\ seg.index = segment.index /\ seg.data = segment.data
    <3>1. E - after \in Nat
      BY <1>1, <1>2, <2>1, <1>3, <1>4, <2>2
    <3>2. seg = [cut EXCEPT !.end = E - after]
      BY <1>3 DEF remove_suffix
    <3> HIDE DEF seg
    <3> QED BY <1>3, <3>1, <3>2 DEF Segments
  <2> HIDE DEF seg
  <2>4. Carries(seg)
    <3>1. S <= seg.start /\ seg.start <= seg.end /\ seg.end <= E
      BY <1>1, <1>2, <2>1, <1>3, <1>4, <2>2, <2>3
    <3> QED BY <2>3, <3>1, CarriesPart, Zenon
  <2>5. w <= seg.start /\ seg.end <= w + Capacity
    BY <1>1, <1>2, <2>1, <1>3, <1>4, <2>2, <2>3, CapacityAssumption
  <2>6. ASSUME NEW t \in segs \ gone PROVE t.end <= seg.start \/ seg.end <= t.start
    <3>0. t.start \in Nat /\ t.end \in Nat
      BY <1>1 DEF Segments
    <3>1. CASE t \in previous(segs, segment)
      BY <1>1, <1>2, <2>1, <2>3, <3>0, <3>1
    <3>2. CASE t.end < S
      BY <1>1, <1>2, <2>1, <2>3, <3>0, <3>2
    <3>3. CASE t.end >= E
      BY <1>1, <1>3, <1>4, <2>2, <2>3, <3>0, <3>3
    <3> QED BY <1>1, <1>3, <3>0, <3>1, <3>2, <3>3 DEF covered
  <2>7. ASSUME \A t \in segs \ gone : t.start # seg.start PROVE seg.start < seg.end
    <3>1. CASE following(segs, cut) # {}
      <4>1. PICK f \in segs : f.end >= E /\ f.start = seg.end
        BY <1>4, <2>2, <2>3, <3>1
      <4>2. f \notin gone
        BY <1>1, <1>3, <4>1 DEF covered, Segments
      <4>3. seg.start # seg.end
        BY <2>7, <4>1, <4>2
      <4> QED BY <1>1, <1>2, <2>1, <1>3, <1>4, <2>2, <2>3, <4>3
    <3>2. CASE following(segs, cut) = {} /\ previous(segs, segment) = {}
      BY <1>1, <1>2, <2>1, <1>4, <2>2, <2>3, <3>2
    <3>3. CASE following(segs, cut) = {} /\ previous(segs, segment) # {}
      <4>1. PICK t \in segs : t.start <= S /\ t.end = S + before
        BY <1>2, <2>1, <3>3
      <4>2. t.end # E
        BY <1>1, <1>2, <2>1, <1>4, <2>2, <3>3, <4>1 DEF Segments
      <4> QED BY <1>1, <1>2, <2>1, <1>4, <2>2, <2>3, <3>3, <4>1, <4>2
    <3> QED BY <3>1, <3>2, <3>3
  <2>8. Stored(insert(segs \ gone, seg), w)
    <3>1. Stored(segs \ gone, w)
      BY <1>1 DEF Stored, Disjoint, Within
    <3>2. CASE \E t \in segs \ gone : t.start = seg.start
      BY <3>1, <3>2 DEF insert
    <3>3. CASE \A t \in segs \ gone : t.start # seg.start
      <4>1. insert(segs \ gone, seg) = (segs \ gone) \cup {seg}
        BY <3>3 DEF insert
      <4>2. Disjoint((segs \ gone) \cup {seg})
        BY <2>6, <2>7, <3>1, <3>3 DEF Disjoint, Stored
      <4> QED BY <2>4, <2>5, <3>1, <4>1, <4>2 DEF Stored, Within
    <3> QED BY <3>2, <3>3
  <2>9. \A p \in Nat : Held(insert(segs \ gone, seg), p) <=> Held(segs, p) \/ Holds(segment, p)
    <3>1. ASSUME NEW p \in Nat, Holds(segment, p) PROVE Held(insert(segs \ gone, seg), p)
      <4>1. S <= p /\ p < E
        BY <1>1, <3>1 DEF Holds
      <4>2. CASE p < S + before
        <5>1. PICK t \in previous(segs, segment) : t \in segs /\ Holds(t, p)
          BY <1>5, <4>1, <4>2
        <5>2. t \in segs \ gone
          BY <5>1 DEF covered
        <5> QED BY <5>1, <5>2 DEF Held, insert
      <4>3. CASE E - after <= p
        <5>1. PICK t \in segs : t.end >= E /\ Holds(t, p)
          BY <1>6, <4>1, <4>3
        <5>2. t \in segs \ gone
          BY <1>1, <1>3, <5>1 DEF covered, Segments
        <5> QED BY <5>1, <5>2 DEF Held, insert
      <4>4. CASE ~(p < S + before) /\ ~(E - after <= p)
        <5>1. Holds(seg, p)
          BY <1>1, <1>2, <1>4, <2>3, <4>4 DEF Holds
        <5>2. ASSUME NEW t \in segs \ gone, t.start = seg.start PROVE FALSE
          <6>1. t.start \in Nat /\ t.end \in Nat /\ t.start < t.end
            BY <1>1 DEF Segments, Disjoint
          <6>2. seg.start \in Nat /\ seg.end \in Nat
            BY <2>3 DEF Segments
          <6> QED BY <2>6, <5>1, <5>2, <6>1, <6>2 DEF Holds
        <5>3. insert(segs \ gone, seg) = (segs \ gone) \cup {seg}
          BY <5>2 DEF insert
        <5> QED BY <5>1, <5>3 DEF Held
      <4> QED BY <4>2, <4>3, <4>4
    <3>2. ASSUME NEW p \in Nat, NEW t \in gone, Holds(t, p) PROVE Holds(segment, p)
      <4>1. /\ t \in segs /\ t \notin previous(segs, segment) /\ t.end >= S /\ t.end < E
            /\ t.start \in Nat /\ t.end \in Nat /\ t.start < t.end
        BY <1>1, <1>3 DEF covered, Segments, Disjoint
      <4>2. S <= t.start
        <5>1. CASE previous(segs, segment) = {}
          BY <1>1, <1>2, <4>1, <5>1
        <5>2. CASE previous(segs, segment) # {}
          <6>1. PICK u \in previous(segs, segment) : TRUE
            BY <5>2
          <6>2. u \in segs /\ u.end >= S /\ u.start <= t.start /\ u # t
            BY <4>1, <6>1 DEF previous, lower_bound
          <6>3. u.end <= t.start \/ t.end <= u.start
            BY <1>1, <4>1, <6>2 DEF Disjoint
          <6> QED BY <1>1, <4>1, <6>2, <6>3 DEF Segments
        <5> QED BY <5>1, <5>2
      <4> QED BY <1>1, <3>2, <4>1, <4>2 DEF Holds
    <3>3. ASSUME NEW p \in Nat, Holds(seg, p) PROVE Holds(segment, p)
      BY <1>1, <1>2, <1>4, <2>3, <3>3 DEF Holds
    <3>4. ASSUME NEW p \in Nat, Held(segs, p) PROVE Held(insert(segs \ gone, seg), p)
      <4>1. PICK t \in segs : Holds(t, p)
        BY <3>4 DEF Held
      <4>2. CASE t \in gone
        BY <3>1, <3>2, <4>1, <4>2
      <4>3. CASE t \notin gone
        <5>1. t \in insert(segs \ gone, seg)
          BY <4>1, <4>3 DEF insert
        <5> QED BY <4>1, <5>1 DEF Held
      <4> QED BY <4>2, <4>3
    <3>5. ASSUME NEW p \in Nat, Held(insert(segs \ gone, seg), p)
          PROVE  Held(segs, p) \/ Holds(segment, p)
      BY <3>3, <3>5 DEF Held, insert
    <3> QED BY <3>1, <3>4, <3>5
  <2> HIDE DEF gone
  <2>10. pushed = [q EXCEPT !.segments = insert(@ \ gone, seg),
                            !.unassembled_bytes = @ - erased_bytes(gone) + size(seg)]
    BY <1>8 DEF push_interval, gone, seg, cut, before, after
  <2> HIDE DEF pushed
  <2>11. pushed.segments = insert(segs \ gone, seg) /\ SameOutput(pushed, q)
    BY <2>10 DEF IsRecord, SameOutput
  <2> QED BY <2>8, <2>11, <2>9 DEF pushed
<1> QED BY <1>7, <1>8
-----------------------------------------------------------------------------
(* The reassembly loop stops somewhere, having found every byte before. *)
LEMMA AssembledEnd ==
  ASSUME NEW q, Prefix(q)
  PROVE  /\ assembled_end(q) \in bytes_written(q)..(q.bytes_read + Capacity)
         /\ \A p \in bytes_written(q)..(assembled_end(q) - 1) : Held(q.segments, p)
         /\ \/ assembled_end(q) = q.bytes_read + Capacity
            \/ ~Held(q.segments, assembled_end(q))
<1> DEFINE first == bytes_written(q)
           last == q.bytes_read + Capacity
           Stop == {w \in first..last : w = last \/ ~Held(q.segments, w)}
<1>1. first \in Nat /\ last \in Nat /\ first <= last
  BY CapacityAssumption DEF Prefix, bytes_written
<1> HIDE DEF first, last
<1>2. last \in Stop /\ Stop \in SUBSET Nat
  BY <1>1
<1>3. PICK w \in Stop : \A y \in Stop : w <= y
  BY <1>2, LeastNumber
<1>4. \A p \in first..(w - 1) : Held(q.segments, p)
  BY <1>1, <1>3
<1>5. \E x \in first..last :
        /\ \A p \in first..(x - 1) : Held(q.segments, p)
        /\ x = last \/ ~Held(q.segments, x)
  BY <1>3, <1>4
<1> QED BY <1>5 DEF assembled_end, first, last

(* The loop writes the next bytes of the stream and keeps what is behind. *)
LEMMA Reassemble ==
  ASSUME NEW q, IsRecord(q), Prefix(q), Stored(q.segments, bytes_written(q))
  PROVE  LET a == reassemble(q)
         IN  /\ IsRecord(a) /\ Prefix(a) /\ Stored(a.segments, bytes_written(a))
             /\ a.input_ended = q.input_ended
             /\ a.end_index = q.end_index /\ a.got_eof = q.got_eof
             /\ a.bytes_read = q.bytes_read /\ bytes_written(a) = assembled_end(q)
             /\ \A p \in Nat : Held(a.segments, p) <=>
                                 Held(q.segments, p) /\ assembled_end(q) <= p
<1> DEFINE a == reassemble(q)
           first == bytes_written(q)
           w == assembled_end(q)
           kept == {t \in q.segments : t.end > w}
<1>1. first \in Nat /\ q.bytes_read \in Nat /\ q.bytes_read <= first /\ N \in Nat /\ first <= N
  BY StreamAssumption DEF Prefix, bytes_written, N
<1>2. /\ w \in Nat /\ first <= w /\ w <= q.bytes_read + Capacity
      /\ \A p \in first..(w - 1) : Held(q.segments, p)
  BY <1>1, AssembledEnd, CapacityAssumption
<1>3. /\ a.written = [i \in 1..w |-> IF i <= first THEN q.written[i]
                                     ELSE ByteAt(q.segments, i - 1)]
      /\ a.segments = {rest(s, w) : s \in kept}
      /\ IsRecord(a) /\ a.bytes_read = q.bytes_read /\ a.input_ended = q.input_ended
      /\ a.end_index = q.end_index /\ a.got_eof = q.got_eof
  <2> DEFINE bytes == [i \in 1..w |-> IF i <= first THEN q.written[i]
                                     ELSE ByteAt(q.segments, i - 1)]
             left == {rest(s, w) : s \in kept}
             count == q.unassembled_bytes - (w - first)
  <2>1. a = [q EXCEPT !.written = bytes, !.segments = left, !.unassembled_bytes = count]
    BY DEF reassemble
  <2> HIDE DEF a, bytes, left, count
  <2>2. a.written = bytes /\ a.segments = left
    BY <2>1 DEF IsRecord
  <2>3. /\ IsRecord(a) /\ a.bytes_read = q.bytes_read /\ a.input_ended = q.input_ended
        /\ a.end_index = q.end_index /\ a.got_eof = q.got_eof
    BY <2>1 DEF IsRecord
  <2> QED BY <2>2, <2>3 DEF bytes, left
<1> HIDE DEF a, w
<1>4. \A p \in first..(w - 1) : p < N /\ ByteAt(q.segments, p) = Stream[p + 1]
  <2>1. SUFFICES ASSUME NEW p \in first..(w - 1)
                 PROVE  p < N /\ ByteAt(q.segments, p) = Stream[p + 1]
    OBVIOUS
  <2> DEFINE s == CHOOSE t \in q.segments : Holds(t, p)
  <2>2. s \in q.segments /\ Holds(s, p)
    BY <1>2 DEF Held
  <2>3. ByteAt(q.segments, p) = s.data[p - s.index + 1]
    BY DEF ByteAt
  <2> HIDE DEF s
  <2>4. Carries(s) /\ p \in Nat /\ s.end \in Nat
    BY <1>1, <1>2, <2>2 DEF Stored, Carries, Segments
  <2> QED BY <1>1, <2>2, <2>3, <2>4 DEF Carries, Holds
<1>5. w <= N
  <2>1. CASE w = first
    BY <1>1, <2>1
  <2>2. CASE w # first
    BY <1>1, <1>2, <1>4, <2>2
  <2> QED BY <2>1, <2>2
<1>6. \A i \in 1..w : a.written[i] = Stream[i] /\ Stream[i] \in Byte
  <2>1. SUFFICES ASSUME NEW i \in 1..w PROVE a.written[i] = Stream[i] /\ Stream[i] \in Byte
    OBVIOUS
  <2>2. Stream[i] \in Byte
    BY <1>1, <1>2, <1>5, StreamAssumption DEF N
  <2>3. CASE i <= first
    BY <1>1, <1>2, <1>3, <2>2, <2>3 DEF Prefix, bytes_written
  <2>4. CASE i > first
    <3>1. i - 1 \in first..(w - 1) /\ (i - 1) + 1 = i
      BY <1>1, <1>2, <2>4
    <3>2. ByteAt(q.segments, i - 1) = Stream[i]
      BY <1>4, <3>1
    <3> QED BY <1>1, <1>2, <1>3, <2>2, <2>4, <3>2
  <2> QED BY <1>1, <1>2, <2>3, <2>4
<1>7. a.written \in Seq(Byte) /\ Len(a.written) = w
  <2>1. a.written \in [1..w -> Byte]
    BY <1>3, <1>6
  <2> QED BY <1>2, <2>1
<1>8. Prefix(a)
  BY <1>1, <1>2, <1>3, <1>5, <1>6, <1>7, CapacityAssumption DEF Prefix
<1>9. Stored(a.segments, w)
  <2>1. ASSUME NEW s \in kept
        PROVE  /\ rest(s, w) \in Segments /\ rest(s, w).index = s.index
               /\ rest(s, w).data = s.data /\ rest(s, w).end = s.end
               /\ s.start <= rest(s, w).start /\ w <= rest(s, w).start
               /\ rest(s, w).start < s.end /\ s \in Segments /\ Carries(s) /\ s \in q.segments
    <3>1. s \in Segments /\ Carries(s) /\ s \in q.segments /\ s.end > w /\ s.start < s.end
      BY <2>1 DEF Stored, Carries, Disjoint
    <3>2. CASE s.start < w
      <4>1. rest(s, w) = [s EXCEPT !.start = w]
        BY <1>2, <3>1, <3>2 DEF rest, remove_prefix, Segments
      <4> HIDE DEF rest
      <4> QED BY <1>2, <3>1, <3>2, <4>1 DEF Segments
    <3>3. CASE ~(s.start < w)
      BY <1>2, <3>1, <3>3 DEF rest, Segments
    <3> QED BY <3>2, <3>3
  <2>2. \A s \in kept : Carries(rest(s, w))
    <3>1. ASSUME NEW s \in kept PROVE Carries(rest(s, w))
      <4>1. rest(s, w).start <= rest(s, w).end /\ rest(s, w).end <= s.end
        BY <2>1 DEF Segments
      <4> QED BY <2>1, <4>1, CarriesPart, Zenon
    <3> QED BY <3>1, Zenon
  <2>3. Disjoint(a.segments)
    <3>1. ASSUME NEW s \in kept, NEW t \in kept, rest(s, w) # rest(t, w)
          PROVE  rest(s, w).end <= rest(t, w).start \/ rest(t, w).end <= rest(s, w).start
      <4>1. s.end <= t.start \/ t.end <= s.start
        BY <2>1, <3>1 DEF Stored, Disjoint
      <4> QED BY <2>1, <4>1 DEF Segments
    <3> QED BY <1>3, <2>1, <3>1 DEF Disjoint
  <2>4. Within(a.segments, w)
    <3>1. ASSUME NEW s \in kept PROVE w <= rest(s, w).start /\ rest(s, w).end <= w + Capacity
      BY <1>1, <1>2, <2>1, CapacityAssumption DEF Stored, Within, Segments
    <3> QED BY <1>3, <3>1 DEF Within
  <2> QED BY <1>3, <2>2, <2>3, <2>4 DEF Stored
<1>10. \A p \in Nat : Held(a.segments, p) <=> Held(q.segments, p) /\ w <= p
  <2>1. ASSUME NEW p \in Nat, NEW s \in kept
        PROVE  Holds(rest(s, w), p) <=> Holds(s, p) /\ w <= p
    <3>1. s \in Segments
      BY DEF Stored, Carries
    <3>2. CASE s.start < w
      BY <1>2, <3>1, <3>2 DEF rest, remove_prefix, Holds, Segments
    <3>3. CASE ~(s.start < w)
      BY <1>2, <3>1, <3>3 DEF rest, Holds, Segments
    <3> QED BY <3>2, <3>3
  <2>2. ASSUME NEW p \in Nat, NEW s \in q.segments, Holds(s, p), w <= p PROVE s \in kept
    <3>1. s \in Segments
      BY DEF Stored, Carries
    <3> QED BY <1>2, <2>2, <3>1 DEF Holds, Segments
  <2>3. \A t : t \in a.segments <=> \E s \in kept : t = rest(s, w)
    BY <1>3
  <2> QED BY <2>1, <2>2, <2>3 DEF Held
<1> QED BY <1>3, <1>7, <1>8, <1>9, <1>10 DEF a, w, bytes_written
-----------------------------------------------------------------------------
(* The substring a push carries, as the code receives it. *)
Data(index, n) == SubSeq(Stream, index + 1, index + n)

(* It has n bytes: those of the stream from index on. *)
LEMMA DataFacts ==
  ASSUME NEW index \in Nat, NEW n \in Nat, n > 0 => index + n <= N
  PROVE  /\ Data(index, n) \in Seq(Byte) /\ Len(Data(index, n)) = n
         /\ \A k \in 1..n : Data(index, n)[k] = Stream[index + k]
<1>1. Stream \in Seq(Byte) /\ N = Len(Stream) /\ N \in Nat
  BY StreamAssumption DEF N
<1>2. CASE n = 0
  BY <1>1, <1>2 DEF Data
<1>3. CASE n > 0
  <2>1. index + 1 \in 1..Len(Stream) /\ index + n \in 1..Len(Stream)
    BY <1>1, <1>3
  <2>2. Data(index, n) = [k \in 1..n |-> Stream[index + k]]
    BY <1>1, <1>3, <2>1 DEF Data
  <2>3. Data(index, n) \in [1..n -> Byte]
    BY <1>1, <1>3, <2>1, <2>2
  <2> QED BY <2>2, <2>3
<1> QED BY <1>2, <1>3

(* Trimmed on both sides the substring is a segment within the window. *)
LEMMA NewSegment ==
  ASSUME NEW q, Prefix(q), NEW index \in Nat, NEW n \in Nat, n > 0, index + n <= N,
         bytes_written(q) <= index + n, index <= bytes_written(q) + Capacity
  PROVE  LET segment == new_segment(q, Data(index, n), index)
         IN  /\ Carries(segment)
             /\ bytes_written(q) <= segment.start
             /\ segment.end <= bytes_written(q) + Capacity
             /\ \A p \in Nat : Holds(segment, p) <=>
                  /\ index <= p /\ p < index + n
                  /\ bytes_written(q) <= p /\ p < bytes_written(q) + Capacity
<1> DEFINE W == bytes_written(q)
           data == Data(index, n)
           trimmed == within_capacity(q, data, index)
           segment == new_segment(q, data, index)
<1>1. W \in Nat /\ Capacity \in Nat /\ N \in Nat
  BY CapacityAssumption, StreamAssumption DEF Prefix, bytes_written, N
<1>2. data \in Seq(Byte) /\ Len(data) = n /\ \A k \in 1..n : data[k] = Stream[index + k]
  BY DataFacts
<1> HIDE DEF W, data
<1>3. /\ trimmed \in Seq(Byte) /\ Len(trimmed) \in Nat
      /\ Len(trimmed) <= n /\ index + Len(trimmed) <= W + Capacity /\ W <= index + Len(trimmed)
      /\ \A k \in 1..Len(trimmed) : trimmed[k] = Stream[index + k]
  <2>1. CASE index + Len(data) > W + Capacity
    <3> DEFINE m == W + Capacity - index
    <3>1. m \in Nat /\ m <= n
      BY <1>1, <1>2, <2>1 DEF W
    <3>2. trimmed = SubSeq(data, 1, m)
      BY <2>1 DEF within_capacity, W
    <3> HIDE DEF trimmed
    <3>3. Len(trimmed) = m /\ trimmed \in Seq(Byte) /\ \A k \in 1..m : trimmed[k] = data[k]
      <4> HIDE DEF m
      <4> QED BY <1>2, <3>1, <3>2
    <3> QED BY <1>1, <1>2, <3>1, <3>3
  <2>2. CASE ~(index + Len(data) > W + Capacity)
    <3>1. trimmed = data
      BY <2>2 DEF within_capacity, W
    <3> QED BY <1>1, <1>2, <2>2, <3>1 DEF W
  <2> QED BY <2>1, <2>2
<1> HIDE DEF trimmed
<1>4. LET whole == Segment(index, trimmed)
      IN  segment = IF index < W THEN remove_prefix(whole, W - index) ELSE whole
  BY DEF new_segment, trimmed, W
<1> HIDE DEF segment
<1>5. /\ segment \in Segments /\ segment.index = index /\ segment.data = trimmed
      /\ segment.end = index + Len(trimmed)
      /\ segment.start = IF index < W THEN W ELSE index
  <2>1. CASE index < W
    BY <1>1, <1>3, <1>4, <2>1 DEF Segment, remove_prefix, Segments
  <2>2. CASE ~(index < W)
    BY <1>1, <1>3, <1>4, <2>2 DEF Segment, Segments
  <2> QED BY <2>1, <2>2
<1>6. \A p \in Nat : segment.start <= p /\ p < segment.end
                       => segment.data[p - segment.index + 1] = Stream[p + 1]
  <2>1. SUFFICES ASSUME NEW p \in Nat, segment.start <= p, p < segment.end
                 PROVE  trimmed[p - index + 1] = Stream[p + 1]
    BY <1>5
  <2>2. p - index + 1 \in 1..Len(trimmed) /\ index + (p - index + 1) = p + 1
    BY <1>1, <1>3, <1>5, <2>1
  <2> QED BY <1>3, <2>2
<1>7. Carries(segment)
  BY <1>1, <1>3, <1>5, <1>6 DEF Carries
<1>8. \A p \in Nat : Holds(segment, p) <=>
        index <= p /\ p < index + n /\ W <= p /\ p < W + Capacity
  <2>1. \/ Len(trimmed) = n /\ index + n <= W + Capacity
        \/ index + Len(trimmed) = W + Capacity /\ W + Capacity <= index + n
    BY <1>1, <1>2 DEF trimmed, within_capacity, W
  <2> QED BY <1>1, <1>3, <1>5, <2>1 DEF Holds
<1> QED BY <1>1, <1>3, <1>5, <1>7, <1>8 DEF segment, W, data

(* A push without bytes stores nothing. *)
LEMMA EmptySegment ==
  ASSUME NEW q, Prefix(q), NEW index \in Nat, bytes_written(q) <= index,
         index <= bytes_written(q) + Capacity
  PROVE  push_interval(q, new_segment(q, Data(index, 0), index)) = q
<1> DEFINE data == Data(index, 0)
<1>1. bytes_written(q) \in Nat /\ Capacity \in Nat
  BY CapacityAssumption DEF Prefix, bytes_written
<1>2. data \in Seq(Byte) /\ Len(data) = 0
  BY DataFacts
<1> HIDE DEF data
<1>3. new_segment(q, data, index) = Segment(index, data)
  BY <1>1, <1>2 DEF new_segment, within_capacity
<1>4. size(new_segment(q, data, index)) = 0
  BY <1>2, <1>3 DEF size, Segment
<1> QED BY <1>4 DEF push_interval, data
-----------------------------------------------------------------------------
(* _got_eof, _end_index and the end of _output. *)
Ends(q) ==
  /\ q.end_index \in Nat /\ q.got_eof \in BOOLEAN /\ q.input_ended \in BOOLEAN
  /\ q.got_eof => q.end_index = N
  /\ q.input_ended => q.got_eof /\ bytes_written(q) = N

Good(q) == IsRecord(q) /\ Prefix(q) /\ Stored(q.segments, bytes_written(q)) /\ Ends(q)

(* The inductive invariant. *)
Inv == Good(r) /\ thrown \in BOOLEAN

(* push_substring preserves it, with an exception or without. *)
LEMMA PushSubstring ==
  ASSUME NEW q, Good(q), NEW index \in Nat, NEW n \in Nat, NEW eof \in BOOLEAN,
         Sent(index, n, eof)
  PROVE  Good(push_substring(q, Data(index, n), index, eof))
<1> DEFINE data == Data(index, n)
           noted == note_eof(q, data, index, eof)
           segment == new_segment(noted, data, index)
           pushed == push_interval(noted, segment)
           assembled == reassemble(pushed)
           W == bytes_written(q)
<1>1. /\ data \in Seq(Byte) /\ Len(data) = n /\ N \in Nat /\ W \in Nat /\ Capacity \in Nat
      /\ n > 0 => index + n <= N
      /\ eof => index + n = N
  BY DataFacts, StreamAssumption, CapacityAssumption
     DEF Sent, N, Good, Prefix, bytes_written
<1> HIDE DEF data
<1>2. /\ IsRecord(noted) /\ noted.written = q.written /\ noted.bytes_read = q.bytes_read
      /\ noted.segments = q.segments /\ noted.input_ended = q.input_ended
      /\ noted.got_eof \in BOOLEAN /\ noted.end_index \in Nat
      /\ noted.got_eof => noted.end_index = N
      /\ q.got_eof => noted.got_eof
  BY <1>1 DEF note_eof, Good, IsRecord, Ends
<1> HIDE DEF noted
<1>3. Good(noted) /\ bytes_written(noted) = W
  BY <1>2 DEF Good, Prefix, Stored, Ends, bytes_written
<1>4. CASE q.input_ended \/ index + Len(data) < W
  BY <1>4 DEF push_substring, data
<1>5. CASE ~(q.input_ended \/ index + Len(data) < W) /\ length_error(q, data, index)
  <2>1. push_substring(q, data, index, eof) = noted
    BY <1>5 DEF push_substring, noted
  <2> QED BY <1>3, <2>1 DEF data
<1>6. CASE ~(q.input_ended \/ index + Len(data) < W) /\ ~length_error(q, data, index)
  <2>1. push_substring(q, data, index, eof) = check_end(assembled)
    BY <1>6 DEF push_substring, noted
  <2>2. W <= index + n /\ index <= W + Capacity /\ ~q.input_ended
    BY <1>1, <1>6 DEF length_error
  <2>3. SameOutput(pushed, noted) /\ Stored(pushed.segments, W)
    <3>1. CASE n = 0
      <4>1. pushed = noted
        BY <1>1, <1>3, <2>2, <3>1, EmptySegment DEF Good, data
      <4> QED BY <1>3, <4>1 DEF Good, SameOutput
    <3>2. CASE n > 0
      <4>1. Carries(segment) /\ W <= segment.start /\ segment.end <= W + Capacity
        BY <1>1, <1>3, <2>2, <3>2, NewSegment DEF Good, data
      <4> HIDE DEF segment
      <4> QED BY <1>1, <1>3, <4>1, PushInterval DEF Good
    <3> QED BY <3>1, <3>2
  <2> HIDE DEF pushed
  <2>4. IsRecord(pushed) /\ Prefix(pushed) /\ bytes_written(pushed) = W
    BY <1>3, <2>3 DEF Good, Prefix, SameOutput, bytes_written
  <2>5. /\ IsRecord(assembled) /\ Prefix(assembled)
        /\ Stored(assembled.segments, bytes_written(assembled))
        /\ assembled.input_ended = pushed.input_ended
        /\ assembled.end_index = pushed.end_index /\ assembled.got_eof = pushed.got_eof
    BY <2>3, <2>4, Reassemble
  <2> HIDE DEF assembled
  <2>6. Ends(assembled)
    <3>1. assembled.end_index = noted.end_index /\ assembled.got_eof = noted.got_eof
          /\ assembled.input_ended = q.input_ended
      BY <1>2, <2>3, <2>5 DEF SameOutput
    <3>2. q.input_ended = FALSE
      BY <2>2 DEF Good, Ends
    <3> QED BY <1>2, <3>1, <3>2 DEF Ends
  <2>7. Good(check_end(assembled))
    <3>1. CASE assembled.got_eof /\ assembled.end_index = bytes_written(assembled)
      <4>1. check_end(assembled) = [assembled EXCEPT !.input_ended = TRUE]
        BY <3>1 DEF check_end
      <4> DEFINE ended == check_end(assembled)
      <4> HIDE DEF ended
      <4>2. /\ IsRecord(ended) /\ ended.written = assembled.written
            /\ ended.bytes_read = assembled.bytes_read /\ ended.segments = assembled.segments
            /\ ended.end_index = assembled.end_index /\ ended.got_eof = assembled.got_eof
            /\ ended.input_ended = TRUE
        BY <2>5, <4>1 DEF IsRecord, ended
      <4>3. Good(ended)
        BY <2>5, <2>6, <3>1, <4>2 DEF Good, Prefix, Stored, Ends, bytes_written
      <4> QED BY <4>3 DEF ended
    <3>2. CASE ~(assembled.got_eof /\ assembled.end_index = bytes_written(assembled))
      BY <2>5, <2>6, <3>2 DEF check_end, Good
    <3> QED BY <3>1, <3>2
  <2> QED BY <2>1, <2>7 DEF data
<1> QED BY <1>4, <1>5, <1>6

(* pop_output preserves it. *)
LEMMA PopOutput ==
  ASSUME NEW q, Good(q), NEW n \in Nat
  PROVE  Good(pop_output(q, n))
<1> DEFINE popped == pop_output(q, n)
           taken == IF n < buffer_size(q) THEN n ELSE buffer_size(q)
<1>1. Len(q.written) \in Nat /\ q.bytes_read \in Nat /\ q.bytes_read <= Len(q.written)
      /\ Capacity \in Nat
  BY CapacityAssumption DEF Good, Prefix
<1>2. taken \in Nat /\ q.bytes_read + taken <= Len(q.written)
  BY <1>1 DEF buffer_size, bytes_written
<1>3. popped = [q EXCEPT !.bytes_read = @ + taken]
  BY DEF pop_output
<1> HIDE DEF popped, taken
<1>4. /\ IsRecord(popped) /\ popped.written = q.written /\ popped.segments = q.segments
      /\ popped.bytes_read = q.bytes_read + taken /\ popped.input_ended = q.input_ended
      /\ popped.end_index = q.end_index /\ popped.got_eof = q.got_eof
  BY <1>3 DEF Good, IsRecord
<1>5. Prefix(popped)
  BY <1>1, <1>2, <1>4 DEF Good, Prefix
<1> QED BY <1>4, <1>5 DEF Good, Stored, Ends, bytes_written, popped
-----------------------------------------------------------------------------
(* Inv holds in every state of every behaviour. *)
THEOREM Invariance == Spec => []Inv
<1>1. Init => Inv
  <2> SUFFICES ASSUME Init PROVE Inv
    OBVIOUS
  <2>1. IsRecord(r) /\ r.written = << >> /\ r.bytes_read = 0 /\ r.segments = {}
        /\ r.end_index = 0 /\ r.got_eof = FALSE /\ r.input_ended = FALSE
    BY DEF Init, New, IsRecord
  <2>2. Prefix(r)
    BY <2>1, CapacityAssumption, StreamAssumption DEF Prefix, N
  <2>3. Stored(r.segments, bytes_written(r))
    BY <2>1 DEF Stored, Disjoint, Within
  <2>4. r.end_index \in Nat
    BY <2>1
  <2>5. Ends(r)
    BY <2>1, <2>4, Zenon DEF Ends
  <2>6. thrown \in BOOLEAN
    BY DEF Init
  <2> QED BY <2>1, <2>2, <2>3, <2>5, <2>6 DEF Inv, Good
<1>2. Inv /\ [Next]_vars => Inv'
  <2> SUFFICES ASSUME Inv, [Next]_vars PROVE Inv'
    OBVIOUS
  <2>1. ASSUME NEW index \in 0..(N + 1), NEW n \in 0..N, NEW eof \in BOOLEAN,
               Push(index, n, eof)
        PROVE  Inv'
    <3>1. index \in Nat /\ n \in Nat
      BY StreamAssumption DEF N
    <3>2. Good(push_substring(r, Data(index, n), index, eof))
      BY <2>1, <3>1, PushSubstring DEF Inv, Push
    <3>3. Good(r)'
      BY <2>1, <3>2 DEF Push, Data
    <3>4. thrown' \in BOOLEAN
      <4>1. length_error(r, Data(index, n), index) \in BOOLEAN
        BY Zenon DEF length_error
      <4> QED BY <2>1, <4>1, Zenon DEF Push, Data
    <3> QED BY <3>3, <3>4 DEF Inv
  <2>2. ASSUME NEW n \in 1..Capacity, Read(n)
        PROVE  Inv'
    <3>1. n \in Nat
      BY CapacityAssumption
    <3>2. Good(pop_output(r, n))
      BY <3>1, PopOutput DEF Inv
    <3> QED BY <2>2, <3>2 DEF Read, Inv
  <2>3. CASE UNCHANGED vars
    BY <2>3 DEF vars, Inv, Good, IsRecord, Prefix, Stored, Ends, bytes_written
  <2> QED BY <2>1, <2>2, <2>3 DEF Next
<1> QED BY <1>1, <1>2, PTL DEF Spec

(* The fields have their types and every segment lies in its data. *)
THEOREM TypeCorrect == Spec => []TypeOK
<1>1. Inv => TypeOK
  <2> SUFFICES ASSUME Inv PROVE TypeOK
    OBVIOUS
  <2>1. \A s \in r.segments : IsSegment(s)
    BY DEF Inv, Good, Stored, Carries, Segments, IsSegment
  <2> QED BY <2>1 DEF Inv, Good, Prefix, Ends, TypeOK
<1> QED BY <1>1, Invariance, PTL

(* Whatever substrings arrive, in whatever order, _output receives the      *)
(* stream from its beginning (push_substring).                              *)
THEOREM WritesTheStream == Spec => []OutputIsPrefix
<1>1. Inv => OutputIsPrefix
  BY DEF Inv, Good, Prefix, OutputIsPrefix, bytes_written
<1> QED BY <1>1, Invariance, PTL

(* No stored segment is empty or overlaps another (push_interval). *)
THEOREM NeverOverlaps == Spec => []SegmentsDisjoint
<1>1. Inv => SegmentsDisjoint
  BY DEF Inv, Good, Stored, Disjoint, SegmentsDisjoint
<1> QED BY <1>1, Invariance, PTL

(* The stored segments lie in the window (push_substring's trimming). *)
THEOREM StaysInWindow == Spec => []SegmentsInWindow
<1>1. Inv => SegmentsInWindow
  BY DEF Inv, Good, Stored, Within, SegmentsInWindow
<1> QED BY <1>1, Invariance, PTL

(* _output ends exactly at the end of the stream, with an empty store. *)
THEOREM EndsCorrectly == Spec => []EndsOnlyAtTheEnd
<1>1. Inv => EndsOnlyAtTheEnd
  <2> SUFFICES ASSUME Inv PROVE EndsOnlyAtTheEnd
    OBVIOUS
  <2>1. N \in Nat /\ bytes_written(r) \in Nat
    BY StreamAssumption DEF N, Inv, Good, Prefix, bytes_written
  <2>2. ASSUME r.input_ended, NEW s \in r.segments PROVE FALSE
    <3>1. s.start \in Nat /\ s.end \in Nat /\ s.end <= N /\ s.start < s.end
          /\ bytes_written(r) <= s.start /\ bytes_written(r) = N
      BY <2>2 DEF Inv, Good, Ends, Stored, Carries, Segments, Disjoint, Within
    <3> QED BY <2>1, <3>1
  <2> QED BY <2>2 DEF Inv, Good, Ends, EndsOnlyAtTheEnd
<1> QED BY <1>1, Invariance, PTL
=============================================================================
