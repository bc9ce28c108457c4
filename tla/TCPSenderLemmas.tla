-------------------------- MODULE TCPSenderLemmas ---------------------------
(***************************************************************************)
(* What the methods of a TCPSender keep, whatever the peer advertises: the  *)
(* sequence numbers are in step with the stream, the pending segments are a *)
(* Run, a sequence of segments without gap or overlap, and every segment    *)
(* sent belongs where its number says.                                      *)
(***************************************************************************)
EXTENDS TCPSender, WrappingIntegersProofs, CountingLemmas

Segs ==
  [seqno : Raw, syn : BOOLEAN, fin : BOOLEAN, from : Nat, len : Nat,
   ack : BOOLEAN, ackno : Nat, rst : BOOLEAN, win : Nat]
Timers == [timeout : Nat, elapsed : Nat, running : BOOLEAN]
Senders ==
  [isn : Raw, bytes_written : Nat, bytes_read : Nat, input_ended : BOOLEAN, error : BOOLEAN,
   next_seqno : Nat, zero_window_size : BOOLEAN, window_left : Nat, window_right : Nat,
   retransmission_timeout : Nat, segments_pending : Seq(Segs), fined : BOOLEAN,
   timer : Timers, consecutive_retransmissions : Nat, segments_out : Seq(Segs)]

(* A segment that may be sent again: its number is that of its bytes. *)
Piece(seg, isn) ==
  /\ seg.seqno = wrap(AbsSeqno(seg), isn)
  /\ length_in_sequence_space(seg) >= 1

(* The segments of q occupy the sequence numbers from a to b - 1, in order. *)
Run(q, isn, a, b) ==
  /\ q \in Seq(Segs)
  /\ a <= b
  /\ Len(q) = 0 => a = b
  /\ Len(q) > 0 => AbsSeqno(q[1]) = a /\ AbsEnd(q[Len(q)]) = b
  /\ \A i \in 1..Len(q) : Piece(q[i], isn) /\ a <= AbsSeqno(q[i]) /\ AbsEnd(q[i]) <= b
  /\ \A i \in 1..(Len(q) - 1) : AbsEnd(q[i]) = AbsSeqno(q[i + 1])
  /\ \A i, j \in 1..Len(q) : i < j => AbsEnd(q[i]) <= AbsSeqno(q[j])

(* The sequence numbers are in step with the bytes taken from the stream. *)
Counted(s) ==
  /\ s.bytes_read <= s.bytes_written /\ s.bytes_written - s.bytes_read <= SendCapacity
  /\ s.next_seqno = 0 => s.bytes_read = 0 /\ ~s.fined
  /\ s.next_seqno > 0 => s.next_seqno = s.bytes_read + 1 + Bit(s.fined)
  /\ s.fined => stream_eof(s)

Flight(s) ==
  \E a \in Nat :
    /\ Run(s.segments_pending, s.isn, a, s.next_seqno)
    /\ Len(s.segments_pending) = 0 => s.window_left = s.next_seqno
    /\ Len(s.segments_pending) > 0 =>
         a <= s.window_left /\ s.window_left < AbsEnd(s.segments_pending[1])

Timed(s) == s.timer.running <=> s.segments_pending # << >>

(* The segment carries bytes s has read from its stream, its number is      *)
(* theirs, and a FIN stands behind the last byte.                           *)
Belongs(seg, s) ==
  /\ \E k \in 0..s.next_seqno :
       /\ seg.seqno = wrap(k, s.isn)
       /\ seg.syn => k = 0 /\ s.next_seqno > 0 /\ seg.len = 0 /\ ~seg.fin
       /\ seg.len > 0 \/ seg.fin => k = seg.from + 1
  /\ seg.from + seg.len <= s.bytes_read
  /\ seg.fin => s.fined /\ seg.from + seg.len = s.bytes_read
AllBelong(q, s) == \A i \in 1..Len(q) : Belongs(q[i], s)

Sound(s) ==
  /\ s \in Senders /\ Counted(s) /\ Flight(s) /\ Timed(s)
  /\ s.window_left <= s.next_seqno
  /\ AllBelong(s.segments_pending, s) /\ AllBelong(s.segments_out, s)

(* The window an ACK announces: a zero window counts as one. *)
Wide(window_size) == IF window_size = 0 THEN 1 ELSE window_size

(* The sender u continues s: what belonged to s belongs to u. *)
Grows(s, u) ==
  /\ u.isn = s.isn
  /\ s.next_seqno <= u.next_seqno /\ s.bytes_read <= u.bytes_read
  /\ s.fined => u.fined /\ u.bytes_read = s.bytes_read

(* u differs from s only in what it has read, sent and queued. *)
SameInput(s, u) ==
  /\ u.isn = s.isn /\ u.bytes_written = s.bytes_written
  /\ u.input_ended = s.input_ended /\ u.error = s.error
SameWindow(s, u) == u.window_left = s.window_left /\ u.window_right = s.window_right
-----------------------------------------------------------------------------
(* Positions of a segment are natural numbers. *)
LEMMA SegFacts ==
  ASSUME NEW seg \in Segs
  PROVE  /\ AbsSeqno(seg) \in Nat /\ AbsEnd(seg) \in Nat
         /\ length_in_sequence_space(seg) \in Nat
         /\ AbsEnd(seg) = AbsSeqno(seg) + length_in_sequence_space(seg)
  BY DEF Segs, AbsSeqno, AbsEnd, length_in_sequence_space, Bit

(* A Run and one that starts where it ends make a Run. *)
LEMMA RunConcat ==
  ASSUME NEW isn, NEW a \in Nat, NEW b \in Nat, NEW c \in Nat,
         NEW p, NEW q, Run(p, isn, a, b), Run(q, isn, b, c)
  PROVE  Run(p \o q, isn, a, c)
<1> DEFINE r == p \o q
           m == Len(p)
           n == Len(q)
<1>1. /\ p \in Seq(Segs) /\ q \in Seq(Segs) /\ m \in Nat /\ n \in Nat
      /\ \A i \in 1..m : p[i] \in Segs
      /\ \A i \in 1..n : q[i] \in Segs
  BY LenProperties, ElementOfSeq DEF Run
<1>2. /\ r \in Seq(Segs) /\ Len(r) = m + n
      /\ \A i \in 1..m : r[i] = p[i]
      /\ \A i \in (m + 1)..(m + n) : i - m \in 1..n /\ r[i] = q[i - m]
  <2>1. /\ r \in Seq(Segs) /\ Len(r) = m + n
        /\ \A i \in 1..(m + n) : r[i] = IF i <= m THEN p[i] ELSE q[i - m]
    BY <1>1, ConcatProperties
  <2> QED BY <1>1, <2>1
<1>3. \A i \in 1..m : /\ AbsSeqno(p[i]) \in Nat /\ AbsEnd(p[i]) \in Nat
  BY <1>1, SegFacts
<1>4. \A i \in 1..n : /\ AbsSeqno(q[i]) \in Nat /\ AbsEnd(q[i]) \in Nat
  BY <1>1, SegFacts
<1>5. /\ a <= b /\ (m = 0 => a = b)
      /\ m > 0 => AbsSeqno(p[1]) = a /\ AbsEnd(p[m]) = b
      /\ \A i \in 1..m : Piece(p[i], isn) /\ a <= AbsSeqno(p[i]) /\ AbsEnd(p[i]) <= b
      /\ \A i \in 1..(m - 1) : AbsEnd(p[i]) = AbsSeqno(p[i + 1])
      /\ \A i, j \in 1..m : i < j => AbsEnd(p[i]) <= AbsSeqno(p[j])
  BY DEF Run
<1>6. /\ b <= c /\ (n = 0 => b = c)
      /\ n > 0 => AbsSeqno(q[1]) = b /\ AbsEnd(q[n]) = c
      /\ \A i \in 1..n : Piece(q[i], isn) /\ b <= AbsSeqno(q[i]) /\ AbsEnd(q[i]) <= c
      /\ \A i \in 1..(n - 1) : AbsEnd(q[i]) = AbsSeqno(q[i + 1])
      /\ \A i, j \in 1..n : i < j => AbsEnd(q[i]) <= AbsSeqno(q[j])
  BY DEF Run
<1> HIDE DEF r, m, n
<1>7. a <= c /\ (Len(r) = 0 => a = c)
  BY <1>1, <1>2, <1>5, <1>6
<1>8. Len(r) > 0 => AbsSeqno(r[1]) = a /\ AbsEnd(r[Len(r)]) = c
  <2>1. CASE m = 0 /\ n > 0
    BY <1>1, <1>2, <1>5, <1>6, <2>1
  <2>2. CASE m > 0 /\ n = 0
    BY <1>1, <1>2, <1>5, <1>6, <2>2
  <2>3. CASE m > 0 /\ n > 0
    BY <1>1, <1>2, <1>5, <1>6, <2>3
  <2> QED BY <1>1, <1>2, <2>1, <2>2, <2>3
<1>9. ASSUME NEW i \in 1..Len(r)
      PROVE  Piece(r[i], isn) /\ a <= AbsSeqno(r[i]) /\ AbsEnd(r[i]) <= c
  <2>1. CASE i <= m
    <3>1. i \in 1..m /\ r[i] = p[i]
      BY <1>1, <1>2, <2>1
    <3> QED BY <1>3, <1>5, <1>6, <3>1
  <2>2. CASE i > m
    <3>1. i \in (m + 1)..(m + n)
      BY <1>1, <1>2, <2>2
    <3>2. i - m \in 1..n /\ r[i] = q[i - m]
      BY <1>2, <3>1
    <3> QED BY <1>4, <1>5, <1>6, <3>2
  <2> QED BY <1>1, <1>2, <2>1, <2>2
<1>10. ASSUME NEW i \in 1..(Len(r) - 1) PROVE AbsEnd(r[i]) = AbsSeqno(r[i + 1])
  <2>1. CASE i < m
    BY <1>1, <1>2, <1>5, <2>1
  <2>2. CASE i = m
    BY <1>1, <1>2, <1>5, <1>6, <2>2
  <2>3. CASE i > m
    <3>1. i - m \in 1..(n - 1) /\ i + 1 - m = (i - m) + 1
      BY <1>1, <1>2, <2>3
    <3>2. r[i] = q[i - m] /\ r[i + 1] = q[(i - m) + 1]
      BY <1>1, <1>2, <2>3, <3>1
    <3> QED BY <1>6, <3>1, <3>2
  <2> QED BY <1>1, <1>2, <2>1, <2>2, <2>3
<1>11. ASSUME NEW i \in 1..Len(r), NEW j \in 1..Len(r), i < j
       PROVE  AbsEnd(r[i]) <= AbsSeqno(r[j])
  <2>1. CASE j <= m
    <3>1. i \in 1..m /\ j \in 1..m /\ r[i] = p[i] /\ r[j] = p[j]
      BY <1>1, <1>2, <1>11, <2>1
    <3> QED BY <1>5, <1>11, <3>1
  <2>2. CASE i <= m /\ j > m
    <3>1. i \in 1..m /\ j - m \in 1..n /\ r[i] = p[i] /\ r[j] = q[j - m]
      BY <1>1, <1>2, <2>2
    <3>2. AbsEnd(p[i]) <= b /\ b <= AbsSeqno(q[j - m])
      BY <1>5, <1>6, <3>1
    <3> QED BY <1>3, <1>4, <3>1, <3>2
  <2>3. CASE i > m
    <3>1. i \in (m + 1)..(m + n) /\ j \in (m + 1)..(m + n) /\ i - m < j - m
      BY <1>1, <1>2, <1>11, <2>3
    <3>2. i - m \in 1..n /\ j - m \in 1..n /\ r[i] = q[i - m] /\ r[j] = q[j - m]
      BY <1>2, <3>1
    <3> QED BY <1>6, <3>1, <3>2
  <2> QED BY <1>1, <1>2, <2>1, <2>2, <2>3
<1> QED BY <1>2, <1>7, <1>8, <1>9, <1>10, <1>11 DEF Run, r

(* What is left of a Run behind its first segments is a Run. *)
LEMMA RunSuffix ==
  ASSUME NEW isn, NEW a \in Nat, NEW b \in Nat, NEW p, Run(p, isn, a, b),
         NEW f \in 1..(Len(p) + 1)
  PROVE  LET q == SubSeq(p, f, Len(p))
         IN  /\ q \in Seq(Segs) /\ Len(q) = Len(p) - f + 1
             /\ f <= Len(p) => q[1] = p[f] /\ Run(q, isn, AbsSeqno(p[f]), b)
             /\ f = Len(p) + 1 => Run(q, isn, b, b)
<1> DEFINE m == Len(p)
           q == SubSeq(p, f, m)
           n == m - f + 1
<1>1. p \in Seq(Segs) /\ m \in Nat /\ (\A i \in 1..m : p[i] \in Segs) /\ f \in 1..(m + 1)
  BY LenProperties, ElementOfSeq DEF Run
<1>2. q \in Seq(Segs) /\ Len(q) = n /\ \A i \in 1..n : q[i] = p[f + i - 1]
  <2>1. \A i \in f..m : p[i] \in Segs
    BY <1>1
  <2>2. /\ q \in Seq(Segs) /\ Len(q) = IF f <= m THEN m - f + 1 ELSE 0
        /\ \A i \in 1..(m - f + 1) : q[i] = p[f + i - 1]
    BY <1>1, <2>1, SubSeqProperties
  <2> QED BY <1>1, <2>2
<1>3. /\ m > 0 => AbsEnd(p[m]) = b
      /\ \A i \in 1..m : Piece(p[i], isn) /\ a <= AbsSeqno(p[i]) /\ AbsEnd(p[i]) <= b
      /\ \A i \in 1..(m - 1) : AbsEnd(p[i]) = AbsSeqno(p[i + 1])
      /\ \A i, j \in 1..m : i < j => AbsEnd(p[i]) <= AbsSeqno(p[j])
  BY DEF Run
<1>4. \A i \in 1..m : /\ AbsSeqno(p[i]) \in Nat /\ AbsEnd(p[i]) \in Nat
                      /\ AbsSeqno(p[i]) <= AbsEnd(p[i])
  <2>1. ASSUME NEW i \in 1..m
        PROVE  /\ AbsSeqno(p[i]) \in Nat /\ AbsEnd(p[i]) \in Nat
               /\ AbsSeqno(p[i]) <= AbsEnd(p[i])
    <3>1. p[i] \in Segs
      BY <1>1
    <3>2. /\ AbsSeqno(p[i]) \in Nat /\ AbsEnd(p[i]) \in Nat
          /\ length_in_sequence_space(p[i]) \in Nat
          /\ AbsEnd(p[i]) = AbsSeqno(p[i]) + length_in_sequence_space(p[i])
      BY <3>1, SegFacts, Zenon
    <3> QED BY <3>2
  <2> QED BY <2>1, Zenon
<1> HIDE DEF q
<1>5. CASE f = m + 1
  <2>1. Len(q) = 0
    BY <1>1, <1>2, <1>5
  <2>2. Run(q, isn, b, b)
    BY <1>2, <2>1 DEF Run
  <2> QED BY <1>1, <1>2, <1>5, <2>2 DEF q
<1>6. CASE f <= m
  <2> DEFINE e == AbsSeqno(p[f])
  <2>1. q[1] = p[f] /\ q[n] = p[m] /\ n > 0
    BY <1>1, <1>2, <1>6
  <2>2. \A i \in 1..n : f + i - 1 \in 1..m
    BY <1>1, <1>6
  <2>3. e \in Nat /\ e <= b /\ AbsEnd(q[n]) = b
    BY <1>1, <1>3, <1>4, <1>6, <2>1
  <2>4. \A i \in 1..m : i >= f => e <= AbsSeqno(p[i])
    <3>1. ASSUME NEW i \in 1..m, i > f PROVE e <= AbsSeqno(p[i])
      <4>1. f \in 1..m /\ AbsEnd(p[f]) <= AbsSeqno(p[i])
        BY <1>1, <1>3, <1>6, <3>1
      <4> QED BY <1>4, <4>1
    <3> QED BY <1>1, <1>4, <1>6, <3>1
  <2> HIDE DEF e
  <2>5. ASSUME NEW i \in 1..n
        PROVE  Piece(q[i], isn) /\ e <= AbsSeqno(q[i]) /\ AbsEnd(q[i]) <= b
    BY <1>1, <1>2, <1>3, <2>2, <2>4
  <2>6. ASSUME NEW i \in 1..(n - 1) PROVE AbsEnd(q[i]) = AbsSeqno(q[i + 1])
    <3>1. /\ f + i - 1 \in 1..(m - 1) /\ f + (i + 1) - 1 = (f + i - 1) + 1
          /\ i \in 1..n /\ i + 1 \in 1..n
      BY <1>1, <1>6
    <3> QED BY <1>2, <1>3, <3>1
  <2>7. ASSUME NEW i \in 1..n, NEW j \in 1..n, i < j PROVE AbsEnd(q[i]) <= AbsSeqno(q[j])
    <3>1. f + i - 1 \in 1..m /\ f + j - 1 \in 1..m /\ f + i - 1 < f + j - 1
      BY <1>1, <1>6, <2>7
    <3> QED BY <1>2, <1>3, <3>1
  <2>8. Run(q, isn, e, b)
    BY <1>2, <2>1, <2>3, <2>5, <2>6, <2>7 DEF Run, e
  <2> QED BY <1>1, <1>2, <1>6, <2>1, <2>8 DEF q, e
<1> QED BY <1>1, <1>5, <1>6
-----------------------------------------------------------------------------
(* What fill_window reads fits in the window, with the FIN. *)
LEMMA PayloadFacts ==
  ASSUME NEW s \in Senders, Counted(s), window_remaining(s) \in Nat
  PROVE  /\ payload_total(s) \in Nat
         /\ payload_total(s) <= s.bytes_written - s.bytes_read
         /\ fin_sent(s) \in BOOLEAN
         /\ fin_sent(s) => s.input_ended /\ payload_total(s) = s.bytes_written - s.bytes_read
         /\ payload_total(s) + Bit(fin_sent(s)) <= window_remaining(s)
<1>1. /\ s.bytes_read \in Nat /\ s.bytes_written \in Nat /\ s.input_ended \in BOOLEAN
      /\ s.bytes_read <= s.bytes_written
  BY DEF Senders, Counted
<1>3. buffer_size(s) = s.bytes_written - s.bytes_read
  BY DEF buffer_size
<1>4. /\ payload_total(s) \in Nat /\ payload_total(s) <= window_remaining(s)
      /\ payload_total(s) <= buffer_size(s)
  BY <1>1, <1>3 DEF payload_total, Least
<1>5. fin_sent(s) <=> /\ s.input_ended /\ payload_total(s) = buffer_size(s)
                      /\ payload_total(s) < window_remaining(s)
  BY DEF fin_sent
<1>6. fin_sent(s) \in BOOLEAN
  BY <1>1 DEF fin_sent
<1> QED BY <1>1, <1>3, <1>4, <1>5, <1>6 DEF Bit

(* The pieces fill_window makes: where each starts and how long it is. *)
LEMMA PieceFacts ==
  ASSUME NEW s \in Senders, Counted(s), window_remaining(s) \in Nat,
         s.next_seqno > 0, ~s.fined
  PROVE  LET M == MAX_PAYLOAD_SIZE
             P == pieces(s)
             t == payload_total(s)
             B == Bit(fin_sent(s))
         IN  /\ P \in Nat
             /\ P = 0 => t + B = 0
             /\ \A i \in 1..P :
                  /\ (i - 1) * M \in Nat /\ (i - 1) * M <= t
                  /\ piece(s, i) \in Segs
                  /\ piece(s, i).seqno = wrap(AbsSeqno(piece(s, i)), s.isn)
                  /\ AbsSeqno(piece(s, i)) = s.next_seqno + (i - 1) * M
                  /\ AbsEnd(piece(s, i)) = IF i < P THEN s.next_seqno + i * M
                                           ELSE s.next_seqno + t + B
                  /\ i < P => i * M < t
                  /\ AbsSeqno(piece(s, i)) < AbsEnd(piece(s, i))
                  /\ ~piece(s, i).syn /\ piece(s, i).from + piece(s, i).len <= s.bytes_read + t
                  /\ piece(s, i).fin =>
                       fin_sent(s) /\ piece(s, i).from + piece(s, i).len = s.bytes_read + t
<1> DEFINE M == MAX_PAYLOAD_SIZE
           P == pieces(s)
           t == payload_total(s)
           fin == fin_sent(s)
           B == Bit(fin)
<1>1. /\ M \in Nat \ {0} /\ t \in Nat /\ fin \in BOOLEAN /\ B \in {0, 1}
  BY SenderAssumption, PayloadFacts DEF Bit
<1>2. /\ s.next_seqno = s.bytes_read + 1 /\ s.bytes_read \in Nat /\ s.isn \in Raw
      /\ s.next_seqno \in Nat
  BY DEF Senders, Counted, Bit
<1>3. P = IF t = 0 THEN B ELSE (t + M - 1) \div M
  BY DEF pieces
<1>4. P \in Nat /\ (t > 0 => P > 0 /\ (P - 1) * M < t /\ t <= P * M) /\ (P = 0 => t + B = 0)
      /\ (t = 0 => P = B)
  <2>1. CASE t = 0
    BY <1>1, <1>3, <2>1
  <2>2. CASE t > 0
    <3>1. P = (t + M - 1) \div M
      BY <1>1, <1>3, <2>2
    <3>2. t \in Nat \ {0}
      BY <1>1, <2>2
    <3> HIDE DEF t, P, B, fin, M
    <3>3. P \in Nat \ {0} /\ (P - 1) * M < t /\ t <= P * M
      BY <1>1, <3>1, <3>2, Ceiling
    <3> QED BY <1>1, <2>2, <3>3
  <2> QED BY <1>1, <2>1, <2>2
<1>5. ASSUME NEW i \in 1..P
      PROVE  LET k == (i - 1) * M IN
             /\ k \in Nat /\ i * M = k + M
             /\ k <= t
             /\ i < P => k + M < t
             /\ i = P => t - k <= M
             /\ i = P /\ t > 0 => k < t
             /\ t = 0 => k = 0 /\ i = P /\ B = 1
  <2> HIDE DEF t, P, B, fin, M
  <2>1. (i - 1) * M \in Nat /\ i * M = (i - 1) * M + M
    BY <1>1, <1>4
  <2>2. CASE t = 0
    <3>1. P = 1 /\ i = 1 /\ B = 1
      BY <1>1, <1>4, <2>2
    <3>2. (i - 1) * M = 0
      BY <1>1, <3>1
    <3> QED BY <1>1, <2>1, <2>2, <3>1, <3>2
  <2>3. CASE t > 0
    <3>1. P \in Nat /\ (P - 1) * M < t /\ t <= P * M
      BY <1>4, <2>3
    <3>2. i <= P - 1 => i * M <= (P - 1) * M
      BY <1>1, <3>1, Times
    <3>3. (i - 1) * M <= (P - 1) * M
      BY <1>1, <3>1, Times
    <3>4. (P - 1) * M \in Int
      BY <1>1, <3>1
    <3>5. P * M = (P - 1) * M + M
      BY <1>1, <3>1
    <3> QED BY <1>1, <2>1, <2>3, <3>1, <3>2, <3>3, <3>4, <3>5
  <2> QED BY <1>1, <2>2, <2>3
<1>6. ASSUME NEW i \in 1..P
      PROVE  /\ (i - 1) * M \in Nat /\ (i - 1) * M <= t
             /\ piece(s, i) \in Segs
             /\ piece(s, i).seqno = wrap(AbsSeqno(piece(s, i)), s.isn)
             /\ AbsSeqno(piece(s, i)) = s.next_seqno + (i - 1) * M
             /\ AbsEnd(piece(s, i)) = IF i < P THEN s.next_seqno + i * M
                                      ELSE s.next_seqno + t + B
             /\ i < P => i * M < t
             /\ AbsSeqno(piece(s, i)) < AbsEnd(piece(s, i))
             /\ ~piece(s, i).syn /\ piece(s, i).from + piece(s, i).len <= s.bytes_read + t
             /\ piece(s, i).fin =>
                  fin /\ piece(s, i).from + piece(s, i).len = s.bytes_read + t
  <2> DEFINE k == (i - 1) * M
             last == fin /\ i = P
             len == Least(M, t - k)
             seg == piece(s, i)
  <2>1. /\ k \in Nat /\ i * M = k + M /\ k <= t
        /\ i < P => k + M < t
        /\ i = P => t - k <= M
        /\ i = P /\ t > 0 => k < t
        /\ t = 0 => k = 0 /\ i = P /\ B = 1
    BY <1>5
  <2>2. seg = [seqno |-> wrap(s.next_seqno + k, s.isn), syn |-> FALSE, fin |-> last,
               from |-> s.bytes_read + k, len |-> len,
               ack |-> FALSE, ackno |-> 0, rst |-> FALSE, win |-> 0]
    BY DEF piece, TCPSegment, piece_from
  <2> HIDE DEF k, M, P, t, fin, B, seg
  <2>3. len \in Nat /\ (i < P => len = M) /\ (i = P => len = t - k)
    BY <1>1, <2>1 DEF Least
  <2>4. last \in BOOLEAN /\ Bit(last) = IF i = P THEN B ELSE 0
    BY <1>1 DEF Bit, B
  <2>5. wrap(s.next_seqno + k, s.isn) \in Raw
    BY <1>2, <2>1, WrapType
  <2> HIDE DEF len, last
  <2>6. seg \in Segs
    BY <1>2, <2>1, <2>2, <2>3, <2>4, <2>5 DEF Segs
  <2>7. AbsSeqno(seg) = s.next_seqno + k /\ seg.seqno = wrap(AbsSeqno(seg), s.isn)
    <3>1. seg.syn = FALSE /\ seg.from = s.bytes_read + k
          /\ seg.seqno = wrap(s.next_seqno + k, s.isn)
      BY <2>2
    <3>2. AbsSeqno(seg) = s.next_seqno + k
      BY <1>2, <2>1, <3>1 DEF AbsSeqno
    <3> QED BY <3>1, <3>2
  <2>8. AbsEnd(seg) = s.next_seqno + k + len + Bit(last)
    <3>1. seg.syn = FALSE /\ seg.fin = last /\ seg.len = len
      BY <2>2
    <3>2. length_in_sequence_space(seg) = len + Bit(last)
      <4>1. Bit(seg.syn) = 0
        BY <3>1 DEF Bit
      <4>2. Bit(seg.fin) = Bit(last)
        BY <3>1, Zenon
      <4>3. Bit(last) \in Nat
        BY <2>4 DEF Bit
      <4>4. length_in_sequence_space(seg) = seg.len + Bit(seg.syn) + Bit(seg.fin)
        BY DEF length_in_sequence_space
      <4> QED BY <2>3, <3>1, <4>1, <4>2, <4>3, <4>4
    <3> QED BY <1>1, <1>2, <2>1, <2>3, <2>4, <2>7, <3>2 DEF AbsEnd
  <2>9. P \in Nat /\ (i < P \/ i = P)
    BY <1>4
  <2>10. AbsEnd(seg) = IF i < P THEN s.next_seqno + i * M ELSE s.next_seqno + t + B
    BY <1>1, <1>2, <2>1, <2>3, <2>4, <2>8, <2>9
  <2>11. AbsSeqno(seg) < AbsEnd(seg)
    BY <1>1, <1>2, <2>1, <2>3, <2>4, <2>7, <2>8, <2>9
  <2>12. /\ seg.syn = FALSE /\ seg.from = s.bytes_read + k /\ seg.len = len
         /\ seg.fin = last
    BY <2>2
  <2>13. seg.from + seg.len <= s.bytes_read + t
    BY <1>1, <1>2, <2>1, <2>3, <2>9, <2>12
  <2>14. seg.fin => fin /\ seg.from + seg.len = s.bytes_read + t
    <3>1. SUFFICES ASSUME seg.fin PROVE fin /\ seg.from + seg.len = s.bytes_read + t
      OBVIOUS
    <3>2. fin /\ i = P
      BY <2>12, <3>1, Zenon DEF last
    <3> QED BY <1>1, <1>2, <2>1, <2>3, <2>12, <3>2
  <2> QED BY <2>1, <2>6, <2>7, <2>10, <2>11, <2>12, <2>13, <2>14 DEF k, seg
<1> QED BY <1>4, <1>6

(* The pieces fill_window makes are a Run from _next_seqno on. *)
LEMMA PiecesRun ==
  ASSUME NEW s \in Senders, Counted(s), window_remaining(s) \in Nat,
         s.next_seqno > 0, ~s.fined
  PROVE  Run([i \in 1..pieces(s) |-> piece(s, i)], s.isn, s.next_seqno,
             s.next_seqno + payload_total(s) + Bit(fin_sent(s)))
<1> DEFINE M == MAX_PAYLOAD_SIZE
           P == pieces(s)
           t == payload_total(s)
           B == Bit(fin_sent(s))
           a == s.next_seqno
           b == a + t + B
           q == [i \in 1..P |-> piece(s, i)]
<1>1. /\ P \in Nat /\ (P = 0 => t + B = 0)
      /\ \A i \in 1..P :
           /\ (i - 1) * M \in Nat /\ (i - 1) * M <= t
           /\ piece(s, i) \in Segs
           /\ piece(s, i).seqno = wrap(AbsSeqno(piece(s, i)), s.isn)
           /\ AbsSeqno(piece(s, i)) = a + (i - 1) * M
           /\ AbsEnd(piece(s, i)) = IF i < P THEN a + i * M ELSE b
           /\ i < P => i * M < t
           /\ AbsSeqno(piece(s, i)) < AbsEnd(piece(s, i))
  BY PieceFacts
<1>2. a \in Nat /\ t \in Nat /\ B \in {0, 1} /\ M \in Nat \ {0}
  BY PayloadFacts, SenderAssumption DEF Senders, Bit
<1>3. q \in Seq(Segs) /\ Len(q) = P /\ \A i \in 1..P : q[i] = piece(s, i)
  <2>1. q \in [1..P -> Segs]
    BY <1>1
  <2> QED BY <1>1, <2>1, FunctionIsSeq
<1> HIDE DEF q, P, t, B, M
<1>4. \A i \in 1..P : i * M \in Nat
  BY <1>1, <1>2
<1>5. ASSUME NEW i \in 1..P
      PROVE  Piece(q[i], s.isn) /\ a <= AbsSeqno(q[i]) /\ AbsEnd(q[i]) <= b
  <2>1. AbsSeqno(q[i]) \in Nat /\ AbsEnd(q[i]) \in Nat
        /\ AbsEnd(q[i]) = AbsSeqno(q[i]) + length_in_sequence_space(q[i])
        /\ length_in_sequence_space(q[i]) \in Nat
    BY <1>1, <1>3, SegFacts
  <2>0. /\ (i - 1) * M \in Nat /\ i * M \in Nat
        /\ AbsSeqno(q[i]) = a + (i - 1) * M
        /\ AbsEnd(q[i]) = (IF i < P THEN a + i * M ELSE b)
        /\ (i < P => i * M < t)
        /\ AbsSeqno(q[i]) < AbsEnd(q[i])
    BY <1>1, <1>3, <1>4
  <2>2. a <= AbsSeqno(q[i]) /\ AbsSeqno(q[i]) < AbsEnd(q[i])
    BY <1>2, <2>0
  <2>3. AbsEnd(q[i]) <= b
    BY <1>2, <2>0
  <2>4. length_in_sequence_space(q[i]) >= 1
    BY <2>1, <2>2
  <2> QED BY <1>1, <1>3, <2>2, <2>3, <2>4 DEF Piece
<1>6. ASSUME NEW i \in 1..(P - 1) PROVE AbsEnd(q[i]) = AbsSeqno(q[i + 1])
  <2>1. i \in 1..P /\ i + 1 \in 1..P /\ i < P /\ (i + 1) - 1 = i
    BY <1>1
  <2>2. AbsEnd(q[i]) = a + i * M
    BY <1>1, <1>3, <2>1
  <2>3. AbsSeqno(q[i + 1]) = a + ((i + 1) - 1) * M
    BY <1>1, <1>3, <2>1
  <2> QED BY <2>1, <2>2, <2>3
<1>7. ASSUME NEW i \in 1..P, NEW j \in 1..P, i < j PROVE AbsEnd(q[i]) <= AbsSeqno(q[j])
  <2>1. i < P
    BY <1>1, <1>7
  <2>2. AbsEnd(q[i]) = a + i * M /\ AbsSeqno(q[j]) = a + (j - 1) * M
    BY <1>1, <1>3, <2>1
  <2>3. i * M <= (j - 1) * M
    BY <1>2, <1>7, Times
  <2>4. i * M \in Nat /\ (j - 1) * M \in Nat
    BY <1>1, <1>4
  <2> QED BY <1>2, <2>2, <2>3, <2>4
<1>8. P > 0 => AbsSeqno(q[1]) = a /\ AbsEnd(q[P]) = b
  <2>1. SUFFICES ASSUME P > 0 PROVE AbsSeqno(q[1]) = a /\ AbsEnd(q[P]) = b
    OBVIOUS
  <2>2. 1 \in 1..P /\ P \in 1..P /\ (1 - 1) * M = 0
    BY <1>1, <1>2, <2>1
  <2>3. AbsSeqno(q[1]) = a + (1 - 1) * M
    BY <1>1, <1>3, <2>2
  <2>4. AbsEnd(q[P]) = b
    BY <1>1, <1>3, <2>2
  <2> QED BY <1>2, <2>2, <2>3, <2>4
<1>9. a <= b /\ (P = 0 => a = b)
  BY <1>1, <1>2
<1>10. Run(q, s.isn, a, b)
  BY <1>3, <1>5, <1>6, <1>7, <1>8, <1>9 DEF Run
<1> QED BY <1>10 DEF q, P, t, B
-----------------------------------------------------------------------------
(* What belongs to a sender belongs to the sender it grows into. *)
LEMMA BelongsGrows ==
  ASSUME NEW s \in Senders, NEW u \in Senders, Grows(s, u), NEW seg \in Segs, Belongs(seg, s)
  PROVE  Belongs(seg, u)
<1>1. PICK k \in 0..s.next_seqno :
        /\ seg.seqno = wrap(k, s.isn)
        /\ seg.syn => k = 0 /\ s.next_seqno > 0 /\ seg.len = 0 /\ ~seg.fin
        /\ seg.len > 0 \/ seg.fin => k = seg.from + 1
  BY DEF Belongs
<1>2. /\ s.next_seqno \in Nat /\ u.next_seqno \in Nat /\ s.bytes_read \in Nat
      /\ u.bytes_read \in Nat /\ u.isn = s.isn
      /\ s.next_seqno <= u.next_seqno /\ s.bytes_read <= u.bytes_read
      /\ s.fined => u.fined /\ u.bytes_read = s.bytes_read
  BY DEF Grows, Senders
<1>3. k \in 0..u.next_seqno /\ (s.next_seqno > 0 => u.next_seqno > 0)
  BY <1>2
<1>4. seg.fin => u.fined /\ seg.from + seg.len = u.bytes_read
  BY <1>2 DEF Belongs
<1>5. seg.from + seg.len <= u.bytes_read
  <2>1. seg.from + seg.len <= s.bytes_read /\ seg.from + seg.len \in Nat
    BY DEF Belongs, Segs
  <2> QED BY <1>2, <2>1
<1>6. /\ seg.seqno = wrap(k, u.isn)
      /\ seg.syn => k = 0 /\ u.next_seqno > 0 /\ seg.len = 0 /\ ~seg.fin
  BY <1>1, <1>2, <1>3
<1> QED BY <1>1, <1>3, <1>4, <1>5, <1>6, Zenon DEF Belongs

LEMMA AllBelongGrows ==
  ASSUME NEW s \in Senders, NEW u \in Senders, Grows(s, u),
         NEW q \in Seq(Segs), AllBelong(q, s)
  PROVE  AllBelong(q, u)
<1> SUFFICES ASSUME NEW i \in 1..Len(q) PROVE Belongs(q[i], u)
  BY DEF AllBelong
<1>1. q[i] \in Segs
  BY ElementOfSeq
<1>2. Belongs(q[i], s)
  BY DEF AllBelong
<1> QED BY <1>1, <1>2, BelongsGrows

LEMMA AllBelongConcat ==
  ASSUME NEW u, NEW p \in Seq(Segs), NEW q \in Seq(Segs), AllBelong(p, u), AllBelong(q, u)
  PROVE  p \o q \in Seq(Segs) /\ AllBelong(p \o q, u)
<1> DEFINE r == p \o q
<1>1. /\ r \in Seq(Segs) /\ Len(r) = Len(p) + Len(q) /\ Len(p) \in Nat /\ Len(q) \in Nat
      /\ \A i \in 1..(Len(p) + Len(q)) : r[i] = IF i <= Len(p) THEN p[i] ELSE q[i - Len(p)]
  BY ConcatProperties, LenProperties
<1> HIDE DEF r
<1>2. ASSUME NEW i \in 1..Len(r) PROVE Belongs(r[i], u)
  <2>1. CASE i <= Len(p)
    <3>1. i \in 1..Len(p) /\ r[i] = p[i]
      BY <1>1, <2>1
    <3> QED BY <3>1 DEF AllBelong
  <2>2. CASE ~(i <= Len(p))
    <3>1. i - Len(p) \in 1..Len(q) /\ r[i] = q[i - Len(p)]
      BY <1>1, <2>2
    <3> QED BY <3>1 DEF AllBelong
  <2> QED BY <2>1, <2>2
<1>3. AllBelong(r, u)
  BY <1>2 DEF AllBelong
<1> QED BY <1>1, <1>3 DEF r

LEMMA AllBelongAppend ==
  ASSUME NEW u, NEW p \in Seq(Segs), NEW seg \in Segs, AllBelong(p, u), Belongs(seg, u)
  PROVE  Append(p, seg) \in Seq(Segs) /\ AllBelong(Append(p, seg), u)
<1> DEFINE r == Append(p, seg)
<1>1. /\ r \in Seq(Segs) /\ Len(r) = Len(p) + 1 /\ Len(p) \in Nat
      /\ \A i \in 1..Len(p) : r[i] = p[i]
      /\ r[Len(p) + 1] = seg
  BY AppendProperties, LenProperties
<1> HIDE DEF r
<1>2. ASSUME NEW i \in 1..Len(r) PROVE Belongs(r[i], u)
  <2>1. CASE i <= Len(p)
    BY <1>1, <2>1 DEF AllBelong
  <2>2. CASE i = Len(p) + 1
    BY <1>1, <2>2
  <2> QED BY <1>1, <2>1, <2>2
<1>3. AllBelong(r, u)
  BY <1>2 DEF AllBelong
<1> QED BY <1>1, <1>3 DEF r

(* _send of a Run that starts at _next_seqno. *)
LEMMA SendKeeps ==
  ASSUME NEW s \in Senders, Flight(s), Timed(s), NEW segs, NEW n \in Nat,
         Run(segs, s.isn, s.next_seqno, s.next_seqno + n)
  PROVE  LET u == _send(s, segs, n)
         IN  /\ u \in Senders /\ Flight(u) /\ Timed(u)
             /\ u.next_seqno = s.next_seqno + n
             /\ u.bytes_read = s.bytes_read /\ u.fined = s.fined
             /\ SameInput(s, u) /\ SameWindow(s, u)
             /\ u.segments_pending = s.segments_pending \o segs
             /\ u.segments_out = s.segments_out \o segs
<1> DEFINE u == _send(s, segs, n)
           p == s.segments_pending
           r == p \o segs
           next == s.next_seqno
<1>1. PICK a \in Nat : /\ Run(p, s.isn, a, next)
                       /\ Len(p) = 0 => s.window_left = next
                       /\ Len(p) > 0 => a <= s.window_left /\ s.window_left < AbsEnd(p[1])
  BY DEF Flight
<1>2. /\ p \in Seq(Segs) /\ segs \in Seq(Segs) /\ next \in Nat /\ next + n \in Nat
      /\ s.segments_out \in Seq(Segs) /\ s.timer \in Timers /\ s.window_left \in Nat
      /\ s.retransmission_timeout \in Nat
  BY DEF Senders, Run
<1>3. Run(r, s.isn, a, next + n)
  BY <1>1, <1>2, RunConcat
<1>4. /\ r \in Seq(Segs) /\ Len(r) = Len(p) + Len(segs) /\ Len(p) \in Nat /\ Len(segs) \in Nat
      /\ \A i \in 1..(Len(p) + Len(segs)) : r[i] = IF i <= Len(p) THEN p[i] ELSE segs[i - Len(p)]
  BY <1>2, ConcatProperties, LenProperties
<1>5. (r = << >> <=> p = << >> /\ segs = << >>)
  BY <1>2, ConcatEqualIffEmpty
<1> DEFINE timer == IF segs = << >> \/ s.timer.running THEN s.timer
                    ELSE started(s.retransmission_timeout)
<1>6. u = [s EXCEPT !.segments_out = @ \o segs, !.segments_pending = r,
                    !.next_seqno = next + n, !.timer = timer]
  BY DEF _send
<1>7. timer \in Timers
  BY <1>2 DEF Timers, started
<1>8. s.segments_out \o segs \in Seq(Segs)
  BY <1>2, ConcatProperties
<1>9. timer.running <=> r # << >>
  <2>1. s.timer.running <=> p # << >>
    BY DEF Timed
  <2>2. CASE segs = << >> \/ s.timer.running
    BY <1>5, <2>1, <2>2
  <2>3. CASE ~(segs = << >> \/ s.timer.running)
    BY <1>5, <2>1, <2>3 DEF started
  <2> QED BY <2>2, <2>3
<1>10. u \in Senders
  <2> HIDE DEF u, r, timer, p, next
  <2> QED BY <1>2, <1>4, <1>6, <1>7, <1>8 DEF Senders
<1>11. /\ u.segments_pending = r /\ u.next_seqno = next + n /\ u.timer = timer
       /\ u.bytes_read = s.bytes_read /\ u.bytes_written = s.bytes_written
       /\ u.input_ended = s.input_ended /\ u.fined = s.fined
       /\ u.window_left = s.window_left /\ u.window_right = s.window_right
       /\ u.isn = s.isn /\ u.error = s.error /\ u.segments_out = s.segments_out \o segs
  <2> HIDE DEF u, r, timer, p, next
  <2> QED BY <1>6 DEF Senders
<1>12. Timed(u)
  BY <1>9, <1>11 DEF Timed
<1>13. /\ Len(r) = 0 => s.window_left = next + n
       /\ Len(r) > 0 => a <= s.window_left /\ s.window_left < AbsEnd(r[1])
  <2>1. CASE Len(p) = 0 /\ Len(segs) = 0
    BY <1>1, <1>2, <1>4, <2>1 DEF Run
  <2>2. CASE Len(p) > 0
    BY <1>1, <1>4, <2>2
  <2>3. CASE Len(p) = 0 /\ Len(segs) > 0
    <3>1. r[1] = segs[1] /\ segs[1] \in Segs /\ a = next /\ s.window_left = next
      BY <1>1, <1>2, <1>4, <2>3, ElementOfSeq DEF Run
    <3>2. AbsSeqno(segs[1]) = next /\ Piece(segs[1], s.isn)
      BY <1>2, <1>4, <2>3 DEF Run
    <3>3. AbsEnd(segs[1]) > next
      BY <1>2, <3>1, <3>2, SegFacts DEF Piece
    <3> QED BY <1>2, <1>4, <2>3, <3>1, <3>3
  <2> QED BY <1>4, <2>1, <2>2, <2>3
<1>14. Flight(u)
  BY <1>3, <1>11, <1>13 DEF Flight
<1>15. SameInput(s, u) /\ SameWindow(s, u)
  BY <1>11, Zenon DEF SameInput, SameWindow
<1> QED BY <1>10, <1>11, <1>12, <1>14, <1>15
-----------------------------------------------------------------------------
(* fill_window, whatever the window, as long as receiver_window_remaining   *)
(* is a number: the segments it sends belong, and start at _next_seqno.     *)
LEMMA FillWindowKeeps ==
  ASSUME NEW s, Sound(s), window_remaining(s) \in Nat
  PROVE  LET u == fill_window(s)
         IN  /\ Sound(u) /\ Grows(s, u) /\ SameInput(s, u) /\ SameWindow(s, u)
             /\ u.next_seqno <= s.next_seqno + (IF in_closed(s) THEN 1 ELSE window_remaining(s))
             /\ u.next_seqno > 0
             /\ \A i \in 1..Len(u.segments_pending) :
                  \/ s.next_seqno <= AbsSeqno(u.segments_pending[i])
                  \/ i <= Len(s.segments_pending)
                       /\ u.segments_pending[i] = s.segments_pending[i]
<1> DEFINE p == s.segments_pending
<1>1. /\ s \in Senders /\ Counted(s) /\ Flight(s) /\ Timed(s)
      /\ s.window_left <= s.next_seqno
      /\ AllBelong(p, s) /\ AllBelong(s.segments_out, s)
  BY DEF Sound
<1>2. /\ s.next_seqno \in Nat /\ s.bytes_read \in Nat /\ s.bytes_written \in Nat
      /\ s.window_left \in Nat /\ s.window_right \in Nat /\ s.isn \in Raw
      /\ s.fined \in BOOLEAN /\ p \in Seq(Segs) /\ s.segments_out \in Seq(Segs)
  BY <1>1 DEF Senders
<1>a. ASSUME NEW u \in Senders, NEW segs \in Seq(Segs), AllBelong(segs, u), Grows(s, u),
             u.segments_pending = p \o segs, u.segments_out = s.segments_out \o segs,
             \A i \in 1..Len(segs) : s.next_seqno <= AbsSeqno(segs[i])
      PROVE  /\ AllBelong(u.segments_pending, u) /\ AllBelong(u.segments_out, u)
             /\ \A i \in 1..Len(u.segments_pending) :
                  \/ s.next_seqno <= AbsSeqno(u.segments_pending[i])
                  \/ i <= Len(p) /\ u.segments_pending[i] = p[i]
  <2>1. AllBelong(p, u) /\ AllBelong(s.segments_out, u)
    BY <1>1, <1>2, <1>a, AllBelongGrows
  <2>2. AllBelong(u.segments_pending, u) /\ AllBelong(u.segments_out, u)
    BY <1>2, <1>a, <2>1, AllBelongConcat
  <2>3. /\ Len(p \o segs) = Len(p) + Len(segs) /\ Len(p) \in Nat /\ Len(segs) \in Nat
        /\ \A i \in 1..(Len(p) + Len(segs)) :
             (p \o segs)[i] = IF i <= Len(p) THEN p[i] ELSE segs[i - Len(p)]
    BY <1>2, ConcatProperties, LenProperties
  <2>4. ASSUME NEW i \in 1..Len(u.segments_pending), ~(i <= Len(p))
        PROVE  s.next_seqno <= AbsSeqno(u.segments_pending[i])
    <3>1. i - Len(p) \in 1..Len(segs) /\ u.segments_pending[i] = segs[i - Len(p)]
      BY <1>a, <2>3, <2>4
    <3> QED BY <1>a, <3>1
  <2>5. ASSUME NEW i \in 1..Len(u.segments_pending), i <= Len(p)
        PROVE  u.segments_pending[i] = p[i]
    BY <1>a, <2>3, <2>5
  <2> QED BY <2>2, <2>4, <2>5
<1>3. CASE s.next_seqno = 0
  <2> DEFINE seg == TCPSegment(next_seqno(s), TRUE, FALSE, s.bytes_read, 0)
             u == _send(s, << seg >>, 1)
  <2>1. /\ seg \in Segs /\ seg.seqno = wrap(0, s.isn) /\ seg.syn /\ ~seg.fin /\ seg.len = 0
        /\ seg.from = s.bytes_read
    BY <1>2, <1>3, WrapType DEF TCPSegment, Segs, next_seqno
  <2> HIDE DEF seg
  <2>2. AbsSeqno(seg) = 0 /\ length_in_sequence_space(seg) = 1 /\ AbsEnd(seg) = 1
    BY <2>1 DEF AbsSeqno, AbsEnd, length_in_sequence_space, Bit
  <2>3. Piece(seg, s.isn)
    BY <2>1, <2>2 DEF Piece
  <2>4. << seg >> \in Seq(Segs) /\ Len(<< seg >>) = 1 /\ << seg >>[1] = seg
    BY <2>1
  <2>5. Run(<< seg >>, s.isn, 0, 1)
    BY <2>2, <2>3, <2>4 DEF Run
  <2>6. /\ u \in Senders /\ Flight(u) /\ Timed(u) /\ u.next_seqno = 1
        /\ u.bytes_read = s.bytes_read /\ u.fined = s.fined
        /\ SameInput(s, u) /\ SameWindow(s, u)
        /\ u.segments_pending = p \o << seg >>
        /\ u.segments_out = s.segments_out \o << seg >>
    <3> HIDE DEF u
    <3>1. Run(<< seg >>, s.isn, s.next_seqno, s.next_seqno + 1) /\ 1 \in Nat
      BY <1>3, <2>5
    <3>2. /\ u \in Senders /\ Flight(u) /\ Timed(u) /\ u.next_seqno = s.next_seqno + 1
          /\ u.bytes_read = s.bytes_read /\ u.fined = s.fined
          /\ SameInput(s, u) /\ SameWindow(s, u)
          /\ u.segments_pending = p \o << seg >>
          /\ u.segments_out = s.segments_out \o << seg >>
      BY <1>1, <3>1, SendKeeps, Zenon DEF u
    <3>3. s.next_seqno + 1 = 1
      BY <1>3
    <3> QED BY <3>2, <3>3, Zenon
  <2> HIDE DEF u
  <2>7. s.bytes_read = 0 /\ ~s.fined
    BY <1>1, <1>3 DEF Counted
  <2>8. Counted(u)
    BY <1>1, <2>6, <2>7 DEF Counted, Bit, SameInput
  <2>9. Grows(s, u)
    BY <1>2, <1>3, <2>6, <2>7 DEF Grows, SameInput
  <2>10. Belongs(seg, u)
    <3>1. 0 \in 0..u.next_seqno /\ u.next_seqno > 0 /\ seg.from + seg.len <= u.bytes_read
      BY <1>2, <2>1, <2>6
    <3>2. seg.seqno = wrap(0, u.isn)
      BY <2>1, <2>6 DEF SameInput
    <3>3. ~(seg.len > 0 \/ seg.fin)
      BY <2>1
    <3> QED BY <2>1, <3>1, <3>2, <3>3, Zenon DEF Belongs
  <2>11. AllBelong(<< seg >>, u) /\ \A i \in 1..Len(<< seg >>) : s.next_seqno <= AbsSeqno(<< seg >>[i])
    BY <1>3, <2>2, <2>4, <2>10 DEF AllBelong
  <2>12. /\ AllBelong(u.segments_pending, u) /\ AllBelong(u.segments_out, u)
         /\ \A i \in 1..Len(u.segments_pending) :
              \/ s.next_seqno <= AbsSeqno(u.segments_pending[i])
              \/ i <= Len(p) /\ u.segments_pending[i] = p[i]
    BY <1>a, <2>4, <2>6, <2>9, <2>11
  <2>13. fill_window(s) = u
    BY <1>3 DEF fill_window, in_closed, u, seg
  <2>14. u.window_left <= u.next_seqno
    BY <1>1, <1>2, <1>3, <2>6 DEF SameWindow
  <2>15. Sound(u)
    BY <2>6, <2>8, <2>12, <2>14 DEF Sound
  <2>16. u.next_seqno <= s.next_seqno + (IF in_closed(s) THEN 1 ELSE window_remaining(s))
         /\ u.next_seqno > 0
    BY <1>3, <2>6 DEF in_closed
  <2> QED BY <2>6, <2>9, <2>12, <2>13, <2>15, <2>16
<1>4. CASE s.next_seqno # 0 /\ s.fined
  <2>1. fill_window(s) = s /\ ~in_closed(s)
    BY <1>4 DEF fill_window, in_closed
  <2>2. Grows(s, s) /\ SameInput(s, s) /\ SameWindow(s, s)
    BY <1>2 DEF Grows, SameInput, SameWindow
  <2>3. \A i \in 1..Len(p) : i <= Len(p)
    BY <1>2, LenProperties
  <2> QED BY <1>2, <1>4, <2>1, <2>2, <2>3
<1>5. CASE s.next_seqno # 0 /\ ~s.fined
  <2> DEFINE t == payload_total(s)
             B == Bit(fin_sent(s))
             v == [s EXCEPT !.bytes_read = @ + t, !.fined = fin_sent(s)]
             q == [i \in 1..pieces(s) |-> piece(s, i)]
             u == _send(v, q, t + B)
  <2>1. /\ t \in Nat /\ t <= s.bytes_written - s.bytes_read /\ fin_sent(s) \in BOOLEAN
        /\ fin_sent(s) => s.input_ended /\ t = s.bytes_written - s.bytes_read
        /\ t + B <= window_remaining(s)
    BY <1>1, PayloadFacts
  <2>2. B \in {0, 1}
    BY DEF Bit
  <2>3. Run(q, s.isn, s.next_seqno, s.next_seqno + t + B)
    BY <1>1, <1>2, <1>5, PiecesRun
  <2>p. /\ pieces(s) \in Nat
        /\ \A i \in 1..pieces(s) :
             /\ piece(s, i) \in Segs
             /\ piece(s, i).seqno = wrap(AbsSeqno(piece(s, i)), s.isn)
             /\ ~piece(s, i).syn /\ piece(s, i).from + piece(s, i).len <= s.bytes_read + t
             /\ piece(s, i).fin =>
                  fin_sent(s) /\ piece(s, i).from + piece(s, i).len = s.bytes_read + t
    BY <1>1, <1>2, <1>5, PieceFacts
  <2>q. q \in Seq(Segs) /\ Len(q) = pieces(s) /\ \A i \in 1..pieces(s) : q[i] = piece(s, i)
    <3>1. q \in [1..pieces(s) -> Segs]
      BY <2>p
    <3> QED BY <2>p, <3>1, FunctionIsSeq
  <2> HIDE DEF t, q
  <2>4. /\ v \in Senders /\ v.bytes_read = s.bytes_read + t /\ v.fined = fin_sent(s)
        /\ v.next_seqno = s.next_seqno /\ v.isn = s.isn /\ v.error = s.error
        /\ v.bytes_written = s.bytes_written /\ v.input_ended = s.input_ended
        /\ v.window_left = s.window_left /\ v.window_right = s.window_right
        /\ v.segments_pending = s.segments_pending /\ v.timer = s.timer
        /\ v.segments_out = s.segments_out
    <3>1. v.fined = fin_sent(s) /\ v.input_ended = s.input_ended /\ v.error = s.error
      BY <1>1, Zenon DEF Senders
    <3>2. s.bytes_read + t \in Nat
      BY <1>2, <2>1
    <3>3. v \in Senders
      BY <1>1, <2>1, <3>2, Zenon DEF Senders
    <3>4. /\ v.bytes_read = s.bytes_read + t
          /\ v.next_seqno = s.next_seqno /\ v.isn = s.isn
          /\ v.bytes_written = s.bytes_written
          /\ v.window_left = s.window_left /\ v.window_right = s.window_right
          /\ v.segments_pending = s.segments_pending /\ v.timer = s.timer
          /\ v.segments_out = s.segments_out
      BY <1>1, Zenon DEF Senders
    <3> QED BY <3>1, <3>3, <3>4
  <2> HIDE DEF v
  <2>5. Flight(v) /\ Timed(v)
    BY <1>1, <2>4 DEF Flight, Timed
  <2>6. Run(q, v.isn, v.next_seqno, v.next_seqno + (t + B)) /\ t + B \in Nat
    <3>1. s.next_seqno + t + B = s.next_seqno + (t + B) /\ t + B \in Nat
      BY <1>2, <2>1, <2>2
    <3> QED BY <2>3, <2>4, <3>1
  <2> HIDE DEF B
  <2>7. /\ u \in Senders /\ Flight(u) /\ Timed(u) /\ u.next_seqno = v.next_seqno + (t + B)
        /\ u.bytes_read = v.bytes_read /\ u.fined = v.fined
        /\ SameInput(v, u) /\ SameWindow(v, u)
        /\ u.segments_pending = v.segments_pending \o q
        /\ u.segments_out = v.segments_out \o q
    BY <2>4, <2>5, <2>6, SendKeeps
  <2> HIDE DEF u
  <2>8. s.next_seqno = s.bytes_read + 1
    BY <1>1, <1>2, <1>5 DEF Counted, Bit
  <2>9. u.next_seqno = u.bytes_read + 1 + Bit(u.fined)
    <3>1. B = Bit(u.fined)
      BY <2>4, <2>7 DEF B
    <3> QED BY <1>2, <2>1, <2>2, <2>4, <2>7, <2>8, <3>1
  <2>u. /\ u.bytes_read = s.bytes_read + t /\ u.fined = fin_sent(s)
        /\ u.next_seqno = s.next_seqno + (t + B)
        /\ SameInput(s, u) /\ SameWindow(s, u)
    BY <2>4, <2>7, Zenon DEF SameInput, SameWindow
  <2>10. Counted(u)
    <3>1. u.bytes_written = s.bytes_written /\ u.input_ended = s.input_ended
      BY <2>u DEF SameInput
    <3>2. s.bytes_written - s.bytes_read <= SendCapacity
      BY <1>1 DEF Counted
    <3>3. u.bytes_read <= u.bytes_written /\ u.bytes_written - u.bytes_read <= SendCapacity
      BY <1>2, <2>1, <2>u, <3>1, <3>2, SenderAssumption
    <3>4. u.fined => stream_eof(u)
      BY <1>2, <2>1, <2>u, <3>1 DEF stream_eof, buffer_size
    <3>5. u.next_seqno > 0
      BY <1>2, <1>5, <2>1, <2>2, <2>u
    <3> QED BY <2>9, <3>3, <3>4, <3>5 DEF Counted
  <2>11. Grows(s, u)
    BY <1>2, <1>5, <2>1, <2>2, <2>u DEF Grows, SameInput
  <2>12. ASSUME NEW i \in 1..Len(q) PROVE Belongs(q[i], u) /\ s.next_seqno <= AbsSeqno(q[i])
    <3>1. /\ q[i] \in Segs /\ q[i].seqno = wrap(AbsSeqno(q[i]), s.isn)
          /\ ~q[i].syn /\ q[i].from + q[i].len <= s.bytes_read + t
          /\ q[i].fin => fin_sent(s) /\ q[i].from + q[i].len = s.bytes_read + t
      BY <2>p, <2>q
    <3>2. s.next_seqno <= AbsSeqno(q[i]) /\ AbsEnd(q[i]) <= s.next_seqno + t + B
      BY <2>3 DEF Run
    <3>3. AbsSeqno(q[i]) \in Nat /\ AbsSeqno(q[i]) <= AbsEnd(q[i]) /\ AbsEnd(q[i]) \in Nat
      BY <3>1, SegFacts
    <3>4. AbsSeqno(q[i]) = q[i].from + 1
      BY <3>1 DEF AbsSeqno
    <3>5. AbsSeqno(q[i]) \in 0..u.next_seqno
      BY <1>2, <2>1, <2>2, <2>u, <3>2, <3>3
    <3>6. u.isn = s.isn
      BY <2>u DEF SameInput
    <3> QED BY <2>u, <3>1, <3>2, <3>4, <3>5, <3>6, Zenon DEF Belongs
  <2>13. /\ AllBelong(u.segments_pending, u) /\ AllBelong(u.segments_out, u)
         /\ \A i \in 1..Len(u.segments_pending) :
              \/ s.next_seqno <= AbsSeqno(u.segments_pending[i])
              \/ i <= Len(p) /\ u.segments_pending[i] = p[i]
    <3>1. AllBelong(q, u)
      BY <2>12 DEF AllBelong
    <3>2. u.segments_pending = p \o q /\ u.segments_out = s.segments_out \o q
      BY <2>4, <2>7
    <3> QED BY <1>a, <2>7, <2>11, <2>12, <2>q, <3>1, <3>2
  <2>14. u.window_left <= u.next_seqno /\ u.next_seqno > 0
    BY <1>1, <1>2, <1>5, <2>1, <2>2, <2>u DEF SameWindow
  <2>15. Sound(u)
    BY <2>7, <2>10, <2>13, <2>14 DEF Sound
  <2>16. fill_window(s) = u
    BY <1>5 DEF fill_window, in_closed, u, q, v, t, B
  <2>17. u.next_seqno <= s.next_seqno + (IF in_closed(s) THEN 1 ELSE window_remaining(s))
    BY <1>2, <1>5, <2>1, <2>2, <2>u DEF in_closed
  <2> QED BY <2>u, <2>11, <2>13, <2>14, <2>15, <2>16, <2>17
<1> QED BY <1>3, <1>4, <1>5
-----------------------------------------------------------------------------
(* The popping loop of ack_received, for an ackno beyond the old left edge: *)
(* what stays is the flight from the first segment not wholly acknowledged. *)
LEMMA AcknowledgeKeeps ==
  ASSUME NEW s \in Senders, NEW left \in Nat, s.window_left = left, left <= s.next_seqno,
         NEW old \in Nat, old < left, s.next_seqno - old < Half,
         NEW a \in Nat, Run(s.segments_pending, s.isn, a, s.next_seqno),
         Len(s.segments_pending) = 0 => old = s.next_seqno,
         Len(s.segments_pending) > 0 =>
           a <= old /\ old < AbsEnd(s.segments_pending[1]) /\ s.next_seqno - a < Half
  PROVE  LET u == acknowledge(s, left)
         IN  /\ u \in Senders /\ Flight(u) /\ Timed(u)
             /\ u.next_seqno = s.next_seqno
             /\ u.bytes_read = s.bytes_read /\ u.fined = s.fined
             /\ SameInput(s, u) /\ SameWindow(s, u)
             /\ u.segments_out = s.segments_out
             /\ \A i \in 1..Len(u.segments_pending) :
                  \E j \in 1..Len(s.segments_pending) :
                    u.segments_pending[i] = s.segments_pending[j]
<1> DEFINE u == acknowledge(s, left)
           p == s.segments_pending
           m == Len(p)
           next == s.next_seqno
           f == first_unacked(s, left)
           q == SubSeq(p, f, Len(p))
           T == {i \in 1..(m + 1) :
                   \/ i = m + 1
                   \/ unwrap(p[i].seqno, s.isn, left) + length_in_sequence_space(p[i]) > left}
<1>1. /\ p \in Seq(Segs) /\ m \in Nat /\ (\A i \in 1..m : p[i] \in Segs)
      /\ next \in Nat /\ s.isn \in Raw /\ s.timer \in Timers /\ RtTimeout \in Nat
  BY LenProperties, ElementOfSeq, SenderAssumption DEF Senders
<1>2. f = Min(T)
  BY DEF first_unacked
<1>3. f \in T /\ \A i \in T : f <= i
  <2>1. T \in SUBSET Nat /\ m + 1 \in T
    BY <1>1
  <2>2. T # {}
    BY <2>1
  <2> HIDE DEF T, f
  <2>3. Min(T) \in T /\ \A i \in T : Min(T) <= i
    BY <2>1, <2>2, LeastNumber, Zenon
  <2> QED BY <1>2, <2>3, Zenon
<1>4. m > 0 => left - a < Half
  <2>1. SUFFICES ASSUME m > 0 PROVE left - a < Half
    OBVIOUS
  <2> QED BY <1>1, <2>1, HalfAssumption
<1>5. ASSUME NEW i \in 1..m
      PROVE  unwrap(p[i].seqno, s.isn, left) + length_in_sequence_space(p[i]) = AbsEnd(p[i])
  <2>1. /\ AbsSeqno(p[i]) \in Nat /\ AbsEnd(p[i]) \in Nat
        /\ AbsEnd(p[i]) = AbsSeqno(p[i]) + length_in_sequence_space(p[i])
        /\ length_in_sequence_space(p[i]) \in Nat
    BY <1>1, SegFacts
  <2>2. /\ p[i].seqno = wrap(AbsSeqno(p[i]), s.isn)
        /\ a <= AbsSeqno(p[i]) /\ AbsEnd(p[i]) <= next
    BY DEF Run, Piece
  <2>3. left - AbsSeqno(p[i]) < Half
    <3>1. m > 0
      BY <1>1
    <3>2. left - a < Half
      BY <1>4, <3>1
    <3> QED BY <2>1, <2>2, <3>2, HalfAssumption
  <2>4. AbsSeqno(p[i]) - left < Half
    BY <1>1, <2>1, <2>2, HalfAssumption
  <2>5. unwrap(wrap(AbsSeqno(p[i]), s.isn), s.isn, left) = AbsSeqno(p[i])
    BY <1>1, <2>1, <2>3, <2>4, UnwrapExact
  <2> QED BY <2>1, <2>2, <2>5
<1>6. /\ f \in 1..(m + 1)
      /\ f <= m => AbsEnd(p[f]) > left
      /\ \A i \in 1..m : i < f => AbsEnd(p[i]) <= left
  <2>1. f \in 1..(m + 1)
    BY <1>3
  <2>2. f <= m => AbsEnd(p[f]) > left
    <3>1. SUFFICES ASSUME f <= m PROVE AbsEnd(p[f]) > left
      OBVIOUS
    <3>2. f \in 1..m /\ f # m + 1
      BY <1>1, <2>1, <3>1
    <3>3. unwrap(p[f].seqno, s.isn, left) + length_in_sequence_space(p[f]) > left
      BY <1>3, <3>2
    <3>4. unwrap(p[f].seqno, s.isn, left) + length_in_sequence_space(p[f]) = AbsEnd(p[f])
      BY <1>5, <3>2
    <3> QED BY <3>3, <3>4
  <2>3. ASSUME NEW i \in 1..m, i < f PROVE AbsEnd(p[i]) <= left
    <3>1. i \in 1..(m + 1) /\ ~(f <= i)
      BY <1>1, <2>1, <2>3
    <3>2. ~(unwrap(p[i].seqno, s.isn, left) + length_in_sequence_space(p[i]) > left)
      BY <1>3, <3>1
    <3>3. AbsEnd(p[i]) \in Nat
      BY <1>1, SegFacts
    <3>4. ~(AbsEnd(p[i]) > left)
      BY <1>5, <3>2
    <3> QED BY <3>3, <3>4
  <2> QED BY <2>1, <2>2, <2>3
<1> HIDE DEF f, T
<1>7. /\ q \in Seq(Segs) /\ Len(q) = m - f + 1
      /\ f <= m => q[1] = p[f] /\ Run(q, s.isn, AbsSeqno(p[f]), next)
      /\ f = m + 1 => Run(q, s.isn, next, next)
  BY <1>1, <1>6, RunSuffix
<1>8. f <= m => AbsSeqno(p[f]) \in Nat /\ AbsSeqno(p[f]) <= left
  <2>1. SUFFICES ASSUME f <= m PROVE AbsSeqno(p[f]) \in Nat /\ AbsSeqno(p[f]) <= left
    OBVIOUS
  <2>2. f \in 1..m
    BY <1>1, <1>6, <2>1
  <2>3. AbsSeqno(p[f]) \in Nat
    BY <1>1, <2>2, SegFacts
  <2>4. CASE f = 1
    <3>1. AbsSeqno(p[1]) = a /\ a <= old
      BY <1>1, <2>1, <2>4 DEF Run
    <3> QED BY <2>3, <2>4, <3>1
  <2>5. CASE f > 1
    <3>1. f - 1 \in 1..(m - 1) /\ f - 1 \in 1..m /\ f - 1 < f /\ (f - 1) + 1 = f
      BY <1>1, <2>2, <2>5
    <3>2. AbsEnd(p[f - 1]) = AbsSeqno(p[(f - 1) + 1])
      BY <3>1 DEF Run
    <3> QED BY <1>6, <2>3, <3>1, <3>2
  <2> QED BY <2>2, <2>4, <2>5
<1>9. f = m + 1 => left = next
  <2>1. SUFFICES ASSUME f = m + 1 PROVE left = next
    OBVIOUS
  <2>2. CASE m = 0
    BY <1>1, <2>2
  <2>3. CASE m > 0
    <3>1. m \in 1..m /\ m < f
      BY <1>1, <2>1, <2>3
    <3>2. AbsEnd(p[m]) = next
      BY <2>3 DEF Run
    <3> QED BY <1>1, <1>6, <3>1, <3>2
  <2> QED BY <1>1, <2>2, <2>3
<1> DEFINE timer == IF q = << >> THEN stopped(s.timer) ELSE started(RtTimeout)
<1>10. u = [s EXCEPT !.retransmission_timeout = RtTimeout, !.consecutive_retransmissions = 0,
                     !.segments_pending = q, !.timer = timer]
  BY DEF acknowledge, f
<1>11. timer \in Timers /\ (timer.running <=> q # << >>)
  <2> HIDE DEF q
  <2>1. CASE q = << >>
    BY <1>1, <2>1 DEF Timers, stopped
  <2>2. CASE q # << >>
    BY <1>1, <2>2 DEF Timers, started
  <2> QED BY <2>1, <2>2
<1> HIDE DEF q, timer
<1>12. u \in Senders
  <2> HIDE DEF u
  <2>1. RtTimeout \in Nat /\ 0 \in Nat
    BY <1>1
  <2> QED BY <1>7, <1>10, <1>11, <2>1 DEF Senders
<1>13. /\ u.segments_pending = q /\ u.next_seqno = next /\ u.timer = timer
       /\ u.bytes_read = s.bytes_read /\ u.bytes_written = s.bytes_written
       /\ u.input_ended = s.input_ended /\ u.fined = s.fined
       /\ u.window_left = s.window_left /\ u.window_right = s.window_right
       /\ u.isn = s.isn /\ u.error = s.error /\ u.segments_out = s.segments_out
  BY <1>10, Zenon DEF Senders
<1>s. \A i \in 1..Len(q) : \E j \in 1..m : q[i] = p[j]
  <2>1. \A i \in f..m : p[i] \in Segs
    BY <1>1, <1>6
  <2>2. \A i \in 1..(m - f + 1) : q[i] = p[f + i - 1]
    BY <1>1, <1>6, <2>1, SubSeqProperties DEF q
  <2>3. \A i \in 1..Len(q) : f + i - 1 \in 1..m /\ q[i] = p[f + i - 1]
    BY <1>1, <1>6, <1>7, <2>2
  <2> QED BY <2>3
<1> HIDE DEF u
<1>14. Timed(u)
  BY <1>11, <1>13 DEF Timed
<1>15. Flight(u)
  <2>1. CASE f <= m
    <3>1. Len(q) > 0
      BY <1>1, <1>6, <1>7, <2>1
    <3>2. Run(q, s.isn, AbsSeqno(p[f]), next) /\ AbsSeqno(p[f]) \in Nat
          /\ AbsSeqno(p[f]) <= left /\ left < AbsEnd(q[1])
      BY <1>1, <1>6, <1>7, <1>8, <2>1
    <3> QED BY <1>13, <3>1, <3>2 DEF Flight
  <2>2. CASE f = m + 1
    <3>1. Len(q) = 0
      BY <1>1, <1>6, <1>7, <2>2
    <3> QED BY <1>1, <1>7, <1>9, <1>13, <2>2, <3>1 DEF Flight
  <2> QED BY <1>1, <1>6, <2>1, <2>2
<1>16. SameInput(s, u) /\ SameWindow(s, u)
  BY <1>13, Zenon DEF SameInput, SameWindow
<1> QED BY <1>12, <1>13, <1>14, <1>15, <1>16, <1>s DEF u
-----------------------------------------------------------------------------
(* A state that differs only in what Sound does not speak of. *)
LEMMA SameKeeps ==
  ASSUME NEW s, Sound(s), NEW u \in Senders, Counted(u),
         u.bytes_read = s.bytes_read, u.fined = s.fined,
         u.next_seqno = s.next_seqno, u.isn = s.isn, u.window_left = s.window_left,
         u.segments_pending = s.segments_pending, u.timer.running <=> s.timer.running,
         AllBelong(u.segments_out, s)
  PROVE  Sound(u) /\ Grows(s, u)
<1>1. s \in Senders /\ s.segments_pending \in Seq(Segs) /\ u.segments_out \in Seq(Segs)
  BY DEF Sound, Senders
<1>2. Grows(s, u)
  BY <1>1 DEF Grows, Senders
<1>3. Flight(u) /\ Timed(u)
  BY DEF Sound, Flight, Timed
<1>4. AllBelong(u.segments_pending, u) /\ AllBelong(u.segments_out, u)
  BY <1>1, <1>2, AllBelongGrows DEF Sound
<1>5. u.window_left <= u.next_seqno
  BY DEF Sound
<1> QED BY <1>2, <1>3, <1>4, <1>5 DEF Sound

(* The TCPConnection takes the segments. *)
LEMMA DrainedKeeps ==
  ASSUME NEW s, Sound(s), NEW u, u = [s EXCEPT !.segments_out = << >>]
  PROVE  /\ Sound(u) /\ Grows(s, u) /\ SameInput(s, u) /\ SameWindow(s, u)
         /\ u.next_seqno = s.next_seqno /\ u.fined = s.fined /\ u.bytes_read = s.bytes_read
         /\ u.segments_pending = s.segments_pending /\ u.segments_out = << >>
<1>1. s \in Senders /\ << >> \in Seq(Segs) /\ Counted(s)
  BY DEF Sound
<1>2. /\ u.bytes_read = s.bytes_read /\ u.bytes_written = s.bytes_written
      /\ u.input_ended = s.input_ended /\ u.fined = s.fined /\ u.error = s.error
      /\ u.next_seqno = s.next_seqno /\ u.isn = s.isn
      /\ u.window_left = s.window_left /\ u.window_right = s.window_right
      /\ u.segments_pending = s.segments_pending /\ u.timer = s.timer
      /\ u.segments_out = << >>
  BY <1>1, Zenon DEF Senders
<1>3. u \in Senders
  BY <1>1, Zenon DEF Senders
<1>4. Counted(u)
  BY <1>1, <1>2 DEF Counted, stream_eof, buffer_size
<1>5. AllBelong(u.segments_out, s)
  BY <1>2 DEF AllBelong
<1>6. SameInput(s, u) /\ SameWindow(s, u)
  BY <1>2, Zenon DEF SameInput, SameWindow
<1>7. Sound(u) /\ Grows(s, u)
  BY <1>2, <1>3, <1>4, <1>5, SameKeeps, Zenon
<1> QED BY <1>2, <1>6, <1>7

(* send_empty_segment: the segment has the next number and no bytes. *)
LEMMA EmptySegmentKeeps ==
  ASSUME NEW s, Sound(s)
  PROVE  LET u == send_empty_segment(s)
         IN  /\ Sound(u) /\ Grows(s, u) /\ SameInput(s, u) /\ SameWindow(s, u)
             /\ u.next_seqno = s.next_seqno /\ u.fined = s.fined
             /\ u.bytes_read = s.bytes_read
             /\ u.segments_pending = s.segments_pending
<1> DEFINE u == send_empty_segment(s)
           seg == TCPSegment(next_seqno(s), FALSE, FALSE, s.bytes_read, 0)
           out == Append(s.segments_out, seg)
<1>1. /\ s \in Senders /\ Counted(s) /\ s.next_seqno \in Nat /\ s.isn \in Raw
      /\ s.bytes_read \in Nat /\ s.segments_out \in Seq(Segs) /\ AllBelong(s.segments_out, s)
  BY DEF Sound, Senders
<1>2. /\ seg \in Segs /\ seg.seqno = wrap(s.next_seqno, s.isn) /\ ~seg.syn /\ ~seg.fin
      /\ seg.len = 0 /\ seg.from = s.bytes_read
  BY <1>1, WrapType DEF TCPSegment, Segs, next_seqno
<1>3. u = [s EXCEPT !.segments_out = out]
  BY DEF send_empty_segment
<1> HIDE DEF seg
<1>4. Belongs(seg, s)
  <2>1. s.next_seqno \in 0..s.next_seqno /\ seg.from + seg.len <= s.bytes_read
        /\ ~(seg.len > 0 \/ seg.fin)
    BY <1>1, <1>2
  <2> QED BY <1>2, <2>1, Zenon DEF Belongs
<1>5. out \in Seq(Segs) /\ AllBelong(out, s)
  BY <1>1, <1>2, <1>4, AllBelongAppend
<1> HIDE DEF u, out
<1>6. /\ u.bytes_read = s.bytes_read /\ u.bytes_written = s.bytes_written
      /\ u.input_ended = s.input_ended /\ u.fined = s.fined /\ u.error = s.error
      /\ u.next_seqno = s.next_seqno /\ u.isn = s.isn
      /\ u.window_left = s.window_left /\ u.window_right = s.window_right
      /\ u.segments_pending = s.segments_pending /\ u.timer = s.timer
      /\ u.segments_out = out
  BY <1>1, <1>3, Zenon DEF Senders
<1>7. u \in Senders
  BY <1>1, <1>3, <1>5, Zenon DEF Senders
<1>8. Counted(u)
  BY <1>1, <1>6 DEF Counted, stream_eof, buffer_size
<1>9. SameInput(s, u) /\ SameWindow(s, u)
  BY <1>6, Zenon DEF SameInput, SameWindow
<1>10. Sound(u) /\ Grows(s, u)
  BY <1>5, <1>6, <1>7, <1>8, SameKeeps, Zenon
<1> QED BY <1>6, <1>9, <1>10 DEF u

(* The application writes into the stream, or ends it. *)
LEMMA StreamKeeps ==
  ASSUME NEW s, Sound(s), NEW n \in Nat
  PROVE  /\ ~s.fined =>
              LET u == stream_write(s, n)
              IN  /\ Sound(u) /\ Grows(s, u) /\ SameWindow(s, u)
                  /\ u.error = s.error /\ u.input_ended = s.input_ended
                  /\ u.next_seqno = s.next_seqno /\ u.fined = s.fined
                  /\ s.bytes_written <= u.bytes_written
                  /\ u.bytes_written <= s.bytes_written + n
                  /\ u.segments_pending = s.segments_pending
         /\ LET u == stream_end_input(s)
            IN  /\ Sound(u) /\ Grows(s, u) /\ SameWindow(s, u)
                /\ u.error = s.error /\ u.input_ended
                /\ u.next_seqno = s.next_seqno /\ u.fined = s.fined
                /\ u.bytes_written = s.bytes_written
                /\ u.segments_pending = s.segments_pending
<1>1. /\ s \in Senders /\ Counted(s) /\ AllBelong(s.segments_out, s)
      /\ s.bytes_written \in Nat /\ s.bytes_read \in Nat /\ SendCapacity \in Nat
  BY SenderAssumption DEF Sound, Senders
<1>2. ASSUME ~s.fined
      PROVE  LET u == stream_write(s, n)
             IN  /\ Sound(u) /\ Grows(s, u) /\ SameWindow(s, u)
                 /\ u.error = s.error /\ u.input_ended = s.input_ended
                 /\ u.next_seqno = s.next_seqno /\ u.fined = s.fined
                 /\ s.bytes_written <= u.bytes_written
                 /\ u.bytes_written <= s.bytes_written + n
                 /\ u.segments_pending = s.segments_pending
  <2> DEFINE k == Least(n, SendCapacity - buffer_size(s))
             u == stream_write(s, n)
  <2>1. k \in Nat /\ k <= n /\ k <= SendCapacity - (s.bytes_written - s.bytes_read)
    BY <1>1 DEF Counted, Least, buffer_size
  <2>2. u = [s EXCEPT !.bytes_written = s.bytes_written + k]
    BY DEF stream_write
  <2> HIDE DEF k
  <2>3. s.bytes_written + k \in Nat
    BY <1>1, <2>1
  <2> HIDE DEF u
  <2>4. /\ u.bytes_read = s.bytes_read /\ u.bytes_written = s.bytes_written + k
        /\ u.input_ended = s.input_ended /\ u.fined = s.fined /\ u.error = s.error
        /\ u.next_seqno = s.next_seqno /\ u.isn = s.isn
        /\ u.window_left = s.window_left /\ u.window_right = s.window_right
        /\ u.segments_pending = s.segments_pending /\ u.timer = s.timer
        /\ u.segments_out = s.segments_out
    BY <1>1, <2>2, Zenon DEF Senders
  <2>5. u \in Senders
    BY <1>1, <2>2, <2>3 DEF Senders
  <2>6. Counted(u)
    <3>1. u.bytes_read <= u.bytes_written /\ u.bytes_written - u.bytes_read <= SendCapacity
      BY <1>1, <2>1, <2>4 DEF Counted
    <3> QED BY <1>1, <1>2, <2>4, <3>1 DEF Counted, Bit
  <2>7. Sound(u) /\ Grows(s, u)
    BY <1>1, <2>4, <2>5, <2>6, SameKeeps
  <2>8. SameWindow(s, u)
    BY <2>4 DEF SameWindow
  <2> QED BY <1>1, <2>1, <2>4, <2>7, <2>8 DEF u
<1>3. LET u == stream_end_input(s)
      IN  /\ Sound(u) /\ Grows(s, u) /\ SameWindow(s, u)
          /\ u.error = s.error /\ u.input_ended
          /\ u.next_seqno = s.next_seqno /\ u.fined = s.fined
          /\ u.bytes_written = s.bytes_written
          /\ u.segments_pending = s.segments_pending
  <2> DEFINE u == stream_end_input(s)
  <2>1. u = [s EXCEPT !.input_ended = TRUE]
    BY DEF stream_end_input
  <2> HIDE DEF u
  <2>2. /\ u.bytes_read = s.bytes_read /\ u.bytes_written = s.bytes_written
        /\ u.input_ended /\ u.fined = s.fined /\ u.error = s.error
        /\ u.next_seqno = s.next_seqno /\ u.isn = s.isn
        /\ u.window_left = s.window_left /\ u.window_right = s.window_right
        /\ u.segments_pending = s.segments_pending /\ u.timer = s.timer
        /\ u.segments_out = s.segments_out
    BY <1>1, <2>1, Zenon DEF Senders
  <2>3. u \in Senders
    BY <1>1, <2>1 DEF Senders
  <2>4. Counted(u)
    BY <1>1, <2>2 DEF Counted, stream_eof, buffer_size
  <2>5. Sound(u) /\ Grows(s, u)
    BY <1>1, <2>2, <2>3, <2>4, SameKeeps
  <2>6. SameWindow(s, u)
    BY <2>2 DEF SameWindow
  <2> QED BY <2>2, <2>5, <2>6 DEF u
<1> QED BY <1>2, <1>3

(* tick sends the oldest segment again: nothing but the timers changes. *)
LEMMA TickKeeps ==
  ASSUME NEW s, Sound(s), NEW ms \in Nat
  PROVE  LET u == tick(s, ms)
         IN  /\ Sound(u) /\ Grows(s, u) /\ SameInput(s, u) /\ SameWindow(s, u)
             /\ u.next_seqno = s.next_seqno /\ u.fined = s.fined
             /\ u.bytes_read = s.bytes_read
             /\ u.segments_pending = s.segments_pending
<1> DEFINE elapsed == IF s.timer.running THEN s.timer.elapsed + ms ELSE s.timer.elapsed
           timer == [s.timer EXCEPT !.elapsed = elapsed]
           rto == IF s.zero_window_size THEN s.retransmission_timeout
                  ELSE 2 * s.retransmission_timeout
           u == tick(s, ms)
<1>1. /\ s \in Senders /\ s.timer \in Timers /\ s.segments_pending \in Seq(Segs)
      /\ s.segments_out \in Seq(Segs) /\ s.consecutive_retransmissions \in Nat
      /\ s.retransmission_timeout \in Nat
      /\ (s.timer.running <=> s.segments_pending # << >>)
      /\ AllBelong(s.segments_pending, s) /\ AllBelong(s.segments_out, s) /\ Counted(s)
  BY DEF Sound, Senders, Timed
<1>2. elapsed \in Nat /\ rto \in Nat
  BY <1>1 DEF Timers
<1> HIDE DEF elapsed, rto
<1>3. timer \in Timers /\ timer.running = s.timer.running
  BY <1>1, <1>2, Zenon DEF Timers
<1>4. u = CASE s.segments_pending = << >> -> [s EXCEPT !.timer = stopped(timer)]
            [] s.segments_pending # << >> /\ timed_out(timer) ->
                 [s EXCEPT !.segments_out = Append(s.segments_out, s.segments_pending[1]),
                           !.consecutive_retransmissions = s.consecutive_retransmissions + 1,
                           !.retransmission_timeout = rto, !.timer = started(rto)]
            [] OTHER -> [s EXCEPT !.timer = timer]
  BY DEF tick, elapsed, rto
<1> HIDE DEF timer, u
<1> DEFINE same(z) ==
             /\ z \in Senders
             /\ z.bytes_read = s.bytes_read /\ z.bytes_written = s.bytes_written
             /\ z.input_ended = s.input_ended /\ z.fined = s.fined /\ z.error = s.error
             /\ z.next_seqno = s.next_seqno /\ z.isn = s.isn
             /\ z.window_left = s.window_left /\ z.window_right = s.window_right
             /\ z.segments_pending = s.segments_pending
             /\ (z.timer.running <=> s.timer.running)
             /\ AllBelong(z.segments_out, s)
<1>5. ASSUME NEW t \in Timers, t.running <=> s.timer.running
      PROVE  same([s EXCEPT !.timer = t])
  <2> DEFINE z == [s EXCEPT !.timer = t]
  <2>1. z \in Senders
    BY <1>1 DEF Senders
  <2>2. /\ z.bytes_read = s.bytes_read /\ z.bytes_written = s.bytes_written
        /\ z.input_ended = s.input_ended /\ z.fined = s.fined /\ z.error = s.error
        /\ z.next_seqno = s.next_seqno /\ z.isn = s.isn
        /\ z.window_left = s.window_left /\ z.window_right = s.window_right
        /\ z.segments_pending = s.segments_pending /\ z.timer = t
        /\ z.segments_out = s.segments_out
    BY <1>1, Zenon DEF Senders
  <2> HIDE DEF z
  <2>3. same(z)
    BY <1>1, <1>5, <2>1, <2>2
  <2> QED BY <2>3 DEF z
<1>6. ASSUME s.segments_pending = << >> PROVE same(u)
  <2>1. u = [s EXCEPT !.timer = stopped(timer)]
    BY <1>4, <1>6
  <2>2. stopped(timer) \in Timers /\ ~stopped(timer).running
    BY <1>3 DEF stopped, Timers
  <2>3. same(u)
    BY <1>1, <1>5, <1>6, <2>1, <2>2
  <2> QED BY <2>3
<1>7. ASSUME s.segments_pending # << >> /\ timed_out(timer) PROVE same(u)
  <2> DEFINE out == Append(s.segments_out, s.segments_pending[1])
             count == s.consecutive_retransmissions + 1
  <2>1. u = [s EXCEPT !.segments_out = out, !.consecutive_retransmissions = count,
                      !.retransmission_timeout = rto, !.timer = started(rto)]
    BY <1>4, <1>7
  <2>2. out \in Seq(Segs) /\ count \in Nat /\ AllBelong(out, s)
    <3>1. s.segments_pending[1] \in Segs /\ Belongs(s.segments_pending[1], s)
      <4>1. Len(s.segments_pending) >= 1
        BY <1>1, <1>7, EmptySeq, LenProperties
      <4>2. 1 \in 1..Len(s.segments_pending)
        BY <1>1, <4>1, LenProperties
      <4> QED BY <1>1, <4>2, ElementOfSeq DEF AllBelong
    <3> QED BY <1>1, <3>1, AllBelongAppend
  <2>3. started(rto) \in Timers /\ started(rto).running
    BY <1>2 DEF started, Timers
  <2> HIDE DEF out, count
  <2>4. u \in Senders
    BY <1>1, <1>2, <2>1, <2>2, <2>3 DEF Senders
  <2>5. /\ u.bytes_read = s.bytes_read /\ u.bytes_written = s.bytes_written
        /\ u.input_ended = s.input_ended /\ u.fined = s.fined /\ u.error = s.error
        /\ u.next_seqno = s.next_seqno /\ u.isn = s.isn
        /\ u.window_left = s.window_left /\ u.window_right = s.window_right
        /\ u.segments_pending = s.segments_pending /\ u.timer = started(rto)
        /\ u.segments_out = out
    BY <1>1, <2>1, Zenon DEF Senders
  <2>6. u.timer.running <=> s.timer.running
    BY <1>1, <1>7, <2>3, <2>5
  <2>7. same(u)
    BY <2>2, <2>4, <2>5, <2>6
  <2> QED BY <2>7
<1>8. ASSUME s.segments_pending # << >> /\ ~timed_out(timer) PROVE same(u)
  <2>1. u = [s EXCEPT !.timer = timer]
    BY <1>4, <1>8
  <2>2. same(u)
    BY <1>3, <1>5, <2>1
  <2> QED BY <2>2
<1>9. same(u)
  BY <1>6, <1>7, <1>8
<1>10. Counted(u)
  BY <1>1, <1>9 DEF Counted, stream_eof, buffer_size
<1>11. Sound(u) /\ Grows(s, u)
  BY <1>9, <1>10, SameKeeps
<1>12. SameInput(s, u) /\ SameWindow(s, u)
  BY <1>9, Zenon DEF SameInput, SameWindow
<1> QED BY <1>9, <1>11, <1>12 DEF u

(* An ackno the peer of s may send, with this window. *)
Ackable(s, abs, window_size) ==
  /\ s.window_left <= s.window_right /\ abs <= s.next_seqno
  /\ s.next_seqno - s.window_left < Half /\ s.window_left - abs < Half
  /\ Len(s.segments_pending) > 0 => s.next_seqno - AbsSeqno(s.segments_pending[1]) < Half
  /\ s.window_left < abs =>
       s.next_seqno <= abs + Wide(window_size) \/ s.next_seqno <= SizeMod

(* The pending segments of u are some of s, or new. *)
PendingGrows(s, u) ==
  \A i \in 1..Len(u.segments_pending) :
    \/ s.next_seqno <= AbsSeqno(u.segments_pending[i])
    \/ \E j \in 1..Len(s.segments_pending) : u.segments_pending[i] = s.segments_pending[j]

(* Either nothing changes but a flag, or the window is the one announced. *)
Acked(s, u, abs, window_size) ==
  /\ Sound(u) /\ Grows(s, u) /\ SameInput(s, u)
  /\ \/ /\ SameWindow(s, u) /\ u.next_seqno = s.next_seqno
        /\ abs < s.window_left \/ s.window_right < abs
     \/ /\ s.window_left <= abs /\ abs <= s.window_right
        /\ u.window_left = abs /\ u.window_right = abs + Wide(window_size)
  /\ s.next_seqno <= u.window_right => u.next_seqno <= u.window_right
  /\ PendingGrows(s, u)

(* ack_received, for an ackno the peer may send. *)
LEMMA AckKeeps ==
  ASSUME NEW s, Sound(s), NEW abs \in Nat, NEW window_size \in Nat, Ackable(s, abs, window_size)
  PROVE  Acked(s, ack_received(s, wrap(abs, s.isn), window_size), abs, window_size)
<1> DEFINE ackno == unwrap(wrap(abs, s.isn), s.isn, s.window_left)
           flagged == [s EXCEPT !.zero_window_size = (window_size = 0)]
           window == IF window_size = 0 THEN 1 ELSE window_size
           v == with_window(flagged, abs, window)
           p == s.segments_pending
           Old(q) == \A i \in 1..Len(q) : \/ s.next_seqno <= AbsSeqno(q[i])
                                          \/ \E j \in 1..Len(p) : q[i] = p[j]
<1>a. /\ s.window_left <= s.window_right /\ abs <= s.next_seqno
      /\ s.next_seqno - s.window_left < Half /\ s.window_left - abs < Half
      /\ Len(s.segments_pending) > 0 => s.next_seqno - AbsSeqno(s.segments_pending[1]) < Half
      /\ s.window_left < abs =>
           s.next_seqno <= abs + Wide(window_size) \/ s.next_seqno <= SizeMod
  BY DEF Ackable
<1>1. /\ s \in Senders /\ Counted(s) /\ Flight(s) /\ Timed(s) /\ s.window_left <= s.next_seqno
      /\ s.window_left \in Nat /\ s.window_right \in Nat /\ s.next_seqno \in Nat /\ s.isn \in Raw
      /\ AllBelong(p, s) /\ AllBelong(s.segments_out, s) /\ p \in Seq(Segs)
      /\ s.segments_out \in Seq(Segs) /\ s.fined \in BOOLEAN /\ s.bytes_read \in Nat
  BY DEF Sound, Senders
<1>w. /\ window \in Nat /\ window = Wide(window_size)
      /\ s.window_left < abs => s.next_seqno <= abs + window \/ s.next_seqno <= SizeMod
  BY <1>a DEF Wide
<1>2. Old(p)
  OBVIOUS
<1>3. ackno = abs
  <2>1. abs - s.window_left < Half
    BY <1>a, <1>1, HalfAssumption
  <2> QED BY <1>a, <1>1, <2>1, UnwrapExact
<1>5. (window_size = 0) \in BOOLEAN
  OBVIOUS
<1>6. /\ Sound(flagged) /\ Grows(s, flagged) /\ flagged \in Senders
      /\ SameInput(s, flagged) /\ SameWindow(s, flagged)
      /\ flagged.next_seqno = s.next_seqno /\ flagged.segments_pending = p
  <2>1. flagged \in Senders
    BY <1>1, <1>5, Zenon DEF Senders
  <2>2. /\ flagged.bytes_read = s.bytes_read /\ flagged.bytes_written = s.bytes_written
        /\ flagged.input_ended = s.input_ended /\ flagged.fined = s.fined
        /\ flagged.next_seqno = s.next_seqno /\ flagged.isn = s.isn
        /\ flagged.window_left = s.window_left /\ flagged.window_right = s.window_right
        /\ flagged.segments_pending = p /\ flagged.timer = s.timer
        /\ flagged.segments_out = s.segments_out /\ flagged.error = s.error
    BY <1>1, Zenon DEF Senders
  <2> HIDE DEF flagged
  <2>3. Counted(flagged)
    BY <1>1, <2>2 DEF Counted, stream_eof, buffer_size
  <2>4. Sound(flagged) /\ Grows(s, flagged)
    BY <1>1, <2>1, <2>2, <2>3, SameKeeps
  <2>5. SameInput(s, flagged) /\ SameWindow(s, flagged)
    BY <2>2, Zenon DEF SameInput, SameWindow
  <2> QED BY <2>1, <2>2, <2>4, <2>5
<1>7. /\ v \in Senders
      /\ v.window_left = abs /\ v.window_right = abs + window
      /\ v.bytes_read = s.bytes_read /\ v.bytes_written = s.bytes_written
      /\ v.input_ended = s.input_ended /\ v.fined = s.fined /\ v.error = s.error
      /\ v.next_seqno = s.next_seqno /\ v.isn = s.isn
      /\ v.segments_pending = p /\ v.timer = s.timer
      /\ v.segments_out = s.segments_out
  <2>1. abs + window \in Nat
    BY <1>w
  <2>2. v = [flagged EXCEPT !.window_left = abs, !.window_right = abs + window]
    BY DEF with_window
  <2>4. v \in Senders
    <3> HIDE DEF flagged, v
    <3> QED BY <1>6, <2>1, <2>2 DEF Senders
  <2>5. /\ v.window_left = abs /\ v.window_right = abs + window
        /\ v.bytes_read = s.bytes_read /\ v.bytes_written = s.bytes_written
        /\ v.input_ended = s.input_ended /\ v.fined = s.fined /\ v.error = s.error
        /\ v.next_seqno = s.next_seqno /\ v.isn = s.isn
        /\ v.segments_pending = s.segments_pending /\ v.timer = s.timer
        /\ v.segments_out = s.segments_out
    BY <1>1, <2>2, Zenon DEF Senders
  <2> QED BY <2>4, <2>5
<1>9. Counted(v)
  <2> HIDE DEF v
  <2> QED BY <1>1, <1>7 DEF Counted, stream_eof, buffer_size
<1>10. ack_received(s, wrap(abs, s.isn), window_size) =
         CASE ackno > s.window_right -> flagged
           [] ackno > s.window_left /\ ackno <= s.window_right ->
                fill_window(acknowledge(with_window(flagged, ackno, window), ackno))
           [] ackno = s.window_left -> with_window(flagged, ackno, window)
           [] OTHER -> flagged
  BY DEF ack_received
<1> HIDE DEF ackno, flagged, window
<1>11. CASE abs > s.window_left /\ abs <= s.window_right
  <2> DEFINE u == acknowledge(v, abs)
             z == fill_window(u)
  <2>1. ack_received(s, wrap(abs, s.isn), window_size) = z
    <3>1. ~(ackno > s.window_right) /\ (ackno > s.window_left /\ ackno <= s.window_right)
          /\ ~(ackno = s.window_left)
      BY <1>1, <1>3, <1>11
    <3> QED BY <1>3, <1>10, <3>1
  <2>2. PICK a \in Nat :
          /\ Run(p, s.isn, a, s.next_seqno)
          /\ Len(p) = 0 => s.window_left = s.next_seqno
          /\ Len(p) > 0 => a <= s.window_left /\ s.window_left < AbsEnd(p[1])
    BY <1>1 DEF Flight
  <2>r. Len(p) > 0 => a <= s.window_left /\ s.window_left < AbsEnd(p[1])
                      /\ s.next_seqno - a < Half
    BY <1>a, <2>2 DEF Run
  <2>3. /\ u \in Senders /\ Flight(u) /\ Timed(u)
        /\ u.next_seqno = v.next_seqno
        /\ u.bytes_read = v.bytes_read /\ u.fined = v.fined
        /\ SameInput(v, u) /\ SameWindow(v, u)
        /\ u.segments_out = v.segments_out
        /\ \A i \in 1..Len(u.segments_pending) :
             \E j \in 1..Len(v.segments_pending) :
               u.segments_pending[i] = v.segments_pending[j]
    <3> HIDE DEF v
    <3>1. abs <= v.next_seqno /\ v.next_seqno - s.window_left < Half /\ s.window_left < abs
      BY <1>a, <1>1, <1>7, <1>11
    <3>2. /\ Run(v.segments_pending, v.isn, a, v.next_seqno)
          /\ Len(v.segments_pending) = 0 => s.window_left = v.next_seqno
          /\ Len(v.segments_pending) > 0 =>
               a <= s.window_left /\ s.window_left < AbsEnd(v.segments_pending[1])
               /\ v.next_seqno - a < Half
      BY <1>7, <2>2, <2>r
    <3>3. abs \in Nat /\ s.window_left \in Nat /\ v \in Senders /\ v.window_left = abs
      BY <1>1, <1>7
    <3> QED BY <3>1, <3>2, <3>3, AcknowledgeKeeps, Zenon
  <2> HIDE DEF u, v, z
  <2>4. /\ SameInput(s, u) /\ u.next_seqno = s.next_seqno /\ u.bytes_read = s.bytes_read
        /\ u.fined = s.fined /\ u.window_left = abs /\ u.window_right = abs + window
        /\ u.segments_out = s.segments_out
        /\ \A i \in 1..Len(u.segments_pending) :
             \E j \in 1..Len(p) : u.segments_pending[i] = p[j]
    BY <1>7, <2>3, Zenon DEF SameInput, SameWindow
  <2>5. Counted(u)
    BY <1>9, <2>3 DEF Counted, stream_eof, buffer_size, SameInput
  <2>6. Grows(s, u)
    BY <1>1, <2>4 DEF Grows, SameInput
  <2>7. AllBelong(u.segments_pending, u) /\ AllBelong(u.segments_out, u)
    <3>1. AllBelong(u.segments_pending, s)
      BY <1>1, <2>4 DEF AllBelong
    <3>2. u.segments_pending \in Seq(Segs)
      BY <2>3 DEF Senders
    <3> QED BY <1>1, <2>3, <2>4, <2>6, <3>1, <3>2, AllBelongGrows
  <2>8. Sound(u)
    BY <1>a, <2>3, <2>4, <2>5, <2>7 DEF Sound
  <2>9. /\ window_remaining(u) \in Nat
        /\ s.next_seqno <= abs + window =>
             window_remaining(u) = abs + window - s.next_seqno
    BY <1>1, <1>11, <1>w, <2>4, SenderAssumption DEF window_remaining
  <2>10. /\ Sound(z) /\ Grows(u, z) /\ SameInput(u, z) /\ SameWindow(u, z)
         /\ z.next_seqno <= u.next_seqno + (IF in_closed(u) THEN 1 ELSE window_remaining(u))
         /\ \A i \in 1..Len(z.segments_pending) :
              \/ u.next_seqno <= AbsSeqno(z.segments_pending[i])
              \/ i <= Len(u.segments_pending)
                   /\ z.segments_pending[i] = u.segments_pending[i]
    BY <2>8, <2>9, FillWindowKeeps DEF z
  <2>11. z \in Senders /\ z.segments_pending \in Seq(Segs) /\ Len(z.segments_pending) \in Nat
         /\ Len(u.segments_pending) \in Nat /\ z.next_seqno \in Nat /\ z.bytes_read \in Nat
         /\ u.bytes_read \in Nat
    BY <2>3, <2>10, LenProperties DEF Sound, Senders
  <2>12. Grows(s, z) /\ SameInput(s, z)
    <3>1. SameInput(s, z)
      BY <2>4, <2>10, Zenon DEF SameInput
    <3>2. Grows(s, z)
      BY <1>1, <2>4, <2>10, <2>11, <3>1 DEF Grows, SameInput
    <3> QED BY <3>1, <3>2
  <2>13. z.window_left = abs /\ z.window_right = abs + window
    BY <2>4, <2>10 DEF SameWindow
  <2>14. s.next_seqno <= z.window_right => z.next_seqno <= z.window_right
    <3>1. ~in_closed(u)
      BY <1>a, <1>1, <1>11, <2>4 DEF in_closed
    <3> QED BY <1>1, <1>w, <2>4, <2>9, <2>10, <2>11, <2>13, <3>1
  <2>15. Old(z.segments_pending)
    <3> SUFFICES ASSUME NEW i \in 1..Len(z.segments_pending)
                 PROVE  \/ s.next_seqno <= AbsSeqno(z.segments_pending[i])
                        \/ \E j \in 1..Len(p) : z.segments_pending[i] = p[j]
      OBVIOUS
    <3>1. CASE u.next_seqno <= AbsSeqno(z.segments_pending[i])
      BY <2>4, <3>1
    <3>2. CASE i <= Len(u.segments_pending) /\ z.segments_pending[i] = u.segments_pending[i]
      <4>1. i \in 1..Len(u.segments_pending)
        BY <2>11, <3>2
      <4> QED BY <2>4, <3>2, <4>1
    <3> QED BY <2>10, <3>1, <3>2
  <2>16. s.window_left <= abs /\ abs <= s.window_right
    BY <1>1, <1>11
  <2> QED BY <1>w, <2>1, <2>10, <2>12, <2>13, <2>14, <2>15, <2>16 DEF Acked, PendingGrows
<1>12. CASE abs = s.window_left /\ abs <= s.window_right
  <2>1. ack_received(s, wrap(abs, s.isn), window_size) = v
    <3>1. ~(ackno > s.window_right) /\ ~(ackno > s.window_left /\ ackno <= s.window_right)
          /\ ackno = s.window_left
      BY <1>1, <1>3, <1>12
    <3> QED BY <1>3, <1>10, <3>1
  <2> HIDE DEF v
  <2>2. v.window_left = s.window_left
    BY <1>7, <1>12
  <2>3. Sound(v) /\ Grows(s, v)
    BY <1>1, <1>7, <1>9, <2>2, SameKeeps
  <2>4. SameInput(s, v)
    BY <1>7, Zenon DEF SameInput
  <2>5. s.window_left <= abs /\ (s.next_seqno <= v.window_right => v.next_seqno <= v.window_right)
    BY <1>1, <1>7, <1>12
  <2>6. Old(v.segments_pending)
    BY <1>2, <1>7
  <2> QED BY <1>w, <1>7, <1>12, <2>1, <2>3, <2>4, <2>5, <2>6 DEF Acked, PendingGrows
<1>13. CASE abs < s.window_left \/ s.window_right < abs
  <2>1. ack_received(s, wrap(abs, s.isn), window_size) = flagged
    <3>1. CASE s.window_right < abs
      <4>1. ackno > s.window_right /\ ~(ackno > s.window_left /\ ackno <= s.window_right)
        BY <1>1, <1>3, <3>1
      <4>2. ~(ackno = s.window_left)
        BY <1>a, <1>1, <1>3, <3>1
      <4> QED BY <1>10, <4>1, <4>2
    <3>2. CASE abs < s.window_left /\ ~(s.window_right < abs)
      <4>1. ~(ackno > s.window_right) /\ ~(ackno > s.window_left /\ ackno <= s.window_right)
            /\ ~(ackno = s.window_left)
        BY <1>1, <1>3, <3>2
      <4> QED BY <1>10, <4>1
    <3> QED BY <1>13, <3>1, <3>2
  <2>2. Old(flagged.segments_pending)
    BY <1>2, <1>6
  <2>3. s.next_seqno <= flagged.window_right => flagged.next_seqno <= flagged.window_right
    BY <1>6 DEF SameWindow
  <2> QED BY <1>6, <1>13, <2>1, <2>2, <2>3 DEF Acked, PendingGrows
<1> QED BY <1>a, <1>1, <1>11, <1>12, <1>13
-----------------------------------------------------------------------------
(* bytes_in_flight counts every sequence number from the first pending      *)
(* segment to _next_seqno, once.                                            *)
LEMMA InFlight ==
  ASSUME NEW s, NEW a \in Nat, s.next_seqno \in Nat,
         Run(s.segments_pending, s.isn, a, s.next_seqno)
  PROVE  bytes_in_flight(s) = s.next_seqno - a
<1> DEFINE p == s.segments_pending
           N == Len(p)
           f == [i \in DOMAIN p |-> length_in_sequence_space(p[i])]
           Sm(n) == SumFunctionOnSet(f, 1..n)
           T == {n \in Nat : n <= N /\ n > 0 => Sm(n) = AbsEnd(p[n]) - a}
<1>1. p \in Seq(Segs) /\ N \in Nat /\ DOMAIN p = 1..N
  BY LenProperties DEF Run
<1>2. \A i \in 1..N : /\ p[i] \in Segs /\ f[i] = length_in_sequence_space(p[i])
                      /\ AbsSeqno(p[i]) \in Nat /\ f[i] \in Nat /\ f[i] \in Int
                      /\ AbsEnd(p[i]) = AbsSeqno(p[i]) + f[i]
  BY <1>1, ElementOfSeq, SegFacts
<1>3. /\ N = 0 => a = s.next_seqno
      /\ N > 0 => AbsSeqno(p[1]) = a /\ AbsEnd(p[N]) = s.next_seqno
      /\ \A i \in 1..(N - 1) : AbsEnd(p[i]) = AbsSeqno(p[i + 1])
  BY DEF Run
<1>4. bytes_in_flight(s) = Sm(N)
  <2>1. DOMAIN f = 1..N
    BY <1>1
  <2> QED BY <2>1 DEF bytes_in_flight, SumFunction, FoldFunction, SumFunctionOnSet
<1> HIDE DEF f, N
<1>5. ASSUME NEW n \in Nat, n < N PROVE Sm(n + 1) = f[n + 1] + Sm(n) /\ Sm(0) = 0
  <2> DEFINE S == 1..(n + 1)
  <2>1. IsFiniteSet(S) /\ IsFiniteSet(1..0) /\ n + 1 \in S
    BY FS_Interval
  <2>2. \A x \in S : f[x] \in Int
    BY <1>1, <1>2, <1>5
  <2>3. SumFunctionOnSet(f, S) = f[n + 1] + SumFunctionOnSet(f, S \ {n + 1})
    BY <2>1, <2>2, SumRemove, Zenon
  <2>4. S \ {n + 1} = 1..n /\ 1..0 = {}
    OBVIOUS
  <2>5. Sm(0) = 0
    <3>1. IsFiniteSet({}) /\ \A x \in {} : f[x] \in Int
      BY FS_EmptySet
    <3> QED BY <2>4, <3>1, SumUnfold
  <2> QED BY <2>3, <2>4, <2>5
<1>6. T = Nat
  <2>1. 0 \in T
    OBVIOUS
  <2>2. ASSUME NEW n \in Nat, n \in T PROVE n + 1 \in T
    <3> SUFFICES ASSUME n + 1 <= N PROVE Sm(n + 1) = AbsEnd(p[n + 1]) - a
      OBVIOUS
    <3>1. n < N /\ n + 1 \in 1..N
      BY <1>1
    <3>2. Sm(n + 1) = f[n + 1] + Sm(n) /\ Sm(0) = 0
      BY <1>5, <3>1
    <3>3. AbsEnd(p[n + 1]) = AbsSeqno(p[n + 1]) + f[n + 1]
          /\ AbsSeqno(p[n + 1]) \in Nat /\ f[n + 1] \in Nat
      BY <1>2, <3>1
    <3>4. CASE n = 0
      <4>1. n + 1 = 1 /\ N > 0
        BY <1>1, <3>1, <3>4
      <4>2. AbsSeqno(p[n + 1]) = a /\ Sm(n) = 0
        BY <1>3, <3>2, <3>4, <4>1
      <4> HIDE DEF Sm, p
      <4> QED BY <3>2, <3>3, <4>2
    <3>5. CASE n > 0
      <4>1. n \in 1..(N - 1) /\ n <= N
        BY <1>1, <3>1, <3>5
      <4>2. AbsEnd(p[n]) = AbsSeqno(p[n + 1]) /\ Sm(n) = AbsEnd(p[n]) - a
        BY <1>3, <2>2, <3>5, <4>1
      <4> HIDE DEF Sm, p
      <4> QED BY <3>2, <3>3, <4>2
    <3> QED BY <3>4, <3>5
  <2> HIDE DEF T
  <2>3. T \in SUBSET Nat
    BY DEF T
  <2> QED BY <2>1, <2>2, <2>3, Induction
<1>7. CASE N = 0
  <2>1. IsFiniteSet({}) /\ \A x \in {} : f[x] \in Int
    BY FS_EmptySet
  <2>2. 1..N = {}
    BY <1>7
  <2>3. Sm(N) = 0
    BY <2>1, <2>2, SumUnfold
  <2> QED BY <1>3, <1>4, <1>7, <2>3
<1>8. CASE N > 0
  <2>1. Sm(N) = AbsEnd(p[N]) - a
    BY <1>1, <1>6, <1>8
  <2> QED BY <1>3, <1>4, <1>8, <2>1
<1> QED BY <1>1, <1>7, <1>8

(* What a sender has in flight: nothing is pending exactly when nothing is, *)
(* and then everything has been acknowledged.                               *)
LEMMA FlightFacts ==
  ASSUME NEW s, Sound(s)
  PROVE  /\ bytes_in_flight(s) \in 0..s.next_seqno
         /\ bytes_in_flight(s) = 0 => s.window_left = s.next_seqno
         /\ s.window_left = 0 => bytes_in_flight(s) = s.next_seqno
         /\ bytes_in_flight(s) = s.next_seqno /\ Len(s.segments_pending) > 0 =>
              AbsSeqno(s.segments_pending[1]) = 0
<1> DEFINE p == s.segments_pending
<1>1. PICK a \in Nat :
        /\ Run(p, s.isn, a, s.next_seqno)
        /\ Len(p) = 0 => s.window_left = s.next_seqno
        /\ Len(p) > 0 => a <= s.window_left /\ s.window_left < AbsEnd(p[1])
  BY DEF Sound, Flight
<1>2. /\ p \in Seq(Segs) /\ Len(p) \in Nat /\ s.next_seqno \in Nat /\ s.window_left \in Nat
      /\ a <= s.next_seqno
  BY <1>1, LenProperties DEF Run, Sound, Senders
<1>3. bytes_in_flight(s) = s.next_seqno - a
  BY <1>1, <1>2, InFlight
<1>4. Len(p) > 0 => /\ p[1] \in Segs /\ AbsSeqno(p[1]) = a /\ AbsEnd(p[1]) <= s.next_seqno
                    /\ AbsEnd(p[1]) \in Nat
  <2> SUFFICES ASSUME Len(p) > 0
               PROVE  /\ p[1] \in Segs /\ AbsSeqno(p[1]) = a /\ AbsEnd(p[1]) <= s.next_seqno
                      /\ AbsEnd(p[1]) \in Nat
    OBVIOUS
  <2>1. 1 \in 1..Len(p)
    BY <1>2
  <2>2. p[1] \in Segs
    BY <1>2, <2>1, ElementOfSeq
  <2> QED BY <1>1, <2>1, <2>2, SegFacts DEF Run
<1> HIDE DEF p
<1> QED BY <1>1, <1>2, <1>3, <1>4 DEF p
=============================================================================
