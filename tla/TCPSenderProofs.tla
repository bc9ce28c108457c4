-------------------------- MODULE TCPSenderProofs ---------------------------
(***************************************************************************)
(* The TCPSender for every stream, payload size, capacity and window.  The  *)
(* inductive invariant is Good: the sender is Sound (TCPSenderLemmas), it   *)
(* stays within the window, and every pending segment fitted in one.        *)
(***************************************************************************)
EXTENDS TCPSenderSpec, TCPSenderLemmas

W == IF MaxWindow = 0 THEN 1 ELSE MaxWindow

Windowed(s) ==
  /\ s.next_seqno <= s.window_right
  /\ s.window_left < s.window_right /\ s.window_right <= s.window_left + W

Fits(s) ==
  \A i \in 1..Len(s.segments_pending) : length_in_sequence_space(s.segments_pending[i]) <= W

Good(s) == Sound(s) /\ Windowed(s) /\ Fits(s)
-----------------------------------------------------------------------------
LEMMA WFacts == W \in Nat /\ W >= 1 /\ 2 * W - 1 < Half /\ Half \in Nat /\ MaxWindow <= W
                /\ MaxWindow \in Nat
  BY SpecAssumption, HalfAssumption DEF W

(* What is sent while the window lasts fits in a window. *)
LEMMA StillFits ==
  ASSUME NEW s, Good(s), NEW u, Sound(u), u.next_seqno <= u.window_right,
         u.window_right <= s.next_seqno + W,
         PendingGrows(s, u)
  PROVE  Fits(u)
<1> SUFFICES ASSUME NEW i \in 1..Len(u.segments_pending)
             PROVE  length_in_sequence_space(u.segments_pending[i]) <= W
  BY DEF Fits
<1> DEFINE seg == u.segments_pending[i]
<1>1. PICK a \in Nat : Run(u.segments_pending, u.isn, a, u.next_seqno)
  BY DEF Sound, Flight
<1>2. seg \in Segs /\ AbsEnd(seg) <= u.next_seqno
  BY <1>1, ElementOfSeq DEF Run
<1>3. /\ AbsSeqno(seg) \in Nat /\ length_in_sequence_space(seg) \in Nat
      /\ AbsEnd(seg) = AbsSeqno(seg) + length_in_sequence_space(seg)
  BY <1>2, SegFacts
<1>4. s.next_seqno \in Nat /\ u.next_seqno \in Nat /\ u.window_right \in Nat
  BY DEF Good, Sound, Senders
<1>5. CASE s.next_seqno <= AbsSeqno(seg)
  <2> HIDE DEF seg
  <2>1. length_in_sequence_space(seg) <= W
    BY <1>2, <1>3, <1>4, <1>5, WFacts
  <2> QED BY <2>1 DEF seg
<1>6. CASE \E j \in 1..Len(s.segments_pending) : seg = s.segments_pending[j]
  BY <1>6 DEF Good, Fits
<1> QED BY <1>5, <1>6 DEF PendingGrows

(* fill_window stays in the window. *)
LEMMA FillWindowGood ==
  ASSUME NEW s, Good(s)
  PROVE  Good(fill_window(s))
<1> DEFINE u == fill_window(s)
<1>1. /\ Sound(s) /\ s.next_seqno \in Nat /\ s.window_left \in Nat /\ s.window_right \in Nat
      /\ s.window_left <= s.next_seqno /\ s.next_seqno <= s.window_right
      /\ s.window_left < s.window_right /\ s.window_right <= s.window_left + W
  BY DEF Good, Sound, Windowed, Senders
<1>2. window_remaining(s) = s.window_right - s.next_seqno /\ window_remaining(s) \in Nat
  BY <1>1 DEF window_remaining
<1>3. /\ Sound(u) /\ SameWindow(s, u)
      /\ u.next_seqno <= s.next_seqno + (IF in_closed(s) THEN 1 ELSE window_remaining(s))
      /\ \A i \in 1..Len(u.segments_pending) :
           \/ s.next_seqno <= AbsSeqno(u.segments_pending[i])
           \/ i <= Len(s.segments_pending)
                /\ u.segments_pending[i] = s.segments_pending[i]
  BY <1>1, <1>2, FillWindowKeeps
<1> HIDE DEF u
<1>4. u.next_seqno \in Nat /\ u.window_left = s.window_left /\ u.window_right = s.window_right
  BY <1>3 DEF Sound, Senders, SameWindow
<1>5. u.next_seqno <= u.window_right
  BY <1>1, <1>2, <1>3, <1>4 DEF in_closed
<1>6. Windowed(u) /\ u.window_right <= s.next_seqno + W
  BY <1>1, <1>4, <1>5, WFacts DEF Windowed
<1>7. Fits(u)
  <2>1. Len(s.segments_pending) \in Nat /\ Len(u.segments_pending) \in Nat
    BY <1>1, <1>3, LenProperties DEF Sound, Senders
  <2>2. \A i \in 1..Len(u.segments_pending) :
           \/ s.next_seqno <= AbsSeqno(u.segments_pending[i])
           \/ \E j \in 1..Len(s.segments_pending) :
                u.segments_pending[i] = s.segments_pending[j]
    <3> SUFFICES ASSUME NEW i \in 1..Len(u.segments_pending),
                        ~(s.next_seqno <= AbsSeqno(u.segments_pending[i]))
                 PROVE  \E j \in 1..Len(s.segments_pending) :
                          u.segments_pending[i] = s.segments_pending[j]
      OBVIOUS
    <3>1. i \in 1..Len(s.segments_pending) /\ u.segments_pending[i] = s.segments_pending[i]
      BY <1>3, <2>1
    <3> QED BY <3>1
  <2>3. PendingGrows(s, u)
    BY <2>2 DEF PendingGrows
  <2> QED BY <1>3, <1>5, <1>6, <2>3, StillFits
<1> QED BY <1>3, <1>6, <1>7 DEF Good, u

(* ack_received, for an ackno and a window a correct peer sends. *)
LEMMA AckGood ==
  ASSUME NEW s, Good(s), NEW abs \in Nat, abs <= s.next_seqno,
         s.window_left - abs < Half, NEW window_size \in 0..MaxWindow,
         abs >= s.window_left => Edge(abs, window_size) >= s.window_right
  PROVE  Good(ack_received(s, wrap(abs, s.isn), window_size))
<1> DEFINE window == Wide(window_size)
           u == ack_received(s, wrap(abs, s.isn), window_size)
           p == s.segments_pending
<1>1. /\ Sound(s) /\ s.next_seqno \in Nat /\ s.window_left \in Nat /\ s.window_right \in Nat
      /\ s.window_left <= s.next_seqno /\ s.next_seqno <= s.window_right
      /\ s.window_left < s.window_right /\ s.window_right <= s.window_left + W
      /\ Flight(s)
  BY DEF Good, Sound, Windowed, Senders
<1>2. window \in Nat /\ window \in 1..W /\ window_size \in Nat
  BY SpecAssumption DEF W, Wide
<1>3. abs >= s.window_left => abs + window >= s.window_right
  BY DEF Edge, Wide
<1>4. s.next_seqno - s.window_left < Half /\ s.window_left <= s.window_right
  BY <1>1, WFacts
<1>5. Len(p) > 0 => s.next_seqno - AbsSeqno(p[1]) < Half
  <2> SUFFICES ASSUME Len(p) > 0 PROVE s.next_seqno - AbsSeqno(p[1]) < Half
    OBVIOUS
  <2>1. p \in Seq(Segs) /\ s.window_left < AbsEnd(p[1])
    BY <1>1 DEF Flight, Run
  <2>2. 1 \in 1..Len(p)
    BY <2>1, LenProperties
  <2>3. p[1] \in Segs /\ length_in_sequence_space(p[1]) <= W
    BY <2>1, <2>2, ElementOfSeq DEF Good, Fits
  <2>4. /\ AbsSeqno(p[1]) \in Nat /\ length_in_sequence_space(p[1]) \in Nat
        /\ AbsEnd(p[1]) = AbsSeqno(p[1]) + length_in_sequence_space(p[1])
    BY <2>3, SegFacts
  <2> HIDE DEF p
  <2> QED BY <1>1, <2>1, <2>3, <2>4, WFacts
<1>6. s.window_left < abs => s.next_seqno <= abs + window \/ s.next_seqno <= SizeMod
  BY <1>1, <1>2, <1>3
<1>7. Ackable(s, abs, window_size)
  BY <1>1, <1>4, <1>5, <1>6 DEF Ackable
<1> HIDE DEF u, p, window
<1>8. /\ Sound(u) /\ PendingGrows(s, u)
      /\ \/ SameWindow(s, u) /\ u.next_seqno = s.next_seqno
         \/ /\ s.window_left <= abs /\ abs <= s.window_right
            /\ u.window_left = abs /\ u.window_right = abs + window
      /\ s.next_seqno <= u.window_right => u.next_seqno <= u.window_right
  <2>1. Acked(s, u, abs, window_size)
    BY <1>1, <1>2, <1>7, AckKeeps DEF u
  <2> QED BY <2>1 DEF Acked, window
<1>9. u.next_seqno \in Nat /\ u.window_left \in Nat /\ u.window_right \in Nat
  BY <1>8 DEF Sound, Senders
<1>10. Windowed(u) /\ u.next_seqno <= u.window_right /\ u.window_right <= s.next_seqno + W
  <2>1. CASE SameWindow(s, u)
    BY <1>1, <1>8, <1>9, <2>1, WFacts DEF Windowed, SameWindow
  <2>2. CASE /\ s.window_left <= abs /\ abs <= s.window_right
             /\ u.window_left = abs /\ u.window_right = abs + window
    BY <1>1, <1>2, <1>3, <1>8, <1>9, <2>2, WFacts DEF Windowed
  <2> QED BY <1>8, <2>1, <2>2
<1>11. Fits(u)
  BY <1>8, <1>10, StillFits, Zenon
<1> QED BY <1>8, <1>10, <1>11 DEF Good, u

(* What leaves the window and the pending segments as they are stays Good. *)
LEMMA StaysGood ==
  ASSUME NEW s, Good(s), NEW u, Sound(u), SameWindow(s, u),
         u.next_seqno = s.next_seqno, u.segments_pending = s.segments_pending
  PROVE  Good(u)
  BY DEF Good, Windowed, Fits, SameWindow
-----------------------------------------------------------------------------
(* The inductive invariant holds in every state of every behaviour. *)
THEOREM Invariance == Spec => []Good(snd)
<1>1. Init => Good(snd)
  <2> SUFFICES ASSUME Init PROVE Good(snd)
    OBVIOUS
  <2>1. snd = NewSender(Isn)
    BY DEF Init
  <2>2. << >> \in Seq(Segs) /\ Isn \in Raw /\ RtTimeout \in Nat
    BY SpecAssumption, SenderAssumption
  <2>3. snd \in Senders
    BY <2>1, <2>2 DEF NewSender, Senders, Timers
  <2>4. /\ snd.bytes_read = 0 /\ snd.bytes_written = 0 /\ snd.next_seqno = 0
        /\ snd.window_left = 0 /\ snd.window_right = 1 /\ ~snd.fined
        /\ snd.segments_pending = << >> /\ ~snd.timer.running
    BY <2>1 DEF NewSender
  <2>5. /\ Counted(snd) /\ Windowed(snd) /\ Timed(snd) /\ Fits(snd)
        /\ AllBelong(snd.segments_pending, snd) /\ AllBelong(snd.segments_out, snd)
    BY <2>1, <2>4, SenderAssumption, WFacts DEF Counted, Windowed, Timed, Fits, AllBelong, NewSender
  <2>6. Run(<< >>, snd.isn, 0, 0)
    BY <2>2 DEF Run
  <2>7. Flight(snd)
    BY <2>4, <2>6 DEF Flight
  <2>8. Sound(snd)
    BY <2>3, <2>4, <2>5, <2>7 DEF Sound
  <2> QED BY <2>5, <2>8 DEF Good
<1>2. Good(snd) /\ [Next]_snd => Good(snd)'
  <2> SUFFICES ASSUME Good(snd), [Next]_snd PROVE Good(snd')
    OBVIOUS
  <2>0. /\ Sound(Drained) /\ Good(Drained) /\ SameWindow(snd, Drained)
        /\ Drained.next_seqno = snd.next_seqno /\ Drained.fined = snd.fined
        /\ Drained.isn = snd.isn /\ Drained.input_ended = snd.input_ended
    <3>1. Sound(snd) /\ Drained = [snd EXCEPT !.segments_out = << >>]
      BY DEF Good, Drained
    <3>2. /\ Sound(Drained) /\ SameInput(snd, Drained) /\ SameWindow(snd, Drained)
          /\ Drained.next_seqno = snd.next_seqno /\ Drained.fined = snd.fined
          /\ Drained.segments_pending = snd.segments_pending
      BY <3>1, DrainedKeeps
    <3> QED BY <3>2, StaysGood DEF SameInput
  <2>1. CASE Connect
    BY <2>0, <2>1, FillWindowGood DEF Connect
  <2>2. ASSUME NEW n \in 0..MaxBytes, Write(n) PROVE Good(snd')
    <3>1. n \in Nat /\ ~snd.input_ended
      BY <2>2, SpecAssumption DEF Write
    <3>2. ~Drained.fined
      BY <2>0, <3>1 DEF Good, Sound, Counted, stream_eof
    <3>3. LET u == stream_write(Drained, n)
          IN  /\ Sound(u) /\ SameWindow(Drained, u) /\ u.next_seqno = Drained.next_seqno
              /\ u.segments_pending = Drained.segments_pending
      BY <2>0, <3>1, <3>2, StreamKeeps
    <3>4. Good(stream_write(Drained, n))
      BY <2>0, <3>3, StaysGood
    <3> QED BY <2>2, <3>4, FillWindowGood DEF Write
  <2>3. CASE EndInput
    <3>1. LET u == stream_end_input(Drained)
          IN  /\ Sound(u) /\ SameWindow(Drained, u) /\ u.next_seqno = Drained.next_seqno
              /\ u.segments_pending = Drained.segments_pending
      BY <2>0, StreamKeeps
    <3>2. Good(stream_end_input(Drained))
      BY <2>0, <3>1, StaysGood
    <3> QED BY <2>3, <3>2, FillWindowGood DEF EndInput
  <2>4. ASSUME NEW abs_ackno \in 1..(MaxBytes + 2), NEW window_size \in 0..MaxWindow,
               AckReceived(abs_ackno, window_size)
        PROVE  Good(snd')
    <3>1. /\ abs_ackno \in Nat /\ abs_ackno <= Drained.next_seqno
          /\ Drained.window_left - abs_ackno < Half
          /\ abs_ackno >= Drained.window_left =>
               Edge(abs_ackno, window_size) >= Drained.window_right
      BY <2>0, <2>4, SpecAssumption DEF AckReceived, SameWindow
    <3>2. Good(ack_received(Drained, wrap(abs_ackno, Drained.isn), window_size))
      BY <2>0, <3>1, AckGood
    <3> QED BY <2>0, <2>4, <3>2, FillWindowGood DEF AckReceived
  <2>5. CASE Tick
    <3>1. LET u == tick(Drained, 1)
          IN  /\ Sound(u) /\ SameWindow(Drained, u) /\ u.next_seqno = Drained.next_seqno
              /\ u.segments_pending = Drained.segments_pending
      BY <2>0, TickKeeps
    <3>2. Good(tick(Drained, 1))
      BY <2>0, <3>1, StaysGood
    <3> QED BY <2>5, <3>2 DEF Tick
  <2>6. CASE UNCHANGED snd
    BY <2>6
  <2> QED BY <2>1, <2>2, <2>3, <2>4, <2>5, <2>6 DEF Next
<1> QED BY <1>1, <1>2, PTL DEF Spec

(* fill_window counts the SYN, every byte it reads and one FIN, whatever    *)
(* the payload size, the capacity and the windows.                          *)
THEOREM StaysInStep == Spec => []SeqnoInStep
<1>1. Good(snd) => SeqnoInStep
  BY DEF Good, Sound, Counted, SeqnoInStep
<1> QED BY <1>1, Invariance, PTL

(* The pending segments are always what a retransmission needs, from the    *)
(* first byte not acknowledged to _next_seqno (fill_window, ack_received).  *)
THEOREM KeepsTheFlight == Spec => []PendingIsTheFlight
<1>1. Good(snd) => PendingIsTheFlight
  <2> SUFFICES ASSUME Good(snd) PROVE PendingIsTheFlight
    OBVIOUS
  <2> DEFINE p == snd.segments_pending
  <2>1. PICK a \in Nat :
          /\ Run(p, snd.isn, a, snd.next_seqno)
          /\ Len(p) = 0 => snd.window_left = snd.next_seqno
          /\ Len(p) > 0 => a <= snd.window_left /\ snd.window_left < AbsEnd(p[1])
    BY DEF Good, Sound, Flight
  <2>2. p \in Seq(Segs) /\ Len(p) \in Nat /\ (p = << >> <=> Len(p) = 0)
    BY <2>1, EmptySeq, LenProperties DEF Run
  <2>3. p = << >> => snd.window_left = snd.next_seqno
    BY <2>1, <2>2
  <2>4. p # << >> => /\ AbsSeqno(p[1]) <= snd.window_left /\ snd.window_left < AbsEnd(p[1])
                     /\ AbsEnd(p[Len(p)]) = snd.next_seqno
    BY <2>1, <2>2 DEF Run
  <2>5. /\ \A i \in 1..(Len(p) - 1) : AbsEnd(p[i]) = AbsSeqno(p[i + 1])
        /\ \A i \in 1..Len(p) : p[i].seqno = wrap(AbsSeqno(p[i]), snd.isn)
    BY <2>1 DEF Run, Piece
  <2> QED BY <2>3, <2>4, <2>5 DEF PendingIsTheFlight
<1> QED BY <1>1, Invariance, PTL

(* Nothing is sent beyond the advertised window, so the size_t subtraction  *)
(* in fill_window never underflows for a peer whose right edge stays.       *)
THEOREM StaysInPeerWindow == Spec => []WithinWindow
<1>1. Good(snd) => WithinWindow
  BY DEF Good, Sound, Windowed, WithinWindow
<1> QED BY <1>1, Invariance, PTL

(* The retransmission timer is never forgotten, and never runs for nothing. *)
THEOREM TimerIsRight == Spec => []TimerRunsIffPending
<1>1. Good(snd) => TimerRunsIffPending
  BY DEF Good, Sound, Timed, TimerRunsIffPending
<1> QED BY <1>1, Invariance, PTL

-----------------------------------------------------------------------------
(* There is a function that doubles: what defines Doubled. *)
LEMMA DoubledFacts ==
  Doubled[0] = RtTimeout /\ \A k \in Nat : Doubled[k + 1] = 2 * Doubled[k]
<1> DEFINE R(n, g) == \A k \in 0..n : g[k] = IF k = 0 THEN RtTimeout ELSE 2 * g[k - 1]
           T == {n \in Nat : \E g \in [0..n -> Nat] : R(n, g)}
           c(n) == CHOOSE g \in [0..n -> Nat] : R(n, g)
           d == [n \in Nat |-> c(n)[n]]
<1>1. T = Nat
  <2>1. 0 \in T
    <3>1. [k \in 0..0 |-> RtTimeout] \in [0..0 -> Nat]
      BY SenderAssumption
    <3>2. R(0, [k \in 0..0 |-> RtTimeout])
      OBVIOUS
    <3> QED BY <3>1, <3>2
  <2>2. ASSUME NEW n \in Nat, n \in T PROVE n + 1 \in T
    <3>1. PICK g \in [0..n -> Nat] : R(n, g)
      BY <2>2
    <3> DEFINE h == [k \in 0..(n + 1) |-> IF k = n + 1 THEN 2 * g[n] ELSE g[k]]
    <3>2. h \in [0..(n + 1) -> Nat]
      BY <3>1
    <3>3. R(n + 1, h)
      <4> SUFFICES ASSUME NEW k \in 0..(n + 1)
                   PROVE  h[k] = IF k = 0 THEN RtTimeout ELSE 2 * h[k - 1]
        OBVIOUS
      <4>1. CASE k = n + 1
        <5>1. h[k] = 2 * g[n] /\ h[k - 1] = g[n] /\ k # 0
          BY <4>1
        <5> QED BY <5>1
      <4>2. CASE k # n + 1
        <5>1. k \in 0..n /\ h[k] = g[k]
          BY <4>2
        <5>2. k # 0 => k - 1 \in 0..(n + 1) /\ k - 1 # n + 1
          BY <4>2
        <5>3. k # 0 => h[k - 1] = g[k - 1]
          BY <5>2
        <5> HIDE DEF h
        <5> QED BY <3>1, <5>1, <5>3
      <4> QED BY <4>1, <4>2
    <3> HIDE DEF h, R
    <3> QED BY <3>2, <3>3
  <2> HIDE DEF T
  <2>3. T \in SUBSET Nat
    BY DEF T
  <2> QED BY <2>1, <2>2, <2>3, Induction
<1>2. \A n \in Nat : c(n) \in [0..n -> Nat] /\ R(n, c(n))
  BY <1>1
<1>3. ASSUME NEW n \in Nat PROVE \A k \in 0..n : c(n + 1)[k] = c(n)[k]
  <2> DEFINE g == c(n)
             h == c(n + 1)
             U == {k \in Nat : k <= n => h[k] = g[k]}
  <2>1. R(n, g) /\ R(n + 1, h)
    <3> HIDE DEF R, c
    <3> QED BY <1>2
  <2> HIDE DEF g, h
  <2>2. 0 \in U
    BY <2>1
  <2>3. ASSUME NEW k \in Nat, k \in U PROVE k + 1 \in U
    <3> SUFFICES ASSUME k + 1 <= n PROVE h[k + 1] = g[k + 1]
      OBVIOUS
    <3>1. k + 1 \in 0..n /\ k + 1 \in 0..(n + 1) /\ k + 1 # 0 /\ (k + 1) - 1 = k /\ k <= n
      OBVIOUS
    <3>2. h[k + 1] = 2 * h[k] /\ g[k + 1] = 2 * g[k]
      BY <2>1, <3>1
    <3> QED BY <2>3, <3>1, <3>2
  <2> HIDE DEF U
  <2>4. U \in SUBSET Nat
    BY DEF U
  <2>5. U = Nat
    BY <2>2, <2>3, <2>4, Induction
  <2>6. \A k \in 0..n : h[k] = g[k]
    BY <2>5 DEF U
  <2> QED BY <2>6 DEF g, h
<1>4. d = [k \in Nat |-> IF k = 0 THEN RtTimeout ELSE 2 * d[k - 1]]
  <2> HIDE DEF c
  <2>0. ASSUME \A k \in Nat : d[k] = IF k = 0 THEN RtTimeout ELSE 2 * d[k - 1]
        PROVE  d = [k \in Nat |-> IF k = 0 THEN RtTimeout ELSE 2 * d[k - 1]]
    <3>1. d = [k \in Nat |-> d[k]]
      OBVIOUS
    <3> HIDE DEF d
    <3> QED BY <2>0, <3>1
  <2> SUFFICES ASSUME NEW k \in Nat PROVE d[k] = IF k = 0 THEN RtTimeout ELSE 2 * d[k - 1]
    BY <2>0
  <2>1. CASE k = 0
    <3>1. d[0] = c(0)[0]
      OBVIOUS
    <3>2. c(0)[0] = RtTimeout
      BY <1>2
    <3> QED BY <2>1, <3>1, <3>2
  <2>2. CASE k > 0
    <3>1. k - 1 \in Nat /\ k \in 0..k /\ k - 1 \in 0..(k - 1) /\ (k - 1) + 1 = k
      BY <2>2
    <3>2. d[k] = c(k)[k] /\ d[k - 1] = c(k - 1)[k - 1]
      BY <3>1
    <3>3. c(k)[k] = 2 * c(k)[k - 1]
      BY <1>2, <2>2, <3>1
    <3>4. c(k)[k - 1] = c(k - 1)[k - 1]
      <4>1. \A j \in 0..(k - 1) : c((k - 1) + 1)[j] = c(k - 1)[j]
        BY <1>3, <3>1
      <4> QED BY <3>1, <4>1
    <3> HIDE DEF d
    <3> QED BY <2>2, <3>2, <3>3, <3>4
  <2> QED BY <2>1, <2>2
<1> HIDE DEF d
<1>5. Doubled = [k \in Nat |-> IF k = 0 THEN RtTimeout ELSE 2 * Doubled[k - 1]]
  <2>1. \E f : f = [k \in Nat |-> IF k = 0 THEN RtTimeout ELSE 2 * f[k - 1]]
    BY <1>4
  <2>2. Doubled = CHOOSE f : f = [k \in Nat |-> IF k = 0 THEN RtTimeout ELSE 2 * f[k - 1]]
    BY DEF Doubled
  <2> QED BY <2>1, <2>2, Zenon
<1>6. Doubled[0] = RtTimeout
  BY <1>5
<1>7. ASSUME NEW k \in Nat PROVE Doubled[k + 1] = 2 * Doubled[k]
  <2>1. k + 1 \in Nat /\ k + 1 # 0 /\ (k + 1) - 1 = k
    OBVIOUS
  <2>2. Doubled[k + 1] = IF k + 1 = 0 THEN RtTimeout ELSE 2 * Doubled[(k + 1) - 1]
    BY <1>5, <2>1, Zenon
  <2> QED BY <2>1, <2>2
<1> QED BY <1>6, <1>7

(* The fields of the backoff, and what leaves them alone. *)
Retries == {"retransmission_timeout", "consecutive_retransmissions"}
SameBackoff(s, u) ==
  /\ DOMAIN u = DOMAIN s
  /\ u.retransmission_timeout = s.retransmission_timeout
  /\ u.consecutive_retransmissions = s.consecutive_retransmissions

LEMMA FillWindowBackoff ==
  ASSUME NEW s, Retries \subseteq DOMAIN s
  PROVE  SameBackoff(s, fill_window(s))
<1>1. ASSUME NEW z, Retries \subseteq DOMAIN z, NEW segs, NEW length
      PROVE  SameBackoff(z, _send(z, segs, length))
  BY <1>1, Zenon DEF Retries, SameBackoff, _send
<1>2. CASE in_closed(s)
  BY <1>1, <1>2 DEF fill_window
<1>3. CASE ~in_closed(s) /\ s.fined
  BY <1>3 DEF fill_window, SameBackoff
<1>4. CASE ~in_closed(s) /\ ~s.fined
  <2> DEFINE z == [s EXCEPT !.bytes_read = @ + payload_total(s), !.fined = fin_sent(s)]
             u == _send(z, [i \in 1..pieces(s) |-> piece(s, i)],
                        payload_total(s) + Bit(fin_sent(s)))
  <2>1. SameBackoff(s, z)
    BY Zenon DEF Retries, SameBackoff
  <2>2. fill_window(s) = u
    BY <1>4 DEF fill_window
  <2> HIDE DEF z
  <2>3. SameBackoff(z, u)
    BY <1>1, <2>1 DEF SameBackoff
  <2> QED BY <2>1, <2>2, <2>3 DEF SameBackoff
<1> QED BY <1>2, <1>3, <1>4

(* A new ackno undoes the backoff, any other keeps it. *)
LEMMA AckBackoff ==
  ASSUME NEW s, Retries \subseteq DOMAIN s, NEW ackno, NEW window_size,
         s.window_left \in Nat, s.window_right \in Nat, s.window_left <= s.window_right,
         unwrap(ackno, s.isn, s.window_left) \in Nat
  PROVE  LET u == ack_received(s, ackno, window_size)
         IN  \/ SameBackoff(s, u)
             \/ /\ DOMAIN u = DOMAIN s
                /\ u.retransmission_timeout = RtTimeout /\ u.consecutive_retransmissions = 0
<1> DEFINE abs == unwrap(ackno, s.isn, s.window_left)
           flagged == [s EXCEPT !.zero_window_size = (window_size = 0)]
           window == IF window_size = 0 THEN 1 ELSE window_size
           v == with_window(flagged, abs, window)
           z == acknowledge(v, abs)
           u == ack_received(s, ackno, window_size)
<1>1. u = CASE abs > s.window_right -> flagged
            [] abs > s.window_left /\ abs <= s.window_right -> fill_window(z)
            [] abs = s.window_left -> v
            [] OTHER -> flagged
  BY DEF ack_received
<1>2. abs \in Nat
  OBVIOUS
<1>3. SameBackoff(s, flagged)
  BY Zenon DEF Retries, SameBackoff
<1>4. SameBackoff(flagged, v)
  <2> HIDE DEF flagged, abs, window
  <2> QED BY <1>3, Zenon DEF Retries, SameBackoff, with_window
<1>5. /\ DOMAIN z = DOMAIN s /\ z.retransmission_timeout = RtTimeout
      /\ z.consecutive_retransmissions = 0
  <2> HIDE DEF v, flagged, abs, window
  <2> QED BY <1>3, <1>4, Zenon DEF Retries, SameBackoff, acknowledge
<1> HIDE DEF abs, flagged, v, z, u
<1>6. SameBackoff(z, fill_window(z))
  BY <1>5, FillWindowBackoff
<1>7. u \in {flagged, v, fill_window(z)}
  <2>1. CASE abs > s.window_right
    BY <1>1, <1>2, <2>1
  <2>2. CASE abs > s.window_left /\ abs <= s.window_right
    BY <1>1, <1>2, <2>2
  <2>3. CASE abs = s.window_left
    BY <1>1, <1>2, <2>3
  <2>4. CASE abs < s.window_left
    BY <1>1, <1>2, <2>4
  <2> QED BY <1>2, <2>1, <2>2, <2>3, <2>4
<1> QED BY <1>3, <1>4, <1>5, <1>6, <1>7 DEF SameBackoff, u

(* The RTO never grows beyond one doubling per retransmission in a row, and *)
(* falls back with the first new ackno (tick, ack_received).                *)
THEOREM BackoffStaysBounded == Spec => []BackoffIsBounded
<1> DEFINE Bounded(s) == \E k \in 0..s.consecutive_retransmissions :
                           s.retransmission_timeout = Doubled[k]
<1>1. Init => BackoffIsBounded
  BY DoubledFacts DEF Init, NewSender, BackoffIsBounded
<1>2. Good(snd) /\ BackoffIsBounded /\ [Next]_snd => BackoffIsBounded'
  <2> SUFFICES ASSUME Good(snd), Bounded(snd), [Next]_snd PROVE Bounded(snd')
    BY DEF BackoffIsBounded
  <2>1. /\ Sound(snd) /\ snd \in Senders /\ Retries \subseteq DOMAIN snd
        /\ snd.consecutive_retransmissions \in Nat /\ snd.next_seqno \in Nat
        /\ snd.window_left \in Nat /\ snd.window_right \in Nat /\ snd.isn \in Raw
        /\ snd.window_left <= snd.window_right /\ snd.next_seqno <= snd.window_left + W
    BY WFacts DEF Good, Windowed, Sound, Senders, Retries
  <2>2. ASSUME NEW s, NEW u, SameBackoff(s, u), Bounded(s)
        PROVE  Bounded(u) /\ DOMAIN u = DOMAIN s
    BY <2>2 DEF SameBackoff
  <2>3. SameBackoff(snd, Drained)
    BY <2>1, Zenon DEF SameBackoff, Drained, Retries
  <2>4. /\ Bounded(Drained) /\ Retries \subseteq DOMAIN Drained
        /\ Drained.window_left = snd.window_left /\ Drained.window_right = snd.window_right
        /\ Drained.isn = snd.isn
        /\ Drained.consecutive_retransmissions = snd.consecutive_retransmissions
    <3>1. /\ Drained.window_left = snd.window_left /\ Drained.window_right = snd.window_right
          /\ Drained.isn = snd.isn
          /\ Drained.consecutive_retransmissions = snd.consecutive_retransmissions
      BY <2>1, Zenon DEF Drained, Senders
    <3> QED BY <2>1, <2>2, <2>3, <3>1
  <2>5. ASSUME NEW s, Bounded(s), Retries \subseteq DOMAIN s PROVE Bounded(fill_window(s))
    BY <2>2, <2>5, FillWindowBackoff
  <2>6. CASE Connect
    BY <2>4, <2>5, <2>6 DEF Connect
  <2>7. ASSUME NEW n \in 0..MaxBytes, Write(n) PROVE Bounded(snd')
    <3>1. SameBackoff(Drained, stream_write(Drained, n))
      BY <2>4, Zenon DEF stream_write, SameBackoff, Retries
    <3>2. Bounded(stream_write(Drained, n)) /\ Retries \subseteq DOMAIN stream_write(Drained, n)
      BY <2>2, <2>4, <3>1
    <3> QED BY <2>5, <2>7, <3>2 DEF Write
  <2>8. CASE EndInput
    <3>1. SameBackoff(Drained, stream_end_input(Drained))
      BY <2>4, Zenon DEF stream_end_input, SameBackoff, Retries
    <3>2. Bounded(stream_end_input(Drained)) /\ Retries \subseteq DOMAIN stream_end_input(Drained)
      BY <2>2, <2>4, <3>1
    <3> QED BY <2>5, <2>8, <3>2 DEF EndInput
  <2>9. ASSUME NEW abs_ackno \in 1..(MaxBytes + 2), NEW window_size \in 0..MaxWindow,
               AckReceived(abs_ackno, window_size)
        PROVE  Bounded(snd')
    <3> DEFINE u == ack_received(Drained, wrap(abs_ackno, snd.isn), window_size)
    <3>1. /\ abs_ackno \in Nat /\ abs_ackno <= snd.next_seqno
          /\ snd.window_left - abs_ackno < Half /\ snd' = fill_window(u)
      BY <2>9, SpecAssumption DEF AckReceived
    <3>2. abs_ackno - snd.window_left < Half
      BY <2>1, <3>1, WFacts
    <3>3. unwrap(wrap(abs_ackno, snd.isn), Drained.isn, Drained.window_left) \in Nat
      BY <2>1, <2>4, <3>1, <3>2, UnwrapExact
    <3>4. Drained.window_left \in Nat /\ Drained.window_right \in Nat
          /\ Drained.window_left <= Drained.window_right
      BY <2>1, <2>4
    <3>5. \/ SameBackoff(Drained, u)
          \/ /\ DOMAIN u = DOMAIN Drained
             /\ u.retransmission_timeout = RtTimeout /\ u.consecutive_retransmissions = 0
      BY <2>4, <3>3, <3>4, AckBackoff
    <3> HIDE DEF u
    <3>6. Bounded(u) /\ Retries \subseteq DOMAIN u
      <4>1. CASE SameBackoff(Drained, u)
        BY <2>2, <2>4, <4>1
      <4>2. CASE /\ DOMAIN u = DOMAIN Drained
                 /\ u.retransmission_timeout = RtTimeout /\ u.consecutive_retransmissions = 0
        <5>1. 0 \in 0..u.consecutive_retransmissions /\ u.retransmission_timeout = Doubled[0]
          BY <4>2, DoubledFacts
        <5> QED BY <2>4, <4>2, <5>1
      <4> QED BY <3>5, <4>1, <4>2
    <3> QED BY <2>5, <3>1, <3>6
  <2>10. CASE Tick
    <3> DEFINE s == Drained
               timer == [s.timer EXCEPT !.elapsed = IF s.timer.running THEN @ + 1 ELSE @]
               rto == IF s.zero_window_size THEN s.retransmission_timeout
                      ELSE 2 * s.retransmission_timeout
               u == tick(s, 1)
               again == [s EXCEPT !.segments_out = Append(@, s.segments_pending[1]),
                                  !.consecutive_retransmissions = @ + 1,
                                  !.retransmission_timeout = rto, !.timer = started(rto)]
    <3>1. u = CASE s.segments_pending = << >> -> [s EXCEPT !.timer = stopped(timer)]
                [] s.segments_pending # << >> /\ timed_out(timer) -> again
                [] OTHER -> [s EXCEPT !.timer = timer]
      BY DEF tick
    <3>2. PICK k \in 0..s.consecutive_retransmissions : s.retransmission_timeout = Doubled[k]
      BY <2>4
    <3>3. snd' = u
      BY <2>10 DEF Tick
    <3>4. ASSUME NEW t PROVE Bounded([s EXCEPT !.timer = t])
      <4>1. SameBackoff(s, [s EXCEPT !.timer = t])
        BY <2>4, Zenon DEF SameBackoff, Retries
      <4> QED BY <2>2, <2>4, <4>1
    <3>5. Bounded(again)
      <4>1. /\ again.retransmission_timeout = rto
            /\ again.consecutive_retransmissions = s.consecutive_retransmissions + 1
        BY <2>4, Zenon DEF Retries
      <4>2. \E j \in 0..(s.consecutive_retransmissions + 1) : rto = Doubled[j]
        <5>0. s.consecutive_retransmissions \in Nat
          BY <2>1, <2>4
        <5>1. CASE s.zero_window_size
          <6>1. k \in 0..(s.consecutive_retransmissions + 1)
            BY <5>0
          <6> QED BY <3>2, <5>1, <6>1
        <5>2. CASE ~s.zero_window_size
          <6>1. k \in Nat /\ k + 1 \in 0..(s.consecutive_retransmissions + 1)
            BY <5>0
          <6>2. rto = Doubled[k + 1]
            BY <3>2, <5>2, <6>1, DoubledFacts
          <6> QED BY <6>1, <6>2
        <5> QED BY <5>1, <5>2
      <4> HIDE DEF again, rto
      <4> QED BY <4>1, <4>2
    <3> HIDE DEF u, again, timer
    <3>6. CASE s.segments_pending = << >>
      BY <3>1, <3>3, <3>4, <3>6
    <3>7. CASE s.segments_pending # << >> /\ timed_out(timer)
      BY <3>1, <3>3, <3>5, <3>7
    <3>8. CASE s.segments_pending # << >> /\ ~timed_out(timer)
      BY <3>1, <3>3, <3>4, <3>8
    <3> QED BY <3>6, <3>7, <3>8
  <2>11. CASE UNCHANGED snd
    BY <2>11
  <2> QED BY <2>6, <2>7, <2>8, <2>9, <2>10, <2>11 DEF Next
<1> QED BY <1>1, <1>2, Invariance, PTL DEF Spec

(* At every left edge a run reaches, unwrap finds the closest ackno. *)
THEOREM AcknoIsClosest == Spec => []UnwrapIsClosest
<1>1. Good(snd) => UnwrapIsClosest
  <2> SUFFICES ASSUME Good(snd), NEW n \in Raw, NEW more \in Ahead
               PROVE  Closest(unwrap(n, snd.isn, snd.window_left + more), n, snd.isn,
                              snd.window_left + more)
    BY DEF UnwrapIsClosest
  <2>1. snd.isn \in Raw /\ snd.window_left + more \in Nat
    BY SpecAssumption DEF Good, Sound, Senders
  <2> QED BY <2>1, UnwrapClosest
<1> QED BY <1>1, Invariance, PTL
=============================================================================
