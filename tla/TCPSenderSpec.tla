--------------------------- MODULE TCPSenderSpec ----------------------------
(***************************************************************************)
(* One TCPSender, its application and a correct peer.  The peer             *)
(* acknowledges only what was sent, its ACKs arrive in the order it sent    *)
(* them, and the right edge of its window never moves back: a receiver's    *)
(* ackno plus its window is its capacity plus what its application has      *)
(* read.  What else the network does to ACKs (loss, duplicates of the       *)
(* latest, delay) is any choice of ackno and window within that.            *)
(***************************************************************************)
EXTENDS TCPSender, WrappingIntegersSpec

CONSTANTS
  Isn,         \* of this sender
  MaxWindow,   \* bound: the largest window the peer advertises
  MaxBytes,    \* bound: the length of the outgoing stream
  Ahead,       \* bound: how much further the stream may be, see UnwrapIsClosest
  MaxRetx      \* TCPConfig::MAX_RETX_ATTEMPTS: beyond it the connection is reset

ASSUME SpecAssumption ==
  /\ Isn \in Raw /\ MaxWindow \in Nat /\ MaxBytes \in Nat /\ MaxRetx \in Nat
  /\ Ahead \subseteq Nat
  /\ 2 * MaxWindow + 1 < Half   \* 2^17 - 1 and 2^31 in the code
  /\ MaxWindow < SizeMod

VARIABLE snd

(* The TCPConnection has taken the segments of the previous call. *)
Drained == [snd EXCEPT !.segments_out = << >>]

Init == snd = NewSender(Isn)

(* TCPConnection::connect, or the reply to a SYN *)
Connect == in_closed(snd) /\ snd' = fill_window(Drained)

(* TCPConnection::write; the application does not write after the end. *)
Write(n) ==
  /\ ~snd.input_ended
  /\ snd.bytes_written + n <= MaxBytes
  /\ snd' = fill_window(stream_write(Drained, n))

(* TCPConnection::end_input_stream *)
EndInput == snd' = fill_window(stream_end_input(Drained))

(* The edge an ACK moves the window to; a zero window counts as one. *)
Edge(abs_ackno, window_size) == abs_ackno + (IF window_size = 0 THEN 1 ELSE window_size)

(* TCPConnection::segment_received calls ack_received, then fill_window. *)
AckReceived(abs_ackno, window_size) ==
  /\ ~in_closed(snd)
  /\ abs_ackno <= snd.next_seqno
  /\ snd.window_left - abs_ackno < Half
  /\ abs_ackno >= snd.window_left => Edge(abs_ackno, window_size) >= snd.window_right
  /\ snd' = fill_window(ack_received(Drained, wrap(abs_ackno, snd.isn), window_size))

Tick ==
  /\ snd.consecutive_retransmissions <= MaxRetx
  /\ snd' = tick(Drained, 1)

Next ==
  \/ Connect
  \/ \E n \in 0..MaxBytes : Write(n)
  \/ EndInput
  \/ \E abs_ackno \in 1..(MaxBytes + 2), window_size \in 0..MaxWindow :
        AckReceived(abs_ackno, window_size)
  \/ Tick

Spec == Init /\ [][Next]_snd
-----------------------------------------------------------------------------
(* _next_seqno stays in step with the bytes taken from the stream: one more *)
(* for the SYN, and one for the FIN, sent last and once (_fined).           *)
SeqnoInStep ==
  /\ snd.next_seqno = 0 => snd.bytes_read = 0 /\ ~snd.fined
  /\ snd.next_seqno > 0 => snd.next_seqno = snd.bytes_read + 1 + Bit(snd.fined)
  /\ snd.fined => stream_eof(snd)

(* The pending segments are, without gap or overlap, what was sent from the *)
(* first one not wholly acknowledged on (the popping loop of ack_received), *)
(* and the sequence number of each is that of the bytes in it, also after   *)
(* the raw numbers wrap around (the seqno fill_window gives each piece).    *)
PendingIsTheFlight ==
  LET p == snd.segments_pending IN
    /\ p = << >> => snd.window_left = snd.next_seqno
    /\ p # << >> => /\ AbsSeqno(p[1]) <= snd.window_left /\ snd.window_left < AbsEnd(p[1])
                    /\ AbsEnd(p[Len(p)]) = snd.next_seqno
    /\ \A i \in 1..(Len(p) - 1) : AbsEnd(p[i]) = AbsSeqno(p[i + 1])
    /\ \A i \in 1..Len(p) : p[i].seqno = wrap(AbsSeqno(p[i]), snd.isn)

(* Nothing is sent beyond the window the peer advertised: fill_window never *)
(* subtracts _next_seqno from a smaller _receiver_window_right.             *)
WithinWindow ==
  snd.window_left <= snd.next_seqno /\ snd.next_seqno <= snd.window_right

(* As long as something is unacknowledged the retransmission timer runs,    *)
(* and only then (_send, ack_received and tick start and stop it).          *)
TimerRunsIffPending == snd.timer.running <=> snd.segments_pending # << >>

(* The initial RTO, doubled k times. *)
Doubled[k \in Nat] == IF k = 0 THEN RtTimeout ELSE 2 * Doubled[k - 1]

(* The RTO is the initial one, doubled at most once per consecutive         *)
(* retransmission; with a zero window it is not (tick), and a new ackno     *)
(* undoes all of it (ack_received).                                         *)
BackoffIsBounded ==
  \E k \in 0..snd.consecutive_retransmissions : snd.retransmission_timeout = Doubled[k]

(* Whatever raw number an ACK carries, unwrap finds the absolute ackno      *)
(* closest to the left edge of the window, the checkpoint ack_received      *)
(* gives it: in every period, and at the corners, a difference of exactly   *)
(* 2^31 and an edge smaller than 2^31 (wrapping_integers.cc).               *)
UnwrapIsClosest ==
  \A n \in Raw, more \in Ahead :
    LET checkpoint == snd.window_left + more
    IN  Closest(unwrap(n, snd.isn, checkpoint), n, snd.isn, checkpoint)
=============================================================================
