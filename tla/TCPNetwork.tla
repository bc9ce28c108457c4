----------------------------- MODULE TCPNetwork ------------------------------
(***************************************************************************)
(* Two TCPConnections, their applications and the network between them.     *)
(* "A" connects, "B" listens.  Every call of a TCPConnection is one step,   *)
(* after which its owner hands the segments it queued to the network; the   *)
(* network may lose, duplicate and reorder a bounded number of segments.    *)
(***************************************************************************)
EXTENDS TCPState, SequencesExt

CONSTANTS
  Isn,       \* the initial sequence number of each end
  AppBytes,  \* bound: how many bytes each application writes
  Losses, Duplicates, Jumps,   \* bounds: faults of the network
  Aborts,    \* bound: how many ends destroy their connection while it is active
  MaxNet,    \* bound: an end is quiet while its peer has this many segments to receive
  MaxIdle,   \* bound: the clock of an idle end stops here until it receives a segment
  Patient    \* TRUE: the clocks of the ends run at one rate, and a tick is longer
             \* than a round trip and a read

End == {"A", "B"}
Peer(e) == IF e = "A" THEN "B" ELSE "A"

ASSUME NetworkAssumption ==
  /\ Isn \in [End -> Raw] /\ AppBytes \in [End -> Nat]
  /\ {Losses, Duplicates, Jumps, Aborts, MaxNet, MaxIdle} \subseteq Nat /\ Patient \in BOOLEAN
  /\ \A e \in End : AppBytes[e] + 2 < Half   \* no segment outlives 2^31 others

VARIABLES
  conn,     \* the TCPConnection of each end
  net,      \* the segments on the way to each end, oldest first
  faults,   \* how often the network lost, duplicated, reordered; the ends aborted;
            \* those where rule 2 may have been found ready before a RST was received
  ahead     \* the end whose clock is one tick ahead, or "none"

vars == << conn, net, faults, ahead >>

Init ==
  /\ conn = [e \in End |-> NewConnection(Isn[e])]
  /\ net = [e \in End |-> << >>]
  /\ faults = [lost |-> 0, duplicated |-> 0, reordered |-> 0, aborted |-> {}, stale |-> {}]
  /\ ahead = "none"

(* The owner calls e's connection only while it is active (TCPSpongeSocket) *)
(* and no exception has ended its thread.                                   *)
Served(e) == active(conn[e]) /\ ~conn[e].receiver.inbound.thrown
Quiet(e) == Len(net[Peer(e)]) >= MaxNet

(* The call leaves e's connection as c; what it queued is sent. *)
Sent(e, c) ==
  /\ conn' = [conn EXCEPT ![e] = [c EXCEPT !.segments_out = << >>]]
  /\ net' = [net EXCEPT ![Peer(e)] = @ \o c.segments_out]
Call(e, c) == Sent(e, c) /\ UNCHANGED faults
-----------------------------------------------------------------------------
CanConnect == in_closed(conn["A"].sender)
Connect == CanConnect /\ Call("A", connect(conn["A"])) /\ UNCHANGED ahead

(* The application's end of the outgoing stream is read: the interest of    *)
(* rule 2.                                                                  *)
CanSend(e) ==
  /\ Served(e) /\ ~Quiet(e)
  /\ ~in_closed(conn[e].sender) /\ ~conn[e].sender.input_ended
  /\ buffer_size(conn[e].sender) < SendCapacity

(* What the application may write and the outgoing stream has room for. *)
Writable(e) ==
  Least(AppBytes[e] - conn[e].sender.bytes_written, SendCapacity - buffer_size(conn[e].sender))

Write(e, n) ==
  CanSend(e) /\ n <= Writable(e) /\ Call(e, write(conn[e], n)) /\ UNCHANGED ahead

CanEnd(e) == CanSend(e) /\ conn[e].sender.bytes_written = AppBytes[e]
(* At its end rule 2 writes the empty string, then ends the stream. *)
EndInput(e) ==
  CanEnd(e) /\ Call(e, end_input_stream(write(conn[e], 0))) /\ UNCHANGED ahead

(* Rule 2 once more, found ready before rule 1 received the RST in the same *)
(* turn of the event loop.                                                  *)
CutShort(e, c) ==
  c.sender.error /\ ~conn[e].sender.input_ended /\ buffer_size(conn[e].sender) < SendCapacity
Straggle(e, n) ==
  /\ e \in faults.stale /\ n <= Writable(e)
  /\ LET c == write(conn[e], n) IN Sent(e, IF n = 0 THEN end_input_stream(c) ELSE c)
  /\ faults' = [faults EXCEPT !.stale = @ \ {e}]
  /\ UNCHANGED ahead

Unread(e) == conn[e].receiver.inbound.bytes_written - conn[e].receiver.inbound.bytes_read

CanRead(e) ==
  Unread(e) > 0 /\ ~conn[e].receiver.inbound.thrown /\ e \notin faults.aborted

(* Rule 3, also when the connection is no longer active. *)
Read(e, n) ==
  /\ CanRead(e) /\ n <= Unread(e)
  /\ conn' = [conn EXCEPT ![e] = read_inbound(@, n)]
  /\ UNCHANGED << net, faults, ahead >>

(* The i-th segment on the way to e arrives; an end that is not served any  *)
(* more does not see it.                                                    *)
CanDeliver(e) == net[e] # << >> /\ (Served(e) => ~Quiet(e))
Delivered(e, i, c) ==
  /\ conn' = [conn EXCEPT ![e] = [c EXCEPT !.segments_out = << >>]]
  /\ net' = [net EXCEPT ![e] = RemoveAt(@, i), ![Peer(e)] = @ \o c.segments_out]
  /\ faults' = [faults EXCEPT !.reordered = IF i > 1 THEN @ + 1 ELSE @,
                              !.stale = @ \cup {end \in {e} : CutShort(end, c)}]
Deliver(e, i) ==
  /\ CanDeliver(e) /\ i \in DOMAIN net[e]
  /\ i > 1 => faults.reordered < Jumps
  /\ Delivered(e, i, IF Served(e) THEN segment_received(conn[e], net[e][i]) ELSE conn[e])
  /\ UNCHANGED ahead

(* Everything on the way has arrived and everything arrived has been read. *)
Settled == \A e \in End : net[e] = << >> /\ ~CanRead(e)

(* A clock only stops when no timer waits for it. *)
Ticking(e) ==
  /\ Served(e)
  /\ \/ conn[e].time < MaxIdle
     \/ conn[e].sender.timer.running
     \/ conn[e].time_done # None
CanTick(e) ==
  /\ Ticking(e) /\ ~Quiet(e)
  /\ Patient => Settled /\ (ahead = e => ~Ticking(Peer(e)))
Tick(e) ==
  /\ CanTick(e)
  /\ Call(e, connection_tick(conn[e], 1))
  /\ ahead' = IF ~Patient \/ ahead = Peer(e) THEN "none" ELSE e

(* A turn of the event loop in less than a millisecond: tick(0). *)
Turn(e) ==
  Served(e) /\ ~Quiet(e) /\ Call(e, connection_tick(conn[e], 0)) /\ UNCHANGED ahead

Lose(e) ==
  /\ net[e] # << >> /\ faults.lost < Losses
  /\ net' = [net EXCEPT ![e] = Tail(@)]
  /\ faults' = [faults EXCEPT !.lost = @ + 1]
  /\ UNCHANGED << conn, ahead >>

Duplicate(e) ==
  /\ net[e] # << >> /\ faults.duplicated < Duplicates
  /\ net' = [net EXCEPT ![e] = << Head(@) >> \o @]
  /\ faults' = [faults EXCEPT !.duplicated = @ + 1]
  /\ UNCHANGED << conn, ahead >>

(* ~TCPConnection of an active connection (TCPSpongeSocket's _abort): the   *)
(* RST it makes is in segments_out, which is destroyed with the object.     *)
Abort(e) ==
  /\ Served(e) /\ Cardinality(faults.aborted) < Aborts
  /\ conn' = [conn EXCEPT ![e] = [destroy(@) EXCEPT !.segments_out = << >>]]
  /\ faults' = [faults EXCEPT !.aborted = @ \cup {e}]
  /\ UNCHANGED << net, ahead >>

Next ==
  \/ Connect
  \/ \E e \in End :
       \/ \E n \in 1..AppBytes[e] : Write(e, n)
       \/ EndInput(e)
       \/ \E n \in 0..AppBytes[e] : Straggle(e, n)
       \/ \E n \in 1..Capacity : Read(e, n)
       \/ \E i \in 1..(MaxNet + AppBytes[Peer(e)] + 2) : Deliver(e, i)
       \/ Tick(e)
       \/ Turn(e)
       \/ Lose(e)
       \/ Duplicate(e)
       \/ Abort(e)

Spec == Init /\ [][Next]_vars

(* The applications write, close and read; the event loop of each end turns *)
(* (every TCP_TICK_MS at the latest) and calls tick; what the network does  *)
(* not lose arrives.  Each conjunct is weak fairness of the action, whose   *)
(* ENABLED is the guard on the left (every such step changes the state).    *)
Fairness ==
  /\ []<>(~CanConnect) \/ []<><<Connect>>_vars
  /\ \A e \in End :
       /\ []<>(~CanSend(e) \/ Writable(e) = 0)
            \/ []<><<\E n \in 1..AppBytes[e] : Write(e, n)>>_vars
       /\ []<>(~CanEnd(e)) \/ []<><<EndInput(e)>>_vars
       /\ []<>(~CanRead(e)) \/ []<><<\E n \in 1..Capacity : Read(e, n)>>_vars
       /\ []<>(~CanDeliver(e)) \/ []<><<Deliver(e, 1)>>_vars
       /\ []<>(~CanTick(e)) \/ []<><<Tick(e)>>_vars

FairSpec == Spec /\ Fairness
-----------------------------------------------------------------------------
(* Every byte arrives where it belongs: the stream index the receiver       *)
(* derives from a raw sequence number, with its own checkpoint, is the      *)
(* position the bytes had in the sender's stream, for every segment on the  *)
(* way, however late it arrives (wrap in fill_window, unwrap in             *)
(* TCPReceiver::segment_received).                                          *)
BytesArriveInPlace ==
  \A e \in End : \A i \in DOMAIN net[e] :
    LET seg == net[e][i] IN
      seg.len > 0 /\ ~in_listen(conn[e].receiver) =>
        stream_index(conn[e].receiver, seg) = seg.from

(* A sender never counts as acknowledged what its peer does not have        *)
(* (ack_received).                                                          *)
AckedWasReceived ==
  \A e \in End : conn[e].sender.window_left <= abs_ackno(conn[Peer(e)].receiver)

(* A sender stays within the peer's window, a window of zero counting as    *)
(* one: what it sends fits in the peer's buffer (fill_window).              *)
RespectsPeerWindow ==
  \A e \in End :
    LET r == conn[Peer(e)].receiver IN
      conn[e].sender.next_seqno <= abs_ackno(r) + Max({1, window_size(r)})

(* A stream ends at the reader only after the writer's last byte and FIN. *)
EndMeansWholeStream ==
  \A e \in End :
    conn[e].receiver.inbound.input_ended =>
      /\ conn[Peer(e)].sender.fined
      /\ conn[e].receiver.inbound.bytes_written = conn[Peer(e)].sender.bytes_written

(* A connection that stops without an error has had both streams delivered: *)
(* its peer has every byte it wrote, and its application every byte of the  *)
(* peer (_done, active).                                                    *)
CleanCloseIsComplete ==
  \A e \in End :
    ~active(conn[e]) /\ ~conn[e].sender.error =>
      /\ conn[Peer(e)].receiver.inbound.input_ended
      /\ inbound_eof(conn[e].receiver)

(* At least one end lingers after a clean close: the one whose last ACK     *)
(* could be lost (_linger_after_streams_finish in segment_received).        *)
SomeoneLingers ==
  \A e \in End : ~conn[e].linger /\ ~conn[Peer(e)].linger =>
    conn[e].sender.error \/ conn[Peer(e)].sender.error

(* "stay active (and keep ACKing) for 10 * _cfg.rt_timeout milliseconds     *)
(* after both streams have ended" (tcp_connection.hh:19-20): an end that is *)
(* to linger is active at least that long after the last segment.           *)
LingersLongEnough ==
  \A e \in End :
    LET c == conn[e] IN
      c.linger /\ _done(c) /\ ~c.sender.error /\ c.time < LINGER * RtTimeout => active(c)

(* No segment of a sponge sender makes the peer's push_substring throw.     *)
NeverThrows == \A e \in End : ~conn[e].receiver.inbound.thrown

Doing(c) == << sender_summary(c.sender), receiver_summary(c.receiver) >>
OfficialPairs == {<< o.sender, o.receiver >> : o \in Range(Official)}
SenderRank == [CLOSED |-> 1, SYN_SENT |-> 2, SYN_ACKED |-> 3, FIN_SENT |-> 4, FIN_ACKED |-> 5, ERROR |-> 6]
ReceiverRank == [LISTEN |-> 1, SYN_RECV |-> 2, FIN_RECV |-> 3, ERROR |-> 4]

(* What the sender and the receiver of a connection are doing is always     *)
(* what one of the official states says of them (tcp_state.cc), a sender    *)
(* never goes back, nor does a receiver, and only together do they fail.    *)
FollowsTheDiagram ==
  [][\A e \in End :
       LET was == Doing(conn[e])
           is == Doing(conn'[e])
       IN  /\ is \in OfficialPairs
           /\ SenderRank[was[1]] <= SenderRank[is[1]]
           /\ ReceiverRank[was[2]] <= ReceiverRank[is[2]]]_vars

(* Whatever a bounded number of losses hits, SYN, data, FIN or an ACK: each *)
(* application eventually reads the whole stream of its peer.               *)
EveryByteArrives ==
  \A e \in End : <>(/\ inbound_eof(conn[e].receiver)
                     /\ conn[e].receiver.inbound.bytes_read = AppBytes[Peer(e)])

(* Both ends eventually stop being active: retransmission, backoff, linger  *)
(* and the retry limit all come to an end (tick, active).                   *)
BothEndsStop == <>[](\A e \in End : ~active(conn[e]))
=============================================================================
