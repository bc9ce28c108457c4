----------------------------- MODULE TCPProgram ------------------------------
(***************************************************************************)
(* One end of TCPNetwork as the programs in apps/ run it (tcp_ipv4.cc,      *)
(* tcp_udp.cc, tcp_ip_ethernet.cc): the owner's thread connects or listens, *)
(* starts the TCP thread, copies stdin and stdout, waits until the socket   *)
(* is closed, and returns.  The two threads share the pair of local sockets *)
(* and _abort.  A step of a thread is one poll, one callback, or the tick   *)
(* at the end of a turn of _tcp_loop.  The other end takes the steps of     *)
(* TCPNetwork.                                                              *)
(***************************************************************************)
EXTENDS TCPNetwork, TCPSpongeSocket, StreamCopy

CONSTANTS
  Mine,       \* the ends the program may be: "A" connects, "B" listens
  Failures    \* bound: exceptions in the owner's copying

VARIABLES
  me,         \* the end this program is
  owner,      \* the owner's thread: start, connecting, copying, closing, joining,
              \* aborting or returned
  thread,     \* _tcp_thread: "none", "running" or "ended"
  sock,       \* the TCPSpongeSocket: flags, _abort, _eventloop's rules, whether it is in a
              \* turn of _tcp_loop, polled rules to do
  pair,       \* the local sockets
  copy,       \* bidirectional_stream_copy: streams, flags, rules, to do, stdin, stdout
  failed      \* what ended the process, or "none"

programVars == << me, owner, thread, sock, pair, copy, failed >>
allVars == << vars, programVars >>

Socket == INSTANCE EventLoop WITH
  In <- SocketIn, fd_eof <- socket_eof, fd_closed <- socket_closed,
  interest <- socket_interest, cancel <- socket_cancel, callback <- socket_callback,
  fd_ready <- socket_ready, fd_hung_up <- socket_hung_up
Copier == INSTANCE EventLoop WITH
  In <- CopyIn, fd_eof <- copy_eof, fd_closed <- copy_closed,
  interest <- copy_interest, cancel <- copy_cancel, callback <- copy_callback,
  fd_ready <- copy_ready, fd_hung_up <- copy_hung_up

Positions(n) == [i \in 1..n |-> i]

ProgramInit ==
  /\ Init
  /\ me \in Mine
  /\ owner = "start" /\ thread = "none" /\ failed = "none"
  /\ sock = [eof |-> FALSE, outbound_shutdown |-> FALSE, inbound_shutdown |-> FALSE,
             abort |-> FALSE, rules |-> SocketRules, in_turn |-> FALSE, to_do |-> << >>]
  /\ pair = NewPair
  /\ copy = NewCopy @@ [rules |-> CopyRules, to_do |-> << >>, stdout |-> << >>,
                        stdin |-> [data |-> Positions(AppBytes[me]), shut |-> TRUE]]

you == Peer(me)
-----------------------------------------------------------------------------
(* What a thread sees, and what is left when it is done with it. *)
SocketView ==
  sock @@ [tcp |-> conn[me], pair |-> pair, arriving |-> net[me], sent |-> << >>,
           failed |-> failed]
SocketLeaves(w) ==
  /\ conn' = [conn EXCEPT ![me] = w.tcp]
  /\ net' = [net EXCEPT ![me] = w.arriving, ![you] = @ \o w.sent]
  /\ sock' = [f \in DOMAIN sock |-> w[f]]
  /\ pair' = w.pair /\ failed' = w.failed
CopyView == copy @@ [pair |-> pair, failed |-> failed]
CopyLeaves(v) ==
  copy' = [f \in DOMAIN copy |-> v[f]] /\ pair' = v.pair /\ failed' = v.failed

Handshaking(c) ==
  IF me = "A" THEN state(c) = Official.SYN_SENT
  ELSE state(c) \in {Official.LISTEN, Official.SYN_RCVD, Official.SYN_SENT}

(* Who runs _tcp_loop: the owner during connect and listen_and_accept, then *)
(* the TCP thread.  The condition is tested between two turns only.         *)
Looping ==
  /\ failed = "none"
  /\ \/ thread = "running"
     \/ owner = "connecting" /\ (sock.in_turn \/ Handshaking(conn[me]))
AtPoll == Looping /\ ~sock.in_turn
SocketPolled == Socket!set_up(SocketView)
CopyPolled == Copier!set_up(CopyView)
SocketWakes == Socket!polls(SocketPolled).to_do # << >>
CopyWakes == Copier!polls(CopyPolled).to_do # << >>

Copying == failed = "none" /\ owner = "copying"

(* Nothing is on the way and neither thread has anything to do. *)
Idle ==
  /\ Settled
  /\ CASE thread = "none" -> owner = "connecting" /\ Looping
       [] thread = "running" -> ~sock.abort /\ ~Socket!exits(SocketPolled)
       [] OTHER -> owner \in {"copying", "returned"}
  /\ Looping => ~sock.in_turn /\ ~SocketWakes
  /\ Copying => copy.to_do = << >> /\ ~CopyWakes /\ ~Copier!exits(CopyPolled)
  /\ owner # "closing"

(* tick(next_time - base_time) at the end of a turn of _tcp_loop. *)
Ticked(w, ms) == IF active(w.tcp) THEN [w EXCEPT !.tcp = connection_tick(@, ms)] ELSE w
-----------------------------------------------------------------------------
(* connect(): the SYN is queued and the owner's thread enters _tcp_loop;    *)
(* listen_and_accept() only enters it.                                      *)
Start ==
  /\ owner = "start"
  /\ owner' = "connecting"
  /\ LET c == IF me = "A" THEN connect(conn[me]) ELSE conn[me] IN
       /\ conn' = [conn EXCEPT ![me] = c]
       /\ failed' = IF Handshaking(c) THEN "none" ELSE "exception"
  /\ UNCHANGED << net, faults, ahead, me, thread, sock, pair, copy >>

(* The condition of _tcp_loop no longer holds: the TCP thread is started. *)
CanLeaveHandshake ==
  failed = "none" /\ owner = "connecting" /\ ~Handshaking(conn[me]) /\ ~sock.in_turn
Connected ==
  /\ CanLeaveHandshake
  /\ owner' = "copying" /\ thread' = "running"
  /\ UNCHANGED << vars, me, sock, pair, copy, failed >>

(* wait_next_event finds rules to act on. *)
SocketPoll ==
  /\ AtPoll /\ SocketWakes
  /\ SocketLeaves([Socket!polls(SocketPolled) EXCEPT !.in_turn = TRUE])
  /\ UNCHANGED << faults, ahead, me, owner, thread, copy >>

(* A millisecond passes on this end's clock. *)
TimePasses == Ticking(me) /\ (Patient => Idle /\ (ahead = me => ~Ticking(you)))
Elapses(ms) ==
  /\ ms = 1 => TimePasses
  /\ ahead' = IF ms = 0 THEN ahead ELSE IF ~Patient \/ ahead = you THEN "none" ELSE me

(* poll times out, or returns for a placeholder's hangup only. *)
CanWait == AtPoll /\ ~Socket!exits(SocketPolled) /\ ~SocketWakes /\ ~sock.abort
SocketIdle(ms) ==
  /\ CanWait /\ Elapses(ms)
  /\ SocketLeaves(Ticked(SocketPolled.w, ms))
  /\ UNCHANGED << faults, me, owner, thread, copy >>

(* The next of the polled rules. *)
SocketServe(rule) ==
  /\ Looping /\ sock.to_do # << >> /\ rule = Head(sock.to_do).rule
  /\ \E w \in Socket!serves(SocketView) :
       /\ SocketLeaves(w)
       /\ faults' = [faults EXCEPT
            !.stale = CASE rule = "adapter_in" -> @ \cup {e \in {me} : CutShort(e, w.tcp)}
                        [] rule = "data_in" -> @ \ {me}
                        [] OTHER -> @]
  /\ UNCHANGED << ahead, me, owner, thread, copy >>

(* All are served: tick, unless _abort breaks the loop. *)
SocketTick(ms) ==
  /\ Looping /\ sock.in_turn /\ sock.to_do = << >> /\ ~sock.abort
  /\ Elapses(ms)
  /\ SocketLeaves([Ticked(SocketView, ms) EXCEPT !.in_turn = FALSE])
  /\ UNCHANGED << faults, me, owner, thread, copy >>

(* The end of _tcp_main: the local sockets are shut and the TCPConnection   *)
(* is destroyed with what it had queued.                                    *)
LoopIsOver ==
  /\ thread = "running" /\ failed = "none" /\ sock.to_do = << >>
  /\ sock.abort \/ (~sock.in_turn /\ Socket!exits(SocketPolled))
ThreadEnds ==
  /\ LoopIsOver
  /\ thread' = "ended"
  /\ pair' = shutdown_both(pair)
  /\ conn' = [conn EXCEPT ![me] = [destroy(@) EXCEPT !.segments_out = conn[me].segments_out]]
  /\ faults' = [faults EXCEPT !.aborted = @ \cup {e \in {me} : active(conn[e])}]
  /\ UNCHANGED << net, ahead, me, owner, sock, copy, failed >>
-----------------------------------------------------------------------------
CopyPoll ==
  /\ Copying /\ copy.to_do = << >> /\ CopyWakes
  /\ CopyLeaves(Copier!polls(CopyPolled))
  /\ UNCHANGED << vars, me, owner, thread, sock >>

CopyServe(rule) ==
  /\ Copying /\ copy.to_do # << >> /\ rule = Head(copy.to_do).rule
  /\ \E v \in Copier!serves(CopyView) : CopyLeaves(v)
  /\ UNCHANGED << vars, me, owner, thread, sock >>

(* Nothing left to poll: bidirectional_stream_copy returns. *)
CopyReturns ==
  /\ Copying /\ copy.to_do = << >> /\ Copier!exits(CopyPolled)
  /\ owner' = "closing"
  /\ CopyLeaves(CopyPolled.w)
  /\ UNCHANGED << vars, me, thread, sock >>

(* stdin or stdout fails, in poll or in its callback: the exception unwinds *)
(* main, the copier's streams are gone, and ~TCPSpongeSocket sets _abort.   *)
CopyThrows ==
  /\ Copying /\ Failures > 0
  /\ copy.to_do # << >> => Head(copy.to_do).rule \in {"stdin", "stdout"}
  /\ owner' = "aborting" /\ sock' = [sock EXCEPT !.abort = TRUE]
  /\ copy' = NewCopy @@ [copy EXCEPT !.rules = << >>, !.to_do = << >>]
  /\ UNCHANGED << vars, me, thread, pair, failed >>

WaitUntilClosed ==
  /\ owner = "closing" /\ failed = "none"
  /\ owner' = "joining" /\ pair' = shutdown_both(pair)
  /\ UNCHANGED << vars, me, thread, sock, copy, failed >>

Join ==
  /\ owner \in {"joining", "aborting"} /\ thread = "ended"
  /\ owner' = "returned"
  /\ UNCHANGED << vars, me, thread, sock, pair, copy, failed >>

(* A segment for a connection that is no longer there. *)
Vanish ==
  /\ thread = "ended" /\ Deliver(me, 1)
  /\ UNCHANGED programVars

(* The peer's calls; its application writes and reads all it can at once. *)
YourCalls ==
  /\ \/ you = "A" /\ Connect
     \/ Writable(you) > 0 /\ Write(you, Writable(you))
     \/ EndInput(you)
     \/ Read(you, Unread(you))
     \/ (Patient => Idle) /\ Tick(you)
     \/ Turn(you)
  /\ UNCHANGED programVars

YourSegments ==
  /\ Deliver(you, 1) \/ \E n \in 0..AppBytes[you] : Straggle(you, n)
  /\ UNCHANGED programVars

MySocket ==
  \/ Start \/ Connected \/ SocketPoll \/ ThreadEnds \/ Vanish
  \/ \E ms \in {0, 1} : SocketIdle(ms) \/ SocketTick(ms)
  \/ \E rule \in ToSet(SocketRules) : SocketServe(rule)
MyCopy ==
  \/ CopyPoll \/ CopyReturns
  \/ \E rule \in ToSet(CopyRules) : CopyServe(rule)

ProgramNext ==
  MySocket \/ MyCopy \/ CopyThrows \/ WaitUntilClosed \/ Join \/ YourCalls \/ YourSegments

ProgramSpec == ProgramInit /\ [][ProgramNext]_allVars

(* The TCP thread's loop turns, every TCP_TICK_MS at the latest; the owner  *)
(* is scheduled; the peer's program is fair in the same way, and what the   *)
(* network does not lose arrives.  All of it is weak fairness: where it is  *)
(* not written WF, the state predicate says that the step is enabled.       *)
SocketCanStep ==
  \/ owner = "start" \/ CanLeaveHandshake \/ LoopIsOver
  \/ Looping /\ (sock.in_turn \/ SocketWakes)
  \/ CanWait /\ TimePasses
CopyCanStep == Copying /\ (copy.to_do # << >> \/ CopyWakes \/ Copier!exits(CopyPolled))
YouCanStep ==
  \/ you = "A" /\ CanConnect
  \/ CanSend(you) /\ Writable(you) > 0
  \/ CanEnd(you) \/ CanRead(you)
  \/ (Patient => Idle) /\ CanTick(you)
ProgramFairness ==
  /\ WF_allVars(WaitUntilClosed) /\ WF_allVars(Join)
  /\ []<>(~CopyCanStep) \/ []<><<MyCopy>>_allVars
  /\ []<>(~SocketCanStep) \/ []<><<MySocket>>_allVars
  /\ []<>(~YouCanStep) \/ []<><<YourCalls>>_allVars
  /\ []<>(~CanDeliver(you)) \/ []<><<Deliver(you, 1)>>_vars
  /\ []<>(thread # "ended" \/ ~CanDeliver(me)) \/ []<><<Vanish>>_vars

ProgramFairSpec == ProgramSpec /\ ProgramFairness
-----------------------------------------------------------------------------
(* The bytes in a stream of the copier. *)
Held(s) == BS!concatenate(s.buffer)

(* Every byte typed is in exactly one place, in order, on its way from      *)
(* stdin over the copier and the local socket to the TCPConnection; every   *)
(* byte the TCPConnection has assembled is in one place on its way to       *)
(* stdout (rules 2 and 3, and the four rules of the copier).                *)
BytesInOrder ==
  sock.abort \/
  LET inbound == conn[me].receiver.inbound IN
  /\ Positions(conn[me].sender.bytes_written) \o pair.up.data
       \o Held(copy.outbound) \o copy.stdin.data = Positions(AppBytes[me])
  /\ copy.stdout \o Held(copy.inbound) \o pair.down.data
       \o inbound_bytes(conn[me]) = Positions(inbound.bytes_written)

(* No callback throws: what poll found ready still is when the callback     *)
(* runs, whatever the other thread did meanwhile, rule 2 reads no more than *)
(* the TCPConnection accepts, and no rule is served in vain.  SIGPIPE ends  *)
(* the process only when the connection was reset.                          *)
FailsOnlyAfterReset ==
  failed # "none" => failed = "sigpipe" /\ conn[me].sender.error

(* When the program returns from wait_until_closed, not from an exception,  *)
(* and the connection was not reset, the peer has every byte of stdin and   *)
(* stdout has every byte of the peer.                                       *)
CleanReturnIsComplete ==
  owner = "returned" /\ ~sock.abort /\ ~conn[me].sender.error =>
    /\ conn[you].receiver.inbound.input_ended
    /\ conn[you].receiver.inbound.bytes_written = AppBytes[me]
    /\ copy.stdout = Positions(AppBytes[you])

(* The two threads do not wait for each other for ever: once connect or     *)
(* listen_and_accept has returned, the program returns or SIGPIPE ends it.  *)
ProgramEnds == owner = "copying" ~> owner = "returned" \/ failed # "none"

(* The socket, its threads and its local sockets are an end of TCPNetwork:  *)
(* what is queued in segments_out counts as sent.                           *)
Far == 9
Abstraction == INSTANCE TCPNetwork WITH
  conn <- [conn EXCEPT ![me].segments_out = << >>],
  net <- [net EXCEPT ![you] = @ \o conn[me].segments_out],
  ahead <- "none", Patient <- FALSE, MaxNet <- Far, MaxIdle <- Far
ImplementsTCPNetwork == Abstraction!Spec
=============================================================================
