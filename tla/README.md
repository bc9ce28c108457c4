# Specifications of sponge

TLA+ specifications of sponge, a user-space TCP/IP stack in C++ (`src/libsponge`):
byte streams, reassembly, the TCP sender, receiver and connection, the socket that runs
them in a thread with its event loop, the program around it, the datagram adapters with
their wire formats, the network interface with ARP, and the IP router. TLC checks them
on small instances; the proofs of the sender, the stream reassembler, the wrapping
sequence numbers and the Internet checksum are checked by TLAPS for every value of
their constants. `PROJECT.json` lists the runs, the theorems, the source lines behind
each definition, and the hazards.

    tlc -config NetworkLossy.cfg MCTCPNetwork      # one run
    tlapm StreamReassemblerProofs.tla              # one module's proofs

## The system

A `TCPConnection` owns a `TCPSender` and a `TCPReceiver`. The sender reads the
application's outgoing `ByteStream` and cuts it into segments that fit the peer's
window; the receiver feeds a `StreamReassembler`, which writes the inbound
`ByteStream`. Sequence numbers on the wire are `WrappingInt32`; each end unwraps
them against what it has acknowledged or assembled so far. A `TCPSpongeSocket`
runs the connection in a thread of its own: an `EventLoop` with four rules
(datagram to connection, application to connection, connection to application,
connection to datagram), and `tick` after every turn. The application has the other end
of a pair of local sockets; in the programs of `apps/` it is
`bidirectional_stream_copy`, with an event loop of its own between stdin, stdout and the
socket. Below, an adapter carries the segments over UDP, a TUN device, or a
`NetworkInterface`, which puts IP datagrams into Ethernet frames and resolves next hops
by ARP. A `Router` is a set of such interfaces, a trie of routes and a loop that forwards
what the interfaces receive.

| Part of the code | Modelled in | State of the work |
|---|---|---|
| `ByteStream`, `Buffer`, `BufferList` | ByteStream, ByteStreamSpec | every operation; `BufferViewList` left out |
| `StreamReassembler` | StreamReassembler, StreamReassemblerSpec, Reassembly, ReassemblySpec | every operation, abstract specification, proofs |
| `WrappingInt32` | WrappingIntegers, WrappingIntegersSpec | every operation, proofs |
| `TCPSender`, `Timer` | TCPSender, TCPSenderSpec | every operation, proofs |
| `TCPReceiver` | TCPReceiver | every operation, checked through TCPNetwork |
| `TCPConnection` | TCPConnection, TCPNetwork | every operation, checked in pairs |
| `TCPState` | TCPState | every state; its succession checked in TCPNetwork |
| `TCPSpongeSocket` | TCPSpongeSocket, TCPProgram | both threads, every operation |
| `EventLoop` | EventLoop | `wait_next_event`; not EINTR and POLLERR |
| `FileDescriptor`, `Socket` | LocalStreamSocket | what the local sockets need |
| `bidirectional_stream_copy`, `main` of the programs | StreamCopy, TCPProgram | the copier; connect, copy, close, return |
| UDP, TUN, TAP and lossy adapters | FdAdapter, AdapterNetwork | every operation |
| `TCPSegment`, `TCPHeader`, `IPv4Header`, `IPv4Datagram`, `EthernetFrame`, `ARPMessage` | TCPSegment, IPv4Datagram, EthernetCodec | parse and serialize |
| `NetParser`, `NetUnparser`, `InternetChecksum` | NetParser | every operation, proofs about the checksum |
| `NetworkInterface` | NetworkInterface, NetworkInterfaceSpec | every operation |
| `Router`, `Trie` | Router, RouteTable, RouterNetwork | every operation |
| `network_simulator` | RouterNetwork | hosts and exchange of frames |
| `Address`, `Tun`, argument parsing, printing | - | wrappers of system calls, no protocol state |

## How the modules are written

A C++ class is a module of operators on a record: the fields of the record are the
data members, and a method is an operator from the record before a call to the
record after it, with everything the method calls. `TCPConnection` calls
`TCPSender` and `TCPReceiver` the same way in TLA+ as in C++. The `...Spec` and
`...Network` modules add VARIABLES, one action per call, and the properties; the
`MC...` modules give values to constants that a cfg cannot write. Names follow the
code, without the leading underscore of members; a name is prefixed where two
classes share one (`interface_tick`, `connection_tick`).

- **Bytes.** In ByteStreamSpec and StreamReassemblerSpec a byte is a value, so that
  one in the wrong place is seen. In the TCP modules a payload is its position
  `from` in the sender's stream and its length: two ends agree on a byte when they
  agree on its position (`BytesArriveInPlace`). TCPReceiver then uses Reassembly,
  the abstract form of the reassembler, which StreamReassemblerSpec implements.
- **Loops** such as the segment builder of `fill_window`, the popping of
  acknowledged segments and the merging of intervals are written as what they
  compute (`pieces`, `first_unacked`, `prefix_overlap`).
- **Wire formats.** In FdAdapter and below, everything on the link is a sequence of
  bytes, and `parse` and `serialize` are what the code does to them, in the order of its
  tests. A 32-bit field is the pair of its 16-bit words, since TLC's integers end at 2^31.
- **Widths.** Raw sequence numbers are modulo `2 * Half` (2^32 in the code; 16 in
  the TCP runs, with initial numbers that make them wrap). The unsigned
  subtractions of the window in `fill_window` wrap at `SizeMod`, far above any
  number a run reaches, as 2^64 is. Absolute numbers are naturals.
- **Build.** Assertions are off, as in the default (Release) build. An exception
  that leaves `push_substring` is a state (`thrown`), after which that end takes
  no step.

### Modules, state and actions

**ByteStreamSpec**: `bs`, one stream. `Write`, `Pop`, `EndInput`, `SetError` are the
writer's and the reader's calls; the deque of chunks with its empty chunks is kept.

**StreamReassemblerSpec**: `r`, one reassembler, and `thrown`. `Push` is
`push_substring` with any substring the peer may send: overlapping, repeated, empty,
with the eof flag where the stream ends. `Read` is the application's `pop_output`.
**ReassemblySpec** is what it promises: a set of held positions and an output that
grows as far as they are contiguous.

**WrappingIntegersSpec** has no state: it is the definition of what `unwrap` returns,
which TCPSenderSpec and the proofs refer to.

**TCPSenderSpec**: `snd`, one sender. `Connect`, `Write`, `EndInput`, `AckReceived`,
`Tick` are the sequences of calls `TCPConnection` makes. The peer is any that
acknowledges only what was sent and never moves the right edge of its window back.

**TCPNetwork**: `conn`, the two connections; `net`, the segments on the way to
each end; `faults`; and `ahead`, for clocks of one rate. `Connect`, `Write`,
`EndInput`, `Read`, `Deliver`, `Tick` are the calls of the event loop's rules, each
followed by the draining of `segments_out`; `Abort` is the destructor of an active
connection; `Lose`, `Duplicate`, and `Deliver` of a segment that is not the oldest,
are the network. `Straggle` is rule 2 when it was found ready in the same poll as
rule 1 and rule 1 received a RST: it writes to a connection that is already reset.
`Turn` is a turn of the loop in which no time passes.

**TCPProgram** is one end of TCPNetwork as a program: `me`, which end; `owner` and
`thread`, where its two threads are; `sock`, the socket with the rules of its event loop,
whether it is in a turn of `_tcp_loop`, and the polled rules still to serve; `pair`, the local sockets; `copy`, the copier with
its streams, rules, stdin and stdout; `failed`, what ended the process. A step of a
thread is one poll (`SocketPoll`, `CopyPoll`), one callback (`SocketServe`, `CopyServe`),
the tick that ends a turn (`SocketTick`; `SocketIdle` is a turn without callbacks),
or one call between loops (`Start`, `Connected`, `ThreadEnds`, `CopyReturns`,
`WaitUntilClosed`, `Join`), so that the other thread and the peer act between poll and
callback, between callbacks and before the tick. The conditions of `connect` and
`listen_and_accept` are tested between turns, as `while (condition())` does; `_abort` is
tested before the tick. `CopyThrows` is an exception in the owner, which sets
`_abort`. EventLoop is instantiated twice, with the rules of TCPSpongeSocket and of
StreamCopy as its operators. The other end takes the steps of TCPNetwork.

**AdapterNetwork**: `adapter`, one per host and all of a kind; `link`, packets of bytes;
`written`, `writes`, `faults`, `last`. `Write` and `Arrive` are the adapter's `write` and
`read`, which LossyFdAdapter may drop; `Tick` is the TAP adapter's. `Damage` changes a
word, `Cut` shortens a packet.

**NetworkInterfaceSpec**: `nic`, the interface of each host; `wire`, the frames on
one Ethernet; `sent`, `got`, `lost` and `asked`, what happened so far. `Send` and
`Tick` are `send_datagram` and `tick`; `Deliver` and `Damage` are `recv_frame` at
every other host, of a frame that parses and of one that does not; `Lose` is the wire.

**RouteTable**: `router`, and `routes`, the arguments of its `add_route` calls.

**RouterNetwork**: `node`, the routers and hosts; `wire`, the frames on each segment;
`sent`, `received`, `dropped`. `Send` and `Check` are the simulator's
`Host::send_to` and `Host::check`; `Route` is `Router::route`; `Deliver` is
`AsyncNetworkInterface::recv_frame` at every interface on the segment.

## The runs

| Run | Instance | What it checks |
|---|---|---|
| byte_stream | capacity 3, up to 6 bytes, 4 chunks | the chunks hold exactly the unread bytes; peek returns the next ones |
| reassembler | stream of 6, capacity 4 | output is the stream, segments disjoint and in the window, each byte counted once, the end exact; implements ReassemblySpec |
| sender | 4 bytes, window to 3, segments of 2, 2 retries, one isn whose numbers wrap | pending queue, numbers, window, timer and backoff agree; `unwrap` returns the closest number, for every raw number and checkpoints over three periods (for every isn: `AcknoIsClosest`, `UnwrapClosest`) |
| network_lossy | 3 bytes one way, window 2, one loss, one duplicate | window respected, a stream ends after its last byte, one end lingers, no exception; under fairness every byte is read and both ends stop |
| network_adverse | 3 bytes from the listener, window 2, one reordering, one abort, timers at any time | bytes in place, ACKs never ahead of the receiver, clean closes complete, states follow the TCP diagram, with spurious retransmissions and resets |
| program | 2 bytes in segments of 2 over local sockets and streams of 1, an abort, an exception, either end | each byte in one place from stdin to the connection and back, no callback throws, a clean return is complete, the program ends, and it implements TCPNetwork |
| adapters | UDP and TUN with two clients, TAP with one; 4 segments, 2 writes, 1 damage or cut | what is read was written by the peer, unchanged; what the peer wrote is read; a TAP adapter keeps a segment only while it waits for an address, and its ARP entries are true |
| interface_lossy | 2 hosts and an address of nobody, one loss or damage | each datagram in one place, ARP cache fresh and true, requests spaced |
| route_table | 3-bit addresses, 3 routes | the trie finds the longest match |
| router_network | 2 hosts, 2 routers, a loop of default routes | datagrams once, to the right host, ttl lowered per router, every one settles |
| network_overrun | 5 bytes, window 2, one duplicate, one reordering | **violated**: an overrun of the window, and an exception in the peer |
| network_linger | 1 byte back, one loss | **violated**: an end that should linger stops at once |

**Bounds.** Each is a named constant. They are the smallest that make the hard cases
happen: streams longer than the window, so that it closes and opens; segments shorter
than the window, so that several are in flight; initial sequence numbers whose raw
values wrap during a run; three bytes, so that a retransmission arrives behind the
receiver's checkpoint; checkpoints that span three periods; a retry limit that
is reached in network_adverse and program; local sockets and streams of the copier with
room for one byte, so that each of them fills while another empties; a segment with an odd and one
with an even payload, and damaged words that turn one length, address, port or protocol
into another; a time to live at and above the distance, and a loop of routes; three
routes, so that one node of the trie lies between two others. `MaxNet` and `MaxIdle`
keep the network's queues and the clock of an idle end finite: a connection is not
called while its peer has `MaxNet` segments to receive, and an idle clock stops while
no timer runs.

**Timing.** With `Patient` TRUE a tick only happens when everything on the way has
arrived and been read: the timeouts are longer than a round trip, and losses are what
causes retransmissions. With `Patient` FALSE the ends' clocks are independent and timeouts
race late answers: in network_adverse an active end may tick at any time; in program the
program's clock advances, or does not, at the end of each turn of its event loop, and the
peer's at any time.

**Deadlock** is allowed (`CHECK_DEADLOCK FALSE`) where the system really stops: both
connections have closed or reset, the program has returned, the datagrams, segments or
routes of a run are used up, an exception has ended the reassembler. The ByteStream
and the sender can always be called again, and are checked for deadlock.

**Fairness** (network_lossy, router_network, program). `Connect`, `Write`, `EndInput` and
`Read` are fair: the applications write, close and read. `Tick` is fair: the event
loop turns at least every `TCP_TICK_MS` and ticks. `Deliver` of the oldest segment is
fair: what is not lost arrives. Losing, duplicating and aborting are not. In TCPProgram
each of the two threads, the peer and the network is weakly fair, as a scheduler makes
them; which rule a thread serves is not a choice. In
RouterNetwork the simulator's loop calls `route`, the exchange of frames and `check`
over and over. All of it is weak fairness; where it is not written `WF_`, the guard of
the action stands for ENABLED, `[]<>(~guard) \/ []<><<A>>_vars`: each guarded action
changes the state. network_lossy bounds losses by one, and the retry limit by two; as many losses in a
row as retries make the connection reset, as it should.

**Refinement.** Two specifications are implemented. StreamReassemblerSpec implements
ReassemblySpec, with the stored intervals as the set of their positions. TCPProgram
implements TCPNetwork with `segments_out` of its connection already on the network:
each callback and each tick is a call of TCPNetwork or a stutter, so that a safety property
of TCPNetwork, whose applications call a connection directly, is one of the threads,
the event loops and the local sockets over the same network. The instance checked has no
loss, duplication or reordering. This is how `Straggle` and `Turn` were found to be
steps of TCPNetwork.

## What is proved

`TCPSenderProofs`, for every payload size, capacity, initial number, number space and
window that fits in a quarter of it, every application and every correct peer:

- `StaysInStep` (`SeqnoInStep`), `KeepsTheFlight` (`PendingIsTheFlight`),
  `StaysInPeerWindow` (`WithinWindow`), `TimerIsRight` (`TimerRunsIffPending`) and
  `BackoffStaysBounded` (`BackoffIsBounded`), all from `Invariance`, and
  `AcknoIsClosest` (`UnwrapIsClosest`).

The inductive invariant `Good` says that the sender has its fields (`Senders`), that the
numbers are in step with the bytes taken from the stream (`Counted`), that
`_next_seqno` lies in the window (`Windowed`), that the pending segments are a run
without gap or overlap that ends at `_next_seqno`, the first of them not wholly
acknowledged (`Flight`), and that the timer runs while there are any (`Timed`). The
properties alone are not inductive. `ack_received` pops the segments that end at or
below the ackno, and it reads the segments' raw numbers: that what remains is again a run
which starts at or before the new left edge needs that each raw number unwraps to the
absolute one (`UnwrapExact`, from the window's bound by half the number space), and that
the run is in order, so that the popped segments are a prefix of it (`RunSuffix`). For
`fill_window`, `PiecesRun` shows that the segments the builder's loop cuts are a run,
`PieceFacts` that they add up to what the window and the stream allow, and `RunConcat`
appends them to the pending ones. `StreamKeeps`, `AckKeeps` and `TickKeeps` are the
actions. Assumed: `SenderAssumption`, `SpecAssumption` (among it that the window is
less than a quarter of the number space: 2^16 of 2^32 in the code), `HalfAssumption`.
What is proved is for the peer of TCPSenderSpec: network_overrun is what happens with
one whose right edge seems to move back.

`StreamReassemblerProofs`, for every stream, every capacity above zero, every
order of substrings and reads:

- `WritesTheStream` (`OutputIsPrefix`), `NeverOverlaps`
  (`SegmentsDisjoint`), `StaysInWindow` (`SegmentsInWindow`), `EndsCorrectly`
  (`EndsOnlyAtTheEnd`) and `TypeCorrect`, all from `Invariance`.

The inductive invariant `Inv` says of the record that it has its fields (`IsRecord`),
that the output is a prefix of the stream within the capacity (`Prefix`), that each
stored segment carries the stream's bytes in their places (`Carries`), that the
segments are disjoint and in the window (`Disjoint`, `Within`), and that the flags
agree with it (`Ends`). The properties alone are not inductive: that the output is the
stream needs `Carries` of what is stored, since output comes from the store, and
`Carries` is only kept by a push when the cut front and back of the new segment match
what is there already, which needs `Disjoint`. The lemmas follow the code: `LowerBound`,
`PrefixCut` and `SuffixCut` are the three steps of `push_interval`, which `PushInterval`
combines; `Reassemble` is the writing of the contiguous segments; `PushSubstring` and
`PopOutput` are the two calls. Assumed: `CapacityAssumption`, `StreamAssumption`.

`ReassemblyProofs`: `Refines`, that the StreamReassembler implements ReassemblySpec
(`ImplementsReassembly`), for the same streams, capacities and orders; this is what
justifies that TCPReceiver is modelled on Reassembly instead of the interval store. From
`Inv`, each push maps to the abstract push (`PushImage`) and each read to the abstract read
(`PopImage`). The heart of it is in `PushInterval`: after all the trimming and erasing, the
positions stored are those stored before and those of the new segment, because the cut
front is covered by the segment before it, the cut back by the one after it, and what
is erased lies inside the new one. `SameEnd` shows that the loop's end is the abstract one,
since only one place satisfies the definition.

`WrappingIntegersProofs`, for every even number space, isn, raw number and checkpoint:
`UnwrapClosest`, that `unwrap` returns a number that wraps to the raw one and that no
other such number is closer. It rests on the form
of `unwrap` (`UnwrapForm`: a whole number of periods above the offset from the isn, at
most half a period from the checkpoint unless it is the least such number) and on the fact that numbers with the same raw value differ by
whole periods (`WrapsOnlyInPeriods`). Assumed: `Half` is a positive natural. `unwrap`
is of natural numbers: that the 64 bits of the code suffice is not part of it.

`NetParserProofs`, for every sum a `uint32_t` holds: `ValueIsZero`, that `value()` is
zero exactly for the positive multiples of 65535; `StampedIsAccepted`, that words with
the checksum `serialize` puts into them pass the test of `parse`; `OneWordIsNoticed`,
that a change of one word does not, unless it exchanges 0 and 65535. A round of the loop
in `value()` keeps the remainder modulo 65535 (`OneRound`), and two rounds end it.

**Only model-checked:** `CountIsExact` (a sum over a set); that `add` sums the words of a packet
(recursion over its bytes); ByteStream (folds over its chunks); the connections, the
program, the adapters, the interfaces and the routers; and all liveness, which, like
ENABLED, is outside of what the prover does.

## Where the code and its comments disagree

Two are runs of their own:

- **network_overrun.** An ACK overtaken by a newer one with the same ackno and a larger
  window is accepted and pulls `_receiver_window_right` back, below `_next_seqno`.
  `_receiver_window_right - _next_seqno` in `fill_window` (`tcp_sender.cc:40`) then
  wraps, and the sender sends beyond the window; beyond the window,
  `push_substring` computes a negative length (`stream_reassembler.cc:39`), and the
  `std::length_error` leaves the event loop. `stream_reassembler.hh:73` says such bytes
  are "silently discarded", and `tests/send_extra.cc:364` that "a full window of nonzero
  size should be respected". Without reordering (network_lossy) both hold.
- **network_linger.** `active()` (`tcp_connection.cc:67`) lingers from `_time_done`,
  which only calls of the connection record. If the last thing to happen is the
  application's read of the inbound stream, none has, and the end is inactive at once;
  `tcp_connection.hh:19-20` says it is to stay active for ten timeouts.

Others seen in the source, without a run:

- `write` after `end_input` is accepted (`byte_stream.cc:16`); `byte_stream.hh:10-11`
  says the writer can then write no more.
- `assert(size() <= len)` in `util/buffer.hh:41` is false for the calls `peek_output`
  makes (`byte_stream.cc:52`) of a chunk longer than what is asked for.
- The capacity does not bound the unread and the unassembled bytes together, as
  `stream_reassembler.hh:66-67` says: the window starts at the first unassembled byte
  whatever is still unread (`stream_reassembler.cc:38`).
- `~TCPConnection` makes a RST (`tcp_connection.cc:112`), but nobody sends the segments
  of a destroyed connection; `tcp_connection.hh:100` says it sends one.
- The queue of datagrams that wait for ARP is served from its head
  (`network_interface.cc:114`): a resolved datagram behind one for a next hop that does
  not answer stays, although its reply has come (`network_interface.hh:49`).
- `router.hh:102` says an ARP reply is learned from the "target" fields; the code
  learns from the sender fields, which is what ARP wants.
- `active()` subtracts `_time_done` from a clock that `segment_received` sets to 0
  (`tcp_connection.cc:66`): when `_time_done` is above 0, a segment that arrives while
  the end lingers makes the unsigned difference huge and ends the lingering. A segment that
  finishes the streams records 0; more than 0 is recorded only by a tick that is the first
  call after the read that finished them. `TCPSpongeSocket` ticks active connections only
  and does not reach this; a direct caller that ticks regardless, such as
  `apps/tcp_benchmark.cc`, can.
- `wait_next_event` returns `Success` although no rule was triggered, which
  `eventloop.hh:44` excludes, when poll reports a hangup of a descriptor that no rule is
  interested in. After the owner has shut its socket down the TCP thread therefore spins
  until the connection is done, instead of waking every 10 ms.
- `IPv4Datagram::parse`, `TCPSegment::parse` and `EthernetFrame::parse` ignore what the
  header's `parse` returns, so that a bad header checksum, version or
  data offset below 5 is accepted, which `ipv4_header.cc:13-22` and `tcp_header.cc:9-16`
  say should be checked. `ReadsWhatThePeerWrote` shows that the TCP checksum, which
  covers the pseudo header, notices damage of the IP header on the TUN and TAP paths.
- `FailsOnlyAfterReset` allows SIGPIPE: the copier writes to the local socket after the
  TCP thread has shut it down following a reset, and the process ends by the signal,
  not by an exception that a caller could handle.
- `connect` prints "Successfully connected" when the SYN was answered by a reset
  (`tcp_sponge_socket.cc:226`): the loop ends in any state other than SYN_SENT.
- `poll` errors other than EINTR are swallowed (`eventloop.cc:100-104`), and the results
  of the failed call are then read.
- `_tcp_main` calls `shutdown` on the owner's socket (`tcp_sponge_socket.cc:261`), which
  counts a read and a write of an `FDWrapper` that the owner's thread uses at the same
  time. The counters are not atomic; the model keeps only whether a callback serviced
  its descriptor.
- `LossyFdAdapter::read` drops a segment after the adapter below has taken its peer from
  it (`lossy_fd_adapter.hh:43`).
- After the owner's exception the TCP thread leaves its loop without sending what is in
  `segments_out`, and data that rule 2 has not read yet is lost; `~TCPSpongeSocket`
  warns of an "unclean shutdown".

## Not modelled

- `Address` and `Tun` wrap system calls and have no protocol state. `FileDescriptor` and
  `Socket` are modelled as far as the local sockets use them; the kernel's UDP socket,
  TUN and TAP devices are the link of AdapterNetwork. `tcp_native` on the
  kernel's own TCP, `tcp_benchmark`, `udp_tcpdump` and `tun` have no state of their own;
  `webget` is an owner of a TCPSpongeSocket that writes a request and reads to the end
  with blocking calls, and is not modelled as one. Argument parsing and printing are left
  out.
- `wait_next_event` with EINTR and with POLLERR: no program installs a signal handler,
  and none of the modelled descriptors reports the error.
- The two threads inside one callback. The threads share the local sockets, which the
  kernel keeps consistent, and `_abort`; a callback makes one call that touches them
  (reading or writing and then, at the end of a stream, shutting down), so a step is a
  whole callback. What `FDWrapper` shares beside them is described above.
- Two programs against each other: TCPProgram has one end as a program and the other as
  an end of TCPNetwork, which the program implements. The loss, duplication and
  reordering of segments are in the network runs only: the program run has none of them,
  so its refinement is not checked there.
- The adapters below the connections: AdapterNetwork lets TCP write any of a few
  segments, since what an adapter does depends on no more than the segment's header.
- `BufferViewList` and the sharing of strings in `Buffer`, which only decide where bytes
  are stored; `to_string` and `summary` of the headers.
