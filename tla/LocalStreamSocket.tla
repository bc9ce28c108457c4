-------------------------- MODULE LocalStreamSocket --------------------------
(***************************************************************************)
(* The pair of connected AF_UNIX stream sockets of a TCPSpongeSocket, and   *)
(* what FileDescriptor and Socket (util/file_descriptor.cc, util/socket.cc) *)
(* do with them.  Either direction is the bytes in it and whether it was    *)
(* shut, by SHUT_WR at one end or SHUT_RD at the other.  `up` leads from    *)
(* the owner to the TCP thread, `down` back.                                *)
(***************************************************************************)
EXTENDS Integers, Sequences

CONSTANT PipeRoom   \* bytes the kernel takes before a direction is full

ASSUME PipeAssumption == PipeRoom \in Nat \ {0}

(* socket_pair_helper *)
NewPair == [up   |-> [data |-> << >>, shut |-> FALSE],
            down |-> [data |-> << >>, shut |-> FALSE]]

(* POLLIN, POLLOUT and POLLHUP of an AF_UNIX stream socket: POLLOUT does    *)
(* not depend on shutdown, POLLHUP needs both directions shut.              *)
readable(pipe) == pipe.data # << >> \/ pipe.shut
writable(pipe) == Len(pipe.data) < PipeRoom
hung_up(pair) == pair.up.shut /\ pair.down.shut

(* FileDescriptor::read(limit), which also notes the end of file. *)
read_size(pipe, limit) == IF limit < Len(pipe.data) THEN limit ELSE Len(pipe.data)
fd_read(pipe, limit) ==
  [got  |-> SubSeq(pipe.data, 1, read_size(pipe, limit)),
   left |-> [pipe EXCEPT !.data = SubSeq(@, read_size(pipe, limit) + 1, Len(@))],
   eof  |-> limit > 0 /\ pipe.data = << >>]

(* A read that finds nothing fails: the descriptors do not block. *)
read_error(pipe, limit) == IF limit > 0 /\ ~readable(pipe) THEN "exception" ELSE "none"

(* FileDescriptor::write(bytes, false).  Writing to a direction that is     *)
(* shut raises SIGPIPE, which nothing handles; a full one throws; otherwise *)
(* the kernel takes some of the bytes.                                      *)
write_error(pipe, bytes) ==
  CASE bytes = << >> -> "none"
    [] bytes # << >> /\ pipe.shut -> "sigpipe"
    [] bytes # << >> /\ ~pipe.shut /\ ~writable(pipe) -> "exception"
    [] OTHER -> "none"
write_sizes(pipe, bytes) ==
  IF bytes = << >> \/ write_error(pipe, bytes) # "none" THEN {0}
  ELSE {n \in 1..Len(bytes) : Len(pipe.data) + n <= PipeRoom}
fd_write(pipe, bytes, n) == [pipe EXCEPT !.data = @ \o SubSeq(bytes, 1, n)]

(* Socket::shutdown with SHUT_WR on one direction; SHUT_RDWR on the pair. *)
shutdown(pipe) == [pipe EXCEPT !.shut = TRUE]
shutdown_both(pair) == [up |-> shutdown(pair.up), down |-> shutdown(pair.down)]
=============================================================================
