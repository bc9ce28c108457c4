------------------------------ MODULE TCPState -------------------------------
(***************************************************************************)
(* The class TCPState (tcp_state.hh, .cc): the state of a TCPConnection as  *)
(* what its sender and receiver are doing, and two bits of the connection.  *)
(* The strings of the summaries are named as the constants that hold them.  *)
(***************************************************************************)
EXTENDS TCPConnection

receiver_summary(r) ==
  CASE r.error -> "ERROR"
    [] ~r.error /\ in_listen(r) -> "LISTEN"
    [] ~r.error /\ in_syn_recv(r) -> "SYN_RECV"
    [] OTHER -> "FIN_RECV"

(* The FIN has its sequence number once next_seqno is past all bytes + SYN. *)
sender_summary(s) ==
  IF s.error THEN "ERROR"
  ELSE CASE in_closed(s) -> "CLOSED"
         [] in_syn_sent(s) -> "SYN_SENT"
         [] ~in_closed(s) /\ ~in_syn_sent(s)
              /\ (~stream_eof(s) \/ s.next_seqno < s.bytes_written + 2) -> "SYN_ACKED"
         [] OTHER -> IF bytes_in_flight(s) > 0 THEN "FIN_SENT" ELSE "FIN_ACKED"

Summary(sender, receiver, is_active, linger) ==
  [sender |-> sender, receiver |-> receiver, active |-> is_active, linger |-> linger]

(* TCPConnection::state() *)
state(c) ==
  Summary(sender_summary(c.sender), receiver_summary(c.receiver), active(c),
          active(c) /\ c.linger)

(* TCPState::TCPState(State): the official states. *)
Official ==
  [LISTEN      |-> Summary("CLOSED", "LISTEN", TRUE, TRUE),
   SYN_RCVD    |-> Summary("SYN_SENT", "SYN_RECV", TRUE, TRUE),
   SYN_SENT    |-> Summary("SYN_SENT", "LISTEN", TRUE, TRUE),
   ESTABLISHED |-> Summary("SYN_ACKED", "SYN_RECV", TRUE, TRUE),
   CLOSE_WAIT  |-> Summary("SYN_ACKED", "FIN_RECV", TRUE, FALSE),
   LAST_ACK    |-> Summary("FIN_SENT", "FIN_RECV", TRUE, FALSE),
   CLOSING     |-> Summary("FIN_SENT", "FIN_RECV", TRUE, TRUE),
   FIN_WAIT_1  |-> Summary("FIN_SENT", "SYN_RECV", TRUE, TRUE),
   FIN_WAIT_2  |-> Summary("FIN_ACKED", "SYN_RECV", TRUE, TRUE),
   TIME_WAIT   |-> Summary("FIN_ACKED", "FIN_RECV", TRUE, TRUE),
   RESET       |-> Summary("ERROR", "ERROR", FALSE, FALSE),
   CLOSED      |-> Summary("FIN_ACKED", "FIN_RECV", FALSE, FALSE)]
=============================================================================
