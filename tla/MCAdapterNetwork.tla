-------------------------- MODULE MCAdapterNetwork --------------------------
EXTENDS AdapterNetwork

MCClients == [udp |-> {"client1", "client2"}, tun |-> {"client1", "client2"}, tap |-> {"client1"}]
MCIP == "server" :> << 2560, 1 >> @@ "client1" :> << 2560, 258 >> @@ "client2" :> << 2561, 515 >>
MCPort == "server" :> 8080 @@ "client1" :> 40000 @@ "client2" :> 513
MCMAC == "server" :> << 2, 0, 0, 0, 0, 1 >> @@ "client1" :> << 2, 0, 0, 0, 0, 2 >>
           @@ "client2" :> << 2, 255, 1, 0, 7, 3 >>
MCNextHop == "server" :> "client1" @@ "client1" :> "server" @@ "client2" :> "server"
MCBroadcast == << 255, 255, 255, 255, 255, 255 >>

Header(seqno, ackno, win) ==
  [NewTCPHeader EXCEPT !.seqno = seqno, !.ackno = ackno, !.win = win]

(* A SYN, a segment with an odd payload, a FIN with an even one, a reset. *)
MCSegments ==
  {[header |-> [Header(<< 65535, 4660 >>, << 0, 0 >>, 64000) EXCEPT !.syn = TRUE], payload |-> << >>],
   [header |-> [Header(<< 1, 2 >>, << 3, 65535 >>, 255) EXCEPT !.ack = TRUE], payload |-> << 97 >>],
   [header |-> [Header(<< 0, 256 >>, << 513, 0 >>, 0) EXCEPT !.ack = TRUE, !.fin = TRUE],
    payload |-> << 0, 255 >>],
   [header |-> [Header(<< 9, 9 >>, << 9, 8 >>, 65535) EXCEPT !.syn = TRUE, !.rst = TRUE], payload |-> << >>]}

MCDamagedWords == {0, 1, 6, 2560, 8080, 17920, 20482, 65535}
=============================================================================
