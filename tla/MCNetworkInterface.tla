------------------------- MODULE MCNetworkInterface -------------------------
(* Small Ethernets.  IP addresses are numbers; 9 is the address of nobody. *)
EXTENDS NetworkInterfaceSpec

MCHw(h) == 100 + h

(* Host 1 sends to its neighbour and to an address that never answers. *)
TwoHops(h) == IF h = 1 THEN {2, 9} ELSE {1}

=============================================================================
