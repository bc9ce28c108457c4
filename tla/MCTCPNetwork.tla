---------------------------- MODULE MCTCPNetwork -----------------------------
EXTENDS TCPNetwork

CONSTANTS IsnA, IsnB, BytesA, BytesB   \* per end

MCIsn == [e \in End |-> IF e = "A" THEN IsnA ELSE IsnB]
MCAppBytes == [e \in End |-> IF e = "A" THEN BytesA ELSE BytesB]
=============================================================================
