------------------------ MODULE MCStreamReassembler -------------------------
EXTENDS StreamReassemblerSpec

CONSTANT StreamLength   \* bound: the length of the stream

MCByte == 1..StreamLength

(* All bytes differ, so that a byte in the wrong place is noticed. *)
MCStream == [i \in 1..StreamLength |-> i]
=============================================================================
