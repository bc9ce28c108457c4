--------------------------- MODULE ReassemblySpec ---------------------------
(***************************************************************************)
(* The abstract specification a StreamReassembler implements: each push     *)
(* adds the positions that fit in the window to those held and lets the     *)
(* output grow as far as they are contiguous.                               *)
(***************************************************************************)
EXTENDS Reassembly

CONSTANT StreamLength

VARIABLE a

Init == a = Empty

Receive(index, n, eof) == ~a.thrown /\ a' = Push(a, index, n, eof)
Read(n) == ~a.thrown /\ a' = Pop(a, n)

Next ==
  \/ \E index \in 0..(StreamLength + 1), n \in 0..StreamLength, eof \in BOOLEAN :
        /\ n > 0 => index + n <= StreamLength
        /\ eof => index + n = StreamLength
        /\ Receive(index, n, eof)
  \/ \E n \in 1..Capacity : Read(n)

Spec == Init /\ [][Next]_a
=============================================================================
