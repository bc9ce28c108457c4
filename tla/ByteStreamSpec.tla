--------------------------- MODULE ByteStreamSpec ---------------------------
(***************************************************************************)
(* One ByteStream used by a writer and a reader in any order.              *)
(*                                                                         *)
(* The k-th byte the stream accepts is the number k, so that a byte lost,  *)
(* repeated or out of place is visible in every state.                     *)
(***************************************************************************)
EXTENDS Integers, Sequences

CONSTANTS
  Capacity,    \* of the stream
  MaxWrite,    \* bound: the longest string one write offers
  MaxBytes,    \* bound: no write once this many bytes were accepted
  MaxChunks    \* bound: no write while the deque holds this many Buffers

ASSUME CapacityAssumption == Capacity \in Nat

BS == INSTANCE ByteStream

VARIABLE bs

Offer(n) == [i \in 1..n |-> bs.bytes_written + i]

Init == bs = BS!New(Capacity)

Write(n) ==
  /\ bs.bytes_written < MaxBytes
  /\ Len(bs.buffer) < MaxChunks
  /\ bs' = BS!write(bs, Offer(n))

(* ByteStream::read(len) changes what pop_output(len) changes. *)
Pop(len) == bs' = BS!pop_output(bs, len)
EndInput == bs' = BS!end_input(bs)
SetError == bs' = BS!set_error(bs)

Next ==
  \/ \E n \in 0..MaxWrite : Write(n)
  \/ \E len \in 0..(Capacity + 1) : Pop(len)
  \/ EndInput
  \/ SetError

Spec == Init /\ [][Next]_bs
-----------------------------------------------------------------------------
(* The deque of chunks holds exactly the bytes between the two counters, in *)
(* order: a write that is cut at the capacity and a pop that ends inside a  *)
(* chunk or in front of an empty one neither lose, repeat nor reorder a     *)
(* byte (byte_stream.cc write and pop_output, buffer.cc remove_prefix).     *)
(* They never exceed the capacity: the unsigned remaining_capacity() does   *)
(* not wrap.                                                                *)
BufferHoldsTheUnreadBytes ==
  /\ BS!buffer_size(bs) \in 0..Capacity
  /\ BS!concatenate(bs.buffer) = [i \in 1..BS!buffer_size(bs) |-> bs.bytes_read + i]

(* peek_output(len) returns the next min(len, buffer_size()) unread bytes,  *)
(* whatever chunks they are spread over (byte_stream.cc peek_output).       *)
PeekReturnsTheNextBytes ==
  \A len \in 0..(Capacity + 1) :
    BS!peek_output(bs, len)
      = [i \in 1..BS!Smaller(len, BS!buffer_size(bs)) |-> bs.bytes_read + i]
=============================================================================
