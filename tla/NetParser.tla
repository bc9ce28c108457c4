------------------------------ MODULE NetParser ------------------------------
(***************************************************************************)
(* Numbers in network byte order and the Internet checksum (parser.cc,      *)
(* util.cc).  A buffer is a sequence of bytes; a 32-bit number is the pair  *)
(* of its 16-bit halves.                                                    *)
(***************************************************************************)
EXTENDS Integers, Sequences, FiniteSetsExt

Byte == 0..255

(* NetParser::_parse_int at an offset.  Once a number does not fit, the     *)
(* error stays set and every later number is 0; a caller's offsets only     *)
(* grow, so that each number can be judged by its own offset.               *)
u8(b, at) == IF at + 1 <= Len(b) THEN b[at + 1] ELSE 0
u16(b, at) == IF at + 2 <= Len(b) THEN 256 * b[at + 1] + b[at + 2] ELSE 0
u32(b, at) == IF at + 4 <= Len(b) THEN << u16(b, at), u16(b, at + 2) >> ELSE << 0, 0 >>

remove_prefix(b, n) == SubSeq(b, n + 1, Len(b))

(* NetUnparser::_unparse_int. *)
put_u8(val) == << val >>
put_u16(val) == << val \div 256, val % 256 >>
put_u32(val) == put_u16(val[1]) \o put_u16(val[2])

Bit(val, mask) == (val \div mask) % 2 = 1
Mask(flag, mask) == IF flag THEN mask ELSE 0

(* std::string::resize, to a size that is not smaller. *)
resize(s, n) == s \o [i \in 1..(n - Len(s)) |-> 0]
-----------------------------------------------------------------------------
InternetChecksum(initial_sum) == [sum |-> initial_sum, parity |-> FALSE]

(* The first byte of a pair counts 256 times, across the calls of add. *)
add(check, data) ==
  LET val(i) == IF (i % 2 = 1) = check.parity THEN data[i] ELSE 256 * data[i]
  IN  [sum |-> check.sum + MapThenSumSet(val, DOMAIN data),
       parity |-> (Len(data) % 2 = 1) # check.parity]

Word == 65536
carried(sum) == (sum \div Word) + (sum % Word)

(* Two rounds of the loop are enough for a uint32_t. *)
value(check) == Word - 1 - carried(carried(check.sum))
=============================================================================
