-------------------------- MODULE WrappingIntegers --------------------------
(***************************************************************************)
(* WrappingInt32, wrap and unwrap (wrapping_integers.hh, .cc).  A raw value *)
(* is a member of 0..(Mod - 1); in the code Half is 2^31 and Mod is 2^32.   *)
(***************************************************************************)
EXTENDS Integers

CONSTANT Half   \* 1ul << 31

ASSUME HalfAssumption == Half \in Nat \ {0}

Mod == 2 * Half
Raw == 0..(Mod - 1)

wrap(n, isn) == (n + isn) % Mod

(* operator-: the difference of the raw values, as an int32_t. *)
minus(a, b) ==
  LET d == (a - b) % Mod IN IF d < Half THEN d ELSE d - Mod

(* The offset from the isn.  When n - isn is the least int32_t, isn - n is   *)
(* that same number, and its conversion to uint64_t makes the difference    *)
(* one period too large.                                                    *)
offset_from(n, isn) ==
  IF minus(n, isn) >= 0 THEN minus(n, isn) ELSE Mod - minus(isn, n)

unwrap_without_backstep(n, isn, checkpoint) ==
  LET offset == offset_from(n, isn) + (checkpoint \div Mod) * Mod
  IN  IF offset < checkpoint THEN offset + Mod ELSE offset
unwrap(n, isn, checkpoint) ==
  LET offset == offset_from(n, isn) + (checkpoint \div Mod) * Mod
      ahead == IF offset < checkpoint THEN offset + Mod ELSE offset
  IN  IF ahead - checkpoint > Half /\ ahead >= Mod THEN ahead - Mod ELSE ahead
=============================================================================
