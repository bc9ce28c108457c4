------------------------ MODULE WrappingIntegersSpec ------------------------
(***************************************************************************)
(* What wrapping_integers.cc:27 says of unwrap: it returns the number "that *)
(* wraps to `n` and is closest to `checkpoint`".                            *)
(***************************************************************************)
EXTENDS WrappingIntegers

Distance(a, b) == IF a < b THEN b - a ELSE a - b

WrapsTo(x, raw, start) == x \in Nat /\ wrap(x, start) = raw

(* x is the number that wraps to n and is closest to checkpoint; a number   *)
(* more than a period beyond it is never closer than one within.            *)
Closest(x, n, isn, checkpoint) ==
  /\ WrapsTo(x, n, isn)
  /\ \A m \in 0..(checkpoint + Mod) :
       WrapsTo(m, n, isn) => Distance(x, checkpoint) <= Distance(m, checkpoint)
=============================================================================
