--------------------------- MODULE NetParserProofs --------------------------
(***************************************************************************)
(* The Internet checksum for every sum a uint32_t holds.  The argument: a   *)
(* round of the loop in value() keeps the remainder modulo Word - 1, and    *)
(* two rounds leave a 16-bit number, which is 0 only when the sum is.       *)
(***************************************************************************)
EXTENDS NetParser, TLAPS

Sums == 0..(Word * Word - 1)   \* uint32_t

LEMMA WordFacts == Word \in Nat /\ Word >= 3
  BY SMT DEF Word

(* Quotient and remainder by Word. *)
LEMMA DivMod ==
  ASSUME NEW x \in Nat
  PROVE  \E q \in Nat, z \in 0..(Word - 1) :
           q = x \div Word /\ z = x % Word /\ x = q * Word + z
<1>1. \A M \in Nat \ {0} : /\ x \div M \in Nat /\ x % M \in 0..(M - 1)
                           /\ x = (x \div M) * M + (x % M)
  BY SMT
<1> QED BY <1>1, WordFacts

(* One round of the loop takes a multiple of Word - 1 away, and only 0      *)
(* becomes 0.                                                               *)
LEMMA OneRound ==
  ASSUME NEW s \in Nat
  PROVE  \E q \in Nat : /\ s = q * (Word - 1) + carried(s)
                        /\ carried(s) \in Nat
                        /\ q * Word <= s /\ carried(s) <= q + Word - 1
                        /\ carried(s) = 0 <=> s = 0
<1>1. PICK q \in Nat, z \in 0..(Word - 1) :
        q = s \div Word /\ z = s % Word /\ s = q * Word + z
  BY DivMod
<1>2. carried(s) = q + z
  BY <1>1 DEF carried
<1>3. q * (Word - 1) = q * Word - q
  BY <1>1, WordFacts
<1>4. q = 0 => q * Word = 0
  BY <1>1, WordFacts
<1>5. q * Word \in Nat
  BY <1>1, WordFacts
<1> DEFINE qw == q * Word
<1> HIDE DEF qw
<1>6. s = qw + z /\ qw \in Nat /\ q * (Word - 1) = qw - q /\ (q = 0 => qw = 0)
  BY <1>1, <1>3, <1>4, <1>5 DEF qw
<1>7. /\ s = q * (Word - 1) + carried(s) /\ carried(s) \in Nat
      /\ qw <= s /\ carried(s) <= q + Word - 1
      /\ carried(s) = 0 <=> s = 0
  BY <1>1, <1>2, <1>6, WordFacts
<1> QED BY <1>7 DEF qw

(* Two rounds leave 16 bits, the same remainder, and 0 only for 0. *)
LEMMA TwoRounds ==
  ASSUME NEW s \in Sums
  PROVE  /\ carried(carried(s)) \in 0..(Word - 1)
         /\ carried(carried(s)) = 0 <=> s = 0
         /\ \E q \in Nat : s = q * (Word - 1) + carried(carried(s))
<1>1. s \in Nat /\ s < Word * Word
  BY WordFacts DEF Sums
<1> DEFINE c == carried(s)
           d == carried(c)
<1>2. PICK q \in Nat : /\ s = q * (Word - 1) + c /\ c \in Nat
                       /\ q * Word <= s /\ c <= q + Word - 1
                       /\ c = 0 <=> s = 0
  BY <1>1, OneRound, Zenon
<1>3. q <= Word - 1
  <2>1. SUFFICES ASSUME q >= Word PROVE FALSE
    BY <1>2, WordFacts
  <2>2. q * Word >= Word * Word
    BY <1>2, <2>1, WordFacts
  <2> QED BY <1>1, <1>2, <2>2, WordFacts
<1> HIDE DEF c
<1>4. c <= Word - 1 + Word - 1
  BY <1>2, <1>3, WordFacts
<1>5. PICK p \in Nat : /\ c = p * (Word - 1) + d /\ d \in Nat
                       /\ p * Word <= c /\ d <= p + Word - 1
                       /\ d = 0 <=> c = 0
  BY <1>2, OneRound, Zenon
<1> HIDE DEF d
<1>6. p <= 1
  <2>1. SUFFICES ASSUME p >= 2 PROVE FALSE
    BY <1>5
  <2>2. p * Word >= 2 * Word
    BY <1>5, <2>1, WordFacts
  <2> QED BY <1>2, <1>4, <1>5, <2>2, WordFacts
<1>7. d <= Word - 1
  <2>1. CASE p = 0
    BY <1>5, <2>1, WordFacts
  <2>2. CASE p = 1
    BY <1>4, <1>5, <2>2, WordFacts
  <2> QED BY <1>5, <1>6, <2>1, <2>2
<1>8. s = (q + p) * (Word - 1) + d /\ q + p \in Nat
  BY <1>2, <1>5, WordFacts
<1>9. d \in 0..(Word - 1) /\ (d = 0 <=> s = 0) /\ \E r \in Nat : s = r * (Word - 1) + d
  BY <1>2, <1>5, <1>7, <1>8, WordFacts
<1> QED BY <1>9 DEF c, d

(* value() is 0 for the positive multiples of 65535 and only for them: the  *)
(* test of TCPSegment::parse and IPv4Header::parse on the sum of the words. *)
THEOREM ValueIsZero ==
  ASSUME NEW s \in Sums
  PROVE  value(InternetChecksum(s)) = 0 <=> \E k \in Nat \ {0} : s = k * (Word - 1)
<1>1. s \in Nat
  BY WordFacts DEF Sums
<1> DEFINE f == carried(carried(s))
<1>2. PICK q \in Nat : s = q * (Word - 1) + f
  BY TwoRounds
<1>3. f \in 0..(Word - 1) /\ (f = 0 <=> s = 0)
  BY TwoRounds
<1>4. value(InternetChecksum(s)) = Word - 1 - f
  BY DEF value, InternetChecksum
<1> HIDE DEF f
<1>5. ASSUME f = Word - 1 PROVE \E k \in Nat \ {0} : s = k * (Word - 1)
  <2>1. s = (q + 1) * (Word - 1) /\ q + 1 \in Nat \ {0}
    BY <1>1, <1>2, <1>5, WordFacts
  <2> QED BY <2>1
<1>6. ASSUME NEW k \in Nat \ {0}, s = k * (Word - 1) PROVE f = Word - 1
  <2>1. (k - q) * (Word - 1) = f
    BY <1>2, <1>3, <1>6, WordFacts
  <2>2. k * (Word - 1) >= Word - 1
    BY <1>6, WordFacts
  <2>3. f > 0
    BY <1>1, <1>3, <1>6, <2>2, WordFacts
  <2>4. CASE k - q <= 0
    <3>1. (k - q) * (Word - 1) <= 0
      BY <2>4, <1>6, WordFacts
    <3> QED BY <1>3, <2>1, <2>3, <3>1, WordFacts
  <2>5. CASE k - q = 1
    BY <2>1, <2>5, WordFacts
  <2>6. CASE k - q >= 2
    <3>1. (k - q) * (Word - 1) >= 2 * (Word - 1)
      BY <2>6, <1>6, WordFacts
    <3> QED BY <1>3, <2>1, <3>1, WordFacts
  <2> QED BY <1>2, <1>6, <2>4, <2>5, <2>6
<1>7. value(InternetChecksum(s)) = 0 <=> f = Word - 1
  BY <1>3, <1>4, WordFacts
<1> QED BY <1>5, <1>6, <1>7

(* What a sender stamps, a receiver accepts: value() of the words with a    *)
(* zero checksum field makes the value() with that field zero               *)
(* (TCPSegment::serialize and parse, IPv4Datagram::serialize).              *)
THEOREM StampedIsAccepted ==
  ASSUME NEW s \in Sums, s + Word \in Sums
  PROVE  value(InternetChecksum(s + value(InternetChecksum(s)))) = 0
<1>1. s \in Nat
  BY WordFacts DEF Sums
<1> DEFINE f == carried(carried(s))
<1>2. PICK q \in Nat : s = q * (Word - 1) + f
  BY TwoRounds
<1>3. f \in 0..(Word - 1) /\ value(InternetChecksum(s)) = Word - 1 - f
  BY TwoRounds DEF value, InternetChecksum
<1> HIDE DEF f
<1> DEFINE t == s + value(InternetChecksum(s))
<1>4. t = (q + 1) * (Word - 1) /\ q + 1 \in Nat \ {0}
  BY <1>1, <1>2, <1>3, WordFacts
<1>5. t \in Sums
  BY <1>1, <1>3, WordFacts DEF Sums
<1> HIDE DEF t
<1>6. value(InternetChecksum(t)) = 0
  BY <1>4, <1>5, ValueIsZero
<1> QED BY <1>6 DEF t

(* One damaged word does not go unnoticed, unless the damage exchanges the  *)
(* two words that mean zero.                                                *)
THEOREM OneWordIsNoticed ==
  ASSUME NEW rest \in Nat, NEW old \in 0..(Word - 1), NEW new \in 0..(Word - 1),
         rest + old \in Sums, rest + new \in Sums,
         value(InternetChecksum(rest + old)) = 0, value(InternetChecksum(rest + new)) = 0
  PROVE  old = new \/ {old, new} = {0, Word - 1}
<1>1. PICK j \in Nat \ {0} : rest + old = j * (Word - 1)
  BY ValueIsZero
<1>2. PICK k \in Nat \ {0} : rest + new = k * (Word - 1)
  BY ValueIsZero
<1>3. old - new = (j - k) * (Word - 1)
  BY <1>1, <1>2, WordFacts
<1>4. CASE j = k
  BY <1>1, <1>2, <1>4, WordFacts
<1>5. CASE j >= k + 1
  <2>1. (j - k) * (Word - 1) >= Word - 1
    BY <1>5, WordFacts
  <2>2. old = Word - 1 /\ new = 0
    BY <1>3, <2>1, WordFacts
  <2> QED BY <2>2
<1>6. CASE k >= j + 1
  <2>1. (j - k) * (Word - 1) <= -(Word - 1)
    BY <1>6, WordFacts
  <2>2. new = Word - 1 /\ old = 0
    BY <1>3, <2>1, WordFacts
  <2> QED BY <2>2
<1> QED BY <1>4, <1>5, <1>6
=============================================================================
