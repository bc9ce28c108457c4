----------------------- MODULE WrappingIntegersProofs -----------------------
(***************************************************************************)
(* unwrap for every raw number, isn and checkpoint, and every Half.  The    *)
(* argument: unwrap returns k * Mod + Offset for some k, where Offset is    *)
(* the distance from the isn to n; every number that wraps to n has that    *)
(* form, and the k chosen is the best one.                                  *)
(***************************************************************************)
EXTENDS WrappingIntegersSpec, TLAPS

Offset(raw, start) == (raw - start) % Mod

(* Division with remainder. *)
LEMMA DivMod ==
  ASSUME NEW x \in Int, NEW M \in Nat \ {0}
  PROVE  /\ x % M \in 0..(M - 1)
         /\ x \div M \in Int
         /\ x = (x \div M) * M + (x % M)
  OBVIOUS

(* Quotient and remainder are unique. *)
LEMMA DivModUnique ==
  ASSUME NEW M \in Nat \ {0}, NEW p \in Int, NEW q \in Int,
         NEW a \in 0..(M - 1), NEW b \in 0..(M - 1), p * M + a = q * M + b
  PROVE  p = q /\ a = b
<1>1. (p - q) * M = b - a
  OBVIOUS
<1>2. CASE p - q >= 1
  <2>1. (p - q) * M >= M
    BY <1>2
  <2> QED BY <1>1, <2>1
<1>3. CASE p - q <= -1
  <2>1. (p - q) * M <= -M
    BY <1>3
  <2> QED BY <1>1, <2>1
<1> QED BY <1>1, <1>2, <1>3

(* A number of the form q * M + a leaves the remainder a. *)
LEMMA ModOfSum ==
  ASSUME NEW M \in Nat \ {0}, NEW x \in Int, NEW q \in Int, NEW a \in 0..(M - 1),
         x = q * M + a
  PROVE  x % M = a
  BY DivMod, DivModUnique

(* Quotient and remainder of x, as numbers a proof can pick. *)
LEMMA DivModNamed ==
  ASSUME NEW x \in Int, NEW M \in Nat \ {0}
  PROVE  \E q \in Int, z \in 0..(M - 1) : q = x \div M /\ z = x % M /\ x = q * M + z
  BY DivMod

(* The constants. *)
LEMMA ModFacts == Mod \in Nat \ {0} /\ Half \in Nat \ {0} /\ Mod = Half + Half
  BY HalfAssumption DEF Mod

(* Offset is the difference of two raw values, or that plus one period. *)
LEMMA OffsetFacts ==
  ASSUME NEW a \in Raw, NEW b \in Raw
  PROVE  /\ Offset(a, b) \in 0..(Mod - 1)
         /\ a >= b => Offset(a, b) = a - b
         /\ a < b => Offset(a, b) = a - b + Mod
<1>1. a \in 0..(Mod - 1) /\ b \in 0..(Mod - 1)
  BY DEF Raw
<1>2. CASE a >= b
  <2>1. a - b \in 0..(Mod - 1) /\ a - b = 0 * Mod + (a - b)
    BY <1>1, <1>2, ModFacts
  <2>2. (a - b) % Mod = a - b
    BY <2>1, ModFacts, ModOfSum
  <2> QED BY <1>2, <1>1, <2>1, <2>2, ModFacts DEF Offset
<1>3. CASE a < b
  <2> DEFINE x == a - b  z == a - b + Mod  q == -1
  <2>1. x \in Int /\ q \in Int /\ z \in 0..(Mod - 1) /\ x = q * Mod + z
    BY <1>1, <1>3, ModFacts
  <2> HIDE DEF x, z, q
  <2>2. x % Mod = z
    BY <2>1, ModFacts, ModOfSum
  <2> QED BY <1>3, <1>1, <2>1, <2>2, ModFacts DEF Offset, x, z
<1> QED BY <1>1, <1>2, <1>3, ModFacts

(* What the branches of unwrap on the sign of n - isn compute: Offset, or   *)
(* one period more when the difference is exactly 2^31.                     *)
LEMMA OffsetFromFacts ==
  ASSUME NEW a \in Raw, NEW b \in Raw
  PROVE  \/ offset_from(a, b) = Offset(a, b)
         \/ Offset(a, b) = Half /\ offset_from(a, b) = Half + Mod
<1>1. a \in 0..(Mod - 1) /\ b \in 0..(Mod - 1)
  BY DEF Raw
<1>2. /\ minus(a, b) = IF Offset(a, b) < Half THEN Offset(a, b) ELSE Offset(a, b) - Mod
      /\ minus(b, a) = IF Offset(b, a) < Half THEN Offset(b, a) ELSE Offset(b, a) - Mod
  BY DEF minus, Offset
<1>3. Offset(a, b) \in 0..(Mod - 1) /\ Offset(b, a) \in 0..(Mod - 1)
  BY OffsetFacts
<1>4. Offset(a, b) = 0 \/ Offset(b, a) = Mod - Offset(a, b)
  BY <1>1, OffsetFacts, ModFacts
<1> QED BY <1>2, <1>3, <1>4, ModFacts DEF offset_from

(* The numbers that wrap to a raw value: whole periods above the Offset. *)
LEMMA WrapOfPeriods ==
  ASSUME NEW a \in Raw, NEW b \in Raw, NEW k \in Nat
  PROVE  /\ k * Mod + Offset(a, b) \in Nat
         /\ wrap(k * Mod + Offset(a, b), b) = a
<1> DEFINE o == Offset(a, b)
           x == k * Mod + o
<1>1. a \in 0..(Mod - 1) /\ b \in 0..(Mod - 1) /\ o \in 0..(Mod - 1)
  BY OffsetFacts DEF Raw
<1>2. (a >= b /\ o = a - b) \/ (a < b /\ o = a - b + Mod)
  BY <1>1, OffsetFacts, ModFacts
<1> HIDE DEF o
<1>3. x \in Nat
  BY <1>1, ModFacts
<1>4. CASE a >= b /\ o = a - b
  <2>1. x + b = k * Mod + a
    BY <1>1, <1>4, ModFacts
  <2> QED BY <1>1, <1>3, <2>1, ModFacts, ModOfSum DEF wrap, o
<1>5. CASE a < b /\ o = a - b + Mod
  <2> DEFINE j == k + 1
             y == x + b
  <2>1. y = j * Mod + a /\ j \in Int /\ y \in Int
    BY <1>1, <1>3, <1>5, ModFacts
  <2> HIDE DEF j, y
  <2>2. y % Mod = a
    BY <1>1, <2>1, ModFacts, ModOfSum
  <2> QED BY <1>3, <2>2 DEF wrap, o, y
<1> QED BY <1>2, <1>4, <1>5

(* ... and no others. *)
LEMMA WrapsOnlyInPeriods ==
  ASSUME NEW a \in Raw, NEW b \in Raw, NEW x \in Nat, wrap(x, b) = a
  PROVE  \E k \in Nat : x = k * Mod + Offset(a, b)
<1> DEFINE o == Offset(a, b)
<1>1. a \in 0..(Mod - 1) /\ b \in 0..(Mod - 1) /\ o \in 0..(Mod - 1)
  BY OffsetFacts DEF Raw
<1>2. (a >= b /\ o = a - b) \/ (a < b /\ o = a - b + Mod)
  BY <1>1, OffsetFacts, ModFacts
<1>3. PICK j \in Int : x + b = j * Mod + a
  <2>1. x + b \in Int
    BY <1>1
  <2>2. PICK j \in Int, z \in 0..(Mod - 1) : z = (x + b) % Mod /\ x + b = j * Mod + z
    BY <2>1, ModFacts, DivModNamed
  <2> QED BY <2>2 DEF wrap
<1> HIDE DEF o
<1>4. PICK k \in Int : x = k * Mod + o
  <2>1. CASE a >= b /\ o = a - b
    BY <1>1, <1>3, <2>1, ModFacts
  <2>2. CASE a < b /\ o = a - b + Mod
    <3>1. x = (j - 1) * Mod + o
      BY <1>1, <1>3, <2>2, ModFacts
    <3> QED BY <3>1
  <2> QED BY <1>2, <2>1, <2>2
<1>5. ~(k <= -1)
  <2>1. SUFFICES ASSUME k <= -1 PROVE FALSE
    OBVIOUS
  <2>2. k * Mod <= -Mod
    BY <2>1, ModFacts
  <2> QED BY <1>1, <1>4, <2>2, ModFacts
<1> QED BY <1>4, <1>5 DEF o

(* unwrap is some number of whole periods above the Offset, at most half a  *)
(* period from the checkpoint unless it is the least such number.           *)
LEMMA UnwrapForm ==
  ASSUME NEW a \in Raw, NEW b \in Raw, NEW c \in Nat
  PROVE  \E k \in Nat :
           /\ unwrap(a, b, c) = k * Mod + Offset(a, b)
           /\ \/ unwrap(a, b, c) - c <= Half /\ c - unwrap(a, b, c) <= Half
              \/ k = 0 /\ unwrap(a, b, c) > c
<1> DEFINE o == Offset(a, b)
           q == c \div Mod
           base == q * Mod
           offset == offset_from(a, b) + base
           ahead == IF offset < c THEN offset + Mod ELSE offset
           x == unwrap(a, b, c)
<1>1. o \in 0..(Mod - 1)
  BY OffsetFacts
<1>2. q \in Int /\ base \in Int /\ base <= c /\ c < base + Mod
  <2>1. PICK j \in Int, z \in 0..(Mod - 1) : j = c \div Mod /\ c = j * Mod + z
    BY ModFacts, DivModNamed
  <2>2. q = j
    BY <2>1
  <2> HIDE DEF q
  <2> QED BY <2>1, <2>2, ModFacts
<1>3. q \in Nat
  <2>1. SUFFICES ASSUME q <= -1 PROVE FALSE
    BY <1>2
  <2>2. base <= -Mod
    BY <1>2, <2>1, ModFacts
  <2> QED BY <1>2, <2>2, ModFacts
<1>4. base \in Nat /\ (q > 0 => base >= Mod) /\ base + Mod = (q + 1) * Mod
      /\ base - Mod = (q - 1) * Mod /\ (q = 0 => base = 0)
  BY <1>2, <1>3, ModFacts
<1>5. offset = base + o \/ (o = Half /\ offset = base + Half + Mod)
  BY <1>1, <1>4, OffsetFromFacts, ModFacts
<1>6. x = IF ahead - c > Half /\ ahead >= Mod THEN ahead - Mod ELSE ahead
  BY DEF unwrap
<1> HIDE DEF x, base, o, q
<1>7. CASE offset = base + o /\ offset >= c
  <2>1. x = base + o \/ (x = base - Mod + o /\ x >= 0)
    BY <1>1, <1>2, <1>4, <1>6, <1>7, ModFacts
  <2>2. (x - c <= Half /\ c - x <= Half) \/ (q = 0 /\ x = base + o /\ x > c)
    BY <1>1, <1>2, <1>3, <1>4, <1>6, <1>7, ModFacts
  <2>3. CASE x = base + o
    BY <1>3, <2>2, <2>3, ModFacts DEF x, base, o
  <2>4. CASE x = base - Mod + o /\ x >= 0
    <3>1. q - 1 \in Nat
      BY <1>1, <1>3, <1>4, <2>4, ModFacts
    <3>2. x = (q - 1) * Mod + o
      BY <1>1, <1>4, <2>4
    <3>3. x - c <= Half /\ c - x <= Half
      BY <1>3, <2>2, <3>1
    <3> QED BY <3>1, <3>2, <3>3 DEF x, o
  <2> QED BY <2>1, <2>3, <2>4
<1>8. CASE offset = base + o /\ offset < c
  <2>1. x = base + o \/ x = base + Mod + o
    BY <1>1, <1>2, <1>4, <1>6, <1>8, ModFacts
  <2>2. x - c <= Half /\ c - x <= Half
    BY <1>1, <1>2, <1>4, <1>6, <1>8, ModFacts
  <2> QED BY <1>3, <1>4, <2>1, <2>2 DEF x, base, o
<1>9. CASE o = Half /\ offset = base + Half + Mod
  <2>1. x = base + o
    BY <1>1, <1>2, <1>4, <1>6, <1>9, ModFacts
  <2>2. x - c <= Half /\ c - x <= Half
    BY <1>1, <1>2, <1>4, <1>9, <2>1, ModFacts
  <2> QED BY <1>3, <2>1, <2>2 DEF x, base, o
<1> QED
  <2>1. offset \in Int
    BY <1>1, <1>4, <1>5, ModFacts
  <2> QED BY <1>5, <1>7, <1>8, <1>9, <2>1

(* unwrap returns a number that wraps to n and is the closest such number:  *)
(* another one is at least a whole period away.                             *)
LEMMA UnwrapCorrect ==
  ASSUME NEW a \in Raw, NEW b \in Raw, NEW c \in Nat
  PROVE  /\ WrapsTo(unwrap(a, b, c), a, b)
         /\ \A m \in Nat : WrapsTo(m, a, b) => Distance(unwrap(a, b, c), c) <= Distance(m, c)
<1> DEFINE x == unwrap(a, b, c)
           o == Offset(a, b)
<1>1. PICK k \in Nat : /\ x = k * Mod + o
                       /\ \/ x - c <= Half /\ c - x <= Half
                          \/ k = 0 /\ x > c
  BY UnwrapForm, Zenon
<1>2. o \in 0..(Mod - 1)
  BY OffsetFacts
<1> HIDE DEF x, o
<1>3. x \in Nat /\ wrap(x, b) = a
  BY <1>1, WrapOfPeriods, Zenon DEF o
<1>4. ASSUME NEW m \in Nat, WrapsTo(m, a, b)
      PROVE  Distance(x, c) <= Distance(m, c)
  <2>1. PICK j \in Nat : m = j * Mod + o
    BY <1>4, WrapsOnlyInPeriods, Zenon DEF WrapsTo, o
  <2>2. CASE j = k
    BY <1>1, <1>3, <2>1, <2>2 DEF Distance
  <2>3. CASE j >= k + 1
    <3>1. (j - k) * Mod >= Mod
      BY <2>3, ModFacts
    <3>2. m - x = (j - k) * Mod
      BY <1>1, <1>2, <2>1, ModFacts
    <3>3. m - x >= Mod
      BY <3>1, <3>2
    <3> QED BY <1>1, <1>3, <3>3, ModFacts DEF Distance
  <2>4. CASE j <= k - 1
    <3>1. (k - j) * Mod >= Mod
      BY <2>4, ModFacts
    <3>2. x - m = (k - j) * Mod
      BY <1>1, <1>2, <2>1, ModFacts
    <3>3. x - m >= Mod /\ k # 0
      BY <2>4, <3>1, <3>2
    <3> QED BY <1>1, <1>3, <3>3, ModFacts DEF Distance
  <2> QED BY <2>2, <2>3, <2>4
<1> QED BY <1>3, <1>4 DEF x, WrapsTo
-----------------------------------------------------------------------------
(* unwrap returns the candidate closest to the checkpoint, for every Half,  *)
(* isn, raw number and checkpoint, also at the corners of the signed 32-bit *)
(* difference it is computed from.                                          *)
THEOREM UnwrapClosest ==
  ASSUME NEW isn \in Raw, NEW n \in Raw, NEW checkpoint \in Nat
  PROVE  Closest(unwrap(n, isn, checkpoint), n, isn, checkpoint)
<1>1. 0..(checkpoint + Mod) \subseteq Nat
  BY ModFacts
<1>2. /\ WrapsTo(unwrap(n, isn, checkpoint), n, isn)
      /\ \A m \in Nat : WrapsTo(m, n, isn) =>
           Distance(unwrap(n, isn, checkpoint), checkpoint) <= Distance(m, checkpoint)
  BY UnwrapCorrect, Zenon
<1> QED BY <1>1, <1>2, Zenon DEF Closest
-----------------------------------------------------------------------------
(* The product is monotonic. *)
LEMMA Times ==
  ASSUME NEW i \in Int, NEW j \in Int, NEW M \in Nat, i <= j
  PROVE  i * M <= j * M
<1>1. (j - i) * M >= 0
  OBVIOUS
<1> QED BY <1>1

(* Rounding up: n pieces of M are needed for t. *)
LEMMA Ceiling ==
  ASSUME NEW t \in Nat \ {0}, NEW M \in Nat \ {0}, NEW n, n = (t + M - 1) \div M
  PROVE  n \in Nat \ {0} /\ (n - 1) * M < t /\ t <= n * M
<1>1. PICK q \in Int, z \in 0..(M - 1) : q = (t + M - 1) \div M /\ t + M - 1 = q * M + z
  <2>1. t + M - 1 \in Int
    OBVIOUS
  <2> QED BY <2>1, DivModNamed
<1>2. q * M >= t /\ (q - 1) * M = q * M - M /\ q * M - M < t
  BY <1>1
<1>3. q >= 1
  <2>1. SUFFICES ASSUME q <= 0 PROVE FALSE
    BY <1>1
  <2>2. q * M <= 0 * M
    BY <2>1, Times
  <2> QED BY <1>2, <2>2
<1> QED BY <1>1, <1>2, <1>3

(* Near the checkpoint, unwrap is the inverse of wrap. *)
LEMMA UnwrapExact ==
  ASSUME NEW isn \in Raw, NEW x \in Nat, NEW c \in Nat, x - c < Half, c - x < Half
  PROVE  unwrap(wrap(x, isn), isn, c) = x
<1> DEFINE n == wrap(x, isn)
           y == unwrap(n, isn, c)
           o == Offset(n, isn)
<1>1. n \in Raw
  <2>1. x + isn \in Int
    BY ModFacts DEF Raw
  <2> QED BY <2>1, ModFacts, DivMod DEF wrap, Raw
<1>2. WrapsTo(y, n, isn) /\ \A m \in Nat : WrapsTo(m, n, isn) => Distance(y, c) <= Distance(m, c)
  BY <1>1, UnwrapCorrect, Zenon
<1>3. y \in Nat /\ wrap(y, isn) = n /\ Distance(y, c) <= Distance(x, c)
  BY <1>2 DEF WrapsTo
<1>4. o \in 0..(Mod - 1)
  BY <1>1, OffsetFacts
<1>5. PICK j \in Nat : y = j * Mod + o
  BY <1>1, <1>3, WrapsOnlyInPeriods
<1>6. PICK k \in Nat : x = k * Mod + o
  BY <1>1, WrapsOnlyInPeriods
<1> HIDE DEF n, y, o
<1>7. y - x = (j - k) * Mod
  BY <1>4, <1>5, <1>6, ModFacts
<1>8. y - x < Mod /\ x - y < Mod
  BY <1>3, ModFacts DEF Distance
<1>9. j = k
  <2>1. CASE j >= k + 1
    <3>1. 1 * Mod <= (j - k) * Mod
      BY <2>1, ModFacts, Times
    <3> QED BY <1>3, <1>7, <1>8, <3>1, ModFacts
  <2>2. CASE k >= j + 1
    <3>1. (j - k) * Mod <= -1 * Mod
      BY <2>2, ModFacts, Times
    <3> QED BY <1>3, <1>7, <1>8, <3>1, ModFacts
  <2> QED BY <2>1, <2>2
<1>10. y = x
  BY <1>5, <1>6, <1>9
<1> QED BY <1>10 DEF y, n

(* The raw numbers are those wrap returns. *)
LEMMA WrapType ==
  ASSUME NEW x \in Nat, NEW isn \in Raw
  PROVE  wrap(x, isn) \in Raw
<1>1. x + isn \in Int
  BY ModFacts DEF Raw
<1> QED BY <1>1, ModFacts, DivMod DEF wrap, Raw
=============================================================================
