--------------------------- MODULE CountingLemmas ---------------------------
(***************************************************************************)
(* What the proofs need of numbers, sequences and sums.                     *)
(***************************************************************************)
EXTENDS Integers, Sequences, FiniteSetsExt, FiniteSetTheorems, SequenceTheorems,
        WellFoundedInduction, TLAPS

(* The element a fold over s takes first, and the folds over all subsets. *)
Pick(s) == CHOOSE x \in s : TRUE
IsSum(f, S, g) ==
  g = [s \in SUBSET S |-> IF s = {} THEN 0 ELSE f[Pick(s)] + g[s \ {Pick(s)}]]

LEMMA SumIs ==
  ASSUME NEW f, NEW S
  PROVE  SumFunctionOnSet(f, S) = (CHOOSE g : IsSum(f, S, g))[S]
  BY Zenon DEF SumFunctionOnSet, FoldFunctionOnSet, MapThenFoldSet, IsSum, Pick

(* A non-empty set of natural numbers has a least element, and Min is it. *)
LEMMA LeastNumber ==
  ASSUME NEW T \in SUBSET Nat, T # {}
  PROVE  Min(T) \in T /\ \A y \in T : Min(T) <= y
<1>1. IsWellFoundedOn(OpToRel(<, Nat), Nat)
  BY NatLessThanWellFounded
<1>2. PICK x \in T : \A y \in T : ~(<<y, x>> \in OpToRel(<, Nat))
  BY <1>1, WFMin
<1>3. \A y \in T : ~(y < x)
  BY <1>2 DEF OpToRel
<1>4. \A y \in T : x <= y
  BY <1>3
<1> QED BY <1>4 DEF Min

(* A number that has a property is 0 or follows one that does not have it,  *)
(* or there is a least one: induction, for the complement of a set.         *)
LEMMA Induction ==
  ASSUME NEW T \in SUBSET Nat, 0 \in T, \A n \in Nat : n \in T => n + 1 \in T
  PROVE  T = Nat
<1> DEFINE C == Nat \ T
<1>1. SUFFICES ASSUME C # {} PROVE FALSE
  OBVIOUS
<1>2. PICK x \in C : \A y \in C : x <= y
  BY <1>1, LeastNumber
<1>3. x # 0 /\ x - 1 \in Nat /\ x - 1 \in T
  BY <1>2
<1> QED BY <1>2, <1>3
-----------------------------------------------------------------------------
(* Facts on the element that is taken first. *)
LEMMA PickFacts ==
  ASSUME NEW s, IsFiniteSet(s), s # {}
  PROVE  /\ Pick(s) \in s /\ IsFiniteSet(s \ {Pick(s)})
         /\ Cardinality(s) \in Nat /\ Cardinality(s) >= 1
         /\ Cardinality(s \ {Pick(s)}) = Cardinality(s) - 1
<1>1. Pick(s) \in s
  BY DEF Pick
<1>2. Cardinality(s) \in Nat /\ Cardinality(s) # 0
  BY FS_CardinalityType, FS_EmptySet
<1> QED BY <1>1, <1>2, FS_RemoveElement

(* The folds over the subsets of S exist. *)
LEMMA SumExists ==
  ASSUME NEW S, IsFiniteSet(S), NEW f, \A x \in S : f[x] \in Int
  PROVE  \E g \in [SUBSET S -> Int] : IsSum(f, S, g)
<1> DEFINE D(n) == {s \in SUBSET S : Cardinality(s) <= n}
           R(n, g) == \A s \in D(n) : g[s] = IF s = {} THEN 0
                                             ELSE f[Pick(s)] + g[s \ {Pick(s)}]
           T == {n \in Nat : \E g \in [D(n) -> Int] : R(n, g)}
<1>1. \A s \in SUBSET S : IsFiniteSet(s) /\ Cardinality(s) \in Nat
                          /\ Cardinality(s) <= Cardinality(S)
  BY FS_Subset, FS_CardinalityType
<1>2. ASSUME NEW n \in Nat, NEW s \in D(n), s # {}
      PROVE  /\ s \ {Pick(s)} \in D(n) /\ Pick(s) \in S
             /\ n > 0 => s \ {Pick(s)} \in D(n - 1)
  BY <1>1, <1>2, PickFacts
<1>3. 0 \in T
  <2>1. D(0) = {{}}
    BY <1>1, FS_EmptySet
  <2> DEFINE g == [s \in D(0) |-> 0]
  <2>2. g \in [D(0) -> Int] /\ R(0, g)
    BY <2>1
  <2> HIDE DEF R, D
  <2> QED BY <2>2
<1>4. ASSUME NEW n \in Nat, n \in T PROVE n + 1 \in T
  <2>1. PICK g \in [D(n) -> Int] : R(n, g)
    BY <1>4
  <2> DEFINE h == [s \in D(n + 1) |-> IF s = {} THEN 0 ELSE f[Pick(s)] + g[s \ {Pick(s)}]]
  <2>2. ASSUME NEW s \in D(n + 1), s # {}
        PROVE  s \ {Pick(s)} \in D(n) /\ s \ {Pick(s)} \in D(n + 1) /\ Pick(s) \in S
    <3>1. n + 1 \in Nat /\ n + 1 > 0 /\ (n + 1) - 1 = n
      OBVIOUS
    <3> HIDE DEF D
    <3> QED BY <1>2, <2>2, <3>1
  <2>3. h \in [D(n + 1) -> Int]
    <3> HIDE DEF D
    <3> QED BY <2>2
  <2>4. D(n) \subseteq D(n + 1)
    BY <1>1
  <2>5. ASSUME NEW s \in D(n) PROVE h[s] = g[s]
    <3> HIDE DEF D
    <3> QED BY <2>1, <2>4
  <2>6. R(n + 1, h)
    <3> SUFFICES ASSUME NEW s \in D(n + 1)
                 PROVE  h[s] = IF s = {} THEN 0 ELSE f[Pick(s)] + h[s \ {Pick(s)}]
      OBVIOUS
    <3>1. CASE s = {}
      BY <3>1
    <3>2. CASE s # {}
      <4>1. h[s \ {Pick(s)}] = g[s \ {Pick(s)}]
        <5> HIDE DEF h, D
        <5> QED BY <2>2, <2>5, <3>2
      <4> HIDE DEF D
      <4> QED BY <3>2, <4>1
    <3> QED BY <3>1, <3>2
  <2> HIDE DEF R, D, h
  <2> QED BY <2>3, <2>6
<1>5. T = Nat
  <2>1. T \in SUBSET Nat
    OBVIOUS
  <2> HIDE DEF T
  <2> QED BY <1>3, <1>4, <2>1, Induction
<1>6. PICK g \in [D(Cardinality(S)) -> Int] : R(Cardinality(S), g)
  <2>1. Cardinality(S) \in T
    BY <1>5, FS_CardinalityType
  <2> HIDE DEF R, D
  <2> QED BY <2>1
<1>7. D(Cardinality(S)) = SUBSET S
  BY <1>1
<1>8. g = [s \in SUBSET S |-> IF s = {} THEN 0 ELSE f[Pick(s)] + g[s \ {Pick(s)}]]
  <2>1. g \in [SUBSET S -> Int]
    BY <1>6, <1>7
  <2>2. \A s \in SUBSET S : g[s] = IF s = {} THEN 0 ELSE f[Pick(s)] + g[s \ {Pick(s)}]
    BY <1>6, <1>7
  <2> HIDE DEF D, R
  <2> QED BY <2>1, <2>2, Zenon
<1> QED BY <1>6, <1>7, <1>8 DEF IsSum

(* Two folds agree on the sets both cover. *)
LEMMA SumUnique ==
  ASSUME NEW S, NEW U, IsFiniteSet(S), S \subseteq U, NEW f, NEW g, NEW h,
         IsSum(f, S, g), IsSum(f, U, h)
  PROVE  \A s \in SUBSET S : g[s] = h[s]
<1> DEFINE T == {n \in Nat : \A s \in SUBSET S : Cardinality(s) <= n => g[s] = h[s]}
<1>1. \A s \in SUBSET S : IsFiniteSet(s) /\ Cardinality(s) \in Nat
                          /\ Cardinality(s) <= Cardinality(S)
  BY FS_Subset, FS_CardinalityType
<1>2. \A s \in SUBSET S : /\ g[s] = IF s = {} THEN 0 ELSE f[Pick(s)] + g[s \ {Pick(s)}]
                          /\ h[s] = IF s = {} THEN 0 ELSE f[Pick(s)] + h[s \ {Pick(s)}]
  <2> SUFFICES ASSUME NEW s \in SUBSET S
               PROVE  /\ g[s] = IF s = {} THEN 0 ELSE f[Pick(s)] + g[s \ {Pick(s)}]
                      /\ h[s] = IF s = {} THEN 0 ELSE f[Pick(s)] + h[s \ {Pick(s)}]
    OBVIOUS
  <2>1. s \in SUBSET U
    OBVIOUS
  <2> QED BY <2>1, Zenon DEF IsSum
<1>3. 0 \in T
  <2> SUFFICES ASSUME NEW s \in SUBSET S, Cardinality(s) <= 0 PROVE g[s] = h[s]
    OBVIOUS
  <2>1. s = {}
    BY <1>1, FS_EmptySet
  <2> QED BY <1>2, <2>1
<1>4. ASSUME NEW n \in Nat, n \in T PROVE n + 1 \in T
  <2> SUFFICES ASSUME NEW s \in SUBSET S, Cardinality(s) <= n + 1, s # {} PROVE g[s] = h[s]
    BY <1>2
  <2>1. s \ {Pick(s)} \in SUBSET S /\ Cardinality(s \ {Pick(s)}) <= n
    BY <1>1, PickFacts
  <2>2. g[s \ {Pick(s)}] = h[s \ {Pick(s)}]
    BY <1>4, <2>1
  <2> QED BY <1>2, <2>2
<1>5. T = Nat
  <2>1. T \in SUBSET Nat
    OBVIOUS
  <2> HIDE DEF T
  <2> QED BY <1>3, <1>4, <2>1, Induction
<1> QED BY <1>1, <1>5, FS_CardinalityType

(* The sum over S is that over a smaller set and the number taken first. *)
LEMMA SumUnfold ==
  ASSUME NEW S, IsFiniteSet(S), NEW f, \A x \in S : f[x] \in Int
  PROVE  /\ SumFunctionOnSet(f, S) \in Int
         /\ S = {} => SumFunctionOnSet(f, S) = 0
         /\ S # {} => SumFunctionOnSet(f, S) =
                        f[Pick(S)] + SumFunctionOnSet(f, S \ {Pick(S)})
<1> DEFINE g == CHOOSE g : IsSum(f, S, g)
           U == S \ {Pick(S)}
           h == CHOOSE h : IsSum(f, U, h)
<1>1. PICK k \in [SUBSET S -> Int] : IsSum(f, S, k)
  BY SumExists
<1>2. IsSum(f, S, g)
  BY <1>1
<1>3. IsFiniteSet(U) /\ U \subseteq S
  BY FS_Subset
<1>4. \E z \in [SUBSET U -> Int] : IsSum(f, U, z)
  <2> HIDE DEF U
  <2> QED BY <1>3, SumExists
<1>5. IsSum(f, U, h)
  BY <1>4
<1>6. SumFunctionOnSet(f, S) = g[S] /\ SumFunctionOnSet(f, U) = h[U]
  BY SumIs
<1> HIDE DEF g, h
<1>7. g[S] = k[S]
  BY <1>1, <1>2, SumUnique
<1>8. h[U] = g[U]
  <2> HIDE DEF U
  <2> QED BY <1>2, <1>3, <1>5, SumUnique
<1>9. g[S] = IF S = {} THEN 0 ELSE f[Pick(S)] + g[U]
  <2>1. S \in SUBSET S
    OBVIOUS
  <2> QED BY <1>2, <2>1, Zenon DEF IsSum
<1> QED BY <1>1, <1>6, <1>7, <1>8, <1>9

(* The sum over S is that over S without x, and f[x], whichever x is. *)
LEMMA SumRemove ==
  ASSUME NEW S, IsFiniteSet(S), NEW f, \A x \in S : f[x] \in Int
  PROVE  \A x \in S : SumFunctionOnSet(f, S) = f[x] + SumFunctionOnSet(f, S \ {x})
<1> DEFINE Sm(s) == SumFunctionOnSet(f, s)
           T == {n \in Nat : \A s \in SUBSET S :
                   Cardinality(s) <= n => \A x \in s : Sm(s) = f[x] + Sm(s \ {x})}
<1>1. ASSUME NEW s \in SUBSET S
      PROVE  /\ IsFiniteSet(s) /\ Cardinality(s) \in Nat
             /\ Sm(s) \in Int
             /\ s # {} => Sm(s) = f[Pick(s)] + Sm(s \ {Pick(s)})
             /\ \A x \in s : Cardinality(s \ {x}) = Cardinality(s) - 1
  <2>1. IsFiniteSet(s) /\ Cardinality(s) \in Nat
    BY FS_Subset, FS_CardinalityType
  <2>2. \A x \in s : Cardinality(s \ {x}) = Cardinality(s) - 1
    BY <2>1, FS_RemoveElement
  <2> QED BY <2>1, <2>2, SumUnfold
<1> HIDE DEF Sm
<1>2. 0 \in T
  <2> SUFFICES ASSUME NEW s \in SUBSET S, Cardinality(s) <= 0, NEW x \in s PROVE FALSE
    OBVIOUS
  <2>0. IsFiniteSet(s) /\ Cardinality(s) \in Nat
    BY <1>1, Zenon
  <2>1. Cardinality(s) = 0
    BY <2>0
  <2>2. s = {}
    BY <2>0, <2>1, FS_EmptySet
  <2> QED BY <2>2
<1>3. ASSUME NEW n \in Nat, n \in T PROVE n + 1 \in T
  <2> SUFFICES ASSUME NEW s \in SUBSET S, Cardinality(s) <= n + 1, NEW x \in s
               PROVE  Sm(s) = f[x] + Sm(s \ {x})
    OBVIOUS
  <2> DEFINE c == Pick(s)
             u == s \ {c}
             v == s \ {x}
             w == s \ {c, x}
  <2>1. c \in s /\ Sm(s) = f[c] + Sm(u)
    BY <1>1, PickFacts
  <2>2. CASE x = c
    BY <2>1, <2>2
  <2>3. CASE x # c
    <3>1. u \in SUBSET S /\ v \in SUBSET S /\ w \in SUBSET S /\ x \in u /\ c \in v
      BY <2>1, <2>3
    <3>2. Cardinality(u) <= n /\ Cardinality(v) <= n
      BY <1>1, <2>1
    <3>3. u \ {x} = w /\ v \ {c} = w
      OBVIOUS
    <3>4. Sm(u) = f[x] + Sm(w)
      BY <1>3, <3>1, <3>2, <3>3
    <3>5. Sm(v) = f[c] + Sm(w)
      BY <1>3, <3>1, <3>2, <3>3
    <3>6. f[c] \in Int /\ f[x] \in Int /\ Sm(w) \in Int
      BY <1>1, <2>1, <3>1
    <3> HIDE DEF u, v, w, c
    <3>7. Sm(s) = f[x] + Sm(v)
      BY <2>1, <3>4, <3>5, <3>6
    <3> QED BY <3>7 DEF v
  <2> QED BY <2>2, <2>3
<1>4. T = Nat
  <2>1. T \in SUBSET Nat
    OBVIOUS
  <2> HIDE DEF T
  <2> QED BY <1>2, <1>3, <2>1, Induction
<1>5. Cardinality(S) \in Nat
  BY FS_CardinalityType
<1>6. \A x \in S : Sm(S) = f[x] + Sm(S \ {x})
  BY <1>4, <1>5
<1> QED BY <1>6 DEF Sm

(* The sum of natural numbers is one, at least as large as each. *)
LEMMA SumNat ==
  ASSUME NEW S, IsFiniteSet(S), NEW f, \A x \in S : f[x] \in Nat
  PROVE  /\ SumFunctionOnSet(f, S) \in Nat
         /\ \A x \in S : f[x] <= SumFunctionOnSet(f, S)
<1> DEFINE Sm(s) == SumFunctionOnSet(f, s)
           T == {n \in Nat : \A s \in SUBSET S : Cardinality(s) <= n => Sm(s) \in Nat}
<1>1. ASSUME NEW s \in SUBSET S
      PROVE  /\ IsFiniteSet(s) /\ Cardinality(s) \in Nat
             /\ s = {} => Sm(s) = 0
             /\ \A x \in s : /\ Sm(s) = f[x] + Sm(s \ {x})
                             /\ Cardinality(s \ {x}) = Cardinality(s) - 1
  <2>1. IsFiniteSet(s) /\ Cardinality(s) \in Nat /\ \A x \in s : f[x] \in Int
    BY FS_Subset, FS_CardinalityType
  <2>2. \A x \in s : Cardinality(s \ {x}) = Cardinality(s) - 1
    BY <2>1, FS_RemoveElement
  <2>3. s = {} => Sm(s) = 0
    BY <2>1, SumUnfold
  <2>4. \A x \in s : Sm(s) = f[x] + Sm(s \ {x})
    BY <2>1, SumRemove
  <2> QED BY <2>1, <2>2, <2>3, <2>4
<1> HIDE DEF Sm
<1>2. 0 \in T
  <2> SUFFICES ASSUME NEW s \in SUBSET S, Cardinality(s) <= 0 PROVE Sm(s) \in Nat
    OBVIOUS
  <2>1. IsFiniteSet(s) /\ Cardinality(s) = 0
    BY <1>1
  <2>2. s = {}
    BY <2>1, FS_EmptySet
  <2> QED BY <1>1, <2>2
<1>3. ASSUME NEW n \in Nat, n \in T PROVE n + 1 \in T
  <2> SUFFICES ASSUME NEW s \in SUBSET S, Cardinality(s) <= n + 1 PROVE Sm(s) \in Nat
    OBVIOUS
  <2>1. ASSUME NEW x \in s PROVE Sm(s) \in Nat
    <3>1. s \ {x} \in SUBSET S /\ Cardinality(s \ {x}) <= n
      BY <1>1
    <3>2. Sm(s \ {x}) \in Nat
      BY <1>3, <3>1
    <3> QED BY <1>1, <3>2
  <2> QED BY <1>1, <2>1
<1>4. T = Nat
  <2>1. T \in SUBSET Nat
    OBVIOUS
  <2> HIDE DEF T
  <2> QED BY <1>2, <1>3, <2>1, Induction
<1>5. \A s \in SUBSET S : Sm(s) \in Nat
  BY <1>1, <1>4
<1>6. ASSUME NEW x \in S PROVE f[x] <= Sm(S)
  <2>1. S \in SUBSET S /\ S \ {x} \in SUBSET S
    OBVIOUS
  <2>2. Sm(S) = f[x] + Sm(S \ {x}) /\ Sm(S \ {x}) \in Nat
    BY <1>1, <1>5, <2>1
  <2> QED BY <2>2
<1> QED BY <1>5, <1>6 DEF Sm
-----------------------------------------------------------------------------
(* A function on 1..n is a sequence of length n. *)
LEMMA FunctionIsSeq ==
  ASSUME NEW S, NEW n \in Nat, NEW q \in [1..n -> S]
  PROVE  q \in Seq(S) /\ Len(q) = n
<1>1. q \in Seq(S)
  BY SeqDef
<1>2. Len(q) \in Nat /\ DOMAIN q = 1..Len(q) /\ DOMAIN q = 1..n
  BY <1>1, LenProperties
<1> QED BY <1>1, <1>2
=============================================================================
