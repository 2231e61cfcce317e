---------------------------- MODULE ShimTheorems ----------------------------
(***************************************************************************)
(* Of the WebAssembly build, for every message: its SHA-256 and the        *)
(* witness builder's keep in step, word for word; the circuit accepts what *)
(* the witness builder computes; and its AES-256 is that of the standard,  *)
(* from the key schedule to the counter.                                   *)
(*                                                                         *)
(* The first parts are about what the model computes with: sums over sets, *)
(* words as sets of bits and as the numbers below 2^32, addition without a *)
(* carry.  The numbers that a backend would write out digit by digit have  *)
(* names (Cut, SumsTo, FullKey), which are opened only where they matter.  *)
(***************************************************************************)
EXTENDS Shim, FiniteSetTheorems, WellFoundedInduction, SequenceTheorems, TLAPS

-----------------------------------------------------------------------------
(* Sums.  SumFunctionOnSet folds over a set that it takes apart by CHOOSE; *)
(* of natural numbers it does not matter in which order.                   *)

(* What holds of 0 and is handed on holds of every number.                 *)
LEMMA Climb ==
    ASSUME NEW Good, 0 \in Good, \A n \in Nat : n \in Good => n + 1 \in Good
    PROVE  \A n \in Nat : n \in Good
<1> DEFINE Bad == {n \in Nat : n \notin Good}
<1> SUFFICES ASSUME Bad # {} PROVE FALSE
  OBVIOUS
<1>1. PICK n \in Bad : \A m \in Bad : ~ (<<m, n>> \in OpToRel(<, Nat))
  <2>1. Bad \subseteq Nat
    OBVIOUS
  <2> HIDE DEF Bad
  <2> QED  BY <2>1, WFMin, NatLessThanWellFounded
<1>2. n \in Nat /\ n # 0 /\ \A m \in Bad : ~ (m < n)
  BY <1>1 DEF OpToRel
<1>3. n - 1 \in Nat /\ n - 1 \notin Bad
  BY <1>2
<1>4. (n - 1) + 1 \in Good
  BY <1>3
<1>5. (n - 1) + 1 = n
  BY <1>2
<1> QED  BY <1>1, <1>4, <1>5

OneOf(s) == CHOOSE x \in s : TRUE
Rest(s) == s \ {OneOf(s)}

(* Sums of f over the sets of F, by the equation of the fold.              *)
SumSteps(g, f, F) ==
    g = [s \in F |-> IF s = {} THEN 0 ELSE f[OneOf(s)] + g[Rest(s)]]

LEMMA RestIsLess ==
    ASSUME NEW s, IsFiniteSet(s), s # {}
    PROVE  /\ OneOf(s) \in s /\ Rest(s) \subseteq s /\ IsFiniteSet(Rest(s))
           /\ Cardinality(s) \in Nat \ {0}
           /\ Cardinality(Rest(s)) = Cardinality(s) - 1
<1>1. OneOf(s) \in s
  BY DEF OneOf
<1>2. IsFiniteSet(Rest(s)) /\ Cardinality(Rest(s)) = Cardinality(s) - 1
  BY <1>1, FS_RemoveElement DEF Rest
<1>3. Cardinality(s) \in Nat /\ Cardinality(s) # 0
  BY FS_CardinalityType, FS_EmptySet
<1> QED  BY <1>1, <1>2, <1>3 DEF Rest

(* The equation has a solution: by the number of elements.                 *)
LEMMA StepsExist ==
    ASSUME NEW f, NEW S, IsFiniteSet(S)
    PROVE  \E g : SumSteps(g, f, SUBSET S)
<1> DEFINE UpTo(n) == {s \in SUBSET S : Cardinality(s) <= n}
           Good == {n \in Nat : \E g : SumSteps(g, f, UpTo(n))}
<1>1. \A s \in SUBSET S : IsFiniteSet(s) /\ Cardinality(s) \in Nat
                            /\ Cardinality(s) <= Cardinality(S)
  BY FS_Subset, FS_CardinalityType
<1>2. 0 \in Good
  <2> DEFINE g == [s \in UpTo(0) |-> 0]
  <2>1. \A s \in UpTo(0) : s = {}
    BY <1>1, FS_EmptySet
  <2>2. SumSteps(g, f, UpTo(0))
    BY <2>1 DEF SumSteps
  <2> QED  BY <2>2
<1>3. ASSUME NEW n \in Nat, n \in Good PROVE n + 1 \in Good
  <2>1. PICK g : SumSteps(g, f, UpTo(n))
    BY <1>3
  <2> DEFINE h == [s \in UpTo(n + 1) |->
                    IF s = {} THEN 0 ELSE f[OneOf(s)] + g[Rest(s)]]
  <2>2. ASSUME NEW s \in UpTo(n + 1), s # {}
        PROVE  Rest(s) \in UpTo(n) /\ Rest(s) \in UpTo(n + 1)
    <3>1. Cardinality(Rest(s)) = Cardinality(s) - 1 /\ Rest(s) \subseteq s
            /\ Cardinality(s) \in Nat
      BY <1>1, <2>2, RestIsLess
    <3> QED  BY <3>1
  <2>3. ASSUME NEW s \in UpTo(n) PROVE h[s] = g[s]
    <3>1. s \in UpTo(n + 1)
      BY <1>1
    <3>2. g[s] = IF s = {} THEN 0 ELSE f[OneOf(s)] + g[Rest(s)]
      BY <2>1 DEF SumSteps
    <3> QED  BY <3>1, <3>2
  <2>4. h = [s \in UpTo(n + 1) |->
                IF s = {} THEN 0 ELSE f[OneOf(s)] + h[Rest(s)]]
    <3>1. ASSUME NEW s \in UpTo(n + 1)
          PROVE  (IF s = {} THEN 0 ELSE f[OneOf(s)] + g[Rest(s)])
                    = IF s = {} THEN 0 ELSE f[OneOf(s)] + h[Rest(s)]
      BY <2>2, <2>3
    <3> HIDE DEF UpTo
    <3> QED  BY <3>1
  <2> HIDE DEF h, UpTo
  <2>5. SumSteps(h, f, UpTo(n + 1))
    BY <2>4 DEF SumSteps
  <2> QED  BY <2>5
<1> HIDE DEF Good
<1>4. \A n \in Nat : n \in Good
  BY <1>2, <1>3, Climb
<1>5. Cardinality(S) \in Good
  BY <1>4, FS_CardinalityType
<1>6. UpTo(Cardinality(S)) = SUBSET S
  BY <1>1
<1> QED  BY <1>5, <1>6 DEF Good

(* And no two.                                                             *)
LEMMA StepsAgree ==
    ASSUME NEW f, NEW g, NEW h, NEW S, IsFiniteSet(S),
           NEW T \in SUBSET S,
           SumSteps(g, f, SUBSET S), SumSteps(h, f, SUBSET T)
    PROVE  \A s \in SUBSET T : g[s] = h[s]
<1> DEFINE Good == {n \in Nat : \A s \in SUBSET T :
                        Cardinality(s) <= n => g[s] = h[s]}
<1>1. \A s \in SUBSET T : s \in SUBSET S /\ IsFiniteSet(s)
                            /\ Cardinality(s) \in Nat
  BY FS_Subset, FS_CardinalityType
<1>2. \A s \in SUBSET T :
        /\ g[s] = IF s = {} THEN 0 ELSE f[OneOf(s)] + g[Rest(s)]
        /\ h[s] = IF s = {} THEN 0 ELSE f[OneOf(s)] + h[Rest(s)]
  BY <1>1 DEF SumSteps
<1>3. 0 \in Good
  <2>1. \A s \in SUBSET T : Cardinality(s) <= 0 => s = {}
    BY <1>1, FS_EmptySet
  <2> QED  BY <1>2, <2>1
<1>4. ASSUME NEW n \in Nat, n \in Good PROVE n + 1 \in Good
  <2> SUFFICES ASSUME NEW s \in SUBSET T, Cardinality(s) <= n + 1
               PROVE  g[s] = h[s]
    OBVIOUS
  <2>1. CASE s = {}
    BY <1>2, <2>1
  <2>2. CASE s # {}
    <3>1. /\ Rest(s) \in SUBSET T /\ Cardinality(s) \in Nat
          /\ Cardinality(Rest(s)) = Cardinality(s) - 1
      BY <1>1, <2>2, RestIsLess
    <3>2. g[Rest(s)] = h[Rest(s)]
      BY <1>4, <3>1
    <3> QED  BY <1>2, <2>2, <3>2
  <2> QED  BY <2>1, <2>2
<1> HIDE DEF Good
<1>5. \A n \in Nat : n \in Good
  BY <1>3, <1>4, Climb
<1> SUFFICES ASSUME NEW s \in SUBSET T PROVE g[s] = h[s]
  OBVIOUS
<1>6. Cardinality(s) \in Good /\ Cardinality(s) <= Cardinality(s)
  BY <1>1, <1>5
<1> QED  BY <1>6 DEF Good

LEMMA SumIsStep ==
    ASSUME NEW f, NEW S, IsFiniteSet(S), NEW g, SumSteps(g, f, SUBSET S)
    PROVE  SumFunctionOnSet(f, S) = g[S]
<1> DEFINE h == CHOOSE h : SumSteps(h, f, SUBSET S)
<1>1. SumSteps(h, f, SUBSET S)
  OBVIOUS
<1>2. SumFunctionOnSet(f, S) = h[S]
  BY DEF SumFunctionOnSet, FoldFunctionOnSet, MapThenFoldSet, SumSteps,
         OneOf, Rest
<1> HIDE DEF h
<1>3. S \in SUBSET S
  OBVIOUS
<1>4. \A s \in SUBSET S : g[s] = h[s]
  BY <1>1, <1>3, StepsAgree
<1> QED  BY <1>2, <1>3, <1>4

LEMMA SumUnfolds ==
    ASSUME NEW f, NEW S, IsFiniteSet(S)
    PROVE  SumFunctionOnSet(f, S) =
                IF S = {} THEN 0
                ELSE f[OneOf(S)] + SumFunctionOnSet(f, Rest(S))
<1>1. PICK g : SumSteps(g, f, SUBSET S)
  BY StepsExist
<1>2. SumFunctionOnSet(f, S) = g[S]
  BY <1>1, SumIsStep
<1>3. g[S] = IF S = {} THEN 0 ELSE f[OneOf(S)] + g[Rest(S)]
  BY <1>1 DEF SumSteps
<1>4. ASSUME S # {} PROVE SumFunctionOnSet(f, Rest(S)) = g[Rest(S)]
  <2>1. Rest(S) \subseteq S /\ IsFiniteSet(Rest(S))
    BY <1>4, RestIsLess
  <2>2. PICK h : SumSteps(h, f, SUBSET Rest(S))
    BY <2>1, StepsExist
  <2>3. SumFunctionOnSet(f, Rest(S)) = h[Rest(S)]
    BY <2>1, <2>2, SumIsStep
  <2>4. Rest(S) \in SUBSET S
    BY <2>1
  <2>5. \A s \in SUBSET Rest(S) : g[s] = h[s]
    BY <1>1, <2>2, <2>4, StepsAgree
  <2> QED  BY <2>3, <2>5
<1> QED  BY <1>2, <1>3, <1>4

(* Whichever element is taken out first.                                   *)
LEMMA SumTakesOut ==
    ASSUME NEW f, NEW S, IsFiniteSet(S), \A x \in S : f[x] \in Nat
    PROVE  /\ SumFunctionOnSet(f, S) \in Nat
           /\ \A x \in S : SumFunctionOnSet(f, S)
                                = f[x] + SumFunctionOnSet(f, S \ {x})
<1> DEFINE Fine(s) ==
            /\ SumFunctionOnSet(f, s) \in Nat
            /\ \A x \in s : SumFunctionOnSet(f, s)
                                = f[x] + SumFunctionOnSet(f, s \ {x})
           Good == {n \in Nat : \A s \in SUBSET S :
                        Cardinality(s) <= n => Fine(s)}
<1>1. \A s \in SUBSET S : IsFiniteSet(s) /\ Cardinality(s) \in Nat
  BY FS_Subset, FS_CardinalityType
<1>2. 0 \in Good
  <2> SUFFICES ASSUME NEW s \in SUBSET S, Cardinality(s) <= 0 PROVE Fine(s)
    OBVIOUS
  <2>1. s = {}
    BY <1>1, FS_EmptySet
  <2>2. SumFunctionOnSet(f, s) = 0
    BY <1>1, <2>1, SumUnfolds
  <2> QED  BY <2>1, <2>2
<1>3. ASSUME NEW n \in Nat, n \in Good PROVE n + 1 \in Good
  <2> SUFFICES ASSUME NEW s \in SUBSET S, Cardinality(s) <= n + 1
               PROVE  Fine(s)
    OBVIOUS
  <2>1. CASE s = {}
    <3>1. SumFunctionOnSet(f, s) = 0
      BY <1>1, <2>1, SumUnfolds
    <3> QED  BY <2>1, <3>1
  <2>2. CASE s # {}
    <3> DEFINE c == OneOf(s)
    <3>1. /\ c \in s /\ IsFiniteSet(Rest(s)) /\ Cardinality(s) \in Nat
          /\ Cardinality(Rest(s)) = Cardinality(s) - 1
          /\ Rest(s) = s \ {c} /\ Rest(s) \in SUBSET S
      BY <1>1, <2>2, RestIsLess DEF Rest
    <3>2. SumFunctionOnSet(f, s) = f[c] + SumFunctionOnSet(f, s \ {c})
      BY <1>1, <2>2, <3>1, SumUnfolds
    <3>3. Cardinality(Rest(s)) <= n
      BY <3>1
    <3> HIDE DEF Fine
    <3>4. Fine(s \ {c})
      BY <1>3, <3>1, <3>3
    <3> USE DEF Fine
    <3> HIDE DEF c
    <3>5. f[c] \in Nat /\ SumFunctionOnSet(f, s) \in Nat
      BY <3>1, <3>2, <3>4
    <3>6. ASSUME NEW x \in s, x # c
          PROVE  SumFunctionOnSet(f, s) = f[x] + SumFunctionOnSet(f, s \ {x})
      <4> DEFINE r == s \ {x}   q == (s \ {c}) \ {x}
      <4>1. x \in s \ {c} /\ c \in r /\ r \ {c} = q
        BY <3>1, <3>6
      <4>2. SumFunctionOnSet(f, s \ {c}) = f[x] + SumFunctionOnSet(f, q)
        BY <3>4, <4>1
      <4>3. IsFiniteSet(r) /\ Cardinality(r) = Cardinality(s) - 1
        BY <1>1, <3>6, FS_RemoveElement
      <4>4. r \in SUBSET S /\ Cardinality(r) <= n
        BY <3>1, <4>3
      <4> HIDE DEF Fine
      <4>5. Fine(r)
        BY <1>3, <4>4
      <4> USE DEF Fine
      <4>6. SumFunctionOnSet(f, r) = f[c] + SumFunctionOnSet(f, q)
        BY <4>1, <4>5
      <4>7. q \in SUBSET S /\ Cardinality(q) <= n
        <5>1. IsFiniteSet(s \ {c})
          BY <3>1
        <5>2. Cardinality(q) = Cardinality(s \ {c}) - 1
          BY <4>1, <5>1, FS_RemoveElement
        <5> QED  BY <3>1, <3>3, <5>2
      <4> HIDE DEF Fine
      <4>8. Fine(q)
        BY <1>3, <4>7
      <4> USE DEF Fine
      <4>9. f[x] \in Nat /\ f[c] \in Nat /\ SumFunctionOnSet(f, q) \in Nat
        BY <3>5, <4>8
      <4> HIDE DEF q, r, Fine
      <4>10. SumFunctionOnSet(f, s) = f[x] + SumFunctionOnSet(f, r)
        BY <3>2, <4>2, <4>6, <4>9
      <4> QED  BY <4>10 DEF r
    <3> QED  BY <3>2, <3>5, <3>6
  <2> QED  BY <2>1, <2>2
<1> HIDE DEF Good, Fine
<1>4. \A n \in Nat : n \in Good
  BY <1>2, <1>3, Climb
<1>5. Cardinality(S) \in Good /\ Cardinality(S) <= Cardinality(S)
  BY <1>1, <1>4
<1>6. Fine(S)
  BY <1>5 DEF Good
<1> QED  BY <1>6 DEF Fine

(* Only the summands matter.                                               *)
LEMMA SumSame ==
    ASSUME NEW f, NEW h, NEW S, IsFiniteSet(S), \A x \in S : f[x] = h[x]
    PROVE  SumFunctionOnSet(f, S) = SumFunctionOnSet(h, S)
<1>1. PICK g : SumSteps(g, f, SUBSET S)
  BY StepsExist
<1>2. ASSUME NEW s \in SUBSET S, s # {}
      PROVE  f[OneOf(s)] = h[OneOf(s)]
  <2>1. OneOf(s) \in s
    BY <1>2 DEF OneOf
  <2> QED  BY <2>1
<1>3. SumSteps(g, h, SUBSET S)
  <2>1. ASSUME NEW s \in SUBSET S
        PROVE  (IF s = {} THEN 0 ELSE f[OneOf(s)] + g[Rest(s)])
                    = IF s = {} THEN 0 ELSE h[OneOf(s)] + g[Rest(s)]
    BY <1>2
  <2>2. [s \in SUBSET S |-> IF s = {} THEN 0 ELSE f[OneOf(s)] + g[Rest(s)]]
            = [s \in SUBSET S |->
                    IF s = {} THEN 0 ELSE h[OneOf(s)] + g[Rest(s)]]
    BY <2>1
  <2> QED  BY <1>1, <2>2 DEF SumSteps
<1> QED  BY <1>1, <1>3, SumIsStep

(* Element by element: x below k, and then k itself.                       *)
Below(x, k) == {i \in x : i < k}
Bit(x, i) == IF i \in x THEN 1 ELSE 0

LEMMA SumPeels ==
    ASSUME NEW n \in Nat, NEW x \in SUBSET (0..n), NEW f, NEW k \in 0..n,
           \A i \in 0..n : f[i] \in Nat
    PROVE  /\ SumFunctionOnSet(f, Below(x, k)) \in Nat
           /\ SumFunctionOnSet(f, Below(x, k + 1)) =
                SumFunctionOnSet(f, Below(x, k)) + Bit(x, k) * f[k]
<1>0. \A i \in x : i \in 0..n /\ i \in Nat
  OBVIOUS
<1>1. \A j \in 0..n + 1 : Below(x, j) \in SUBSET (0..n)
                            /\ IsFiniteSet(Below(x, j))
  <2>1. IsFiniteSet(0..n)
    BY FS_Interval
  <2>2. \A j \in 0..n + 1 : Below(x, j) \in SUBSET (0..n)
    BY <1>0 DEF Below
  <2> QED  BY <2>1, <2>2, FS_Subset
<1>2. \A j \in 0..n + 1 : SumFunctionOnSet(f, Below(x, j)) \in Nat
  BY <1>1, SumTakesOut
<1>3. SumFunctionOnSet(f, Below(x, k)) \in Nat
  BY <1>2
<1>6. \A i \in x : i < k + 1 <=> i < k \/ i = k
  BY <1>0
<1>4. CASE k \in x
  <2>1. k \in Below(x, k + 1) /\ Below(x, k + 1) \ {k} = Below(x, k)
    <3>1. k < k + 1 /\ ~(k < k)
      OBVIOUS
    <3> QED  BY <1>4, <1>6, <3>1 DEF Below
  <2>2. SumFunctionOnSet(f, Below(x, k + 1))
            = f[k] + SumFunctionOnSet(f, Below(x, k))
    <3>1. \A i \in Below(x, k + 1) : f[i] \in Nat
      BY DEF Below
    <3> QED  BY <1>1, <2>1, <3>1, SumTakesOut
  <2> QED  BY <1>3, <1>4, <2>2 DEF Bit
<1>5. CASE k \notin x
  <2>1. Below(x, k + 1) = Below(x, k)
    BY <1>5, <1>6 DEF Below
  <2>2. f[k] \in Nat
    OBVIOUS
  <2> QED  BY <1>3, <1>5, <2>1, <2>2 DEF Bit
<1> QED  BY <1>3, <1>4, <1>5

-----------------------------------------------------------------------------
(* Places and numbers.                                                     *)

LEMMA Powers ==
    /\ 2^0 = 1 /\ 2^1 = 2 /\ 2^2 = 4 /\ 2^3 = 8 /\ 2^4 = 16 /\ 2^5 = 32
    /\ 2^6 = 64 /\ 2^7 = 128 /\ 2^8 = 256 /\ 2^9 = 512 /\ 2^10 = 1024
    /\ 2^11 = 2048 /\ 2^12 = 4096 /\ 2^13 = 8192 /\ 2^14 = 16384
    /\ 2^15 = 32768 /\ 2^16 = 65536
BY SMT

LEMMA BitsAre == \A x, i : Bit(x, i) \in {0, 1}
BY DEF Bit

LEMMA HalfIs ==
    ASSUME NEW x \in SUBSET (0..15)
    PROVE  Half(x) = Bit(x, 0) + 2 * Bit(x, 1) + 4 * Bit(x, 2)
                + 8 * Bit(x, 3) + 16 * Bit(x, 4) + 32 * Bit(x, 5)
                + 64 * Bit(x, 6) + 128 * Bit(x, 7) + 256 * Bit(x, 8)
                + 512 * Bit(x, 9) + 1024 * Bit(x, 10) + 2048 * Bit(x, 11)
                + 4096 * Bit(x, 12) + 8192 * Bit(x, 13) + 16384 * Bit(x, 14)
                + 32768 * Bit(x, 15)
<1>0. \A i \in x : i \in Nat /\ i < 16
  BY SMT
<1> DEFINE f == [i \in 0..15 |-> 2^i]
           P(k) == SumFunctionOnSet(f, Below(x, k))
<1>2. /\ f[0] = 1 /\ f[1] = 2 /\ f[2] = 4 /\ f[3] = 8 /\ f[4] = 16
      /\ f[5] = 32 /\ f[6] = 64 /\ f[7] = 128 /\ f[8] = 256 /\ f[9] = 512
      /\ f[10] = 1024 /\ f[11] = 2048 /\ f[12] = 4096 /\ f[13] = 8192
      /\ f[14] = 16384 /\ f[15] = 32768
  BY Powers, SMT
<1>1. \A i \in 0..15 : f[i] \in Nat
  <2> HIDE DEF f
  <2> SUFFICES ASSUME NEW i \in 0..15 PROVE f[i] \in Nat
    OBVIOUS
  <2>1. \/ i = 0 \/ i = 1 \/ i = 2 \/ i = 3 \/ i = 4 \/ i = 5 \/ i = 6
        \/ i = 7 \/ i = 8 \/ i = 9 \/ i = 10 \/ i = 11 \/ i = 12 \/ i = 13
        \/ i = 14 \/ i = 15
    BY SMT
  <2> QED  BY <1>2, <2>1, SMT
<1>3. P(0) = 0
  <2>1. Below(x, 0) = {}
    <3>1. \A i \in x : ~(i < 0)
      BY <1>0
    <3> QED  BY <3>1 DEF Below
  <2>2. SumFunctionOnSet(f, {}) = 0
    BY SumUnfolds, FS_EmptySet
  <2> QED  BY <2>1, <2>2
<1>4. \A k \in 0..15 : P(k + 1) = P(k) + Bit(x, k) * f[k]
  <2> HIDE DEF f
  <2>1. 15 \in Nat
    BY SMT
  <2> QED  BY <1>1, <2>1, SumPeels
<1>5. Half(x) = P(16)
  <2>1. Below(x, 16) = x
    BY <1>0 DEF Below
  <2> QED  BY <2>1 DEF Half
<1> HIDE DEF P, f
<1>6. /\ P(1) = P(0) + Bit(x, 0) * 1 /\ P(2) = P(1) + Bit(x, 1) * 2
      /\ P(3) = P(2) + Bit(x, 2) * 4 /\ P(4) = P(3) + Bit(x, 3) * 8
      /\ P(5) = P(4) + Bit(x, 4) * 16 /\ P(6) = P(5) + Bit(x, 5) * 32
      /\ P(7) = P(6) + Bit(x, 6) * 64 /\ P(8) = P(7) + Bit(x, 7) * 128
  <2>1. /\ 0 + 1 = 1 /\ 1 + 1 = 2 /\ 2 + 1 = 3 /\ 3 + 1 = 4 /\ 4 + 1 = 5
        /\ 5 + 1 = 6 /\ 6 + 1 = 7 /\ 7 + 1 = 8
    OBVIOUS
  <2> QED  BY <1>2, <1>4, <2>1, SMT
<1>7. /\ P(9) = P(8) + Bit(x, 8) * 256 /\ P(10) = P(9) + Bit(x, 9) * 512
      /\ P(11) = P(10) + Bit(x, 10) * 1024
      /\ P(12) = P(11) + Bit(x, 11) * 2048
      /\ P(13) = P(12) + Bit(x, 12) * 4096
      /\ P(14) = P(13) + Bit(x, 13) * 8192
      /\ P(15) = P(14) + Bit(x, 14) * 16384
      /\ P(16) = P(15) + Bit(x, 15) * 32768
  <2>1. /\ 8 + 1 = 9 /\ 9 + 1 = 10 /\ 10 + 1 = 11 /\ 11 + 1 = 12
        /\ 12 + 1 = 13 /\ 13 + 1 = 14 /\ 14 + 1 = 15 /\ 15 + 1 = 16
    BY SMT
  <2> QED  BY <1>2, <1>4, <2>1, SMT
<1> QED  BY <1>3, <1>5, <1>6, <1>7, BitsAre, SMT

Halves == {n \in Nat : n < 65536}
Numbers == {n \in Nat : n < 4294967296}

LEMMA Binary ==
    ASSUME NEW b0 \in 0..1, NEW b1 \in 0..1, NEW b2 \in 0..1, NEW b3 \in 0..1,
           NEW b4 \in 0..1, NEW b5 \in 0..1, NEW b6 \in 0..1, NEW b7 \in 0..1,
           NEW c \in Nat
    PROVE  /\ b0 + 2 * b1 + 4 * b2 + 8 * b3 + 16 * b4 + 32 * b5 + 64 * b6
                + 128 * b7 + 256 * c \in Nat
           /\ b0 + 2 * b1 + 4 * b2 + 8 * b3 + 16 * b4 + 32 * b5 + 64 * b6
                + 128 * b7 + 256 * c < 256 * (c + 1)
BY SMT

LEMMA Regroup ==
    ASSUME NEW l \in Nat, NEW b8 \in 0..1, NEW b9 \in 0..1, NEW b10 \in 0..1,
           NEW b11 \in 0..1, NEW b12 \in 0..1, NEW b13 \in 0..1,
           NEW b14 \in 0..1, NEW b15 \in 0..1
    PROVE  l + 256 * b8 + 512 * b9 + 1024 * b10 + 2048 * b11 + 4096 * b12
                + 8192 * b13 + 16384 * b14 + 32768 * b15
            = l + 256 * (b8 + 2 * b9 + 4 * b10 + 8 * b11 + 16 * b12 + 32 * b13
                            + 64 * b14 + 128 * b15 + 256 * 0)
BY SMT

LEMMA HalfRange ==
    ASSUME NEW x \in SUBSET (0..15) PROVE Half(x) \in Halves
<1> DEFINE u == Bit(x, 8) + 2 * Bit(x, 9) + 4 * Bit(x, 10) + 8 * Bit(x, 11)
                + 16 * Bit(x, 12) + 32 * Bit(x, 13) + 64 * Bit(x, 14)
                + 128 * Bit(x, 15) + 256 * 0
           l == Bit(x, 0) + 2 * Bit(x, 1) + 4 * Bit(x, 2) + 8 * Bit(x, 3)
                + 16 * Bit(x, 4) + 32 * Bit(x, 5) + 64 * Bit(x, 6)
                + 128 * Bit(x, 7) + 256 * u
<1>1. \A i : Bit(x, i) \in 0..1
  BY DEF Bit
<1>2. u \in Nat /\ u < 256
  BY <1>1, Binary, SMT
<1> HIDE DEF u
<1>3. l \in Nat /\ l < 256 * (u + 1)
  BY <1>1, <1>2, Binary, SMT
<1>4. Half(x) = l
  <2> DEFINE low == Bit(x, 0) + 2 * Bit(x, 1) + 4 * Bit(x, 2) + 8 * Bit(x, 3)
                + 16 * Bit(x, 4) + 32 * Bit(x, 5) + 64 * Bit(x, 6)
                + 128 * Bit(x, 7)
  <2>1. low \in Nat
    <3>1. low + 256 * 0 \in Nat
      BY <1>1, Binary, SMT
    <3> QED  BY <1>1, <3>1, SMT
  <2>2. Half(x) = low + 256 * Bit(x, 8) + 512 * Bit(x, 9) + 1024 * Bit(x, 10)
                + 2048 * Bit(x, 11) + 4096 * Bit(x, 12) + 8192 * Bit(x, 13)
                + 16384 * Bit(x, 14) + 32768 * Bit(x, 15)
    BY HalfIs, SMT
  <2> HIDE DEF low
  <2>3. Half(x) = low + 256 * u
    BY <1>1, <2>1, <2>2, Regroup, SMT DEF u
  <2> QED  BY <2>3, SMT DEF low
<1>5. l < 65536
  <2> HIDE DEF l
  <2> QED  BY <1>2, <1>3, SMT
<1> QED  BY <1>3, <1>4, <1>5, SMT DEF Halves

(* A number below 2^16 is found again in its bits.                         *)
LEMMA HalfOfBits ==
    ASSUME NEW v \in Halves
    PROVE  BitsOf(16, v) \in SUBSET (0..15) /\ Half(BitsOf(16, v)) = v
<1> DEFINE x == BitsOf(16, v)
<1>0. v \in Nat
  BY SMT DEF Halves
<1>1. x \in SUBSET (0..15)
  BY DEF BitsOf
<1>2. \A i \in 0..15 : Bit(x, i) = (v \div 2^i) % 2
  <2> SUFFICES ASSUME NEW i \in 0..15 PROVE Bit(x, i) = (v \div 2^i) % 2
    OBVIOUS
  <2>1. i \in x <=> (v \div 2^i) % 2 = 1
    <3>1. 16 - 1 = 15
      BY SMT
    <3> QED  BY <3>1, Zenon DEF BitsOf
  <2>2. (v \div 2^i) % 2 \in {0, 1}
    <3>1. \/ i = 0 \/ i = 1 \/ i = 2 \/ i = 3 \/ i = 4 \/ i = 5 \/ i = 6
          \/ i = 7 \/ i = 8 \/ i = 9 \/ i = 10 \/ i = 11 \/ i = 12
          \/ i = 13 \/ i = 14 \/ i = 15
      BY SMT
    <3> QED  BY <1>0, <3>1, Powers, SMT
  <2> QED  BY <2>1, <2>2, Zenon DEF Bit
<1> HIDE DEF x
<1>3. /\ Bit(x, 0) = v % 2 /\ Bit(x, 1) = (v \div 2) % 2
      /\ Bit(x, 2) = (v \div 4) % 2 /\ Bit(x, 3) = (v \div 8) % 2
      /\ Bit(x, 4) = (v \div 16) % 2 /\ Bit(x, 5) = (v \div 32) % 2
      /\ Bit(x, 6) = (v \div 64) % 2 /\ Bit(x, 7) = (v \div 128) % 2
      /\ Bit(x, 8) = (v \div 256) % 2 /\ Bit(x, 9) = (v \div 512) % 2
      /\ Bit(x, 10) = (v \div 1024) % 2 /\ Bit(x, 11) = (v \div 2048) % 2
      /\ Bit(x, 12) = (v \div 4096) % 2 /\ Bit(x, 13) = (v \div 8192) % 2
      /\ Bit(x, 14) = (v \div 16384) % 2 /\ Bit(x, 15) = (v \div 32768) % 2
  BY <1>0, <1>2, Powers, SMT
<1>4. /\ v \div 2 = 2 * (v \div 4) + ((v \div 2) % 2)
      /\ v \div 4 = 2 * (v \div 8) + ((v \div 4) % 2)
      /\ v \div 8 = 2 * (v \div 16) + ((v \div 8) % 2)
      /\ v \div 16 = 2 * (v \div 32) + ((v \div 16) % 2)
      /\ v \div 32 = 2 * (v \div 64) + ((v \div 32) % 2)
  BY <1>0, SMT
<1>5. /\ v \div 64 = 2 * (v \div 128) + ((v \div 64) % 2)
      /\ v \div 128 = 2 * (v \div 256) + ((v \div 128) % 2)
      /\ v \div 256 = 2 * (v \div 512) + ((v \div 256) % 2)
      /\ v \div 512 = 2 * (v \div 1024) + ((v \div 512) % 2)
      /\ v \div 1024 = 2 * (v \div 2048) + ((v \div 1024) % 2)
  BY <1>0, SMT
<1>6. /\ v \div 2048 = 2 * (v \div 4096) + ((v \div 2048) % 2)
      /\ v \div 4096 = 2 * (v \div 8192) + ((v \div 4096) % 2)
      /\ v \div 8192 = 2 * (v \div 16384) + ((v \div 8192) % 2)
      /\ v \div 16384 = 2 * (v \div 32768) + ((v \div 16384) % 2)
      /\ v \div 32768 = (v \div 32768) % 2
  <2>1. v < 65536
    BY SMT DEF Halves
  <2> QED  BY <1>0, <2>1, SMT
<1>7. v = 2 * (v \div 2) + (v % 2)
  BY <1>0, SMT
<1>8. Half(x) = (v % 2) + 2 * ((v \div 2) % 2) + 4 * ((v \div 4) % 2)
        + 8 * ((v \div 8) % 2) + 16 * ((v \div 16) % 2)
        + 32 * ((v \div 32) % 2) + 64 * ((v \div 64) % 2)
        + 128 * ((v \div 128) % 2) + 256 * ((v \div 256) % 2)
        + 512 * ((v \div 512) % 2) + 1024 * ((v \div 1024) % 2)
        + 2048 * ((v \div 2048) % 2) + 4096 * ((v \div 4096) % 2)
        + 8192 * ((v \div 8192) % 2) + 16384 * ((v \div 16384) % 2)
        + 32768 * ((v \div 32768) % 2)
  BY <1>1, <1>3, HalfIs, SMT
<1>9. Half(x) = v
  BY <1>0, <1>4, <1>5, <1>6, <1>7, <1>8, SMT
<1> QED  BY <1>1, <1>9 DEF x

-----------------------------------------------------------------------------
(* Words and sums.                                                         *)

Word32 == SUBSET (0..31)
Val(x) == 65536 * Half(Upper(x)) + Half(Lower(x))
WordOf(n) == Word((n \div 65536) % 65536, n % 65536)

Uppers(ws) == [k \in DOMAIN ws |-> Half(Upper(ws[k]))]
Lowers(ws) == [k \in DOMAIN ws |-> Half(Lower(ws[k]))]
Num(ws) == 65536 * SumFunction(Uppers(ws)) + SumFunction(Lowers(ws))

LEMMA HalvesOf ==
    ASSUME NEW x \in Word32
    PROVE  /\ Upper(x) \in SUBSET (0..15) /\ Lower(x) \in SUBSET (0..15)
           /\ Half(Upper(x)) \in Halves /\ Half(Lower(x)) \in Halves
           /\ Val(x) \in Numbers
<1>1. \A i \in x : i \in 0..31
  BY DEF Word32
<1>2. Upper(x) \in SUBSET (0..15)
  <2>1. \A i \in x : i >= 16 => i - 16 \in 0..15
    BY <1>1, SMT
  <2> QED  BY <2>1, SMT DEF Upper
<1>3. Lower(x) \in SUBSET (0..15)
  <2>1. \A i \in x : i < 16 => i \in 0..15
    BY <1>1, SMT
  <2> QED  BY <2>1, SMT DEF Lower
<1>4. Half(Upper(x)) \in Halves /\ Half(Lower(x)) \in Halves
  BY <1>2, <1>3, HalfRange
<1>5. Val(x) \in Numbers
  <2> DEFINE h == Half(Upper(x))   l == Half(Lower(x))
  <2>1. h \in Nat /\ h < 65536 /\ l \in Nat /\ l < 65536
    BY <1>4 DEF Halves
  <2> HIDE DEF h, l
  <2>2. 65536 * h + l \in Nat /\ 65536 * h + l < 4294967296
    BY <2>1, SMT
  <2> QED  BY <2>2 DEF Val, Numbers, h, l
<1> QED  BY <1>2, <1>3, <1>4, <1>5, Zenon

LEMMA WordHalves ==
    ASSUME NEW hi \in Halves, NEW lo \in Halves
    PROVE  Word(hi, lo) \in Word32 /\ Val(Word(hi, lo)) = 65536 * hi + lo
<1> DEFINE H == BitsOf(16, hi)
           L == BitsOf(16, lo)
           x == L \cup {i + 16 : i \in H}
<1>0. Word(hi, lo) = x
  BY Zenon DEF Word
<1>1. H \in SUBSET (0..15) /\ L \in SUBSET (0..15)
  BY HalfOfBits
<1>2. Half(H) = hi /\ Half(L) = lo
  BY HalfOfBits
<1> HIDE DEF H, L
<1>3. /\ \A i \in L : i < 16 /\ ~(i >= 16) /\ i \in 0..31
      /\ \A i \in H : /\ ~(i + 16 < 16) /\ i + 16 >= 16 /\ (i + 16) - 16 = i
                     /\ i + 16 \in 0..31
  BY ONLY <1>1, SMT
<1>4. x \in Word32
  <2>1. \A i \in x : i \in 0..31
    <3>1. \A i \in x : i \in L \/ \E k \in H : i = k + 16
      BY DEF x
    <3> HIDE DEF x
    <3> QED  BY ONLY <1>3, <3>1, SMT
  <2> QED  BY ONLY <2>1, Zenon DEF Word32
<1>5. Lower(x) = L
  <2>1. ASSUME NEW i \in Lower(x) PROVE i \in L
    <3>1. i \in x /\ i < 16
      BY ONLY <2>1, Zenon DEF Lower
    <3>2. i \in L \/ \E k \in H : i = k + 16
      BY ONLY <3>1 DEF x
    <3> HIDE DEF x
    <3> QED  BY ONLY <1>3, <3>1, <3>2
  <2>2. ASSUME NEW i \in L PROVE i \in Lower(x)
    <3>1. i \in x /\ i < 16
      BY <1>3, <2>2
    <3> QED  BY ONLY <3>1, Zenon DEF Lower
  <2> QED  BY ONLY <2>1, <2>2, Zenon
<1>6. Upper(x) = H
  <2>1. ASSUME NEW i \in H PROVE i \in Upper(x)
    <3>1. i + 16 \in x /\ i + 16 >= 16 /\ (i + 16) - 16 = i
      BY ONLY <1>3, <2>1, Zenon DEF x
    <3> DEFINE j == i + 16
    <3>2. j \in {k \in x : k >= 16} /\ j - 16 = i
      BY <3>1, Zenon
    <3> HIDE DEF j, x
    <3> QED  BY ONLY <3>2, Zenon DEF Upper
  <2>2. ASSUME NEW i \in Upper(x) PROVE i \in H
    <3>1. PICK j \in x : j >= 16 /\ i = j - 16
      BY ONLY <2>2, Zenon DEF Upper
    <3>2. PICK k \in H : j = k + 16
      BY ONLY <1>3, <3>1, Zenon DEF x
    <3> QED  BY ONLY <1>3, <3>1, <3>2, Zenon
  <2> QED  BY ONLY <2>1, <2>2, Zenon
<1> QED  BY <1>0, <1>2, <1>4, <1>5, <1>6, SMT DEF Val


LEMMA Halving ==
    ASSUME NEW n \in Nat
    PROVE  /\ n \div 65536 \in Nat /\ n % 65536 \in Nat /\ n % 65536 < 65536
           /\ n = 65536 * (n \div 65536) + (n % 65536)
BY SMT

(* Of a number, 65536 times hi and lo together.                            *)
LEMMA HalvesOfSum ==
    ASSUME NEW hi \in Nat, NEW lo \in Nat
    PROVE  /\ (65536 * hi + lo) \div 65536 = hi + (lo \div 65536)
           /\ (65536 * hi + lo) % 65536 = lo % 65536
<1>1. /\ lo \div 65536 \in Nat /\ lo % 65536 \in Nat /\ lo % 65536 < 65536
      /\ lo = 65536 * (lo \div 65536) + (lo % 65536)
  BY Halving
<1> DEFINE q == lo \div 65536   r == lo % 65536   n == 65536 * hi + lo
<1>2. n \in Nat
  BY SMT
<1>3. /\ n \div 65536 \in Nat /\ n % 65536 \in Nat /\ n % 65536 < 65536
      /\ n = 65536 * (n \div 65536) + (n % 65536)
  BY <1>2, Halving
<1>4. n = 65536 * (hi + q) + r
  BY <1>1, SMT
<1> DEFINE p == n \div 65536   s == n % 65536
<1> HIDE DEF q, r, n
<1>5. q \in Nat /\ r \in Nat /\ r < 65536
  BY <1>1 DEF q, r
<1>6. p \in Nat /\ s \in Nat /\ s < 65536 /\ n = 65536 * p + s
  BY <1>3
<1> HIDE DEF p, s
<1>7. p = hi + q /\ s = r
  BY <1>4, <1>5, <1>6, SMT
<1> QED  BY <1>7 DEF p, s, n, q, r

LEMMA HalvesOfTop ==
    ASSUME NEW n \in Nat
    PROVE  /\ (n \div 65536) \div 65536 = n \div 4294967296
           /\ n % 4294967296 = 65536 * ((n \div 65536) % 65536) + (n % 65536)
           /\ n = 4294967296 * (n \div 4294967296) + (n % 4294967296)
           /\ n \div 4294967296 \in Nat
           /\ n % 4294967296 \in Nat /\ n % 4294967296 < 4294967296
<1> DEFINE h == n \div 65536   l == n % 65536
           q == h \div 65536   r == h % 65536
           p == n \div 4294967296   s == n % 4294967296
<1>1. h \in Nat /\ l \in Nat /\ l < 65536 /\ n = 65536 * h + l
  BY Halving
<1>2. q \in Nat /\ r \in Nat /\ r < 65536 /\ h = 65536 * q + r
  BY <1>1, Halving
<1>3. /\ p \in Nat /\ s \in Nat /\ s < 4294967296
      /\ n = 4294967296 * p + s
  BY SMT
<1> HIDE DEF h, l, q, r, p, s
<1>4. q = p /\ s = 65536 * r + l
  BY <1>1, <1>2, <1>3, SMT
<1> QED  BY <1>3, <1>4 DEF h, l, q, r, p, s

LEMMA NumEmpty == Num(<<>>) = 0
<1>1. DOMAIN Uppers(<<>>) = {} /\ DOMAIN Lowers(<<>>) = {}
  BY DEF Uppers, Lowers
<1>2. \A f : SumFunctionOnSet(f, {}) = 0
  BY SumUnfolds, FS_EmptySet
<1>3. SumFunction(Uppers(<<>>)) = 0 /\ SumFunction(Lowers(<<>>)) = 0
  BY <1>1, <1>2, Zenon DEF SumFunction
<1> QED  BY <1>3, SMT DEF Num

LEMMA SumAppend ==
    \A n \in Nat : \A f, g, v :
        /\ n \in Nat /\ v \in Nat /\ g[n + 1] = v
        /\ DOMAIN f = 1..n /\ DOMAIN g = 1..(n + 1)
        /\ \A k \in 1..n : f[k] \in Nat /\ g[k] = f[k]
        => SumFunction(f) \in Nat /\ SumFunction(g) = SumFunction(f) + v
<1> SUFFICES ASSUME NEW n \in Nat, NEW f, NEW g, NEW v \in Nat,
                    \A k \in 1..n : f[k] \in Nat /\ g[k] = f[k],
                    DOMAIN f = 1..n, DOMAIN g = 1..(n + 1), g[n + 1] = v
             PROVE  /\ SumFunction(f) \in Nat
                    /\ SumFunction(g) = SumFunction(f) + v
  OBVIOUS
<1>1. IsFiniteSet(1..n) /\ IsFiniteSet(1..(n + 1))
  BY FS_Interval
<1>2. SumFunctionOnSet(f, 1..n) \in Nat
  BY <1>1, SumTakesOut
<1>3. SumFunctionOnSet(g, 1..n) = SumFunctionOnSet(f, 1..n)
  BY <1>1, SumSame
<1>4. \A k \in 1..(n + 1) : g[k] \in Nat
  <2>1. \A k \in 1..(n + 1) : k \in 1..n \/ k = n + 1
    OBVIOUS
  <2> QED  BY <2>1
<1>5. n + 1 \in 1..(n + 1) /\ (1..(n + 1)) \ {n + 1} = 1..n
  OBVIOUS
<1>6. SumFunctionOnSet(g, 1..(n + 1)) = v + SumFunctionOnSet(g, 1..n)
  <2> DEFINE S == 1..(n + 1)
  <2>1. S \ {n + 1} = 1..n /\ n + 1 \in S
    BY <1>5
  <2>2. IsFiniteSet(S) /\ \A k \in S : g[k] \in Nat
    BY <1>1, <1>4
  <2> HIDE DEF S
  <2>3. \A k \in S : SumFunctionOnSet(g, S)
                        = g[k] + SumFunctionOnSet(g, S \ {k})
    BY <2>2, SumTakesOut
  <2> QED  BY <2>1, <2>3 DEF S
<1> QED  BY <1>2, <1>3, <1>6 DEF SumFunction

LEMMA NumAppend ==
    ASSUME NEW ws \in Seq(Word32), NEW x \in Word32
    PROVE  Num(ws) \in Nat /\ Num(Append(ws, x)) = Num(ws) + Val(x)
<1> DEFINE n == Len(ws)   bs == Append(ws, x)
           hi == SumFunction(Uppers(ws))   lo == SumFunction(Lowers(ws))
<1>1. /\ n \in Nat /\ DOMAIN ws = 1..n /\ DOMAIN bs = 1..(n + 1)
      /\ \A k \in 1..n : ws[k] \in Word32 /\ bs[k] = ws[k]
      /\ bs[n + 1] = x
  OBVIOUS
<1>2. \A y \in Word32 : Half(Upper(y)) \in Nat /\ Half(Lower(y)) \in Nat
  BY HalvesOf, SMT DEF Halves
<1> HIDE DEF bs, n
<1>3. hi \in Nat /\ SumFunction(Uppers(bs)) = hi + Half(Upper(x))
  <2>1. \A k \in 1..n : Uppers(ws)[k] \in Nat /\ Uppers(bs)[k] = Uppers(ws)[k]
    <3>1. \A k \in 1..n : k \in 1..(n + 1)
      BY <1>1
    <3> QED  BY <1>1, <1>2, <3>1 DEF Uppers
  <2>2. /\ DOMAIN Uppers(ws) = 1..n /\ DOMAIN Uppers(bs) = 1..(n + 1)
        /\ Uppers(bs)[n + 1] = Half(Upper(x))
    BY <1>1 DEF Uppers
  <2>3. Half(Upper(x)) \in Nat /\ n \in Nat
    BY <1>1, <1>2
  <2> DEFINE f == Uppers(ws)   g == Uppers(bs)   v == Half(Upper(x))
  <2> HIDE DEF f, g, v
  <2>4. /\ n \in Nat /\ v \in Nat /\ g[n + 1] = v
        /\ DOMAIN f = 1..n /\ DOMAIN g = 1..(n + 1)
        /\ \A k \in 1..n : f[k] \in Nat /\ g[k] = f[k]
    BY ONLY <2>1, <2>2, <2>3, Zenon DEF f, g, v
  <2>5. SumFunction(f) \in Nat /\ SumFunction(g) = SumFunction(f) + v
    <3>1. n \in Nat
      BY ONLY <2>4
    <3>2. \A p, q, r :
            /\ n \in Nat /\ r \in Nat /\ q[n + 1] = r
            /\ DOMAIN p = 1..n /\ DOMAIN q = 1..(n + 1)
            /\ \A k \in 1..n : p[k] \in Nat /\ q[k] = p[k]
            => SumFunction(p) \in Nat /\ SumFunction(q) = SumFunction(p) + r
      BY ONLY <3>1, SumAppend
    <3> QED  BY ONLY <2>4, <3>2
  <2> QED  BY <2>5 DEF f, g, v
<1>4. lo \in Nat /\ SumFunction(Lowers(bs)) = lo + Half(Lower(x))
  <2>1. \A k \in 1..n : Lowers(ws)[k] \in Nat /\ Lowers(bs)[k] = Lowers(ws)[k]
    <3>1. \A k \in 1..n : k \in 1..(n + 1)
      BY <1>1
    <3> QED  BY <1>1, <1>2, <3>1 DEF Lowers
  <2>2. /\ DOMAIN Lowers(ws) = 1..n /\ DOMAIN Lowers(bs) = 1..(n + 1)
        /\ Lowers(bs)[n + 1] = Half(Lower(x))
    BY <1>1 DEF Lowers
  <2>3. Half(Lower(x)) \in Nat /\ n \in Nat
    BY <1>1, <1>2
  <2> DEFINE f == Lowers(ws)   g == Lowers(bs)   v == Half(Lower(x))
  <2> HIDE DEF f, g, v
  <2>4. /\ n \in Nat /\ v \in Nat /\ g[n + 1] = v
        /\ DOMAIN f = 1..n /\ DOMAIN g = 1..(n + 1)
        /\ \A k \in 1..n : f[k] \in Nat /\ g[k] = f[k]
    BY ONLY <2>1, <2>2, <2>3, Zenon DEF f, g, v
  <2>5. SumFunction(f) \in Nat /\ SumFunction(g) = SumFunction(f) + v
    <3>1. n \in Nat
      BY ONLY <2>4
    <3>2. \A p, q, r :
            /\ n \in Nat /\ r \in Nat /\ q[n + 1] = r
            /\ DOMAIN p = 1..n /\ DOMAIN q = 1..(n + 1)
            /\ \A k \in 1..n : p[k] \in Nat /\ q[k] = p[k]
            => SumFunction(p) \in Nat /\ SumFunction(q) = SumFunction(p) + r
      BY ONLY <3>1, SumAppend
    <3> QED  BY ONLY <2>4, <3>2
  <2> QED  BY <2>5 DEF f, g, v
<1> DEFINE u == Half(Upper(x))   l == Half(Lower(x))
<1>5. u \in Nat /\ l \in Nat
  BY <1>2
<1>6. Num(ws) = 65536 * hi + lo /\ Val(x) = 65536 * u + l
        /\ Num(bs) = 65536 * (hi + u) + (lo + l)
  BY <1>3, <1>4, SMT DEF Num, Val
<1> HIDE DEF hi, lo, u, l
<1>7. hi \in Nat /\ lo \in Nat
  BY <1>3, <1>4
<1>8. Num(ws) \in Nat /\ Num(bs) = Num(ws) + Val(x)
  BY <1>5, <1>6, <1>7, SMT
<1> QED  BY <1>8 DEF bs

(* A sum of words is that of their values, modulo 2^32; the carries are    *)
(* how often 2^32 goes into it.                                            *)
LEMMA SumIsModular ==
    ASSUME NEW ws \in Seq(Word32)
    PROVE  /\ Num(ws) \in Nat
           /\ Sum32(ws) = WordOf(Num(ws))
           /\ Carries(ws) = Num(ws) \div 4294967296
<1>1. {} \in Word32
  BY DEF Word32
<1> DEFINE hi == SumFunction(Uppers(ws))   lo == SumFunction(Lowers(ws))
<1>2. hi \in Nat /\ lo \in Nat
  <2> DEFINE n == Len(ws)
  <2>1. n \in Nat /\ DOMAIN ws = 1..n /\ \A k \in 1..n : ws[k] \in Word32
    OBVIOUS
  <2>2. \A y \in Word32 : Half(Upper(y)) \in Nat /\ Half(Lower(y)) \in Nat
    BY HalvesOf, SMT DEF Halves
  <2>3. IsFiniteSet(1..n)
    BY <2>1, FS_Interval
  <2> HIDE DEF n
  <2>4. \A k \in 1..n : Uppers(ws)[k] \in Nat /\ Lowers(ws)[k] \in Nat
    BY <2>1, <2>2 DEF Uppers, Lowers
  <2>5. DOMAIN Uppers(ws) = 1..n /\ DOMAIN Lowers(ws) = 1..n
    BY <2>1 DEF Uppers, Lowers
  <2> QED  BY <2>3, <2>4, <2>5, SumTakesOut DEF SumFunction
<1>3. Total(ws) = <<hi + (lo \div 65536), lo % 65536>>
  BY Powers DEF Total, Uppers, Lowers
<1> DEFINE n == 65536 * hi + lo
<1>4. n \in Nat /\ Num(ws) = n
  BY <1>2, SMT DEF Num
<1>5. n \div 65536 = hi + (lo \div 65536) /\ n % 65536 = lo % 65536
  BY <1>2, HalvesOfSum
<1>6. Total(ws) = <<n \div 65536, n % 65536>>
  BY <1>3, <1>5
<1> HIDE DEF n
<1>7. Sum32(ws) = WordOf(n)
  BY <1>6, Powers DEF Sum32, WordOf
<1>8. Carries(ws) = (n \div 65536) \div 65536
  BY <1>6, Powers DEF Carries
<1>9. (n \div 65536) \div 65536 = n \div 4294967296
  BY <1>4, HalvesOfTop
<1> QED  BY <1>4, <1>7, <1>8, <1>9

LEMMA WordOfNumber ==
    ASSUME NEW n \in Nat
    PROVE  /\ WordOf(n) \in Word32 /\ Val(WordOf(n)) = n % 4294967296
           /\ Val(WordOf(n)) \in Nat
<1> DEFINE hi == (n \div 65536) % 65536   lo == n % 65536
<1>1. n \div 65536 \in Nat
  BY Halving
<1>2. hi \in Halves /\ lo \in Halves
  BY <1>1, Halving DEF Halves
<1>3. n % 4294967296 = 65536 * hi + lo /\ n % 4294967296 \in Nat
  BY HalvesOfTop
<1> HIDE DEF hi, lo
<1>4. Word(hi, lo) \in Word32 /\ Val(Word(hi, lo)) = 65536 * hi + lo
  BY <1>2, WordHalves
<1> QED  BY <1>3, <1>4 DEF WordOf, hi, lo

(* Multiples of 2^32 do not show.                                          *)
LEMMA WordOfRest ==
    ASSUME NEW n \in Nat
    PROVE  WordOf(n % 4294967296) = WordOf(n)
<1> DEFINE h == n \div 65536   l == n % 65536   r == h % 65536
           s == n % 4294967296
<1>1. h \in Nat /\ l \in Nat /\ l < 65536
  BY Halving
<1>2. r \in Nat /\ r < 65536
  BY <1>1, Halving
<1>3. s = 65536 * r + l
  BY HalvesOfTop
<1> HIDE DEF h, l, r, s
<1>4. s \div 65536 = r + (l \div 65536) /\ s % 65536 = l % 65536
  BY <1>1, <1>2, <1>3, HalvesOfSum
<1>5. l \div 65536 = 0 /\ l % 65536 = l /\ r % 65536 = r
  BY <1>1, <1>2, SMT
<1>6. (s \div 65536) % 65536 = r /\ s % 65536 = l
  BY <1>2, <1>4, <1>5, SMT
<1> QED  BY <1>6 DEF WordOf, h, l, r, s
-----------------------------------------------------------------------------
(* Sums of a few words.                                                    *)

LEMMA ValIsNumber ==
    ASSUME NEW x \in Word32
    PROVE  Val(x) \in Nat /\ Val(x) < 4294967296
BY HalvesOf, SMT DEF Numbers

LEMMA NumOne ==
    ASSUME NEW a \in Word32
    PROVE  <<a>> \in Seq(Word32) /\ Num(<<a>>) = Val(a)
<1>1. <<>> \in Seq(Word32) /\ <<a>> = Append(<<>>, a)
  OBVIOUS
<1>2. Num(<<a>>) = Num(<<>>) + Val(a)
  BY <1>1, NumAppend
<1> QED  BY <1>1, <1>2, NumEmpty, ValIsNumber

LEMMA NumTwo ==
    ASSUME NEW a \in Word32, NEW b \in Word32
    PROVE  <<a, b>> \in Seq(Word32) /\ Num(<<a, b>>) = Val(a) + Val(b)
<1>1. <<a>> \in Seq(Word32) /\ <<a, b>> = Append(<<a>>, b)
  OBVIOUS
<1>2. Num(<<a, b>>) = Num(<<a>>) + Val(b)
  BY <1>1, NumAppend
<1> QED  BY <1>1, <1>2, NumOne

LEMMA NumThree ==
    ASSUME NEW a \in Word32, NEW b \in Word32, NEW c \in Word32
    PROVE  /\ <<a, b, c>> \in Seq(Word32)
           /\ Num(<<a, b, c>>) = Val(a) + Val(b) + Val(c)
<1>1. <<a, b>> \in Seq(Word32) /\ <<a, b, c>> = Append(<<a, b>>, c)
  OBVIOUS
<1>2. Num(<<a, b, c>>) = Num(<<a, b>>) + Val(c)
  BY <1>1, NumAppend
<1> QED  BY <1>1, <1>2, NumTwo

LEMMA NumFour ==
    ASSUME NEW a \in Word32, NEW b \in Word32, NEW c \in Word32,
           NEW d \in Word32
    PROVE  /\ <<a, b, c, d>> \in Seq(Word32)
           /\ Num(<<a, b, c, d>>) = Val(a) + Val(b) + Val(c) + Val(d)
<1>1. <<a, b, c>> \in Seq(Word32) /\ <<a, b, c, d>> = Append(<<a, b, c>>, d)
  OBVIOUS
<1>2. Num(<<a, b, c, d>>) = Num(<<a, b, c>>) + Val(d)
  BY <1>1, NumAppend
<1> QED  BY <1>1, <1>2, NumThree

LEMMA NumFive ==
    ASSUME NEW a \in Word32, NEW b \in Word32, NEW c \in Word32,
           NEW d \in Word32, NEW e \in Word32
    PROVE  /\ <<a, b, c, d, e>> \in Seq(Word32)
           /\ Num(<<a, b, c, d, e>>) =
                Val(a) + Val(b) + Val(c) + Val(d) + Val(e)
<1>1. <<a, b, c, d>> \in Seq(Word32)
        /\ <<a, b, c, d, e>> = Append(<<a, b, c, d>>, e)
  OBVIOUS
<1>2. Num(<<a, b, c, d, e>>) = Num(<<a, b, c, d>>) + Val(e)
  BY <1>1, NumAppend
<1> QED  BY <1>1, <1>2, NumFour

LEMMA WordSum ==
    ASSUME NEW ws \in Seq(Word32)
    PROVE  /\ Sum32(ws) \in Word32
           /\ Val(Sum32(ws)) = Num(ws) % 4294967296
BY SumIsModular, WordOfNumber

LEMMA SumIsWord ==
    ASSUME NEW ws \in Seq(Word32)
    PROVE  /\ Sum32(ws) \in Word32 /\ Num(ws) \in Nat
           /\ Sum32(ws) = WordOf(Num(ws))
BY SumIsModular, WordSum, SMT

(* Numbers that differ by a multiple of 2^32 make the same word.           *)
LEMMA SameWord ==
    ASSUME NEW n \in Nat, NEW q \in Nat
    PROVE  WordOf(n + 4294967296 * q) = WordOf(n)
<1> DEFINE m == n + 4294967296 * q
           p == n \div 4294967296   r == n % 4294967296
           u == m \div 4294967296   s == m % 4294967296
<1>1. p \in Nat /\ r \in Nat /\ r < 4294967296 /\ n = 4294967296 * p + r
  BY HalvesOfTop
<1>2. m \in Nat
  BY SMT
<1>3. u \in Nat /\ s \in Nat /\ s < 4294967296 /\ m = 4294967296 * u + s
  BY <1>2, HalvesOfTop
<1>4. m = n + 4294967296 * q
  OBVIOUS
<1>5. WordOf(s) = WordOf(m) /\ WordOf(r) = WordOf(n)
  BY <1>2, WordOfRest
<1> HIDE DEF m, p, r, u, s
<1>6. s = r
  BY <1>1, <1>3, <1>4, SMT
<1> QED  BY <1>5, <1>6 DEF m

(* A sum of sums is one sum.                                               *)
Cut(n) == n % 4294967296

LEMMA SumOfSums ==
    ASSUME NEW n \in Nat, NEW m \in Nat
    PROVE  /\ WordOf(Cut(n) + Cut(m)) = WordOf(n + m)
           /\ Cut(n) \in Nat /\ Cut(m) \in Nat
<1> DEFINE p == n \div 4294967296   r == n % 4294967296
           u == m \div 4294967296   s == m % 4294967296
<1>1. p \in Nat /\ r \in Nat /\ n = 4294967296 * p + r
  BY HalvesOfTop
<1>2. u \in Nat /\ s \in Nat /\ m = 4294967296 * u + s
  BY HalvesOfTop
<1> HIDE DEF p, r, u, s
<1>3. n + m = (r + s) + 4294967296 * (p + u) /\ r + s \in Nat /\ p + u \in Nat
  BY <1>1, <1>2, SMT
<1>4. WordOf(r + s) = WordOf(n + m)
  BY <1>3, SameWord
<1> QED  BY <1>1, <1>2, <1>4, SMT DEF r, s, Cut

LEMMA CarriesBelow ==
    ASSUME NEW ws \in Seq(Word32), NEW k \in Nat, Num(ws) < 4294967296 * k
    PROVE  Carries(ws) < k
<1> DEFINE n == Num(ws)   c == n \div 4294967296   r == n % 4294967296
<1>1. n \in Nat
  BY SMTT(60), SumIsModular
<1>2. c \in Nat /\ r \in Nat /\ n = 4294967296 * c + r
  BY SMTT(60), <1>1, HalvesOfTop
<1>3. Carries(ws) = c
  BY SMTT(60), SumIsModular
<1>4. n < 4294967296 * k
  OBVIOUS
<1> HIDE DEF n, c, r
<1>5. c < k
  BY <1>2, <1>4, SMT
<1> QED  BY <1>3, <1>5
-----------------------------------------------------------------------------
(* The functions of SHA-256, and their gates in the circuit.               *)

LEMMA MovedWords ==
    ASSUME NEW x \in Word32, NEW n \in 1..31
    PROVE  Rotr(x, n) \in Word32 /\ Shr(x, n) \in Word32
<1>1. \A i \in x : i \in 0..31
  BY DEF Word32
<1>2. \A i \in x : (i + 32 - n) % 32 \in 0..31
  <2>1. \A j \in Nat : j % 32 \in 0..31
    BY SMT
  <2>2. \A i \in x : i + 32 - n \in Nat
    BY <1>1
  <2> QED  BY <2>1, <2>2
<1>3. \A i \in x : i >= n => i - n \in 0..31
  BY <1>1
<1> QED  BY <1>2, <1>3, Zenon DEF Rotr, Shr, Word32

LEMMA XorWords ==
    ASSUME NEW x \in Word32, NEW y \in Word32, NEW z \in Word32
    PROVE  Xor(x, y) \in Word32 /\ Xor3(x, y, z) \in Word32
<1>1. \A v, w : v \in Word32 /\ w \in Word32 => Xor(v, w) \in Word32
  BY Zenon DEF Xor, Word32
<1> QED  BY <1>1, Zenon DEF Xor3

LEMMA SigmaWords ==
    ASSUME NEW x \in Word32
    PROVE  /\ Sigma0(x) \in Word32 /\ Sigma1(x) \in Word32
           /\ sigma0(x) \in Word32 /\ sigma1(x) \in Word32
<1>1. \A n \in 1..31 : Rotr(x, n) \in Word32 /\ Shr(x, n) \in Word32
  BY MovedWords
<1>2. \A u, v, w : u \in Word32 /\ v \in Word32 /\ w \in Word32
                    => Xor3(u, v, w) \in Word32
  BY XorWords
<1>3. /\ 2 \in 1..31 /\ 3 \in 1..31 /\ 6 \in 1..31 /\ 7 \in 1..31
      /\ 10 \in 1..31 /\ 11 \in 1..31 /\ 13 \in 1..31 /\ 17 \in 1..31
      /\ 18 \in 1..31 /\ 19 \in 1..31 /\ 22 \in 1..31 /\ 25 \in 1..31
  BY SMT
<1>4. Sigma0(x) \in Word32 /\ Sigma1(x) \in Word32
  BY <1>1, <1>2, <1>3, Zenon DEF Sigma0, Sigma1
<1>5. sigma0(x) \in Word32 /\ sigma1(x) \in Word32
  BY <1>1, <1>2, <1>3, Zenon DEF sigma0, sigma1
<1> QED  BY <1>4, <1>5

LEMMA ChoiceWords ==
    ASSUME NEW x \in Word32, NEW y \in Word32, NEW z \in Word32
    PROVE  Ch(x, y, z) \in Word32 /\ Maj(x, y, z) \in Word32
<1>1. x \cap y \in Word32 /\ z \ x \in Word32 /\ x \cap z \in Word32
        /\ y \cap z \in Word32
  BY Zenon DEF Word32
<1> QED  BY <1>1, XorWords DEF Ch, Maj

LEMMA VChIsCh ==
    ASSUME NEW x, NEW y, NEW z PROVE VCh(x, y, z) = Ch(x, y, z)
<1>1. \A i : i \in VCh(x, y, z) <=> i \in Ch(x, y, z)
  BY Zenon DEF VCh, Ch, Xor
<1> QED  BY <1>1, Zenon

(* More than one of three: two, or all.                                    *)
LEMMA VMajIsMaj ==
    ASSUME NEW x, NEW y, NEW z PROVE VMaj(x, y, z) = Maj(x, y, z)
<1> DEFINE In(i) == {s \in 1..3 : i \in <<x, y, z>>[s]}
<1>1. \A i : /\ 1 \in In(i) <=> i \in x
             /\ 2 \in In(i) <=> i \in y
             /\ 3 \in In(i) <=> i \in z
             /\ In(i) \subseteq 1..3
  BY SMT
<1> HIDE DEF In
<1>2. \A i : Cardinality(In(i)) > 1
                <=> \E s \in In(i) : \E t \in In(i) : s # t
  <2> SUFFICES ASSUME NEW i
               PROVE  Cardinality(In(i)) > 1
                        <=> \E s \in In(i) : \E t \in In(i) : s # t
    OBVIOUS
  <2> DEFINE S == In(i)
  <2>1. IsFiniteSet(S) /\ Cardinality(S) \in Nat
    <3>1. IsFiniteSet(1..3)
      <4>1. \A n \in Nat : IsFiniteSet(1..n)
        BY FS_Interval
      <4>2. 3 \in Nat
        OBVIOUS
      <4> QED  BY <4>1, <4>2, Zenon
    <3>2. S \subseteq 1..3
      BY <1>1
    <3> HIDE DEF S
    <3> QED  BY <3>1, <3>2, FS_Subset, FS_CardinalityType
  <2> HIDE DEF S
  <2>2. ASSUME NEW s \in S, NEW t \in S, s # t PROVE Cardinality(S) > 1
    <3>1. IsFiniteSet(S \ {s}) /\ Cardinality(S \ {s}) = Cardinality(S) - 1
      BY <2>1, FS_RemoveElement
    <3>2. t \in S \ {s}
      BY <2>2
    <3>3. Cardinality(S \ {s}) # 0 /\ Cardinality(S \ {s}) \in Nat
      BY <3>1, <3>2, FS_EmptySet, FS_CardinalityType
    <3> QED  BY <2>1, <3>1, <3>3
  <2>3. ASSUME Cardinality(S) > 1 PROVE \E s \in S : \E t \in S : s # t
    <3>1. S # {}
      BY <2>1, <2>3, FS_EmptySet
    <3>2. PICK s \in S : TRUE
      BY <3>1
    <3>3. IsFiniteSet(S \ {s}) /\ Cardinality(S \ {s}) = Cardinality(S) - 1
      BY <2>1, FS_RemoveElement
    <3>4. S \ {s} # {}
      BY <2>1, <2>3, <3>3, FS_EmptySet
    <3> QED  BY <3>4
  <2> QED  BY <2>2, <2>3 DEF S
<1>3. \A i : i \in x \cup y \cup z /\ Cardinality(In(i)) > 1
                <=> i \in Maj(x, y, z)
  <2> SUFFICES ASSUME NEW i
               PROVE  i \in x \cup y \cup z /\ Cardinality(In(i)) > 1
                        <=> i \in Maj(x, y, z)
    OBVIOUS
  <2>1. \A s \in In(i) : s = 1 \/ s = 2 \/ s = 3
    <3>1. \A s \in 1..3 : s = 1 \/ s = 2 \/ s = 3
      BY SMT
    <3> QED  BY <1>1, <3>1
  <2>2. 1 # 2 /\ 1 # 3 /\ 2 # 3
    BY SMT
  <2>3. Cardinality(In(i)) > 1
            <=> (i \in x /\ i \in y) \/ (i \in x /\ i \in z)
                    \/ (i \in y /\ i \in z)
    BY <1>1, <1>2, <2>1, <2>2, Zenon
  <2>4. i \in Maj(x, y, z)
            <=> (i \in x /\ i \in y) \/ (i \in x /\ i \in z)
                    \/ (i \in y /\ i \in z)
    BY Zenon DEF Maj, Xor3, Xor
  <2> QED  BY <2>3, <2>4, Zenon
<1>4. VMaj(x, y, z) = {i \in x \cup y \cup z : Cardinality(In(i)) > 1}
  BY Zenon DEF VMaj, In
<1> QED  BY <1>3, <1>4, Zenon

-----------------------------------------------------------------------------
(* The tables.                                                             *)

LEMMA WordIsWord ==
    ASSUME NEW hi, NEW lo PROVE Word(hi, lo) \in Word32
<1>1. \A v : \A i \in BitsOf(16, v) : i \in 0..15
  BY DEF BitsOf
<1>2. \A i \in 0..15 : i \in 0..31 /\ i + 16 \in 0..31
  BY SMT
<1>3. \A i \in Word(hi, lo) : i \in 0..31
  BY <1>1, <1>2, Zenon DEF Word
<1> QED  BY <1>3, Zenon DEF Word32

LEMMA WordsAre ==
    ASSUME NEW n \in Nat, NEW halves, DOMAIN halves = 1..n
    PROVE  /\ Words(halves) \in Seq(Word32) /\ Len(Words(halves)) = n
           /\ \A i \in 1..n : Words(halves)[i]
                = Word(halves[i][1], halves[i][2])
<1> DEFINE f == [i \in DOMAIN halves |-> Word(halves[i][1], halves[i][2])]
<1>1. \A hi, lo : Word(hi, lo) \in Word32
  BY WordIsWord
<1>2. f \in Seq(Word32) /\ Len(f) = n /\ DOMAIN f = 1..n
  <2>1. f \in [1..n -> Word32]
    BY <1>1
  <2> HIDE DEF f
  <2> QED  BY <2>1
<1>3. Words(halves) = <<>> \o f
  BY DEF Words, AsTuple
<1>4. \A i \in 1..n : f[i] = Word(halves[i][1], halves[i][2])
  OBVIOUS
<1> HIDE DEF f
<1>5. <<>> \o f = f
  BY <1>2
<1> QED  BY <1>2, <1>3, <1>4, <1>5

LEMMA TablesAreOne == ShimK = kSha256Round
BY SMTT(120) DEF ShimK, kSha256Round

LEMMA RoundTable ==
    kSha256Round \in Seq(Word32) /\ Len(kSha256Round) = 64
<1>1. PICK table : kSha256Round = Words(table) /\ DOMAIN table = 1..64
  BY SMTT(120) DEF kSha256Round
<1> QED  BY <1>1, WordsAre

LEMMA FirstHash ==
    InitialH \in Seq(Word32) /\ Len(InitialH) = 8
<1>1. PICK table : InitialH = Words(table) /\ DOMAIN table = 1..8
  BY SMTT(120) DEF InitialH
<1> QED  BY <1>1, WordsAre
-----------------------------------------------------------------------------
(* Padding.                                                                *)

(* The zeros after the 1 bit, in sha256_digest, are as many as the witness *)
(* builder adds to the end of a block and then up to the length; and they  *)
(* fill the last block of those that it counts.                            *)
LEMMA FillOnce ==
    ASSUME NEW n \in Nat
    PROVE  /\ Fill(n) \in 0..63 /\ (n + 1 + Fill(n)) % 64 = 56
           /\ \A z \in 0..63 : (n + 1 + z) % 64 = 56 => z = Fill(n)
<1> DEFINE r == (n + 1) % 64
           z == IF r <= 56 THEN 56 - r ELSE 120 - r
<1>1. z \in 0..63 /\ (n + 1 + z) % 64 = 56
  BY SMT
<1>2. Fill(n) \in 0..63 /\ (n + 1 + Fill(n)) % 64 = 56
  BY <1>1, Zenon DEF Fill
<1>3. \A k \in 0..63, l \in 0..63 :
        (n + 1 + k) % 64 = 56 /\ (n + 1 + l) % 64 = 56 => k = l
  BY SMT
<1> QED  BY <1>2, <1>3, Zenon

ToBlock(n) ==
    IF ((n + 1) % 64) = 0 \/ ((n + 1) % 64) > 56
    THEN (64 - ((n + 1) % 64)) % 64 ELSE 0
ToLength(n) == 56 - ((n + 1 + ToBlock(n)) % 64)

LEMMA FilledAlike ==
    ASSUME NEW n \in Nat PROVE ToBlock(n) + ToLength(n) = Fill(n)
<1>1. /\ ToBlock(n) + ToLength(n) \in 0..63
      /\ (n + 1 + (ToBlock(n) + ToLength(n))) % 64 = 56
  BY SMT DEF ToBlock, ToLength
<1> QED  BY <1>1, FillOnce

LEMMA FillsBlocks ==
    ASSUME NEW n \in Nat
    PROVE  /\ (n + 9 + Fill(n)) \div 64 = CeilDiv(n + 9, 64)
           /\ n + 9 + Fill(n) = 64 * CeilDiv(n + 9, 64)
           /\ CeilDiv(n + 9, 64) \in Nat \ {0}
<1> DEFINE z == Fill(n)
<1>1. z \in 0..63 /\ (n + 1 + z) % 64 = 56
  BY FillOnce
<1> HIDE DEF z
<1>2. /\ (n + 9 + z) \div 64 = (n + 9 + (64 - 1)) \div 64
      /\ n + 9 + z = 64 * ((n + 9 + (64 - 1)) \div 64)
      /\ (n + 9 + (64 - 1)) \div 64 \in Nat \ {0}
  BY <1>1, SMT
<1> QED  BY <1>2 DEF z, CeilDiv

(* Two sequences, one after the other.                                     *)
LEMMA Joined ==
    ASSUME NEW S, NEW s \in Seq(S), NEW t \in Seq(S), NEW x \in Nat,
           NEW y \in Nat, Len(s) = x, Len(t) = y
    PROVE  /\ s \o t \in Seq(S) /\ Len(s \o t) = x + y
           /\ \A i \in 1..x : (s \o t)[i] = s[i]
           /\ \A i \in 1..y : (s \o t)[x + i] = t[i]
<1> DEFINE u == s \o t
<1>1. /\ u \in Seq(S) /\ Len(u) = x + y
      /\ \A i \in 1..(x + y) : u[i] = IF i <= x THEN s[i] ELSE t[i - x]
  BY ConcatProperties
<1> HIDE DEF u
<1>2. \A i \in 1..x : u[i] = s[i]
  BY <1>1
<1>3. \A i \in 1..y : x + i \in 1..(x + y) /\ ~(x + i <= x) /\ (x + i) - x = i
  OBVIOUS
<1>4. \A i \in 1..y : u[x + i] = t[i]
  BY <1>1, <1>3
<1> QED  BY <1>1, <1>2, <1>4 DEF u

LEMMA IsSequence ==
    ASSUME NEW S, NEW n \in Nat, NEW f \in [1..n -> S]
    PROVE  f \in Seq(S) /\ Len(f) = n /\ DOMAIN f = 1..n
OBVIOUS

LEMMA SameSequence ==
    ASSUME NEW S, NEW n, NEW s \in Seq(S), NEW t \in Seq(S), Len(s) = n,
           Len(t) = n, \A i \in 1..n : s[i] = t[i]
    PROVE  s = t
BY SeqEqual

Bytes == 0..255
Message == {m \in Seq(Bytes) : Len(m) < 8192}

LEMMA BytesOfLength ==
    ASSUME NEW n \in Nat, n < 8192
    PROVE  BitLength(n) \in Seq(Bytes) /\ Len(BitLength(n)) = 8
<1>1. (8 * n) \div 256 \in Bytes /\ (8 * n) % 256 \in Bytes
  BY SMT DEF Bytes
<1>2. Zeros(6) \in Seq(Bytes) /\ Len(Zeros(6)) = 6
  BY SMT DEF Zeros, Bytes
<1>3. <<(8 * n) \div 256, (8 * n) % 256>> \in Seq(Bytes)
        /\ Len(<<(8 * n) \div 256, (8 * n) % 256>>) = 2
  BY <1>1
<1> DEFINE z == Zeros(6)
           l == <<(8 * n) \div 256, (8 * n) % 256>>
<1>4. BitLength(n) = z \o l
  BY DEF BitLength
<1> HIDE DEF z, l
<1>5. z \in Seq(Bytes) /\ l \in Seq(Bytes)
  BY <1>2, <1>3 DEF z, l
<1>6. z \o l \in Seq(Bytes) /\ Len(z \o l) = Len(z) + Len(l)
  BY <1>5, ConcatProperties
<1>7. Len(z) = 6 /\ Len(l) = 2
  BY <1>2, <1>3 DEF z, l
<1> QED  BY <1>4, <1>6, <1>7

LEMMA ZerosAre ==
    ASSUME NEW n \in Nat
    PROVE  /\ Zeros(n) \in Seq(Bytes) /\ Len(Zeros(n)) = n
           /\ \A i \in 1..n : Zeros(n)[i] = 0
<1>1. Zeros(n) \in [1..n -> Bytes]
  BY SMT DEF Zeros, Bytes
<1> QED  BY <1>1 DEF Zeros

PaddedAs(p, n) ==
    /\ p \in Seq(Bytes) /\ Len(p) = n + 9 + Fill(n)
    /\ p[n + 1] = 128
    /\ \A i \in (n + 2)..(n + 1 + Fill(n)) : p[i] = 0
    /\ \A i \in 1..8 : p[n + 1 + Fill(n) + i] = BitLength(n)[i]

LEMMA ShimPaddedIs ==
    ASSUME NEW m \in Message
    PROVE  PaddedAs(ShimPadded(m), Len(m))
<1> DEFINE n == Len(m)   z == Fill(n)   p == ShimPadded(m)
           a == Zeros(z)   b == BitLength(n)
<1>1. m \in Seq(Bytes) /\ n \in Nat /\ n < 8192
  BY DEF Message
<1>2. z \in Nat
  <2>1. \A k \in Nat : Fill(k) \in Nat
    BY FillOnce
  <2> QED  BY <1>1, <2>1
<1>3. a \in Seq(Bytes) /\ Len(a) = z /\ \A i \in 1..z : a[i] = 0
  BY <1>2, ZerosAre
<1>4. b \in Seq(Bytes) /\ Len(b) = 8
  BY <1>1, BytesOfLength
<1>5. p = m \o <<128>> \o a \o b
  BY DEF ShimPadded
<1>6. 128 \in Bytes /\ <<128>> \in Seq(Bytes) /\ Len(<<128>>) = 1
        /\ <<128>>[1] = 128
  BY SMT DEF Bytes
<1> DEFINE q == m \o <<128>>   r == q \o a
<1>7. q \in Seq(Bytes) /\ Len(q) = n + 1 /\ q[n + 1] = 128
  BY <1>1, <1>6
<1> HIDE DEF n, z, p, a, b, q
<1>8. /\ r \in Seq(Bytes) /\ Len(r) = n + 1 + z /\ r[n + 1] = 128
      /\ \A i \in (n + 2)..(n + 1 + z) : r[i] = 0
  <2>1. r \in Seq(Bytes) /\ Len(r) = n + 1 + z
    BY <1>2, <1>3, <1>7
  <2>2. \A i \in 1..(n + 1) : r[i] = q[i]
    BY <1>1, <1>3, <1>7
  <2>3. \A i \in (n + 2)..(n + 1 + z) : r[i] = a[i - (n + 1)]
            /\ i - (n + 1) \in 1..z
    BY <1>1, <1>2, <1>3, <1>7
  <2>4. n + 1 \in 1..(n + 1)
    BY <1>1
  <2> QED  BY <1>3, <1>7, <2>1, <2>2, <2>3, <2>4
<1>9. p = r \o b
  BY <1>5 DEF q
<1> HIDE DEF r
<1>10. /\ p \in Seq(Bytes) /\ Len(p) = n + 9 + z
       /\ \A i \in 1..(n + 1 + z) : p[i] = r[i]
       /\ \A i \in 1..8 : p[n + 1 + z + i] = b[i]
  <2> DEFINE l == n + 1 + z
         e == 8
  <2>1. /\ l \in Nat /\ l + e = n + 9 + z /\ Len(r) = l
        /\ e \in Nat /\ Len(b) = e /\ b \in Seq(Bytes) /\ r \in Seq(Bytes)
    BY <1>1, <1>2, <1>4, <1>8
  <2> HIDE DEF l, e
  <2>2. /\ p \in Seq(Bytes) /\ Len(p) = l + e
        /\ \A i \in 1..l : p[i] = r[i]
        /\ \A i \in 1..e : p[l + i] = b[i]
    <3>1. b \in Seq(Bytes) /\ r \in Seq(Bytes) /\ Len(r) \in Nat
            /\ Len(b) \in Nat
      BY ONLY <2>1, LenProperties
    <3>2. /\ r \o b \in Seq(Bytes) /\ Len(r \o b) = Len(r) + Len(b)
          /\ \A i \in 1..Len(r) : (r \o b)[i] = r[i]
          /\ \A i \in 1..Len(b) : (r \o b)[Len(r) + i] = b[i]
      BY ONLY <3>1, Joined
    <3> QED  BY ONLY <1>9, <2>1, <3>2, Zenon
  <2> QED  BY <2>1, <2>2 DEF l, e
<1>11. n + 1 \in 1..(n + 1 + z)
         /\ \A i \in (n + 2)..(n + 1 + z) : i \in 1..(n + 1 + z)
  BY <1>1, <1>2
<1>12. /\ p[n + 1] = 128
       /\ \A i \in (n + 2)..(n + 1 + z) : p[i] = 0
  <2>1. \A i \in 1..(n + 1 + z) : p[i] = r[i]
    BY ONLY <1>10, Zenon
  <2>2. p[n + 1] = r[n + 1]
    BY ONLY <1>11, <2>1, Zenon
  <2>3. \A i \in (n + 2)..(n + 1 + z) : p[i] = r[i]
    BY ONLY <1>11, <2>1, Zenon
  <2> QED  BY ONLY <1>8, <2>2, <2>3, Zenon
<1>13. PaddedAs(p, n)
  BY <1>10, <1>12, Zenon DEF PaddedAs, z, b
<1> QED  BY <1>13 DEF n, p

(* What the circuit is given starts with what the shim hashes, and has     *)
(* zeros after it.                                                         *)
LEMMA WitnessPaddedIs ==
    ASSUME NEW m \in Messages
    PROVE  /\ m \in Message
           /\ ShimBlocks(m) = WitnessBlocks(m)
           /\ ShimBlocks(m) \in Nat \ {0} /\ ShimBlocks(m) <= CircuitBlocks
           /\ Len(ShimPadded(m)) = 64 * ShimBlocks(m)
           /\ ShimPadded(m) \in Seq(Bytes) /\ WitnessPadded(m) \in Seq(Bytes)
           /\ Len(WitnessPadded(m)) = 64 * CircuitBlocks
           /\ \A i \in 1..(64 * ShimBlocks(m)) :
                WitnessPadded(m)[i] = ShimPadded(m)[i]
           /\ WitnessBlocks(m) = CircuitBlocks
                => WitnessPadded(m) = ShimPadded(m)
<1> DEFINE n == Len(m)   p == ShimPadded(m)   b == ShimBlocks(m)
           rest == 64 * CircuitBlocks - Len(p)
<1>1. /\ m \in Message /\ n \in Nat /\ CircuitBlocks \in Nat
      /\ WitnessBlocks(m) <= CircuitBlocks
  BY MessagesAssumption DEF Message, Bytes
<1>2. p \in Seq(Bytes) /\ Len(p) = n + 9 + Fill(n)
  BY <1>1, ShimPaddedIs DEF PaddedAs
<1>3. /\ b = WitnessBlocks(m) /\ b \in Nat \ {0} /\ Len(p) = 64 * b
  <2>1. WitnessBlocks(m) = CeilDiv(n + 9, 64)
    BY DEF WitnessBlocks
  <2>2. b = Len(p) \div 64
    BY DEF ShimBlocks
  <2> HIDE DEF b, n, p
  <2> QED  BY <1>1, <1>2, <2>1, <2>2, FillsBlocks
<1>4. rest \in Nat
  <2> HIDE DEF p, b
  <2> QED  BY <1>1, <1>3
<1>5. WitnessPadded(m) = p \o Zeros(rest)
  <2>1. WitnessPadded(m) =
            LET padded == m \o <<128>> \o Zeros(ToBlock(n) + ToLength(n))
                            \o BitLength(n)
            IN  padded \o Zeros(64 * CircuitBlocks - Len(padded))
    BY DEF WitnessPadded, ToBlock, ToLength
  <2>2. m \o <<128>> \o Zeros(ToBlock(n) + ToLength(n)) \o BitLength(n) = p
    BY <1>1, FilledAlike DEF ShimPadded
  <2> QED  BY <2>1, <2>2
<1>6. /\ Zeros(rest) \in Seq(Bytes) /\ Len(Zeros(rest)) = rest
  BY <1>4, ZerosAre
<1>7. rest = 64 * CircuitBlocks - Len(p)
  OBVIOUS
<1> DEFINE o == Zeros(rest)   w == WitnessPadded(m)
<1> HIDE DEF n, p, b, rest, o, w
<1>8. w = p \o o /\ o \in Seq(Bytes) /\ Len(o) = rest
  BY <1>5, <1>6 DEF o, w
<1>9. /\ w \in Seq(Bytes) /\ Len(w) = 64 * CircuitBlocks
      /\ \A i \in 1..(64 * b) : w[i] = p[i]
  <2> DEFINE k == 64 * b
  <2>1. k \in Nat /\ Len(p) = k /\ k + rest = 64 * CircuitBlocks
    BY <1>1, <1>3, <1>7
  <2> HIDE DEF k
  <2>2. /\ w \in Seq(Bytes) /\ Len(w) = k + rest
        /\ \A i \in 1..k : w[i] = p[i]
    BY <1>2, <1>4, <1>8, <2>1, Joined
  <2> QED  BY <2>1, <2>2 DEF k
<1>10. ASSUME WitnessBlocks(m) = CircuitBlocks PROVE w = p
  <2>1. rest = 0
    BY <1>1, <1>3, <1>7, <1>10
  <2>2. o = <<>>
    BY <1>8, <2>1, EmptySeq
  <2> QED  BY <1>2, <1>8, <2>2, ConcatEmptySeq
<1> QED  BY <1>1, <1>2, <1>3, <1>9, <1>10 DEF n, p, b, w

(* The message that WitnessBuilder::compute does not refuse is padded as   *)
(* the circuit demands.                                                    *)
LEMMA CircuitAcceptsThePadding ==
    ASSUME NEW m \in Messages, Compute(m)
    PROVE  /\ AssertSha256Padding(Len(m), WitnessPadded(m))
           /\ AssertZeroPadding(CircuitBlocks, WitnessPadded(m))
<1> DEFINE n == Len(m)   p == WitnessPadded(m)   z == Fill(n)
           b == BitLength(n)
<1>1. /\ m \in Message /\ p = ShimPadded(m) /\ p \in Seq(Bytes)
      /\ Len(p) = 64 * CircuitBlocks
  BY WitnessPaddedIs DEF Compute
<1>2. n \in Nat /\ n < 8192 /\ CircuitBlocks \in Nat
  BY <1>1, MessagesAssumption DEF Message
<1>3. z \in Nat
  <2>1. \A k \in Nat : Fill(k) \in Nat
    BY FillOnce
  <2> QED  BY <1>2, <2>1
<1>4. b \in Seq(Bytes) /\ Len(b) = 8
  BY <1>2, BytesOfLength
<1>5. /\ Len(p) = n + 9 + z /\ p[n + 1] = 128
      /\ \A i \in (n + 2)..(n + 1 + z) : p[i] = 0
      /\ \A i \in 1..8 : p[n + 1 + z + i] = b[i]
  <2>1. PaddedAs(p, n)
    BY <1>1, ShimPaddedIs
  <2> HIDE DEF n, p
  <2> QED  BY <2>1, Zenon DEF PaddedAs
<1> HIDE DEF n, p, z, b
<1>6. Len(p) - 8 = n + 1 + z /\ Len(p) - 7 = n + 2 + z
  BY <1>2, <1>3, <1>5
<1>7. SubSeq(p, Len(p) - 7, Len(p)) = b
  <2> DEFINE s == SubSeq(p, Len(p) - 7, Len(p))
           l == Len(p) - 7   k == Len(p)
  <2>1. /\ k = n + 9 + z /\ l = n + 2 + z /\ l \in Int /\ k \in Int
        /\ k - l + 1 = 8 /\ l <= k /\ l >= 1 /\ p \in Seq(Bytes)
    BY <1>1, <1>2, <1>3, <1>5
  <2>2. \A i \in l..k : p[i] \in Bytes
    <3> HIDE DEF l
    <3>1. \A i \in l..k : i \in 1..Len(p)
      BY <2>1
    <3> QED  BY ONLY <2>1, <3>1
  <2> HIDE DEF l, k
  <2>3. /\ s \in Seq(Bytes) /\ Len(s) = IF l <= k THEN k - l + 1 ELSE 0
        /\ \A i \in 1..(k - l + 1) : s[i] = p[l + i - 1]
    BY ONLY <2>1, <2>2, SubSeqProperties DEF l, k
  <2> HIDE DEF s
  <2>4. s \in Seq(Bytes) /\ Len(s) = 8
    BY ONLY <2>1, <2>3
  <2>5. \A i \in 1..8 : s[i] = p[n + 1 + z + i]
    <3>1. \A i \in 1..8 : l + i - 1 = n + 1 + z + i
      BY <1>2, <1>3, <2>1
    <3> QED  BY ONLY <2>1, <2>3, <3>1, Zenon
  <2>6. s = b
    <3> DEFINE e == 8
    <3>1. \A i \in 1..8 : s[i] = b[i]
      <4>1. \A i \in 1..8 : p[n + 1 + z + i] = b[i]
        BY ONLY <1>5, Zenon
      <4> QED  BY ONLY <2>5, <4>1, Zenon
    <3>2. /\ s \in Seq(Bytes) /\ b \in Seq(Bytes) /\ Len(s) = e /\ Len(b) = e
          /\ \A i \in 1..e : s[i] = b[i]
      BY <1>4, <2>4, <3>1, Zenon
    <3> HIDE DEF e
    <3> QED  BY ONLY <3>2, SameSequence
  <2> QED  BY <2>6 DEF s
<1>8. AssertSha256Padding(n, p)
  BY <1>5, <1>6, <1>7 DEF AssertSha256Padding, b
<1>9. AssertZeroPadding(CircuitBlocks, p)
  BY <1>1, <1>2 DEF AssertZeroPadding
<1> QED  BY <1>8, <1>9 DEF n, p

LEMMA LoadsAlike ==
    ASSUME NEW m \in Messages, NEW b \in Nat, b < ShimBlocks(m)
    PROVE  Load(ShimPadded(m), 64 * b) = Load(WitnessPadded(m), 64 * b)
<1> DEFINE p == ShimPadded(m)   w == WitnessPadded(m)   k == ShimBlocks(m)
<1>1. k \in Nat /\ \A i \in 1..(64 * k) : w[i] = p[i]
  BY WitnessPaddedIs
<1>2. b < k
  OBVIOUS
<1> HIDE DEF p, w, k
<1>3. ASSUME NEW i \in 1..16
      PROVE  LET at == 64 * b + 4 * (i - 1)
             IN  /\ w[at + 1] = p[at + 1] /\ w[at + 2] = p[at + 2]
                 /\ w[at + 3] = p[at + 3] /\ w[at + 4] = p[at + 4]
  BY <1>1, <1>2
<1>4. Load(p, 64 * b) = Load(w, 64 * b)
  BY <1>3 DEF Load
<1> QED  BY <1>4 DEF p, w

LEMMA LoadsWords ==
    ASSUME NEW p, NEW offset
    PROVE  Load(p, offset) \in Seq(Word32) /\ Len(Load(p, offset)) >= 16
<1>1. \A hi, lo : Word(hi, lo) \in Word32
  BY WordIsWord
<1> DEFINE f == Load(p, offset)
<1>2. f \in [1..16 -> Word32]
  BY <1>1, Zenon DEF Load
<1> HIDE DEF f
<1>3. f \in Seq(Word32) /\ Len(f) = 16
  <2>1. 16 \in Nat
    OBVIOUS
  <2> QED  BY <1>2, <2>1, IsSequence, Zenon
<1>4. 16 >= 16
  OBVIOUS
<1>5. f \in Seq(Word32) /\ Len(f) >= 16
  BY <1>3, <1>4, Zenon
<1> QED  BY <1>5 DEF f
-----------------------------------------------------------------------------
(* The two loops.                                                          *)

LEMMA NextWordAlike ==
    ASSUME NEW w \in Seq(Word32), Len(w) >= 16
    PROVE  /\ ShimWord(w) = WitnessWord(w)
           /\ WitnessWord(w) \in Word32
<1> DEFINE i == Len(w) + 1
           a == w[i - 16]         b == sigma0(w[i - 15])
           c == w[i - 7]          d == sigma1(w[i - 2])
<1>1. /\ w[i - 16] \in Word32 /\ w[i - 15] \in Word32
      /\ w[i - 7] \in Word32 /\ w[i - 2] \in Word32
  OBVIOUS
<1>2. a \in Word32 /\ b \in Word32 /\ c \in Word32 /\ d \in Word32
  BY <1>1, SigmaWords
<1>3. ShimWord(w) = Sum32(<<a, b, c, d>>)
  BY Zenon DEF ShimWord, ShimSmall0, ShimSmall1, sigma0, sigma1
<1>4. WitnessWord(w) = Sum32(<<d, c, b, a>>)
  BY Zenon DEF WitnessWord
<1> HIDE DEF a, b, c, d
<1>5. /\ <<a, b, c, d>> \in Seq(Word32) /\ <<d, c, b, a>> \in Seq(Word32)
      /\ Num(<<a, b, c, d>>) = Val(a) + Val(b) + Val(c) + Val(d)
      /\ Num(<<d, c, b, a>>) = Val(d) + Val(c) + Val(b) + Val(a)
  BY <1>2, NumFour
<1>6. Num(<<a, b, c, d>>) = Num(<<d, c, b, a>>)
  <2>1. Val(a) \in Nat /\ Val(b) \in Nat /\ Val(c) \in Nat /\ Val(d) \in Nat
    BY <1>2, ValIsNumber
  <2> QED  BY <1>5, <2>1
<1>7. /\ Sum32(<<a, b, c, d>>) = Sum32(<<d, c, b, a>>)
      /\ Sum32(<<d, c, b, a>>) \in Word32
  BY <1>5, <1>6, SumIsWord
<1> QED  BY <1>3, <1>4, <1>7

Registers == [1..8 -> Word32]

LEMMA RegistersAre ==
    ASSUME NEW s \in Seq(Word32), Len(s) = 8 PROVE s \in Registers
<1>1. s \in [1..Len(s) -> Word32]
  BY LenProperties
<1> QED  BY <1>1, Zenon DEF Registers

(* The summands of the two sums of a round.                                *)
T1(r, w, t) == <<r[8], Sigma1(r[5]), Ch(r[5], r[6], r[7]),
                 kSha256Round[t + 1], w[t + 1]>>
T2(r) == <<Sigma0(r[1]), Maj(r[1], r[2], r[3])>>

LEMMA RoundSummands ==
    ASSUME NEW r \in Registers, NEW w \in Seq(Word32), Len(w) = 64,
           NEW t \in Nat, t < 64
    PROVE  /\ \A i \in 1..8 : r[i] \in Word32
           /\ Sigma1(r[5]) \in Word32 /\ Sigma0(r[1]) \in Word32
           /\ Ch(r[5], r[6], r[7]) \in Word32
           /\ Maj(r[1], r[2], r[3]) \in Word32
           /\ kSha256Round[t + 1] \in Word32 /\ w[t + 1] \in Word32
           /\ T1(r, w, t) \in Seq(Word32) /\ T2(r) \in Seq(Word32)
<1>1. \A i \in 1..8 : r[i] \in Word32
  BY DEF Registers
<1>2. /\ r[1] \in Word32 /\ r[2] \in Word32 /\ r[3] \in Word32
      /\ r[5] \in Word32 /\ r[6] \in Word32 /\ r[7] \in Word32
      /\ r[8] \in Word32
  BY <1>1
<1>3. /\ Sigma1(r[5]) \in Word32 /\ Sigma0(r[1]) \in Word32
      /\ Ch(r[5], r[6], r[7]) \in Word32
      /\ Maj(r[1], r[2], r[3]) \in Word32
  BY <1>2, SigmaWords, ChoiceWords
<1>4. kSha256Round[t + 1] \in Word32 /\ w[t + 1] \in Word32
  <2>1. t + 1 \in 1..64
    OBVIOUS
  <2>2. \A s \in Seq(Word32) : \A i \in 1..Len(s) : s[i] \in Word32
    BY ElementOfSeq
  <2> QED  BY <2>1, <2>2, RoundTable, Zenon
<1>5. T1(r, w, t) \in Seq(Word32)
  BY <1>2, <1>3, <1>4, NumFive DEF T1
<1>6. T2(r) \in Seq(Word32)
  BY <1>3, NumTwo DEF T2
<1> QED  BY <1>1, <1>3, <1>4, <1>5, <1>6

LEMMA WitnessRoundIs ==
    ASSUME NEW r, NEW w, NEW t
    PROVE  /\ ShimRound(r, w, t) = WitnessRound(r, w, t)
           /\ WitnessRound(r, w, t) =
                <<Sum32(<<Sum32(T1(r, w, t)), Sum32(T2(r))>>), r[1], r[2], r[3],
                  Sum32(<<r[4], Sum32(T1(r, w, t))>>), r[5], r[6], r[7]>>
<1>1. ShimRound(r, w, t) = WitnessRound(r, w, t)
  BY TablesAreOne, Zenon DEF ShimRound, WitnessRound, ShimSigma0, ShimSigma1,
     Sigma0, Sigma1
<1>2. WitnessRound(r, w, t) =
        <<Sum32(<<Sum32(T1(r, w, t)), Sum32(T2(r))>>), r[1], r[2], r[3],
          Sum32(<<r[4], Sum32(T1(r, w, t))>>), r[5], r[6], r[7]>>
  BY Zenon DEF WitnessRound, T1, T2
<1> QED  BY <1>1, <1>2, Zenon

LEMMA RoundKeepsWords ==
    ASSUME NEW r \in Registers, NEW w \in Seq(Word32), Len(w) = 64,
           NEW t \in Nat, t < 64
    PROVE  WitnessRound(r, w, t) \in Registers
<1> DEFINE a == Sum32(T1(r, w, t))   b == Sum32(T2(r))
<1>1. /\ r[1] \in Word32 /\ r[2] \in Word32 /\ r[3] \in Word32
      /\ r[4] \in Word32 /\ r[5] \in Word32 /\ r[6] \in Word32
      /\ r[7] \in Word32
  BY DEF Registers
<1>2. a \in Word32 /\ b \in Word32
  BY RoundSummands, SumIsWord
<1> HIDE DEF a, b
<1>3. Sum32(<<a, b>>) \in Word32 /\ Sum32(<<r[4], a>>) \in Word32
  BY <1>1, <1>2, NumTwo, SumIsWord
<1>4. WitnessRound(r, w, t) = <<Sum32(<<a, b>>), r[1], r[2], r[3],
                                Sum32(<<r[4], a>>), r[5], r[6], r[7]>>
  BY WitnessRoundIs DEF a, b
<1> DEFINE x == Sum32(<<a, b>>)   y == Sum32(<<r[4], a>>)
           s == <<x, r[1], r[2], r[3], y, r[5], r[6], r[7]>>
<1>5. x \in Word32 /\ y \in Word32 /\ WitnessRound(r, w, t) = s
  BY <1>3, <1>4
<1> HIDE DEF x, y
<1>6. s \in Seq(Word32) /\ Len(s) = 8
  BY <1>1, <1>5
<1> HIDE DEF s
<1> QED  BY <1>5, <1>6, RegistersAre

LEMMA AddedWords ==
    ASSUME NEW h \in Registers, NEW r \in Registers
    PROVE  AddedTo(h, r) \in Registers
<1>1. \A i \in 1..8 : Sum32(<<h[i], r[i]>>) \in Word32
  BY NumTwo, SumIsWord DEF Registers
<1> QED  BY <1>1 DEF AddedTo, Registers

-----------------------------------------------------------------------------
(* In step: what holds of the two hashes after every step of either.       *)

HashStates == [w : Seq(Word32), r : Registers, t : Nat, h : Registers]

HashTypes ==
    /\ msg \in Messages
    /\ block \in Nat /\ block <= CircuitBlocks
    /\ done = (block = CircuitBlocks)
    /\ shim \in HashStates /\ wit \in HashStates
    /\ Len(wit.w) >= 16

InStep ==
    /\ ShimWorks => shim = wit
    /\ block <= ShimBlocks(msg) => shim.h = wit.h

HashInv == HashTypes /\ InStep

LEMMA BlocksAre ==
    ASSUME NEW m \in Messages
    PROVE  ShimBlocks(m) \in Nat /\ ShimBlocks(m) >= 1
            /\ ShimBlocks(m) <= CircuitBlocks /\ CircuitBlocks \in Nat
BY WitnessPaddedIs, MessagesAssumption

LEMMA HashInvInit == InitHash => HashInv
<1> SUFFICES ASSUME InitHash PROVE HashInv
  OBVIOUS
<1> USE DEF InitHash
<1>1. /\ ShimBlocks(msg) \in Nat /\ ShimBlocks(msg) >= 1
      /\ ShimBlocks(msg) <= CircuitBlocks /\ CircuitBlocks \in Nat
  BY BlocksAre
<1>2. Load(ShimPadded(msg), 0) = Load(WitnessPadded(msg), 0)
  <2>1. 0 \in Nat /\ 0 < ShimBlocks(msg) /\ 64 * 0 = 0
    BY <1>1
  <2> QED  BY <2>1, LoadsAlike
<1>3. shim = wit
  BY <1>2
<1>4. InitialH \in Registers
  BY FirstHash, RegistersAre, Zenon
<1>5. wit \in HashStates /\ Len(wit.w) >= 16
  <2> DEFINE l == Load(WitnessPadded(msg), 0)
  <2>1. l \in Seq(Word32) /\ Len(l) >= 16
    BY LoadsWords
  <2>2. wit = [w |-> l, r |-> InitialH, t |-> 0, h |-> InitialH]
    BY Zenon
  <2> HIDE DEF l, InitHash
  <2> QED  BY <1>4, <2>1, <2>2 DEF HashStates
<1>6. msg \in Messages /\ block = 0 /\ ~done
  OBVIOUS
<1> HIDE DEF InitHash
<1>7. done = (block = CircuitBlocks)
  <2>1. ~(block = CircuitBlocks) /\ done = FALSE
    BY <1>1, <1>6 DEF InitHash
  <2> QED  BY <2>1
<1> QED  BY <1>1, <1>3, <1>5, <1>6, <1>7 DEF HashInv, HashTypes, InStep

LEMMA ExtendedIs ==
    ASSUME NEW s \in HashStates, Len(s.w) >= 16, NEW x \in Word32
    PROVE  /\ Extended(s, x) \in HashStates
           /\ Len(Extended(s, x).w) >= 16 /\ Extended(s, x).h = s.h
<1> DEFINE l == Append(s.w, x)
<1>1. s.w \in Seq(Word32) /\ s.r \in Registers /\ s.t \in Nat
        /\ s.h \in Registers
  BY DEF HashStates
<1>2. l \in Seq(Word32) /\ Len(l) >= 16
  BY <1>1
<1>3. Extended(s, x) = [s EXCEPT !.w = l]
  BY Zenon DEF Extended
<1> HIDE DEF l
<1>4. Extended(s, x) = [w |-> l, r |-> s.r, t |-> s.t, h |-> s.h]
  BY <1>3 DEF HashStates
<1> QED  BY <1>1, <1>2, <1>4 DEF HashStates

LEMMA RoundedIs ==
    ASSUME NEW s \in HashStates, NEW x \in Registers
    PROVE  /\ Rounded(s, x) \in HashStates
           /\ Rounded(s, x).w = s.w /\ Rounded(s, x).h = s.h
<1>1. s.w \in Seq(Word32) /\ s.r \in Registers /\ s.t + 1 \in Nat
        /\ s.h \in Registers
  BY DEF HashStates
<1> DEFINE k == s.t + 1
<1>2. Rounded(s, x) = [s EXCEPT !.r = x, !.t = k]
  BY Zenon DEF Rounded
<1> HIDE DEF k
<1>3. Rounded(s, x) = [w |-> s.w, r |-> x, t |-> k, h |-> s.h]
  BY <1>2 DEF HashStates
<1> QED  BY <1>1, <1>3 DEF HashStates, k

LEMMA ExtendInStep == HashInv /\ Extend => HashInv'
<1> SUFFICES ASSUME HashInv, Extend PROVE HashInv'
  OBVIOUS
<1> USE DEF HashInv, HashTypes, InStep, HashStates
<1>1. UNCHANGED <<msg, block, done>> /\ (ShimWorks' <=> ShimWorks)
  BY DEF Extend, ShimWorks
<1>2. /\ wit.w \in Seq(Word32) /\ Len(wit.w) >= 16
      /\ WitnessWord(wit.w) \in Word32
  BY NextWordAlike
<1>3. wit' = Extended(wit, WitnessWord(wit.w))
  BY DEF Extend
<1>4. wit' \in HashStates /\ Len(wit'.w) >= 16 /\ wit'.h = wit.h
  BY <1>2, <1>3, ExtendedIs
<1>5. ASSUME ShimWorks PROVE shim' = wit'
  <2>1. shim = wit /\ ShimWord(shim.w) = WitnessWord(wit.w)
    BY <1>2, <1>5, NextWordAlike
  <2> QED  BY <1>5, <2>1 DEF Extend
<1>6. ASSUME ~ShimWorks PROVE shim' = shim
  BY <1>6 DEF Extend
<1>7. shim' \in HashStates
  BY <1>4, <1>5, <1>6
<1>8. InStep'
  BY <1>1, <1>4, <1>5, <1>6
<1> QED  BY <1>1, <1>4, <1>7, <1>8

LEMMA RoundInStep == HashInv /\ Round => HashInv'
<1> SUFFICES ASSUME HashInv, Round PROVE HashInv'
  OBVIOUS
<1> USE DEF HashInv, HashTypes, InStep, HashStates
<1>1. UNCHANGED <<msg, block, done>> /\ (ShimWorks' <=> ShimWorks)
  BY DEF Round, ShimWorks
<1> DEFINE r == WitnessRound(wit.r, wit.w, wit.t)
<1>2. wit' = Rounded(wit, r)
  BY DEF Round
<1>3. r \in Registers
  BY RoundKeepsWords DEF Round
<1>5. ASSUME ShimWorks PROVE shim' = wit'
  <2>1. shim = wit
    BY <1>5
  <2>2. ShimRound(wit.r, wit.w, wit.t) = r
    BY WitnessRoundIs
  <2>3. shim' = Rounded(shim, ShimRound(shim.r, shim.w, shim.t))
    BY <1>5, Zenon DEF Round
  <2> HIDE DEF r
  <2> QED  BY <1>2, <2>1, <2>2, <2>3, Zenon
<1> HIDE DEF r
<1>4. wit' \in HashStates /\ wit'.w = wit.w /\ wit'.h = wit.h
  BY <1>2, <1>3, RoundedIs
<1>6. ASSUME ~ShimWorks PROVE shim' = shim
  BY <1>6 DEF Round
<1>7. shim' \in HashStates
  BY <1>4, <1>5, <1>6
<1>8. InStep'
  BY <1>1, <1>4, <1>5, <1>6
<1> QED  BY <1>1, <1>4, <1>7, <1>8

LEMMA NextBlockIs ==
    ASSUME NEW s \in HashStates, NEW p, NEW n
    PROVE  /\ NextBlock(s, p, n) \in HashStates
           /\ NextBlock(s, p, n).h = AddedTo(s.h, s.r)
           /\ Len(s.w) >= 16 => Len(NextBlock(s, p, n).w) >= 16
           /\ ~ (block + 1 < n) => NextBlock(s, p, n).w = s.w
<1>1. AddedTo(s.h, s.r) \in Registers
  BY AddedWords DEF HashStates
<1>2. Load(p, 64 * (block + 1)) \in Seq(Word32)
        /\ Len(Load(p, 64 * (block + 1))) >= 16
  BY LoadsWords
<1>5. s.w \in Seq(Word32) /\ s.r \in Registers /\ s.t \in Nat
        /\ s.h \in Registers
  BY DEF HashStates
<1> DEFINE l == Load(p, 64 * (block + 1))   a == AddedTo(s.h, s.r)
<1>6. l \in Seq(Word32) /\ Len(l) >= 16
  BY <1>2
<1>3. CASE block + 1 < n
  <2>1. NextBlock(s, p, n) = [w |-> l, r |-> a, t |-> 0, h |-> a]
    BY <1>3, Zenon DEF NextBlock
  <2> HIDE DEF l, a
  <2> QED  BY <1>1, <1>3, <1>6, <2>1 DEF HashStates, a
<1>4. CASE ~(block + 1 < n)
  <2>1. NextBlock(s, p, n) = [s EXCEPT !.h = a]
    BY <1>4, Zenon DEF NextBlock
  <2> HIDE DEF a
  <2>2. NextBlock(s, p, n) = [w |-> s.w, r |-> s.r, t |-> s.t, h |-> a]
    BY <2>1 DEF HashStates
  <2> QED  BY <1>1, <1>4, <1>5, <2>2 DEF HashStates, a
<1> QED  BY <1>3, <1>4

LEMMA EndBlockInStep == HashInv /\ EndBlock => HashInv'
<1> SUFFICES ASSUME HashInv, EndBlock PROVE HashInv'
  OBVIOUS
<1> USE DEF HashInv, HashTypes, InStep
<1> DEFINE B == ShimBlocks(msg)
           p == ShimPadded(msg)   q == WitnessPadded(msg)
<1>1. B \in Nat /\ B >= 1 /\ B <= CircuitBlocks /\ CircuitBlocks \in Nat
  BY BlocksAre
<1>2. /\ msg' = msg /\ block' = block + 1 /\ block \in Nat
      /\ block # CircuitBlocks /\ block <= CircuitBlocks
      /\ done' = (block + 1 = CircuitBlocks)
      /\ wit' = NextBlock(wit, q, CircuitBlocks)
      /\ shim' = IF block < B THEN NextBlock(shim, p, B) ELSE shim
  BY DEF EndBlock, ShimWorks
<1>3. /\ wit' \in HashStates /\ shim' \in HashStates
      /\ Len(wit'.w) >= 16
  <2>1. NextBlock(wit, q, CircuitBlocks) \in HashStates
          /\ Len(NextBlock(wit, q, CircuitBlocks).w) >= 16
    BY NextBlockIs
  <2>2. NextBlock(shim, p, B) \in HashStates
    BY NextBlockIs
  <2> QED  BY <1>2, <2>1, <2>2
<1>4. ASSUME block < B PROVE shim'.h = wit'.h
  <2>1. shim = wit
    BY <1>4 DEF ShimWorks
  <2>2. NextBlock(shim, p, B).h = AddedTo(shim.h, shim.r)
    BY NextBlockIs
  <2>3. NextBlock(wit, q, CircuitBlocks).h = AddedTo(wit.h, wit.r)
    BY NextBlockIs
  <2> QED  BY <1>2, <1>4, <2>1, <2>2, <2>3
<1>5. ASSUME block + 1 < B PROVE shim' = wit'
  <2>1. shim = wit /\ block < B /\ block + 1 < CircuitBlocks
    BY <1>1, <1>2, <1>5 DEF ShimWorks
  <2>2. Load(p, 64 * (block + 1)) = Load(q, 64 * (block + 1))
    <3>1. block + 1 \in Nat
      BY <1>2
    <3> QED  BY <1>5, <3>1, LoadsAlike
  <2>3. NextBlock(shim, p, B) = NextBlock(wit, q, CircuitBlocks)
    BY <1>5, <2>1, <2>2 DEF NextBlock
  <2> QED  BY <1>2, <2>1, <2>3
<1>6. ShimBlocks(msg') = B
  BY <1>2
<1>7. HashTypes'
  BY <1>1, <1>2, <1>3
<1>8. ShimWorks' => shim' = wit'
  BY <1>2, <1>5, <1>6 DEF ShimWorks
<1>9. block' <= ShimBlocks(msg') => shim'.h = wit'.h
  BY <1>1, <1>2, <1>4, <1>6
<1> QED  BY <1>7, <1>8, <1>9

LEMMA HashInvNext == HashInv /\ [Next]_vars => HashInv'
<1> SUFFICES ASSUME HashInv, [Next]_vars PROVE HashInv'
  OBVIOUS
<1>1. CASE NextHash
  BY <1>1, ExtendInStep, RoundInStep, EndBlockInStep DEF NextHash
<1>2. CASE UNCHANGED hash
  BY <1>2 DEF hash, HashInv, HashTypes, InStep, ShimWorks
<1> QED  BY <1>1, <1>2 DEF Next, Hash, Get, Draw, vars

LEMMA HashInvHolds == Spec => []HashInv
<1>1. Init => HashInv
  BY HashInvInit DEF Init
<1> QED  BY <1>1, HashInvNext, PTL DEF Spec

(* A message that fits is hashed by the shim as by the code that makes the *)
(* circuit's witness, at every word, round and block (crypto.cc,           *)
(* flatsha256_witness.cc); a message that WitnessBuilder::compute takes is *)
(* padded as the circuit demands, and both end with the same digest.       *)
THEOREM TheHashesKeepInStep == Spec => []HashInStep
<1>1. HashInv => HashInStep
  <2> SUFFICES ASSUME HashInv PROVE HashInStep
    OBVIOUS
  <2>1. msg \in Messages /\ ShimBlocks(msg) = WitnessBlocks(msg)
    BY WitnessPaddedIs DEF HashInv, HashTypes
  <2>2. ShimWorks => shim = wit
    BY DEF HashInv, InStep
  <2>3. ASSUME Compute(msg)
        PROVE  /\ AssertSha256Padding(Len(msg), WitnessPadded(msg))
               /\ AssertZeroPadding(CircuitBlocks, WitnessPadded(msg))
               /\ done => wit.h = shim.h
    <3>1. ASSUME done PROVE wit.h = shim.h
      <4>1. block = CircuitBlocks /\ block \in Nat
        BY <3>1 DEF HashInv, HashTypes
      <4>2. block <= ShimBlocks(msg)
        BY <2>1, <2>3, <4>1 DEF Compute
      <4> QED  BY <4>2 DEF HashInv, InStep
    <3> QED  BY <2>1, <2>3, <3>1, CircuitAcceptsThePadding
  <2> QED  BY <2>1, <2>2, <2>3 DEF HashInStep
<1> QED  BY <1>1, HashInvHolds, PTL
-----------------------------------------------------------------------------
(* The circuit's sums.                                                     *)

(* k words, none of which reaches 2^32.                                    *)
SumsTo(ws, k) == Num(ws) < 4294967296 * k

LEMMA FewCarries ==
    ASSUME NEW ws \in Seq(Word32), NEW k \in Nat, SumsTo(ws, k)
    PROVE  AssertEqmod(Sum32(ws), ws, k)
BY CarriesBelow, SMT DEF AssertEqmod, SumsTo

LEMMA Remainder ==
    ASSUME NEW x \in Word32 PROVE Val(x) \in Nat /\ Cut(Val(x)) = Val(x)
BY ValIsNumber, SMT DEF Cut

(* The sum of a word and a sum.                                            *)
LEMMA SumAndWord ==
    ASSUME NEW x \in Word32, NEW ws \in Seq(Word32)
    PROVE  Sum32(<<x, Sum32(ws)>>) = WordOf(Val(x) + Num(ws))
<1> DEFINE s == Sum32(ws)   v == Val(x)   n == Num(ws)
<1>1. s \in Word32 /\ Val(s) = Cut(n) /\ n \in Nat
  BY WordSum, SumIsModular, SMT DEF Cut
<1>2. v \in Nat /\ Cut(v) = v
  BY Remainder
<1> HIDE DEF s, n, v
<1>3. <<x, s>> \in Seq(Word32) /\ Num(<<x, s>>) = v + Val(s)
  BY <1>1, NumTwo, SMT DEF v
<1>4. Sum32(<<x, s>>) = WordOf(v + Val(s))
  BY <1>3, SumIsWord
<1>5. v + Val(s) = Cut(v) + Cut(n)
  BY <1>1, <1>2, SMT
<1>6. WordOf(Cut(v) + Cut(n)) = WordOf(v + n)
  BY <1>1, <1>2, SumOfSums, SMT
<1>7. Sum32(<<x, s>>) = WordOf(v + n)
  BY <1>4, <1>5, <1>6, SMT
<1> QED  BY <1>7 DEF s, n, v

LEMMA SumOfTwo ==
    ASSUME NEW us \in Seq(Word32), NEW ws \in Seq(Word32)
    PROVE  Sum32(<<Sum32(us), Sum32(ws)>>) = WordOf(Num(us) + Num(ws))
<1> DEFINE p == Sum32(us)   q == Sum32(ws)   m == Num(us)   n == Num(ws)
<1>1. /\ p \in Word32 /\ Val(p) = Cut(m) /\ m \in Nat
      /\ q \in Word32 /\ Val(q) = Cut(n) /\ n \in Nat
  BY WordSum, SumIsModular, SMT DEF Cut
<1> HIDE DEF p, q, m, n
<1>2. <<p, q>> \in Seq(Word32)
  BY <1>1, NumTwo
<1>3. Sum32(<<p, q>>) = WordOf(Num(<<p, q>>))
  BY <1>2, SumIsWord
<1>6. Num(<<p, q>>) = Cut(m) + Cut(n)
  BY <1>1, NumTwo
<1>4. WordOf(Cut(m) + Cut(n)) = WordOf(m + n)
  BY <1>1, SumOfSums, SMT
<1>5. Sum32(<<p, q>>) = WordOf(m + n)
  BY <1>3, <1>4, <1>6, Zenon
<1> QED  BY <1>5 DEF p, q, m, n

LEMMA AssertsWord ==
    ASSUME NEW w \in Seq(Word32), Len(w) >= 16
    PROVE  AssertWord(w, WitnessWord(w))
<1> DEFINE i == Len(w) + 1
           a == sigma1(w[i - 2])   b == w[i - 7]
           c == sigma0(w[i - 15])  d == w[i - 16]
           s == <<a, b, c, d>>
<1>1. /\ w[i - 16] \in Word32 /\ w[i - 15] \in Word32
      /\ w[i - 7] \in Word32 /\ w[i - 2] \in Word32
  OBVIOUS
<1>2. a \in Word32 /\ b \in Word32 /\ c \in Word32 /\ d \in Word32
  BY <1>1, SigmaWords
<1>3. WitnessWord(w) = Sum32(s)
  BY Zenon DEF WitnessWord
<1>4. AssertWord(w, WitnessWord(w)) = AssertEqmod(WitnessWord(w), s, 4)
  BY Zenon DEF AssertWord
<1> HIDE DEF a, b, c, d
<1>5. s \in Seq(Word32) /\ Num(s) = Val(a) + Val(b) + Val(c) + Val(d)
  BY <1>2, NumFour
<1>6. SumsTo(s, 4)
  <2>1. /\ Val(a) \in Nat /\ Val(b) \in Nat /\ Val(c) \in Nat /\ Val(d) \in Nat
        /\ Val(a) < 4294967296 /\ Val(b) < 4294967296 /\ Val(c) < 4294967296
        /\ Val(d) < 4294967296
    BY <1>2, ValIsNumber, SMT
  <2> HIDE DEF s
  <2> QED  BY <1>5, <2>1, SMT DEF SumsTo
<1> HIDE DEF s
<1>7. AssertEqmod(Sum32(s), s, 4)
  <2>1. 4 \in Nat
    OBVIOUS
  <2> QED  BY <1>5, <1>6, <2>1, FewCarries, SMT
<1> QED  BY <1>3, <1>4, <1>7

(* Of the sums of a round, one after the other: the first five summands,   *)
(* with one more for "e", and with two for "a".                            *)
LEMMA AssertsE ==
    ASSUME NEW us \in Seq(Word32), NEW x \in Word32,
           SumsTo(us, 5)
    PROVE  AssertEqmod(Sum32(<<x, Sum32(us)>>), us \o <<x>>, 6)
<1> DEFINE s == us \o <<x>>
<1>1. s = Append(us, x)
  OBVIOUS
<1> HIDE DEF s
<1>2. s \in Seq(Word32) /\ Num(s) = Num(us) + Val(x) /\ Num(us) \in Nat
  BY <1>1, NumAppend
<1>3. Val(x) \in Nat /\ Val(x) < 4294967296
  BY ValIsNumber, SMT
<1>4. SumsTo(s, 6) /\ Num(s) = Val(x) + Num(us)
  BY <1>2, <1>3, SMT DEF SumsTo
<1>5. AssertEqmod(Sum32(s), s, 6)
  <2>1. 6 \in Nat
    OBVIOUS
  <2> QED  BY <1>2, <1>4, <2>1, FewCarries, SMT
<1>6. Sum32(<<x, Sum32(us)>>) = WordOf(Val(x) + Num(us))
  BY SumAndWord
<1>7. Sum32(s) = WordOf(Num(s))
  BY <1>2, SumIsWord
<1>8. WordOf(Num(s)) = WordOf(Val(x) + Num(us))
  BY <1>4, SMT
<1>9. AssertEqmod(Sum32(<<x, Sum32(us)>>), s, 6)
  BY <1>5, <1>6, <1>7, <1>8, Zenon
<1> QED  BY <1>9 DEF s

LEMMA AssertsA ==
    ASSUME NEW us \in Seq(Word32), NEW x \in Word32, NEW y \in Word32,
           SumsTo(us, 5)
    PROVE  AssertEqmod(Sum32(<<Sum32(us), Sum32(<<x, y>>)>>),
                       us \o <<x, y>>, 7)
<1> DEFINE s == us \o <<x, y>>   r == Append(us, x)
<1>1. s = Append(r, y) /\ r \in Seq(Word32)
  OBVIOUS
<1>2. Num(r) = Num(us) + Val(x) /\ Num(us) \in Nat
  BY NumAppend
<1> HIDE DEF s, r
<1>3. s \in Seq(Word32) /\ Num(s) = Num(r) + Val(y)
  BY <1>1, NumAppend
<1>4. /\ Val(x) \in Nat /\ Val(x) < 4294967296
      /\ Val(y) \in Nat /\ Val(y) < 4294967296
  BY ValIsNumber, SMT
<1>5. SumsTo(s, 7) /\ Num(s) = Num(us) + (Val(x) + Val(y))
  BY <1>2, <1>3, <1>4, SMT DEF SumsTo
<1>6. AssertEqmod(Sum32(s), s, 7)
  <2>1. 7 \in Nat
    OBVIOUS
  <2> QED  BY <1>3, <1>5, <2>1, FewCarries, SMT
<1>7. <<x, y>> \in Seq(Word32) /\ Num(<<x, y>>) = Val(x) + Val(y)
  BY NumTwo
<1>8. Sum32(<<Sum32(us), Sum32(<<x, y>>)>>) = WordOf(Num(us) + Num(<<x, y>>))
  BY <1>7, SumOfTwo
<1>9. WordOf(Num(s)) = WordOf(Num(us) + Num(<<x, y>>))
  BY <1>5, <1>7, SMT
<1>10. Sum32(s) = WordOf(Num(s))
  BY <1>3, SumIsWord
<1>11. AssertEqmod(Sum32(<<Sum32(us), Sum32(<<x, y>>)>>), s, 7)
  BY <1>6, <1>8, <1>9, <1>10, Zenon
<1> QED  BY <1>11 DEF s

LEMMA AssertsRound ==
    ASSUME NEW r \in Registers, NEW w \in Seq(Word32), Len(w) = 64,
           NEW t \in Nat, t < 64
    PROVE  AssertRound(r, w, t, WitnessRound(r, w, t)[5],
                       WitnessRound(r, w, t)[1])
<1>0. /\ \A i \in 1..8 : r[i] \in Word32
      /\ Sigma1(r[5]) \in Word32 /\ Sigma0(r[1]) \in Word32
      /\ Ch(r[5], r[6], r[7]) \in Word32
      /\ Maj(r[1], r[2], r[3]) \in Word32
      /\ kSha256Round[t + 1] \in Word32 /\ w[t + 1] \in Word32
  <2>1. \A i \in 1..8 : r[i] \in Word32
    BY RoundSummands, ZenonT(30)
  <2>2. /\ Sigma1(r[5]) \in Word32 /\ Sigma0(r[1]) \in Word32
    BY RoundSummands, ZenonT(30)
  <2>3. /\ Ch(r[5], r[6], r[7]) \in Word32
      /\ Maj(r[1], r[2], r[3]) \in Word32
    BY RoundSummands, ZenonT(30)
  <2>4. kSha256Round[t + 1] \in Word32
    BY RoundSummands, ZenonT(30)
  <2>5. w[t + 1] \in Word32
    BY RoundSummands, ZenonT(30)
  <2> QED  BY <2>1, <2>2, <2>3, <2>4, <2>5
<1>8. T1(r, w, t) \in Seq(Word32)
  BY RoundSummands
<1> DEFINE us == T1(r, w, t)   x == Sigma0(r[1])   y == Maj(r[1], r[2], r[3])
           oute == WitnessRound(r, w, t)[5]
           outa == WitnessRound(r, w, t)[1]
<1>1. /\ us \in Seq(Word32) /\ x \in Word32 /\ y \in Word32
      /\ r[4] \in Word32 /\ r[8] \in Word32
  BY <1>0, <1>8
<1>2. SumsTo(us, 5)
  <2> DEFINE a == r[8]   b == Sigma1(r[5])   c == Ch(r[5], r[6], r[7])
             d == kSha256Round[t + 1]   e == w[t + 1]
  <2>1. /\ a \in Word32 /\ b \in Word32 /\ c \in Word32 /\ d \in Word32
        /\ e \in Word32
    BY <1>0, <1>1
  <2>2. us = <<a, b, c, d, e>>
    BY Zenon DEF T1
  <2> HIDE DEF us, a, b, c, d, e
  <2>3. Num(us) = Val(a) + Val(b) + Val(c) + Val(d) + Val(e)
    <3>1. Num(<<a, b, c, d, e>>) = Val(a) + Val(b) + Val(c) + Val(d) + Val(e)
      BY ONLY <2>1, NumFive
    <3> QED  BY ONLY <2>2, <3>1, Zenon
  <2>4. /\ Val(a) \in Nat /\ Val(b) \in Nat /\ Val(c) \in Nat
        /\ Val(d) \in Nat /\ Val(e) \in Nat
        /\ Val(a) < 4294967296 /\ Val(b) < 4294967296 /\ Val(c) < 4294967296
        /\ Val(d) < 4294967296 /\ Val(e) < 4294967296
    BY <2>1, ValIsNumber, SMT
  <2> QED  BY <2>3, <2>4, SMT DEF SumsTo
<1>3. /\ oute = Sum32(<<r[4], Sum32(us)>>)
      /\ outa = Sum32(<<Sum32(us), Sum32(<<x, y>>)>>)
  <2> DEFINE p == Sum32(<<Sum32(T1(r, w, t)), Sum32(T2(r))>>)
             q == Sum32(<<r[4], Sum32(T1(r, w, t))>>)
  <2>1. WitnessRound(r, w, t) = <<p, r[1], r[2], r[3], q, r[5], r[6], r[7]>>
    BY WitnessRoundIs
  <2> HIDE DEF p, q
  <2>2. oute = q /\ outa = p
    BY <2>1
  <2> QED  BY <2>2, Zenon DEF p, q, T2
<1>4. AssertRound(r, w, t, oute, outa) =
        (/\ AssertEqmod(oute, us \o <<r[4]>>, 6)
         /\ AssertEqmod(outa, us \o <<x, y>>, 7))
  <2>1. /\ VCh(r[5], r[6], r[7]) = Ch(r[5], r[6], r[7])
        /\ VMaj(r[1], r[2], r[3]) = Maj(r[1], r[2], r[3])
    BY VChIsCh, VMajIsMaj
  <2> HIDE DEF oute, outa
  <2> QED  BY <2>1, Zenon DEF AssertRound, T1
<1> HIDE DEF us, x, y, oute, outa
<1>5. AssertEqmod(oute, us \o <<r[4]>>, 6)
  BY <1>1, <1>2, <1>3, AssertsE, SMT
<1>6. AssertEqmod(outa, us \o <<x, y>>, 7)
  BY <1>1, <1>2, <1>3, AssertsA, SMT
<1>7. AssertRound(r, w, t, oute, outa)
  BY <1>4, <1>5, <1>6, Zenon
<1> QED  BY <1>7 DEF oute, outa

LEMMA AssertsHash ==
    ASSUME NEW h \in Registers, NEW r \in Registers, NEW i \in 1..8
    PROVE  AssertEqmod(AddedTo(h, r)[i], <<h[i], r[i]>>, 2)
<1> DEFINE x == h[i]   y == r[i]   s == <<x, y>>
<1>1. x \in Word32 /\ y \in Word32
  BY DEF Registers
<1>2. AddedTo(h, r)[i] = Sum32(s)
  BY DEF AddedTo
<1> HIDE DEF x, y
<1>3. s \in Seq(Word32) /\ Num(s) = Val(x) + Val(y)
  BY <1>1, NumTwo
<1>4. SumsTo(s, 2)
  <2>1. /\ Val(x) \in Nat /\ Val(x) < 4294967296
        /\ Val(y) \in Nat /\ Val(y) < 4294967296
    BY <1>1, ValIsNumber, SMT
  <2> QED  BY <1>3, <2>1, SMT DEF SumsTo
<1> HIDE DEF s
<1>5. AssertEqmod(Sum32(s), s, 2)
  <2>1. 2 \in Nat
    OBVIOUS
  <2> QED  BY <1>3, <1>4, <2>1, FewCarries, SMT
<1>6. AssertEqmod(AddedTo(h, r)[i], s, 2)
  BY <1>2, <1>5, Zenon
<1> QED  BY <1>6 DEF s, x, y

(* No carry that the witness builder can make is more than the circuit     *)
(* allows for, whatever is hashed: each of its assertions holds of what    *)
(* transform_and_witness_block writes down (flatsha256_circuit.h).         *)
THEOREM WitnessSatisfiesTheSums == Spec => CircuitAcceptsTheWitness
<1> DEFINE Asserted ==
        /\ Extend => AssertWord(wit.w, wit'.w[Len(wit'.w)])
        /\ Round => AssertRound(wit.r, wit.w, wit.t, wit'.r[5], wit'.r[1])
        /\ EndBlock => \A i \in 1..8 :
            AssertEqmod(wit'.h[i], <<wit.h[i], wit.r[i]>>, 2)
<1>1. HashInv /\ Extend => AssertWord(wit.w, wit'.w[Len(wit'.w)])
  <2> SUFFICES ASSUME HashInv, Extend
               PROVE  AssertWord(wit.w, wit'.w[Len(wit'.w)])
    OBVIOUS
  <2> DEFINE x == WitnessWord(wit.w)   w == wit.w
  <2>1. w \in Seq(Word32) /\ Len(w) >= 16
    BY DEF HashInv, HashTypes, HashStates
  <2>2. wit'.w = Append(w, x)
    BY DEF HashInv, HashTypes, HashStates, Extend, Extended
  <2>3. AssertWord(w, x)
    BY <2>1, AssertsWord
  <2> HIDE DEF w, x
  <2>4. Append(w, x)[Len(Append(w, x))] = x
    BY <2>1
  <2> QED  BY <2>2, <2>3, <2>4, Zenon DEF w
<1>2. HashInv /\ Round
        => AssertRound(wit.r, wit.w, wit.t, wit'.r[5], wit'.r[1])
  <2> SUFFICES ASSUME HashInv, Round
               PROVE  AssertRound(wit.r, wit.w, wit.t, wit'.r[5], wit'.r[1])
    OBVIOUS
  <2> DEFINE R == WitnessRound(wit.r, wit.w, wit.t)
  <2>1. /\ wit.w \in Seq(Word32) /\ Len(wit.w) = 64 /\ wit.r \in Registers
        /\ wit.t \in Nat /\ wit.t < 64
    BY DEF HashInv, HashTypes, HashStates, Round
  <2>2. AssertRound(wit.r, wit.w, wit.t, R[5], R[1])
    BY <2>1, AssertsRound
  <2>3. wit' = Rounded(wit, R) /\ wit \in HashStates
    BY DEF HashInv, HashTypes, Round
  <2> HIDE DEF R
  <2>4. wit'.r = R
    BY <2>3 DEF Rounded, HashStates
  <2> QED  BY <2>2, <2>4
<1>3. HashInv /\ EndBlock
        => \A i \in 1..8 : AssertEqmod(wit'.h[i], <<wit.h[i], wit.r[i]>>, 2)
  <2> SUFFICES ASSUME HashInv, EndBlock, NEW i \in 1..8
               PROVE  AssertEqmod(wit'.h[i], <<wit.h[i], wit.r[i]>>, 2)
    OBVIOUS
  <2>1. wit \in HashStates /\ wit.h \in Registers /\ wit.r \in Registers
    BY DEF HashInv, HashTypes, HashStates
  <2>2. wit' = NextBlock(wit, WitnessPadded(msg), CircuitBlocks)
    BY DEF EndBlock
  <2>3. wit'.h = AddedTo(wit.h, wit.r)
    BY <2>1, <2>2, NextBlockIs, Zenon
  <2> QED  BY <2>1, <2>3, AssertsHash
<1>4. HashInv => Asserted
  BY <1>1, <1>2, <1>3
<1>5. HashInv /\ [Next]_vars => [Asserted]_hash
  BY <1>4
<1> HIDE DEF Asserted
<1>6. Spec => [][Asserted]_hash
  BY <1>5, HashInvHolds, PTL DEF Spec
<1> QED  BY <1>6 DEF CircuitAcceptsTheWitness, Asserted
-----------------------------------------------------------------------------
(* Bytes.                                                                  *)

Byte8 == SUBSET (0..7)

LEMMA ByteIsByte == \A v : Byte(v) \in Byte8
<1>1. \A v : \A i \in BitsOf(8, v) : i \in 0..7
  BY DEF BitsOf
<1> QED  BY <1>1, Zenon DEF Byte, Byte8

LEMMA ValueIs ==
    ASSUME NEW x \in Byte8
    PROVE  Value(x) = Bit(x, 0) + 2 * Bit(x, 1) + 4 * Bit(x, 2)
                + 8 * Bit(x, 3) + 16 * Bit(x, 4) + 32 * Bit(x, 5)
                + 64 * Bit(x, 6) + 128 * Bit(x, 7)
<1>0. \A i \in x : i \in Nat /\ i < 8
  BY SMT DEF Byte8
<1> DEFINE f == [i \in 0..7 |-> 2^i]
           P(k) == SumFunctionOnSet(f, Below(x, k))
<1>1. /\ f[0] = 1 /\ f[1] = 2 /\ f[2] = 4 /\ f[3] = 8 /\ f[4] = 16
      /\ f[5] = 32 /\ f[6] = 64 /\ f[7] = 128
  BY Powers, SMT
<1>2. \A i \in 0..7 : f[i] \in Nat
  <2> HIDE DEF f
  <2> SUFFICES ASSUME NEW i \in 0..7 PROVE f[i] \in Nat
    OBVIOUS
  <2>1. \/ i = 0 \/ i = 1 \/ i = 2 \/ i = 3 \/ i = 4 \/ i = 5 \/ i = 6
        \/ i = 7
    BY SMT
  <2> QED  BY <1>1, <2>1, SMT
<1>3. P(0) = 0
  <2>1. Below(x, 0) = {}
    <3>1. \A i \in x : ~(i < 0)
      BY <1>0
    <3> QED  BY <3>1 DEF Below
  <2>2. SumFunctionOnSet(f, {}) = 0
    BY SumUnfolds, FS_EmptySet
  <2> QED  BY <2>1, <2>2
<1>4. \A k \in 0..7 : P(k + 1) = P(k) + Bit(x, k) * f[k]
  <2> HIDE DEF f
  <2>1. 7 \in Nat /\ x \in SUBSET (0..7)
    BY SMT DEF Byte8
  <2> QED  BY <1>2, <2>1, SumPeels
<1>5. Value(x) = P(8)
  <2>1. Below(x, 8) = x
    BY <1>0 DEF Below
  <2> QED  BY <2>1 DEF Value
<1> HIDE DEF P, f
<1>6. /\ P(1) = P(0) + Bit(x, 0) * 1 /\ P(2) = P(1) + Bit(x, 1) * 2
      /\ P(3) = P(2) + Bit(x, 2) * 4 /\ P(4) = P(3) + Bit(x, 3) * 8
      /\ P(5) = P(4) + Bit(x, 4) * 16 /\ P(6) = P(5) + Bit(x, 5) * 32
      /\ P(7) = P(6) + Bit(x, 6) * 64 /\ P(8) = P(7) + Bit(x, 7) * 128
  <2>1. /\ 0 + 1 = 1 /\ 1 + 1 = 2 /\ 2 + 1 = 3 /\ 3 + 1 = 4 /\ 4 + 1 = 5
        /\ 5 + 1 = 6 /\ 6 + 1 = 7 /\ 7 + 1 = 8
    OBVIOUS
  <2> QED  BY <1>1, <1>4, <2>1, SMT
<1> QED  BY <1>3, <1>5, <1>6, BitsAre, SMT

LEMMA ByteOfValue ==
    ASSUME NEW x \in Byte8
    PROVE  Value(x) + 1 \in 1..256 /\ Byte(Value(x)) = x
<1> DEFINE v == Value(x)
<1>1. \A i : Bit(x, i) \in 0..1
  BY DEF Bit
<1>2. v = Bit(x, 0) + 2 * Bit(x, 1) + 4 * Bit(x, 2)
                + 8 * Bit(x, 3) + 16 * Bit(x, 4) + 32 * Bit(x, 5)
                + 64 * Bit(x, 6) + 128 * Bit(x, 7)
  BY ValueIs
<1> HIDE DEF v
<1>3. /\ v \in 0..255
      /\ v % 2 = Bit(x, 0) /\ (v \div 2) % 2 = Bit(x, 1)
      /\ (v \div 4) % 2 = Bit(x, 2) /\ (v \div 8) % 2 = Bit(x, 3)
      /\ (v \div 16) % 2 = Bit(x, 4) /\ (v \div 32) % 2 = Bit(x, 5)
      /\ (v \div 64) % 2 = Bit(x, 6) /\ (v \div 128) % 2 = Bit(x, 7)
  <2> DEFINE b0 == Bit(x, 0)   b1 == Bit(x, 1)   b2 == Bit(x, 2)
             b3 == Bit(x, 3)   b4 == Bit(x, 4)   b5 == Bit(x, 5)
             b6 == Bit(x, 6)   b7 == Bit(x, 7)
  <2>1. /\ b0 \in 0..1 /\ b1 \in 0..1 /\ b2 \in 0..1 /\ b3 \in 0..1
        /\ b4 \in 0..1 /\ b5 \in 0..1 /\ b6 \in 0..1 /\ b7 \in 0..1
    BY <1>1
  <2>2. v = b0 + 2 * b1 + 4 * b2 + 8 * b3 + 16 * b4 + 32 * b5 + 64 * b6
                + 128 * b7
    BY <1>2
  <2> HIDE DEF b0, b1, b2, b3, b4, b5, b6, b7
  <2>3. /\ v \in 0..255
        /\ v % 2 = b0 /\ (v \div 2) % 2 = b1 /\ (v \div 4) % 2 = b2
    BY <2>1, <2>2, SMT
  <2>4. (v \div 8) % 2 = b3 /\ (v \div 16) % 2 = b4
    BY <2>1, <2>2, SMT
  <2>5. (v \div 32) % 2 = b5 /\ (v \div 64) % 2 = b6
    BY <2>1, <2>2, SMT
  <2>6. (v \div 128) % 2 = b7
    BY <2>1, <2>2, SMT
  <2> QED  BY <2>3, <2>4, <2>5, <2>6 DEF b0, b1, b2, b3, b4, b5, b6, b7
<1>4. \A i \in 0..7 : (v \div 2^i) % 2 = Bit(x, i)
  <2> SUFFICES ASSUME NEW i \in 0..7 PROVE (v \div 2^i) % 2 = Bit(x, i)
    OBVIOUS
  <2>0. \/ i = 0 \/ i = 1 \/ i = 2 \/ i = 3 \/ i = 4 \/ i = 5 \/ i = 6
        \/ i = 7
    BY SMT
  <2>1. v \div 1 = v
    BY <1>3, SMT
  <2>2. CASE i = 0
    <3>1. 2^0 = 1
      BY SMT
    <3> QED  BY <1>3, <2>1, <2>2, <3>1, SMT
  <2>3. CASE i = 1
    <3>1. 2^1 = 2
      BY SMT
    <3> QED  BY <1>3, <2>1, <2>3, <3>1, SMT
  <2>4. CASE i = 2
    <3>1. 2^2 = 4
      BY SMT
    <3> QED  BY <1>3, <2>1, <2>4, <3>1, SMT
  <2>5. CASE i = 3
    <3>1. 2^3 = 8
      BY SMT
    <3> QED  BY <1>3, <2>1, <2>5, <3>1, SMT
  <2>6. CASE i = 4
    <3>1. 2^4 = 16
      BY SMT
    <3> QED  BY <1>3, <2>1, <2>6, <3>1, SMT
  <2>7. CASE i = 5
    <3>1. 2^5 = 32
      BY SMT
    <3> QED  BY <1>3, <2>1, <2>7, <3>1, SMT
  <2>8. CASE i = 6
    <3>1. 2^6 = 64
      BY SMT
    <3> QED  BY <1>3, <2>1, <2>8, <3>1, SMT
  <2>9. CASE i = 7
    <3>1. 2^7 = 128
      BY SMT
    <3> QED  BY <1>3, <2>1, <2>9, <3>1, SMT
  <2> QED  BY <2>0, <2>2, <2>3, <2>4, <2>5, <2>6, <2>7, <2>8, <2>9
<1>5. \A i : i \in Byte(v) <=> i \in x
  <2>1. \A i : i \in Byte(v) <=> i \in 0..7 /\ (v \div 2^i) % 2 = 1
    <3>1. 8 - 1 = 7
      OBVIOUS
    <3> QED  BY <3>1, Zenon DEF Byte, BitsOf
  <2>2. \A i : i \in x => i \in 0..7
    BY DEF Byte8
  <2>3. \A i : Bit(x, i) = 1 <=> i \in x
    BY DEF Bit
  <2> QED  BY <1>4, <2>1, <2>2, <2>3, Zenon
<1>6. v + 1 \in 1..256
  BY <1>3, SMT
<1> QED  BY <1>5, <1>6, Zenon DEF v

-----------------------------------------------------------------------------
(* The S-box, and the multiples a column is mixed of.                      *)

LEMMA SBoxIs ==
    ASSUME NEW x \in Byte8
    PROVE  SBox(x) \in Byte8 /\ StandardSub(x) = SBox(x)
<1>1. PICK table : kAesSBox = ByteTable(table) /\ DOMAIN table = 1..256
  BY SMTT(120) DEF kAesSBox
<1> DEFINE f == [i \in DOMAIN table |-> Byte(table[i])]
<1>2. f \in [1..256 -> Byte8]
  BY <1>1, ByteIsByte
<1>3. kAesSBox = <<>> \o f
  BY <1>1, Zenon DEF ByteTable, AsTuple
<1> HIDE DEF f
<1> DEFINE n == 256
<1>4. n \in Nat /\ f \in [1..n -> Byte8]
  BY <1>2
<1> HIDE DEF n
<1>5. f \in Seq(Byte8)
  BY ONLY <1>4, IsSequence
<1>6. kAesSBox = f
  BY <1>3, <1>5, ConcatEmptySeq
<1>7. Value(x) + 1 \in 1..256
  BY ByteOfValue
<1>8. kAesSBox[Value(x) + 1] \in Byte8
  BY <1>2, <1>6, <1>7, Zenon
<1>9. kAesSBox = StandardSBox
  BY TablesAssumption, Zenon
<1> QED  BY <1>8, <1>9, Zenon DEF SBox, StandardSub

LEMMA XorBytes ==
    ASSUME NEW x \in Byte8, NEW y \in Byte8 PROVE Xor(x, y) \in Byte8
BY Zenon DEF Xor, Byte8

LEMMA InXor == \A x, y, k : k \in Xor(x, y) <=> ~(k \in x <=> k \in y)
BY DEF Xor

LEMMA XtimeIs ==
    ASSUME NEW x \in Byte8
    PROVE  /\ Xtime(x) \in Byte8
           /\ Multiples[Value(x) + 1][1] = x
           /\ Multiples[Value(x) + 1][2] = Xtime(x)
<1> DEFINE u == {i + 1 : i \in x \ {7}}
           w == IF 7 \in x THEN Byte(27) ELSE {}
<1>1. \A i \in x \ {7} : i + 1 \in 0..7
  BY SMT DEF Byte8
<1>2. u \in Byte8
  BY <1>1, Zenon DEF Byte8
<1>3. w \in Byte8
  <2>1. {} \in Byte8
    BY DEF Byte8
  <2> QED  BY <2>1, ByteIsByte, Zenon
<1>4. Xtime(x) = Xor(u, w)
  BY Zenon DEF Xtime
<1>5. Xtime(x) \in Byte8
  BY <1>2, <1>3, <1>4, XorBytes, Zenon
<1> DEFINE v == Value(x) + 1
<1>6. v \in 1..256 /\ Byte(Value(x)) = x
  BY ByteOfValue
<1>7. v - 1 = Value(x)
  <2>1. Value(x) \in Nat
    <3>1. \A i : Bit(x, i) \in 0..1
      BY DEF Bit
    <3> QED  BY <3>1, ValueIs, SMT
  <2> QED  BY <2>1
<1>8. Multiples[v][1] = Byte(v - 1) /\ Multiples[v][2] = Xtime(Byte(v - 1))
  BY <1>6, TablesAssumption, Zenon
<1> QED  BY <1>5, <1>6, <1>7, <1>8, Zenon

LEMMA XtimeIsLinear ==
    ASSUME NEW x \in Byte8, NEW y \in Byte8
    PROVE  Xtime(Xor(x, y)) = Xor(Xtime(x), Xtime(y))
<1>0. \A i \in x \cup y : i \in 0..7
  BY DEF Byte8
<1> DEFINE Up(s) == {i + 1 : i \in s \ {7}}
           Over(s) == IF 7 \in s THEN Byte(27) ELSE {}
<1>1. \A s : Xtime(s) = Xor(Up(s), Over(s))
  BY Zenon DEF Xtime
<1>2. Up(Xor(x, y)) = Xor(Up(x), Up(y))
  <2> SUFFICES ASSUME NEW k
               PROVE  k \in Up(Xor(x, y)) <=> k \in Xor(Up(x), Up(y))
    BY Zenon
  <2>1. ASSUME NEW s \in {x, y, Xor(x, y)}
        PROVE  k \in Up(s) <=> (k \in Int /\ k # 8 /\ k - 1 \in s)
    <3>1. \A i \in s : i \in 0..7
      BY <1>0 DEF Xor
    <3>2. ASSUME k \in Up(s) PROVE k \in Int /\ k # 8 /\ k - 1 \in s
      <4>1. PICK i \in s \ {7} : k = i + 1
        BY <3>2
      <4> QED  BY <3>1, <4>1
    <3>3. ASSUME k \in Int, k # 8, k - 1 \in s PROVE k \in Up(s)
      <4>1. k - 1 \in s \ {7} /\ k = (k - 1) + 1
        BY <3>3
      <4> QED  BY <4>1
    <3> QED  BY <3>2, <3>3
  <2> HIDE DEF Up
  <2> QED  BY <2>1 DEF Xor
<1>3. Over(Xor(x, y)) = Xor(Over(x), Over(y))
  <2>1. 7 \in Xor(x, y) <=> ~(7 \in x <=> 7 \in y)
    BY DEF Xor
  <2> QED  BY <2>1 DEF Xor
<1> HIDE DEF Up, Over
<1>4. Xtime(Xor(x, y)) = Xor(Xor(Up(x), Up(y)), Xor(Over(x), Over(y)))
  BY <1>1, <1>2, <1>3, Zenon
<1>5. Xor(Xtime(x), Xtime(y)) = Xor(Xor(Up(x), Over(x)), Xor(Up(y), Over(y)))
  BY <1>1, Zenon
<1>6. \A a, b, c, d : Xor(Xor(a, b), Xor(c, d)) = Xor(Xor(a, c), Xor(b, d))
  <2> SUFFICES ASSUME NEW a, NEW b, NEW c, NEW d
               PROVE  Xor(Xor(a, b), Xor(c, d)) = Xor(Xor(a, c), Xor(b, d))
    OBVIOUS
  <2>1. \A k : k \in Xor(Xor(a, b), Xor(c, d))
                    <=> k \in Xor(Xor(a, c), Xor(b, d))
    <3>1. \A k : /\ k \in Xor(a, b) <=> ~(k \in a <=> k \in b)
                 /\ k \in Xor(c, d) <=> ~(k \in c <=> k \in d)
                 /\ k \in Xor(a, c) <=> ~(k \in a <=> k \in c)
                 /\ k \in Xor(b, d) <=> ~(k \in b <=> k \in d)
      BY InXor
    <3>2. \A k : k \in Xor(Xor(a, b), Xor(c, d))
                    <=> ~(k \in Xor(a, b) <=> k \in Xor(c, d))
      BY InXor
    <3>3. \A k : k \in Xor(Xor(a, c), Xor(b, d))
                    <=> ~(k \in Xor(a, c) <=> k \in Xor(b, d))
      BY InXor
    <3> SUFFICES ASSUME NEW k
                 PROVE  k \in Xor(Xor(a, b), Xor(c, d))
                            <=> k \in Xor(Xor(a, c), Xor(b, d))
      OBVIOUS
    <3> DEFINE A == k \in a   B == k \in b   C == k \in c   D == k \in d
    <3>4. /\ k \in Xor(a, b) <=> ~(A <=> B)
          /\ k \in Xor(c, d) <=> ~(C <=> D)
          /\ k \in Xor(a, c) <=> ~(A <=> C)
          /\ k \in Xor(b, d) <=> ~(B <=> D)
      BY <3>1
    <3>5. CASE A
      BY <3>2, <3>3, <3>4, <3>5, SMT
    <3>6. CASE ~A
      BY <3>2, <3>3, <3>4, <3>6, SMT
    <3> QED  BY <3>5, <3>6
  <2> DEFINE S == Xor(Xor(a, b), Xor(c, d))
             T == Xor(Xor(a, c), Xor(b, d))
  <2>2. \A k : k \in S <=> k \in T
    BY <2>1
  <2> HIDE DEF S, T
  <2>3. S \cap T = S /\ S \cap T = T
    BY <2>2
  <2>4. S = T
    BY <2>3
  <2> QED  BY <2>4 DEF S, T
<1>7. Xor(Xor(Up(x), Up(y)), Xor(Over(x), Over(y)))
        = Xor(Xor(Up(x), Over(x)), Xor(Up(y), Over(y)))
  BY ONLY <1>6
<1> QED  BY ONLY <1>4, <1>5, <1>7

LEMMA TimesOne ==
    ASSUME NEW x \in Byte8
    PROVE  /\ Times({1}, x) = Xtime(x)
           /\ Times({0, 1}, x) = Xor(x, Xtime(x))
<1> DEFINE M == Multiples[Value(x) + 1]
           y == Xtime(x)
<1>1. M[1] = x /\ M[2] = y /\ \A i \in x \cup y : i \in 0..7
  BY XtimeIs DEF Byte8
<1> HIDE DEF M, y
<1>2. 0 + 1 = 1 /\ 1 + 1 = 2 /\ 0 % 2 = 0 /\ 1 % 2 = 1 /\ 2 % 2 = 0 /\ 0 # 1
  OBVIOUS
<1>3. /\ Cardinality({}) = 0
      /\ \A a : Cardinality({a}) = 1
      /\ \A a, b : a # b => Cardinality({a, b}) = 2
  <2>1. \A a : IsFiniteSet({a}) /\ Cardinality({a}) = 1
    BY FS_Singleton
  <2>2. ASSUME NEW a, NEW b, a # b PROVE Cardinality({a, b}) = 2
    <3>1. IsFiniteSet({a}) /\ Cardinality({a}) = 1 /\ b \notin {a}
            /\ {a, b} = {a} \cup {b}
      BY <2>1, <2>2
    <3>2. Cardinality({a} \cup {b}) = Cardinality({a}) + 1
      BY <3>1, FS_AddElement
    <3> QED  BY <3>1, <3>2
  <2> QED  BY <2>1, <2>2, FS_EmptySet
<1>4. \A i : Cardinality({j \in {1} : i \in M[j + 1]}) % 2 = 1 <=> i \in y
  <2> SUFFICES ASSUME NEW i
               PROVE  Cardinality({j \in {1} : i \in M[j + 1]}) % 2 = 1
                        <=> i \in y
    OBVIOUS
  <2>1. CASE i \in y
    <3>1. {j \in {1} : i \in M[j + 1]} = {1}
      BY <1>1, <1>2, <2>1, Zenon
    <3> QED  BY <1>2, <1>3, <2>1, <3>1, Zenon
  <2>2. CASE i \notin y
    <3>1. {j \in {1} : i \in M[j + 1]} = {}
      BY <1>1, <1>2, <2>2, Zenon
    <3> QED  BY <1>2, <1>3, <2>2, <3>1, Zenon
  <2> QED  BY <2>1, <2>2
<1>5. \A i : Cardinality({j \in {0, 1} : i \in M[j + 1]}) % 2 = 1
                <=> i \in Xor(x, y)
  <2> SUFFICES ASSUME NEW i
               PROVE  Cardinality({j \in {0, 1} : i \in M[j + 1]}) % 2 = 1
                        <=> i \in Xor(x, y)
    OBVIOUS
  <2> DEFINE S == {j \in {0, 1} : i \in M[j + 1]}
  <2>1. (0 \in S <=> i \in x) /\ (1 \in S <=> i \in y) /\ S \subseteq {0, 1}
    BY <1>1, <1>2, Zenon
  <2> HIDE DEF S
  <2>2. S = {} \/ S = {0} \/ S = {1} \/ S = {0, 1}
    BY <2>1, Zenon
  <2>3. i \in Xor(x, y) <=> ~(i \in x <=> i \in y)
    BY Zenon DEF Xor
  <2>4. ASSUME S = {} PROVE Cardinality(S) % 2 = 1 <=> i \in Xor(x, y)
    BY <1>2, <1>3, <2>1, <2>3, <2>4, Zenon
  <2>5. ASSUME S = {0} PROVE Cardinality(S) % 2 = 1 <=> i \in Xor(x, y)
    BY <1>2, <1>3, <2>1, <2>3, <2>5, Zenon
  <2>6. ASSUME S = {1} PROVE Cardinality(S) % 2 = 1 <=> i \in Xor(x, y)
    BY <1>2, <1>3, <2>1, <2>3, <2>6, Zenon
  <2>7. ASSUME S = {0, 1} PROVE Cardinality(S) % 2 = 1 <=> i \in Xor(x, y)
    BY <1>2, <1>3, <2>1, <2>3, <2>7, Zenon
  <2> QED  BY <2>2, <2>4, <2>5, <2>6, <2>7 DEF S
<1>6. Times({1}, x) = y
  <2>1. Times({1}, x) = {i \in 0..7 : Cardinality({j \in {1} :
                            i \in M[j + 1]}) % 2 = 1}
    BY Zenon DEF Times, M
  <2> QED  BY <1>1, <1>4, <2>1, Zenon
<1>7. Times({0, 1}, x) = Xor(x, y)
  <2>1. Times({0, 1}, x) = {i \in 0..7 : Cardinality({j \in {0, 1} :
                            i \in M[j + 1]}) % 2 = 1}
    BY Zenon DEF Times, M
  <2>2. \A i \in Xor(x, y) : i \in 0..7
    BY <1>1, Zenon DEF Xor
  <2> QED  BY <1>5, <2>1, <2>2, Zenon
<1> QED  BY <1>6, <1>7 DEF y
-----------------------------------------------------------------------------
(* The rounds.                                                             *)

LEMMA SameElements ==
    ASSUME NEW S, NEW T, \A k : k \in S <=> k \in T PROVE S = T
<1>1. S \cap T = S /\ S \cap T = T
  OBVIOUS
<1> QED  BY <1>1

(* Where a byte of the state comes from.                                   *)
LEMMA ShiftRowsMoves ==
    ASSUME NEW u, NEW q \in 0..3, NEW c \in 0..3
    PROVE  /\ 4 * c + q + 1 \in 1..16
           /\ 4 * ((c + q) % 4) + q + 1 \in 1..16
           /\ ShiftRows(u)[4 * c + q + 1] = u[4 * ((c + q) % 4) + q + 1]
<1> DEFINE s == ShiftRows(u)
<1>1. /\ s[1] = u[1] /\ s[2] = u[6] /\ s[3] = u[11] /\ s[4] = u[16]
      /\ s[5] = u[5] /\ s[6] = u[10] /\ s[7] = u[15] /\ s[8] = u[4]
      /\ s[9] = u[9] /\ s[10] = u[14] /\ s[11] = u[3] /\ s[12] = u[8]
      /\ s[13] = u[13] /\ s[14] = u[2] /\ s[15] = u[7] /\ s[16] = u[12]
  BY SMT DEF ShiftRows
<1> HIDE DEF s
<1>2. 4 * c + q + 1 \in 1..16 /\ 4 * ((c + q) % 4) + q + 1 \in 1..16
  BY SMT
<1>3. c = 0 \/ c = 1 \/ c = 2 \/ c = 3
  BY SMT
<1>4. q = 0 \/ q = 1 \/ q = 2 \/ q = 3
  BY SMT
<1>5. CASE q = 0
  <2>1. CASE c = 0
    <3>1. 4 * c + q + 1 = 1 /\ 4 * ((c + q) % 4) + q + 1 = 1
      BY <1>5, <2>1, SMT
    <3> QED  BY <1>1, <1>2, <3>1 DEF s
  <2>2. CASE c = 1
    <3>1. 4 * c + q + 1 = 5 /\ 4 * ((c + q) % 4) + q + 1 = 5
      BY <1>5, <2>2, SMT
    <3> QED  BY <1>1, <1>2, <3>1 DEF s
  <2>3. CASE c = 2
    <3>1. 4 * c + q + 1 = 9 /\ 4 * ((c + q) % 4) + q + 1 = 9
      BY <1>5, <2>3, SMT
    <3> QED  BY <1>1, <1>2, <3>1 DEF s
  <2>4. CASE c = 3
    <3>1. 4 * c + q + 1 = 13 /\ 4 * ((c + q) % 4) + q + 1 = 13
      BY <1>5, <2>4, SMT
    <3> QED  BY <1>1, <1>2, <3>1 DEF s
  <2> QED  BY <1>3, <2>1, <2>2, <2>3, <2>4
<1>6. CASE q = 1
  <2>1. CASE c = 0
    <3>1. 4 * c + q + 1 = 2 /\ 4 * ((c + q) % 4) + q + 1 = 6
      BY <1>6, <2>1, SMT
    <3> QED  BY <1>1, <1>2, <3>1 DEF s
  <2>2. CASE c = 1
    <3>1. 4 * c + q + 1 = 6 /\ 4 * ((c + q) % 4) + q + 1 = 10
      BY <1>6, <2>2, SMT
    <3> QED  BY <1>1, <1>2, <3>1 DEF s
  <2>3. CASE c = 2
    <3>1. 4 * c + q + 1 = 10 /\ 4 * ((c + q) % 4) + q + 1 = 14
      BY <1>6, <2>3, SMT
    <3> QED  BY <1>1, <1>2, <3>1 DEF s
  <2>4. CASE c = 3
    <3>1. 4 * c + q + 1 = 14 /\ 4 * ((c + q) % 4) + q + 1 = 2
      BY <1>6, <2>4, SMT
    <3> QED  BY <1>1, <1>2, <3>1 DEF s
  <2> QED  BY <1>3, <2>1, <2>2, <2>3, <2>4
<1>7. CASE q = 2
  <2>1. CASE c = 0
    <3>1. 4 * c + q + 1 = 3 /\ 4 * ((c + q) % 4) + q + 1 = 11
      BY <1>7, <2>1, SMT
    <3> QED  BY <1>1, <1>2, <3>1 DEF s
  <2>2. CASE c = 1
    <3>1. 4 * c + q + 1 = 7 /\ 4 * ((c + q) % 4) + q + 1 = 15
      BY <1>7, <2>2, SMT
    <3> QED  BY <1>1, <1>2, <3>1 DEF s
  <2>3. CASE c = 2
    <3>1. 4 * c + q + 1 = 11 /\ 4 * ((c + q) % 4) + q + 1 = 3
      BY <1>7, <2>3, SMT
    <3> QED  BY <1>1, <1>2, <3>1 DEF s
  <2>4. CASE c = 3
    <3>1. 4 * c + q + 1 = 15 /\ 4 * ((c + q) % 4) + q + 1 = 7
      BY <1>7, <2>4, SMT
    <3> QED  BY <1>1, <1>2, <3>1 DEF s
  <2> QED  BY <1>3, <2>1, <2>2, <2>3, <2>4
<1>8. CASE q = 3
  <2>1. CASE c = 0
    <3>1. 4 * c + q + 1 = 4 /\ 4 * ((c + q) % 4) + q + 1 = 16
      BY <1>8, <2>1, SMT
    <3> QED  BY <1>1, <1>2, <3>1 DEF s
  <2>2. CASE c = 1
    <3>1. 4 * c + q + 1 = 8 /\ 4 * ((c + q) % 4) + q + 1 = 4
      BY <1>8, <2>2, SMT
    <3> QED  BY <1>1, <1>2, <3>1 DEF s
  <2>3. CASE c = 2
    <3>1. 4 * c + q + 1 = 12 /\ 4 * ((c + q) % 4) + q + 1 = 8
      BY <1>8, <2>3, SMT
    <3> QED  BY <1>1, <1>2, <3>1 DEF s
  <2>4. CASE c = 3
    <3>1. 4 * c + q + 1 = 16 /\ 4 * ((c + q) % 4) + q + 1 = 12
      BY <1>8, <2>4, SMT
    <3> QED  BY <1>1, <1>2, <3>1 DEF s
  <2> QED  BY <1>3, <2>1, <2>2, <2>3, <2>4
<1> QED  BY <1>4, <1>5, <1>6, <1>7, <1>8

(* One byte of a mixed column, whose bytes sum to t.                       *)
LEMMA ColumnMix ==
    ASSUME NEW a \in Byte8, NEW b \in Byte8, NEW c, NEW d, NEW t,
           \A k : k \in t <=> ~((k \in a <=> k \in b) <=> (k \in c <=> k \in d))
    PROVE  Xor3(a, t, Xtime(Xor(a, b)))
                = Xor(Xor3(Xtime(a), Xor(b, Xtime(b)), c), d)
<1> DEFINE x == Xtime(a)
           y == Xtime(b)
<1>1. Xtime(Xor(a, b)) = Xor(x, y)
  BY XtimeIsLinear
<1> HIDE DEF x, y
<1> DEFINE S == Xor(Xor(a, t), Xor(x, y))
           T == Xor(Xor(Xor(x, Xor(b, y)), c), d)
<1>2. ASSUME NEW k PROVE k \in S <=> k \in T
  <2>1. k \in S <=> ~(k \in Xor(a, t) <=> k \in Xor(x, y))
    BY InXor
  <2>2. k \in Xor(a, t) <=> ~(k \in a <=> k \in t)
    BY InXor
  <2>3. k \in Xor(x, y) <=> ~(k \in x <=> k \in y)
    BY InXor
  <2>4. k \in T <=> ~(k \in Xor(Xor(x, Xor(b, y)), c) <=> k \in d)
    BY InXor
  <2>5. k \in Xor(Xor(x, Xor(b, y)), c)
            <=> ~(k \in Xor(x, Xor(b, y)) <=> k \in c)
    BY InXor
  <2>6. k \in Xor(x, Xor(b, y)) <=> ~(k \in x <=> k \in Xor(b, y))
    BY InXor
  <2>7. k \in Xor(b, y) <=> ~(k \in b <=> k \in y)
    BY InXor
  <2>8. k \in t <=> ~((k \in a <=> k \in b) <=> (k \in c <=> k \in d))
    OBVIOUS
  <2> HIDE DEF S, T
  <2> QED  BY ONLY <2>1, <2>2, <2>3, <2>4, <2>5, <2>6, <2>7, <2>8, SMT
<1> HIDE DEF S, T
<1>3. S = T
  BY <1>2, SameElements
<1> QED  BY <1>1, <1>3 DEF S, T, x, y, Xor3

Block == [1..16 -> Byte8]

LEMMA RoundBytes ==
    ASSUME NEW s \in Block
    PROVE  SubBytes(s) \in Block /\ ShiftRows(SubBytes(s)) \in Block
<1>1. \A i \in 1..16 : SBox(s[i]) \in Byte8
  BY SBoxIs, Zenon DEF Block
<1>2. SubBytes(s) \in Block
  BY <1>1, Zenon DEF SubBytes, Block
<1> DEFINE u == SubBytes(s)
<1> HIDE DEF u
<1>3. ASSUME NEW i \in 1..16 PROVE ShiftRows(u)[i] \in Byte8
  <2> DEFINE q == (i - 1) % 4   c == (i - 1) \div 4
  <2>1. q \in 0..3 /\ c \in 0..3 /\ i = 4 * c + q + 1
    BY SMT
  <2> HIDE DEF q, c
  <2>2. /\ 4 * ((c + q) % 4) + q + 1 \in 1..16
        /\ ShiftRows(u)[i] = u[4 * ((c + q) % 4) + q + 1]
    BY <2>1, ShiftRowsMoves
  <2> QED  BY <1>2, <2>2, Zenon DEF u, Block
<1>4. ShiftRows(u) = [i \in 1..16 |-> ShiftRows(u)[i]]
  BY DEF ShiftRows
<1>5. ShiftRows(u) \in Block
  BY <1>3, <1>4, Zenon DEF Block
<1> QED  BY <1>2, <1>5 DEF u

(* The byte that the standard takes for a row and a column.                *)
LEMMA ShiftedIs ==
    ASSUME NEW s \in Block, NEW r \in 0..6, NEW c \in 0..3
    PROVE  StandardSub(At(s, r, c + (r % 4)))
                = ShiftRows(SubBytes(s))[4 * c + (r % 4) + 1]
<1> DEFINE q == r % 4
<1>1. q \in 0..3
  BY SMT
<1> HIDE DEF q
<1> DEFINE p == 4 * ((c + q) % 4) + q + 1
<1>2. p \in 1..16 /\ ShiftRows(SubBytes(s))[4 * c + q + 1] = SubBytes(s)[p]
  BY <1>1, ShiftRowsMoves
<1>3. At(s, r, c + q) = s[p]
  BY DEF At, q
<1> HIDE DEF p
<1>4. SubBytes(s)[p] = SBox(s[p]) /\ s[p] \in Byte8
  BY <1>2, Zenon DEF SubBytes, Block
<1>5. StandardSub(s[p]) = SBox(s[p])
  BY <1>4, SBoxIs
<1> QED  BY <1>2, <1>3, <1>4, <1>5 DEF q

LEMMA MixedIsStandard ==
    ASSUME NEW t \in Block, NEW i \in 1..16, NEW r, NEW c,
           r = (i - 1) % 4, c = (i - 1) \div 4
    PROVE  MixColumns(t)[i]
                = Xor(Xor3(Times({1}, t[4 * c + (r % 4) + 1]),
                           Times({0, 1}, t[4 * c + ((r + 1) % 4) + 1]),
                           t[4 * c + ((r + 2) % 4) + 1]),
                      t[4 * c + ((r + 3) % 4) + 1])
<1>1. /\ r \in 0..3 /\ c \in 0..3 /\ 4 * c + r + 1 = i /\ r % 4 = r
      /\ 4 * c + (i % 4) + 1 = 4 * c + ((r + 1) % 4) + 1
  BY SMT
<1> DEFINE e(k) == t[4 * c + ((r + k) % 4) + 1]
           x == t[i]
           sum == Xor(Xor(t[4 * c + 1], t[4 * c + 2]),
                      Xor(t[4 * c + 3], t[4 * c + 4]))
<1>2. MixColumns(t)[i] = Xor3(x, sum, Xtime(Xor(x, e(1))))
  BY <1>1, SMT DEF MixColumns
<1>3. x \in Byte8
  BY DEF Block
<1>4. e(1) \in Byte8
  <2>1. 4 * c + ((r + 1) % 4) + 1 \in 1..16
    BY <1>1, SMT
  <2> HIDE DEF e
  <2> QED  BY <2>1, Zenon DEF e, Block
<1>5. ASSUME NEW k
      PROVE  k \in sum
                <=> ~((k \in x <=> k \in e(1)) <=> (k \in e(2) <=> k \in e(3)))
  <2> DEFINE a == t[4 * c + 1]   b == t[4 * c + 2]
             f == t[4 * c + 3]   g == t[4 * c + 4]
  <2>1. k \in sum <=> ~((k \in a <=> k \in b) <=> (k \in f <=> k \in g))
    <3>1. /\ k \in sum <=> ~(k \in Xor(a, b) <=> k \in Xor(f, g))
          /\ k \in Xor(a, b) <=> ~(k \in a <=> k \in b)
          /\ k \in Xor(f, g) <=> ~(k \in f <=> k \in g)
      BY InXor
    <3> HIDE DEF a, b, f, g, sum
    <3> QED  BY ONLY <3>1, SMT
  <2>2. r = 0 \/ r = 1 \/ r = 2 \/ r = 3
    BY <1>1
  <2>3. CASE r = 0
    <3>1. x = a /\ e(1) = b /\ e(2) = f /\ e(3) = g
      BY <1>1, <2>3, SMT
    <3> HIDE DEF a, b, f, g, sum, x, e
    <3> QED  BY ONLY <2>1, <3>1, SMT
  <2>4. CASE r = 1
    <3>1. x = b /\ e(1) = f /\ e(2) = g /\ e(3) = a
      BY <1>1, <2>4, SMT
    <3> HIDE DEF a, b, f, g, sum, x, e
    <3> QED  BY ONLY <2>1, <3>1, SMT
  <2>5. CASE r = 2
    <3>1. x = f /\ e(1) = g /\ e(2) = a /\ e(3) = b
      BY <1>1, <2>5, SMT
    <3> HIDE DEF a, b, f, g, sum, x, e
    <3> QED  BY ONLY <2>1, <3>1, SMT
  <2>6. CASE r = 3
    <3>1. x = g /\ e(1) = a /\ e(2) = b /\ e(3) = f
      BY <1>1, <2>6, SMT
    <3> HIDE DEF a, b, f, g, sum, x, e
    <3> QED  BY ONLY <2>1, <3>1, SMT
  <2> QED  BY <2>2, <2>3, <2>4, <2>5, <2>6
<1>6. t[4 * c + (r % 4) + 1] = x
  BY <1>1
<1> HIDE DEF e, x, sum
<1>7. Xor3(x, sum, Xtime(Xor(x, e(1))))
        = Xor(Xor3(Xtime(x), Xor(e(1), Xtime(e(1))), e(2)), e(3))
  BY <1>3, <1>4, <1>5, ColumnMix
<1>8. Times({1}, x) = Xtime(x) /\ Times({0, 1}, e(1)) = Xor(e(1), Xtime(e(1)))
  BY <1>3, <1>4, TimesOne
<1>9. MixColumns(t)[i]
        = Xor(Xor3(Times({1}, x), Times({0, 1}, e(1)), e(2)), e(3))
  BY <1>2, <1>7, <1>8, Zenon
<1> QED  BY <1>6, <1>9, Zenon DEF e

(* The rounds of the source are those of the standard.                     *)
LEMMA RoundIsStandard ==
    ASSUME NEW s \in Block, NEW n, n # 14
    PROVE  AddRoundKey(MixColumns(ShiftRows(SubBytes(s))), n)
                = StandardRound(s, n)
<1> DEFINE t == ShiftRows(SubBytes(s))
           shifted(r, c) == StandardSub(At(s, r, c + (r % 4)))
           mixed(r, c) == Xor(Xor3(Times({1}, shifted(r, c)),
                                   Times({0, 1}, shifted(r + 1, c)),
                                   shifted(r + 2, c)),
                              shifted(r + 3, c))
<1>1. t \in Block
  BY RoundBytes
<1>2. \A r \in 0..6, c \in 0..3 : shifted(r, c) = t[4 * c + (r % 4) + 1]
  BY ShiftedIs
<1>3. StandardRound(s, n) =
        [i \in 1..16 |-> Xor(mixed((i - 1) % 4, (i - 1) \div 4),
                             roundKey[16 * n + i])]
  BY Zenon DEF StandardRound
<1>4. AddRoundKey(MixColumns(t), n) =
        [i \in 1..16 |-> Xor(MixColumns(t)[i], roundKey[16 * n + i])]
  BY DEF AddRoundKey
<1> HIDE DEF t, shifted
<1>5. ASSUME NEW i \in 1..16
      PROVE  MixColumns(t)[i] = mixed((i - 1) % 4, (i - 1) \div 4)
  <2> DEFINE r == (i - 1) % 4   c == (i - 1) \div 4
  <2>1. /\ c \in 0..3 /\ r \in 0..6 /\ r + 1 \in 0..6 /\ r + 2 \in 0..6
        /\ r + 3 \in 0..6
    BY SMT
  <2>2. r = (i - 1) % 4 /\ c = (i - 1) \div 4
    OBVIOUS
  <2> HIDE DEF r, c
  <2>3. /\ shifted(r, c) = t[4 * c + (r % 4) + 1]
        /\ shifted(r + 1, c) = t[4 * c + ((r + 1) % 4) + 1]
        /\ shifted(r + 2, c) = t[4 * c + ((r + 2) % 4) + 1]
        /\ shifted(r + 3, c) = t[4 * c + ((r + 3) % 4) + 1]
    BY <1>2, <2>1, Zenon
  <2>4. MixColumns(t)[i]
                = Xor(Xor3(Times({1}, t[4 * c + (r % 4) + 1]),
                           Times({0, 1}, t[4 * c + ((r + 1) % 4) + 1]),
                           t[4 * c + ((r + 2) % 4) + 1]),
                      t[4 * c + ((r + 3) % 4) + 1])
    BY <1>1, <2>2, MixedIsStandard
  <2> QED  BY <2>3, <2>4, Zenon DEF r, c
<1> HIDE DEF mixed
<1> QED  BY <1>3, <1>4, <1>5, Zenon DEF t

LEMMA LastRoundIsStandard ==
    ASSUME NEW s \in Block
    PROVE  AddRoundKey(ShiftRows(SubBytes(s)), 14) = StandardRound(s, 14)
<1> DEFINE t == ShiftRows(SubBytes(s))
           shifted(r, c) == StandardSub(At(s, r, c + (r % 4)))
           n == 14
<1>1. n = 14
  OBVIOUS
<1> HIDE DEF n
<1>2. \A r \in 0..6, c \in 0..3 : shifted(r, c) = t[4 * c + (r % 4) + 1]
  BY ShiftedIs
<1>3. StandardRound(s, n) =
        [i \in 1..16 |-> Xor(shifted((i - 1) % 4, (i - 1) \div 4),
                             roundKey[16 * n + i])]
  BY <1>1, Zenon DEF StandardRound
<1>4. AddRoundKey(t, n) = [i \in 1..16 |-> Xor(t[i], roundKey[16 * n + i])]
  BY DEF AddRoundKey
<1> HIDE DEF t, shifted
<1>5. ASSUME NEW i \in 1..16
      PROVE  t[i] = shifted((i - 1) % 4, (i - 1) \div 4)
  <2> DEFINE r == (i - 1) % 4   c == (i - 1) \div 4
  <2>1. c \in 0..3 /\ r \in 0..6 /\ 4 * c + (r % 4) + 1 = i
    BY SMT
  <2> HIDE DEF r, c
  <2> QED  BY <1>2, <2>1, Zenon DEF r, c
<1> QED  BY <1>1, <1>3, <1>4, <1>5, Zenon DEF t
-----------------------------------------------------------------------------
(* The key expansion.                                                      *)

(* KeyWord and StandardKeyWord, of any key.                                *)
WordAt(key, i) == SubSeq(key, 4 * i + 1, 4 * i + 4)

StandardWordAt(key, i) ==
    LET temp == WordAt(key, i - 1)
        changed == IF i % 8 = 0
                   THEN <<Xor(StandardSub(temp[2]), Multiples[2][i \div 8]),
                          StandardSub(temp[3]), StandardSub(temp[4]),
                          StandardSub(temp[1])>>
                   ELSE IF i % 8 = 4 THEN [j \in 1..4 |-> StandardSub(temp[j])]
                   ELSE temp
    IN  [j \in 1..4 |-> Xor(WordAt(key, i - 8)[j], changed[j])]

LEMMA WordsOfKey ==
    ASSUME NEW i
    PROVE  /\ KeyWord(i) = WordAt(roundKey, i)
           /\ KeyWord(i)' = WordAt(roundKey', i)
           /\ StandardKeyWord(i) = StandardWordAt(roundKey, i)
           /\ StandardKeyWord(i)' = StandardWordAt(roundKey', i)
<1>1. \A j : KeyWord(j) = WordAt(roundKey, j)
             /\ KeyWord(j)' = WordAt(roundKey', j)
  BY DEF KeyWord, WordAt
<1> QED  BY <1>1, Zenon DEF StandardKeyWord, StandardWordAt

LEMMA WordAtIs ==
    ASSUME NEW key \in Seq(Byte8), NEW i \in Nat, 4 * i + 4 <= Len(key)
    PROVE  /\ WordAt(key, i) \in Seq(Byte8) /\ Len(WordAt(key, i)) = 4
           /\ \A j \in 1..4 : /\ 4 * i + j \in 1..Len(key)
                              /\ WordAt(key, i)[j] = key[4 * i + j]
                              /\ WordAt(key, i)[j] \in Byte8
<1> DEFINE m == 4 * i + 1   n == 4 * i + 4
<1>1. m \in Int /\ n \in Int /\ n - m + 1 = 4 /\ m <= n
  BY SMT
<1>2. \A k \in m..n : key[k] \in Byte8
  <2>1. \A k \in m..n : k \in 1..Len(key)
    BY SMT
  <2> QED  BY <2>1
<1>3. \A j \in 1..4 : m + j - 1 = 4 * i + j /\ 4 * i + j \in 1..Len(key)
  BY SMT
<1>4. WordAt(key, i) = SubSeq(key, m, n)
  BY DEF WordAt
<1> HIDE DEF m, n
<1>5. /\ SubSeq(key, m, n) \in Seq(Byte8)
      /\ Len(SubSeq(key, m, n)) = IF m <= n THEN n - m + 1 ELSE 0
      /\ \A j \in 1..(n - m + 1) : SubSeq(key, m, n)[j] = key[m + j - 1]
  BY <1>1, <1>2, SubSeqProperties
<1>6. \A j \in 1..4 : SubSeq(key, m, n)[j] = key[4 * i + j]
  BY <1>1, <1>3, <1>5
<1>7. \A j \in 1..4 : key[4 * i + j] \in Byte8
  BY <1>3
<1> QED  BY <1>1, <1>3, <1>4, <1>5, <1>6, <1>7

LEMMA RconIs == \A i \in 1..7 : kAesRcon[i + 1] \in Byte8
<1>1. PICK table : kAesRcon = ByteTable(table) /\ DOMAIN table = 1..15
  BY SMTT(120) DEF kAesRcon
<1> DEFINE f == [i \in DOMAIN table |-> Byte(table[i])]
<1>2. f \in [1..15 -> Byte8]
  BY <1>1, ByteIsByte
<1>3. kAesRcon = <<>> \o f
  BY <1>1, Zenon DEF ByteTable, AsTuple
<1> HIDE DEF f
<1>4. 15 \in Nat
  OBVIOUS
<1>5. f \in Seq(Byte8)
  BY <1>2, <1>4, IsSequence, Zenon
<1>6. kAesRcon = f
  BY <1>3, <1>5, ConcatEmptySeq
<1>7. \A i \in 1..7 : i + 1 \in 1..15
  BY SMT
<1> QED  BY <1>2, <1>6, <1>7, Zenon

(* The word that the source adds is the one of the standard.               *)
LEMMA NextKeyWordIs ==
    ASSUME NEW key \in Seq(Byte8), NEW i \in 8..59, Len(key) = 4 * i
    PROVE  LET new == key \o NextKeyWord(key, Len(key))
           IN  /\ new \in Seq(Byte8) /\ Len(new) = 4 * (i + 1)
               /\ WordAt(new, i) = StandardWordAt(new, i)
               /\ \A k \in 0..(i - 1) : WordAt(new, k) = WordAt(key, k)
<1> DEFINE n == Len(key)
           last == SubSeq(key, n - 3, n)
           temp == IF n % 32 = 0
                   THEN <<Xor(SBox(last[2]), kAesRcon[(n \div 32) + 1]),
                          SBox(last[3]), SBox(last[4]), SBox(last[1])>>
                   ELSE IF n % 32 = 16
                   THEN [j \in 1..4 |-> SBox(last[j])]
                   ELSE last
           old == WordAt(key, i - 8)
           word == [j \in 1..4 |-> Xor(old[j], temp[j])]
           new == key \o word
<1>0. /\ n = 4 * i /\ i - 1 \in Nat /\ i - 8 \in Nat
      /\ 4 * (i - 1) + 4 <= n /\ 4 * (i - 8) + 4 <= n
      /\ 4 * (i - 1) + 1 = n - 3 /\ 4 * (i - 1) + 4 = n
      /\ n % 32 = 0 <=> i % 8 = 0
      /\ n % 32 = 16 <=> i % 8 = 4
      /\ n \div 32 = i \div 8 /\ i \div 8 \in 1..7
  BY SMT
<1>1. last = WordAt(key, i - 1)
  BY <1>0 DEF WordAt
<1>2. \A j \in 1..4 : last[j] \in Byte8 /\ old[j] \in Byte8
  BY <1>0, <1>1, WordAtIs
<1>3. \A j \in 1..4 : old[j] = key[n - 32 + j]
  <2>1. \A j \in 1..4 : 4 * (i - 8) + j = n - 32 + j
    BY <1>0
  <2>2. \A j \in 1..4 : old[j] = key[4 * (i - 8) + j]
    BY <1>0, WordAtIs
  <2> HIDE DEF old
  <2> QED  BY <2>1, <2>2, Zenon
<1>4. NextKeyWord(key, n) = word
  BY <1>3, Zenon DEF NextKeyWord
<1> HIDE DEF n, last, old
<1>5. 1 \in 1..4 /\ 2 \in 1..4 /\ 3 \in 1..4 /\ 4 \in 1..4
  OBVIOUS
<1>6. \A j \in 1..4 : SBox(last[j]) \in Byte8
                       /\ StandardSub(last[j]) = SBox(last[j])
  BY <1>2, SBoxIs
<1>7. /\ kAesRcon[(n \div 32) + 1] = Multiples[2][i \div 8]
      /\ kAesRcon[(n \div 32) + 1] \in Byte8
  BY <1>0, RconIs, TablesAssumption, Zenon
<1>8. \A j \in 1..4 : temp[j] \in Byte8
  <2>1. CASE n % 32 = 0
    <3> DEFINE a == Xor(SBox(last[2]), kAesRcon[(n \div 32) + 1])
               b == SBox(last[3])   c == SBox(last[4])   d == SBox(last[1])
    <3>1. a \in Byte8 /\ b \in Byte8 /\ c \in Byte8 /\ d \in Byte8
      BY <1>5, <1>6, <1>7, XorBytes, Zenon
    <3>2. temp = <<a, b, c, d>>
      BY <2>1, Zenon
    <3> HIDE DEF a, b, c, d, temp
    <3> QED  BY <3>1, <3>2
  <2>2. CASE n % 32 # 0 /\ n % 32 = 16
    BY <1>6, <2>2, Zenon
  <2>3. CASE n % 32 # 0 /\ n % 32 # 16
    BY <1>2, <2>3, Zenon
  <2> QED  BY <2>1, <2>2, <2>3
<1> DEFINE changed == IF i % 8 = 0
                   THEN <<Xor(StandardSub(last[2]), Multiples[2][i \div 8]),
                          StandardSub(last[3]), StandardSub(last[4]),
                          StandardSub(last[1])>>
                   ELSE IF i % 8 = 4 THEN [j \in 1..4 |-> StandardSub(last[j])]
                   ELSE last
<1>9. temp = changed
  <2>1. CASE i % 8 = 0
    <3>1. n % 32 = 0
      BY <1>0, <2>1, Zenon
    <3> QED  BY <1>5, <1>6, <1>7, <2>1, <3>1, Zenon
  <2>2. CASE i % 8 # 0 /\ i % 8 = 4
    <3>1. n % 32 # 0 /\ n % 32 = 16
      BY <1>0, <2>2, Zenon
    <3> QED  BY <1>6, <2>2, <3>1, Zenon
  <2>3. CASE i % 8 # 0 /\ i % 8 # 4
    <3>1. n % 32 # 0 /\ n % 32 # 16
      BY <1>0, <2>3, Zenon
    <3> QED  BY <2>3, <3>1, Zenon
  <2> QED  BY <2>1, <2>2, <2>3, Zenon
<1> HIDE DEF temp
<1>10. word \in [1..4 -> Byte8]
  BY <1>2, <1>8, XorBytes, Zenon
<1>11. 4 \in Nat
  OBVIOUS
<1>12. word \in Seq(Byte8) /\ Len(word) = 4
  <2> DEFINE e == 4
  <2>1. e \in Nat /\ word \in [1..e -> Byte8]
    BY <1>10, <1>11
  <2> HIDE DEF e, word
  <2>2. word \in Seq(Byte8) /\ Len(word) = e
    BY <2>1, IsSequence, Zenon
  <2> QED  BY <2>2 DEF e
<1> HIDE DEF word
<1>13. /\ new \in Seq(Byte8) /\ Len(new) = n + 4
       /\ \A j \in 1..n : new[j] = key[j]
       /\ \A j \in 1..4 : new[n + j] = word[j]
  <2>1. n \in Nat /\ Len(key) = n
    BY <1>0 DEF n
  <2> DEFINE e == 4
  <2>2. e \in Nat /\ Len(word) = e
    BY <1>12
  <2>3. word \in Seq(Byte8) /\ key \in Seq(Byte8)
    BY <1>12
  <2> HIDE DEF e
  <2>4. /\ new \in Seq(Byte8) /\ Len(new) = n + e
        /\ \A j \in 1..n : new[j] = key[j]
        /\ \A j \in 1..e : new[n + j] = word[j]
    BY ONLY <2>1, <2>2, <2>3, Joined
  <2> QED  BY <2>4 DEF e
<1> HIDE DEF new
<1>14. Len(new) = 4 * (i + 1)
  BY <1>0, <1>13
<1>15. \A k \in 0..(i - 1) : WordAt(new, k) = WordAt(key, k)
  <2> SUFFICES ASSUME NEW k \in 0..(i - 1)
               PROVE  WordAt(new, k) = WordAt(key, k)
    OBVIOUS
  <2>1. k \in Nat /\ 4 * k + 4 <= n /\ 4 * k + 4 <= n + 4
    BY <1>0
  <2>2. /\ WordAt(key, k) \in Seq(Byte8) /\ Len(WordAt(key, k)) = 4
        /\ \A j \in 1..4 : /\ 4 * k + j \in 1..n
                           /\ WordAt(key, k)[j] = key[4 * k + j]
    BY <2>1, WordAtIs DEF n
  <2>3. /\ WordAt(new, k) \in Seq(Byte8) /\ Len(WordAt(new, k)) = 4
        /\ \A j \in 1..4 : WordAt(new, k)[j] = new[4 * k + j]
    BY <1>13, <2>1, WordAtIs
  <2>4. \A j \in 1..4 : WordAt(new, k)[j] = WordAt(key, k)[j]
    <3>1. \A j \in 1..4 : new[4 * k + j] = key[4 * k + j]
      BY <1>13, <2>2, Zenon
    <3> QED  BY <2>2, <2>3, <3>1, Zenon
  <2> DEFINE e == 4   s == WordAt(new, k)   t == WordAt(key, k)
  <2>5. /\ s \in Seq(Byte8) /\ t \in Seq(Byte8) /\ Len(s) = e /\ Len(t) = e
        /\ \A j \in 1..e : s[j] = t[j]
    BY <2>2, <2>3, <2>4
  <2> HIDE DEF e, s, t
  <2>6. s = t
    BY <2>5, SameSequence
  <2> QED  BY <2>6 DEF s, t
<1>16. WordAt(new, i) = word
  <2>1. i \in Nat /\ 4 * i + 4 <= Len(new)
    <3>1. 4 * i + 4 <= 4 * (i + 1)
      BY SMT
    <3> QED  BY ONLY <1>14, <3>1
  <2>2. /\ WordAt(new, i) \in Seq(Byte8) /\ Len(WordAt(new, i)) = 4
        /\ \A j \in 1..4 : WordAt(new, i)[j] = new[4 * i + j]
    BY <1>13, <2>1, WordAtIs
  <2>3. \A j \in 1..4 : WordAt(new, i)[j] = word[j]
    <3>1. \A j \in 1..4 : new[4 * i + j] = word[j]
      BY ONLY <1>0, <1>13, Zenon
    <3> QED  BY ONLY <2>2, <3>1, Zenon
  <2> QED  BY <1>12, <2>2, <2>3, SameSequence, Zenon
<1>17. StandardWordAt(new, i) = word
  <2>1. i - 1 \in 0..(i - 1) /\ i - 8 \in 0..(i - 1)
    BY SMT
  <2>2. WordAt(new, i - 1) = last /\ WordAt(new, i - 8) = old
    BY <1>1, <1>15, <2>1, Zenon DEF old
  <2>3. StandardWordAt(new, i) = [j \in 1..4 |-> Xor(old[j], changed[j])]
    BY <2>2, Zenon DEF StandardWordAt
  <2> HIDE DEF changed
  <2> QED  BY <1>9, <2>3, Zenon DEF word
<1> QED  BY <1>4, <1>13, <1>14, <1>15, <1>16, <1>17, Zenon DEF new, n
-----------------------------------------------------------------------------
(* What every state of the expansion and of the rounds keeps.              *)

KeyIsEmpty == roundKey = <<>> /\ round = 14

KeyGrows ==
    /\ roundKey \in Seq(Byte8)
    /\ \E m \in 8..60 : Len(roundKey) = 4 * m
    /\ round # 14 => Len(roundKey) = 240

KeyTypes ==
    /\ KeyIsEmpty \/ KeyGrows
    /\ state \in Block
    /\ round \in 0..14
    /\ nblock \in Nat

KeysAreStandard ==
    \A i \in 8..((Len(roundKey) \div 4) - 1) : KeyWord(i) = StandardKeyWord(i)

PrfInv == KeyTypes /\ KeysAreStandard

LEMMA NoBlockIsBlock == NoBlock \in Block
<1>1. {} \in Byte8
  BY DEF Byte8
<1> QED  BY <1>1, Zenon DEF NoBlock, Block

LEMMA NoKeyWords ==
    \A n : n \div 4 = 0 \/ n \div 4 = 8 => \A i \in 8..((n \div 4) - 1) : FALSE
BY SMT

LEMMA PrfInvInit == InitPrf => PrfInv
<1> SUFFICES ASSUME InitPrf PROVE PrfInv
  OBVIOUS
<1>1. KeyTypes
  <2>1. 14 \in 0..14 /\ 0 \in Nat
    OBVIOUS
  <2> QED  BY <2>1, NoBlockIsBlock, Zenon DEF InitPrf, KeyTypes, KeyIsEmpty
<1>2. KeysAreStandard
  <2>1. Len(roundKey) = 0 /\ 0 \div 4 = 0
    BY SMT DEF InitPrf
  <2> QED  BY <2>1, NoKeyWords, Zenon DEF KeysAreStandard
<1> QED  BY <1>1, <1>2 DEF PrfInv

LEMMA DigestIsKey ==
    ASSUME NEW h PROVE DigestData(h) \in Seq(Byte8) /\ Len(DigestData(h)) = 32
<1> DEFINE Of(k) == BytesOf(h[((k - 1) \div 4) + 1])[((k - 1) % 4) + 1]
           f == [k \in 1..32 |-> Of(k)]
           n == 32
<1>1. \A k \in 1..32 : Of(k) \in Byte8
  <2> SUFFICES ASSUME NEW k \in 1..32 PROVE Of(k) \in Byte8
    OBVIOUS
  <2> DEFINE j == ((k - 1) % 4) + 1   word == h[((k - 1) \div 4) + 1]
  <2>1. j \in 1..4
    BY SMT
  <2> HIDE DEF j, word
  <2>2. BytesOf(word)[j] = {b \in 0..7 : b + (8 * (4 - j)) \in word}
    BY <2>1, Zenon DEF BytesOf
  <2>3. BytesOf(word)[j] \in Byte8
    BY <2>2, Zenon DEF Byte8
  <2> QED  BY <2>3 DEF j, word
<1>2. DigestData(h) = <<>> \o f
  BY Zenon DEF DigestData, AsTuple
<1> HIDE DEF Of
<1>3. n \in Nat /\ f \in [1..n -> Byte8]
  BY <1>1
<1> HIDE DEF f, n
<1>4. f \in Seq(Byte8) /\ Len(f) = n
  BY <1>3, IsSequence, Zenon
<1>5. DigestData(h) = f
  BY <1>2, <1>4, ConcatEmptySeq
<1> QED  BY <1>4, <1>5 DEF n

LEMMA GetKeepsKey == PrfInv /\ Get => PrfInv'
<1> SUFFICES ASSUME PrfInv, Get PROVE PrfInv'
  OBVIOUS
<1>1. /\ roundKey' = DigestData(shim.h) /\ roundKey = <<>>
      /\ state' = state /\ round' = round /\ nblock' = nblock
  BY DEF Get, NewPrf
<1>2. KeyTypes
  BY DEF PrfInv
<1>3. round = 14
  <2>1. CASE KeyGrows
    <3>1. PICK m \in 8..60 : Len(roundKey) = 4 * m
      BY <2>1 DEF KeyGrows
    <3>2. Len(roundKey) = 0
      BY <1>1
    <3> QED  BY <3>1, <3>2
  <2> QED  BY <1>2, <2>1 DEF KeyTypes, KeyIsEmpty
<1>4. roundKey' \in Seq(Byte8) /\ Len(roundKey') = 32
  BY <1>1, DigestIsKey
<1>5. KeyGrows'
  <2>1. 8 \in 8..60 /\ 32 = 4 * 8
    OBVIOUS
  <2>2. \E m \in 8..60 : Len(roundKey') = 4 * m
    BY <1>4, <2>1
  <2>3. round' = 14
    BY <1>1, <1>3
  <2> QED  BY <1>4, <2>2, <2>3 DEF KeyGrows
<1>6. KeyTypes'
  BY <1>1, <1>2, <1>5, Zenon DEF KeyTypes
<1>7. KeysAreStandard'
  <2>1. Len(roundKey') \div 4 = 8
    BY <1>4
  <2> QED  BY <2>1, NoKeyWords, Zenon DEF KeysAreStandard
<1> QED  BY <1>6, <1>7 DEF PrfInv

LEMMA ExpandKeepsKey == PrfInv /\ ExpandKey => PrfInv'
<1> SUFFICES ASSUME PrfInv, ExpandKey PROVE PrfInv'
  OBVIOUS
<1> DEFINE new == roundKey \o NextKeyWord(roundKey, Len(roundKey))
<1>1. /\ roundKey # <<>> /\ Len(roundKey) < 240
      /\ roundKey' = new
      /\ state' = state /\ round' = round /\ nblock' = nblock
  BY DEF ExpandKey
<1>2. KeyGrows /\ nblock \in Nat /\ state \in Block /\ round \in 0..14
  BY <1>1 DEF PrfInv, KeyTypes, KeyIsEmpty
<1>3. PICK m \in 8..60 : Len(roundKey) = 4 * m
  BY <1>2 DEF KeyGrows
<1>4. m \in 8..59 /\ roundKey \in Seq(Byte8) /\ round' = 14
  BY <1>1, <1>2, <1>3 DEF KeyGrows
<1>5. /\ new \in Seq(Byte8) /\ Len(new) = 4 * (m + 1)
      /\ WordAt(new, m) = StandardWordAt(new, m)
      /\ \A k \in 0..(m - 1) : WordAt(new, k) = WordAt(roundKey, k)
  BY <1>3, <1>4, NextKeyWordIs
<1> HIDE DEF new
<1>6. KeyGrows'
  <2>1. m + 1 \in 8..60
    BY <1>4
  <2>2. \E k \in 8..60 : Len(new) = 4 * k
    BY <1>5, <2>1
  <2> QED  BY <1>1, <1>4, <1>5, <2>2 DEF KeyGrows
<1>7. KeyTypes'
  BY <1>1, <1>2, <1>6, Zenon DEF KeyTypes
<1>8. \A i \in 8..m : WordAt(new, i) = StandardWordAt(new, i)
  <2> SUFFICES ASSUME NEW i \in 8..m
               PROVE  WordAt(new, i) = StandardWordAt(new, i)
    OBVIOUS
  <2>1. CASE i = m
    BY <1>5, <2>1
  <2>2. CASE i # m
    <3>1. /\ i \in 8..((Len(roundKey) \div 4) - 1) /\ i \in 0..(m - 1)
          /\ i - 1 \in 0..(m - 1) /\ i - 8 \in 0..(m - 1)
      BY <1>3, <1>4, <2>2
    <3>2. WordAt(roundKey, i) = StandardWordAt(roundKey, i)
      <4>1. KeyWord(i) = StandardKeyWord(i)
        BY <3>1, Zenon DEF PrfInv, KeysAreStandard
      <4> QED  BY <4>1, WordsOfKey
    <3>3. /\ WordAt(new, i) = WordAt(roundKey, i)
          /\ WordAt(new, i - 1) = WordAt(roundKey, i - 1)
          /\ WordAt(new, i - 8) = WordAt(roundKey, i - 8)
      BY <1>5, <3>1, Zenon
    <3>4. StandardWordAt(new, i) = StandardWordAt(roundKey, i)
      BY <3>3, Zenon DEF StandardWordAt
    <3> QED  BY <3>2, <3>3, <3>4
  <2> QED  BY <2>1, <2>2
<1>9. KeysAreStandard'
  <2>1. (Len(roundKey') \div 4) - 1 = m
    BY <1>1, <1>4, <1>5
  <2>2. \A i : /\ KeyWord(i)' = WordAt(new, i)
               /\ StandardKeyWord(i)' = StandardWordAt(new, i)
    BY <1>1, WordsOfKey
  <2> QED  BY <1>8, <2>1, <2>2, Zenon DEF KeysAreStandard
<1> QED  BY <1>7, <1>9 DEF PrfInv

FullKey == Len(roundKey) = 240

LEMMA KeyBytes ==
    ASSUME roundKey \in Seq(Byte8), NEW k \in 1..Len(roundKey)
    PROVE  roundKey[k] \in Byte8
OBVIOUS

(* A round key is added to a block.                                        *)
LEMMA AddedKey ==
    ASSUME FullKey, roundKey \in Seq(Byte8), NEW s \in Block, NEW n \in 0..14
    PROVE  AddRoundKey(s, n) \in Block
<1>1. \A i \in 1..16 : 16 * n + i \in 1..Len(roundKey)
  <2>1. \A i \in 1..16 : 16 * n + i \in 1..240
    BY SMT
  <2> QED  BY <2>1 DEF FullKey
<1>2. ASSUME NEW i \in 1..16
      PROVE  Xor(s[i], roundKey[16 * n + i]) \in Byte8
  <2>1. roundKey[16 * n + i] \in Byte8
    BY <1>1, KeyBytes
  <2>2. s[i] \in Byte8
    BY DEF Block
  <2> QED  BY <2>1, <2>2, XorBytes
<1>3. AddRoundKey(s, n)
        = [i \in 1..16 |-> Xor(s[i], roundKey[16 * n + i])]
  BY DEF AddRoundKey
<1> QED  BY <1>2, <1>3, Zenon DEF Block

LEMMA MixedBytes ==
    ASSUME NEW t \in Block PROVE MixColumns(t) \in Block
<1> DEFINE c(i) == 4 * ((i - 1) \div 4)
           sum(i) == Xor(Xor(t[c(i) + 1], t[c(i) + 2]),
                         Xor(t[c(i) + 3], t[c(i) + 4]))
           next(i) == t[c(i) + (i % 4) + 1]
<1>1. MixColumns(t) = [i \in 1..16 |->
                            Xor3(t[i], sum(i), Xtime(Xor(t[i], next(i))))]
  BY Zenon DEF MixColumns
<1>2. \A k \in 1..16 : t[k] \in Byte8
  BY Zenon DEF Block
<1>3. \A i \in 1..16 : /\ c(i) + 1 \in 1..16 /\ c(i) + 2 \in 1..16
                       /\ c(i) + 3 \in 1..16 /\ c(i) + 4 \in 1..16
                       /\ c(i) + (i % 4) + 1 \in 1..16
  BY SMT
<1>4. \A i \in 1..16 : sum(i) \in Byte8
  <2> HIDE DEF c
  <2> QED  BY <1>2, <1>3, XorBytes, Zenon
<1>5. \A i \in 1..16 : next(i) \in Byte8
  <2> HIDE DEF c
  <2> QED  BY <1>2, <1>3, Zenon
<1> HIDE DEF sum, next
<1>6. \A i \in 1..16 : Xtime(Xor(t[i], next(i))) \in Byte8
  BY <1>2, <1>5, XorBytes, XtimeIs, Zenon
<1>7. \A i \in 1..16 : Xor3(t[i], sum(i), Xtime(Xor(t[i], next(i)))) \in Byte8
  BY <1>2, <1>4, <1>6, XorBytes, Zenon DEF Xor3
<1> QED  BY <1>1, <1>7, Zenon DEF Block

LEMMA CounterIsBlock == \A n : CounterBlock(n) \in Block
<1> SUFFICES ASSUME NEW n PROVE CounterBlock(n) \in Block
  OBVIOUS
<1>1. \A v : Byte(v) \in Byte8
  BY ByteIsByte
<1>2. {} \in Byte8
  BY DEF Byte8
<1>3. \A i \in 1..16 : (IF i <= 8 THEN Byte(Shifted(n)[i]) ELSE {}) \in Byte8
  BY <1>1, <1>2, Zenon
<1> QED  BY <1>3, Zenon DEF Block, CounterBlock

LEMMA BlocksKeepKey ==
    ASSUME PrfInv, roundKey' = roundKey, FullKey, roundKey \in Seq(Byte8),
           state' \in Block, round' \in 0..14, nblock' \in Nat
    PROVE  PrfInv'
<1>1. KeyGrows'
  <2>1. \E m \in 8..60 : Len(roundKey) = 4 * m
    <3>1. 60 \in 8..60 /\ 240 = 4 * 60
      OBVIOUS
    <3> QED  BY <3>1 DEF FullKey
  <2> QED  BY <2>1 DEF KeyGrows, FullKey
<1>2. KeyTypes'
  BY <1>1, Zenon DEF KeyTypes
<1>3. KeysAreStandard'
  <2>1. \A i : /\ KeyWord(i)' = KeyWord(i)
               /\ StandardKeyWord(i)' = StandardKeyWord(i)
    BY WordsOfKey, Zenon
  <2>2. KeysAreStandard
    BY DEF PrfInv
  <2> QED  BY <2>1, <2>2, Zenon DEF KeysAreStandard
<1> QED  BY <1>2, <1>3 DEF PrfInv

(* What the key is whenever a block is in work or begins.                  *)
LEMMA KeyIsFull ==
    ASSUME PrfInv, Len(roundKey) = 240 \/ round # 14
    PROVE  FullKey /\ roundKey \in Seq(Byte8) /\ state \in Block
<1>1. Len(<<>>) # 240
  OBVIOUS
<1> QED  BY <1>1 DEF PrfInv, KeyTypes, KeyIsEmpty, KeyGrows, FullKey

LEMMA RefillKeepsKey == PrfInv /\ Refill => PrfInv'
<1> SUFFICES ASSUME PrfInv, Refill PROVE PrfInv'
  OBVIOUS
<1>1. FullKey /\ roundKey \in Seq(Byte8)
  BY KeyIsFull DEF Refill
<1>0. nblock' \in Nat
  BY DEF Refill, PrfInv, KeyTypes
<1>2. /\ state' = AddRoundKey(CounterBlock(nblock), 0) /\ round' = 0
      /\ roundKey' = roundKey
  BY DEF Refill
<1>3. state' \in Block /\ round' \in 0..14
  <2>1. 0 \in 0..14
    OBVIOUS
  <2>2. AddRoundKey(CounterBlock(nblock), 0) \in Block
    BY <1>1, <2>1, CounterIsBlock, AddedKey
  <2> QED  BY <1>2, <2>1, <2>2
<1> QED  BY <1>0, <1>1, <1>2, <1>3, BlocksKeepKey

LEMMA RoundKeepsKey == PrfInv /\ AesRound => PrfInv'
<1> SUFFICES ASSUME PrfInv, AesRound PROVE PrfInv'
  OBVIOUS
<1>1. /\ round < 13 /\ round' = round + 1 /\ roundKey' = roundKey
      /\ round \in 0..14 /\ nblock' \in Nat
  BY DEF AesRound, PrfInv, KeyTypes
<1>2. round # 14 /\ round' \in 0..14
  BY <1>1
<1>3. FullKey /\ roundKey \in Seq(Byte8) /\ state \in Block
  BY <1>2, KeyIsFull
<1>4. state' = AddRoundKey(MixColumns(ShiftRows(SubBytes(state))), round')
  BY <1>1 DEF AesRound
<1>5. MixColumns(ShiftRows(SubBytes(state))) \in Block
  BY <1>3, RoundBytes, MixedBytes
<1>6. state' \in Block
  BY <1>2, <1>3, <1>4, <1>5, AddedKey
<1> QED  BY <1>1, <1>2, <1>3, <1>6, BlocksKeepKey

LEMMA LastRoundKeepsKey == PrfInv /\ LastRound => PrfInv'
<1> SUFFICES ASSUME PrfInv, LastRound PROVE PrfInv'
  OBVIOUS
<1>1. /\ round = 13 /\ round' = 14 /\ roundKey' = roundKey
      /\ nblock' \in Nat
  BY DEF LastRound, PrfInv, KeyTypes
<1>2. round # 14 /\ 14 \in 0..14
  BY <1>1
<1>3. FullKey /\ roundKey \in Seq(Byte8) /\ state \in Block
  BY <1>2, KeyIsFull
<1>4. state' = AddRoundKey(ShiftRows(SubBytes(state)), 14)
  BY DEF LastRound
<1>5. ShiftRows(SubBytes(state)) \in Block
  BY <1>3, RoundBytes
<1>6. state' \in Block
  BY <1>2, <1>3, <1>4, <1>5, AddedKey
<1> QED  BY <1>1, <1>2, <1>3, <1>6, BlocksKeepKey

LEMMA PrfInvNext == PrfInv /\ [Next]_vars => PrfInv'
<1> SUFFICES ASSUME PrfInv, [Next]_vars PROVE PrfInv'
  OBVIOUS
<1>1. CASE UNCHANGED prf
  <2>1. /\ roundKey' = roundKey /\ state' = state /\ round' = round
        /\ nblock' = nblock
    BY <1>1 DEF prf
  <2>2. KeyTypes'
    <3>1. KeyIsEmpty => KeyIsEmpty'
      BY <2>1 DEF KeyIsEmpty
    <3>2. KeyGrows => KeyGrows'
      BY <2>1 DEF KeyGrows
    <3> QED  BY <2>1, <3>1, <3>2, Zenon DEF PrfInv, KeyTypes
  <2>3. KeysAreStandard'
    <3>1. \A i : /\ KeyWord(i)' = KeyWord(i)
                 /\ StandardKeyWord(i)' = StandardKeyWord(i)
      BY <2>1, WordsOfKey, Zenon
    <3>2. KeysAreStandard
      BY DEF PrfInv
    <3> QED  BY <2>1, <3>1, <3>2, Zenon DEF KeysAreStandard
  <2> QED  BY <2>2, <2>3 DEF PrfInv
<1>2. CASE Get
  BY <1>2, GetKeepsKey
<1>3. CASE NextPrf
  BY <1>3, ExpandKeepsKey, RefillKeepsKey, RoundKeepsKey, LastRoundKeepsKey
     DEF NextPrf
<1> QED  BY <1>1, <1>2, <1>3 DEF Next, vars, Hash, Draw

-----------------------------------------------------------------------------
(* The standard, step by step.                                             *)

DrawsRight ==
    /\ roundKey' # roundKey =>
        \A i \in 8..((Len(roundKey') \div 4) - 1) :
            KeyWord(i)' = StandardKeyWord(i)'
    /\ round' # 0 /\ state' # state => state' = StandardRound(state, round')
    /\ nblock' # nblock =>
        CountsBlock([i \in 1..16 |-> Xor(state'[i], roundKey[i])], nblock)

(* The number that a byte's bits make is the remainder by 256.             *)
LEMMA ValueOfByte ==
    ASSUME NEW v \in Nat PROVE Value(Byte(v)) = v % 256
<1> DEFINE x == Byte(v)
<1>1. x \in Byte8
  BY ByteIsByte
<1>2. \A i \in 0..7 : Bit(x, i) = (v \div 2^i) % 2
  <2> SUFFICES ASSUME NEW i \in 0..7 PROVE Bit(x, i) = (v \div 2^i) % 2
    OBVIOUS
  <2>1. i \in x <=> (v \div 2^i) % 2 = 1
    <3>1. 8 - 1 = 7
      BY SMT
    <3> QED  BY <3>1, Zenon DEF Byte, BitsOf
  <2>2. (v \div 2^i) % 2 \in {0, 1}
    <3>1. \/ i = 0 \/ i = 1 \/ i = 2 \/ i = 3 \/ i = 4 \/ i = 5 \/ i = 6
          \/ i = 7
      BY SMT
    <3> QED  BY <3>1, Powers, SMT
  <2> QED  BY <2>1, <2>2, Zenon DEF Bit
<1> HIDE DEF x
<1>3. /\ Bit(x, 0) = v % 2 /\ Bit(x, 1) = (v \div 2) % 2
      /\ Bit(x, 2) = (v \div 4) % 2 /\ Bit(x, 3) = (v \div 8) % 2
      /\ Bit(x, 4) = (v \div 16) % 2 /\ Bit(x, 5) = (v \div 32) % 2
      /\ Bit(x, 6) = (v \div 64) % 2 /\ Bit(x, 7) = (v \div 128) % 2
  BY <1>2, Powers, SMT
<1>4. /\ v = 2 * (v \div 2) + (v % 2)
      /\ v \div 2 = 2 * (v \div 4) + ((v \div 2) % 2)
      /\ v \div 4 = 2 * (v \div 8) + ((v \div 4) % 2)
      /\ v \div 8 = 2 * (v \div 16) + ((v \div 8) % 2)
  BY SMT
<1>5. /\ v \div 16 = 2 * (v \div 32) + ((v \div 16) % 2)
      /\ v \div 32 = 2 * (v \div 64) + ((v \div 32) % 2)
      /\ v \div 64 = 2 * (v \div 128) + ((v \div 64) % 2)
      /\ v \div 128 = 2 * (v \div 256) + ((v \div 128) % 2)
      /\ v = 256 * (v \div 256) + (v % 256)
  BY SMT
<1>6. Value(x) = (v % 2) + 2 * ((v \div 2) % 2) + 4 * ((v \div 4) % 2)
        + 8 * ((v \div 8) % 2) + 16 * ((v \div 16) % 2)
        + 32 * ((v \div 32) % 2) + 64 * ((v \div 64) % 2)
        + 128 * ((v \div 128) % 2)
  BY <1>1, <1>3, ValueIs, SMT
<1>7. Value(x) = v % 256
  BY <1>4, <1>5, <1>6, SMT
<1> QED  BY <1>7 DEF x

LEMMA OneMore ==
    ASSUME NEW v \in Nat, NEW b \in Nat, v <= 256 * b
    PROVE  /\ v \div 256 \in Nat /\ v \div 256 <= b
           /\ v = (v % 256) + 256 * (v \div 256)
BY SMT

(* What u64_to_le writes is the number, below 2^40 blocks.                 *)
LEMMA CounterCounts ==
    ASSUME NEW n \in Nat, n < kMaxBlocks,
           NEW s, \A i \in 1..16 : s[i] = CounterBlock(n)[i]
    PROVE  CountsBlock(s, n)
<1> DEFINE n1 == n \div 256     n2 == n1 \div 256    n3 == n2 \div 256
           n4 == n3 \div 256    n5 == n4 \div 256    n6 == n5 \div 256
           n7 == n6 \div 256
<1>0. n <= 256 * 4299161600
  BY MaxBlocksAssumption, SMT
<1>1. n1 \in Nat /\ n1 <= 256 * 16793600 /\ n = (n % 256) + 256 * n1
  BY <1>0, OneMore, SMT
<1> HIDE DEF n1
<1>2. n2 \in Nat /\ n2 <= 256 * 65600 /\ n1 = (n1 % 256) + 256 * n2
  BY <1>1, OneMore, SMT
<1> HIDE DEF n2
<1>3. n3 \in Nat /\ n3 <= 256 * 257 /\ n2 = (n2 % 256) + 256 * n3
  BY <1>2, OneMore, SMT
<1> HIDE DEF n3
<1>4. n4 \in Nat /\ n4 <= 256 * 2 /\ n3 = (n3 % 256) + 256 * n4
  BY <1>3, OneMore, SMT
<1> HIDE DEF n4
<1>5. n5 \in Nat /\ n5 <= 256 /\ n4 = (n4 % 256) + 256 * n5
  BY <1>4, OneMore, SMT
<1> HIDE DEF n5
<1>6. n6 \in Nat /\ n6 <= 1 /\ n5 = (n5 % 256) + 256 * n6
  BY <1>5, OneMore, SMT
<1> HIDE DEF n6
<1>7. n7 = 0 /\ n6 = n6 % 256
  BY <1>6, SMT
<1> HIDE DEF n7
<1> DEFINE q == Shifted(n)
<1>8. /\ q[1] = n /\ q[2] = n1 /\ q[3] = n2 /\ q[4] = n3
      /\ q[5] = n4 /\ q[6] = n5 /\ q[7] = n6 /\ q[8] = n7
  <2>1. q = <<n, n1, n2, n3, n4, n5, n6, n7>>
    BY Zenon DEF Shifted, n1, n2, n3, n4, n5, n6, n7
  <2> HIDE DEF q
  <2> QED  BY ONLY <2>1, SMT
<1>9. \A i \in 1..16 : s[i] = IF i <= 8 THEN Byte(q[i]) ELSE {}
  BY Zenon DEF CounterBlock
<1> HIDE DEF q
<1>10. /\ s[1] = Byte(n) /\ s[2] = Byte(n1) /\ s[3] = Byte(n2)
       /\ s[4] = Byte(n3) /\ s[5] = Byte(n4) /\ s[6] = Byte(n5)
       /\ s[7] = Byte(n6) /\ s[8] = Byte(n7)
       /\ \A i \in 9..16 : s[i] = {}
  <2>1. /\ s[1] = Byte(q[1]) /\ s[2] = Byte(q[2]) /\ s[3] = Byte(q[3])
        /\ s[4] = Byte(q[4]) /\ s[5] = Byte(q[5]) /\ s[6] = Byte(q[6])
        /\ s[7] = Byte(q[7]) /\ s[8] = Byte(q[8])
        /\ \A i \in 9..16 : s[i] = {}
    BY ONLY <1>9, SMT
  <2> QED  BY ONLY <1>8, <2>1, SMT
<1>11. /\ Value(s[1]) = n % 256 /\ Value(s[2]) = n1 % 256
       /\ Value(s[3]) = n2 % 256 /\ Value(s[4]) = n3 % 256
       /\ Value(s[5]) = n4 % 256 /\ Value(s[6]) = n5 % 256
       /\ Value(s[7]) = n6 % 256 /\ Value(s[8]) = n7 % 256
  <2>1. /\ n1 \in Nat /\ n2 \in Nat /\ n3 \in Nat /\ n4 \in Nat
        /\ n5 \in Nat /\ n6 \in Nat /\ n7 \in Nat
    BY <1>1, <1>2, <1>3, <1>4, <1>5, <1>6, <1>7, SMT
  <2> QED  BY <1>10, <2>1, ValueOfByte, Zenon
<1>12. /\ n7 % 256 = 0
       /\ n = (n % 256) + 256 * n1 /\ n1 = (n1 % 256) + 256 * n2
       /\ n2 = (n2 % 256) + 256 * n3 /\ n3 = (n3 % 256) + 256 * n4
       /\ n4 = (n4 % 256) + 256 * n5 /\ n5 = (n5 % 256) + 256 * n6
       /\ n6 = (n6 % 256) + 256 * (n7 % 256)
  BY <1>1, <1>2, <1>3, <1>4, <1>5, <1>6, <1>7, SMT
<1>13. n = (n % 256) + 256 * ((n1 % 256) + 256 * ((n2 % 256)
            + 256 * ((n3 % 256) + 256 * ((n4 % 256) + 256 * ((n5 % 256)
            + 256 * ((n6 % 256) + 256 * (n7 % 256)))))))
  <2> DEFINE v1 == n1 % 256  v2 == n2 % 256  v3 == n3 % 256  v4 == n4 % 256
             v5 == n5 % 256  v6 == n6 % 256  v7 == n7 % 256  v0 == n % 256
  <2>1. n5 = v5 + 256 * (v6 + 256 * v7)
    <3>1. n5 = v5 + 256 * n6 /\ n6 = v6 + 256 * v7
      BY ONLY <1>12, Zenon
    <3> QED  BY ONLY <3>1, Zenon
  <2>2. n3 = v3 + 256 * (v4 + 256 * n5) /\ n1 = v1 + 256 * (v2 + 256 * n3)
    BY ONLY <1>12, Zenon
  <2>3. n = v0 + 256 * n1
    BY <1>12
  <2> QED  BY ONLY <2>1, <2>2, <2>3, SMT
<1> DEFINE Of(a, b, c, d, e, f, g, h) ==
                n = a + 256 * (b + 256 * (c + 256 * (d + 256 * (e + 256 * (f
                    + 256 * (g + 256 * h))))))
<1>14. Of(n % 256, n1 % 256, n2 % 256, n3 % 256, n4 % 256, n5 % 256,
          n6 % 256, n7 % 256)
  BY ONLY <1>13, Zenon
<1> HIDE DEF Of
<1>15. Of(Value(s[1]), Value(s[2]), Value(s[3]), Value(s[4]), Value(s[5]),
          Value(s[6]), Value(s[7]), Value(s[8]))
  BY ONLY <1>11, <1>14, Zenon
<1> QED  BY ONLY <1>10, <1>15, Zenon DEF CountsBlock, Of

LEMMA XorUndone == \A x, y : Xor(Xor(x, y), y) = x
BY DEF Xor

LEMMA RefillIsRight ==
    ASSUME Refill
    PROVE  \A i \in 1..16 :
            Xor(state'[i], roundKey[i]) = CounterBlock(nblock)[i]
<1> SUFFICES ASSUME NEW i \in 1..16
             PROVE  Xor(state'[i], roundKey[i]) = CounterBlock(nblock)[i]
  OBVIOUS
<1> DEFINE s == CounterBlock(nblock)
<1>1. state' = [k \in 1..16 |-> Xor(s[k], roundKey[16 * 0 + k])]
  BY DEF Refill, AddRoundKey
<1> HIDE DEF s
<1>2. 16 * 0 + i = i
  OBVIOUS
<1>3. state'[i] = Xor(s[i], roundKey[i])
  BY <1>1, <1>2, Zenon
<1>4. Xor(state'[i], roundKey[i]) = s[i]
  BY <1>3, XorUndone
<1> QED  BY <1>4 DEF s

LEMMA DrawsRightNext == PrfInv /\ [Next]_vars => [DrawsRight]_prf
<1> SUFFICES ASSUME PrfInv, [Next]_vars, prf' # prf PROVE DrawsRight
  OBVIOUS
<1>1. PrfInv'
  BY PrfInvNext
<1>2. \A i \in 8..((Len(roundKey') \div 4) - 1) :
            KeyWord(i)' = StandardKeyWord(i)'
  BY <1>1, Zenon DEF PrfInv, KeysAreStandard
<1>3. Get \/ NextPrf
  BY DEF Next, vars, Hash, Draw
<1>4. CASE Get \/ ExpandKey
  <2>1. state' = state /\ nblock' = nblock
    BY <1>4 DEF Get, NewPrf, ExpandKey
  <2> QED  BY <1>2, <2>1, Zenon DEF DrawsRight
<1>5. CASE Refill
  <2>1. round' = 0
    BY <1>5 DEF Refill
  <2>2. CountsBlock([i \in 1..16 |-> Xor(state'[i], roundKey[i])], nblock)
    <3> DEFINE s == [i \in 1..16 |-> Xor(state'[i], roundKey[i])]
    <3>1. \A i \in 1..16 : s[i] = CounterBlock(nblock)[i]
      BY <1>5, RefillIsRight, Zenon
    <3>2. nblock \in Nat /\ nblock < kMaxBlocks
      BY <1>5 DEF PrfInv, KeyTypes, Refill
    <3> HIDE DEF s
    <3>3. CountsBlock(s, nblock)
      BY <3>1, <3>2, CounterCounts
    <3> QED  BY <3>3 DEF s
  <2> QED  BY <1>2, <2>1, <2>2, Zenon DEF DrawsRight
<1>6. CASE AesRound
  <2>1. round < 13 /\ round' = round + 1 /\ nblock' = nblock
            /\ round \in 0..14
    BY <1>6 DEF AesRound, PrfInv, KeyTypes
  <2>2. round' # 14
    BY <2>1
  <2>3. state \in Block
    BY DEF PrfInv, KeyTypes
  <2>4. state' = AddRoundKey(MixColumns(ShiftRows(SubBytes(state))), round')
    BY <1>6, <2>1 DEF AesRound
  <2>5. state' = StandardRound(state, round')
    BY <2>2, <2>3, <2>4, RoundIsStandard
  <2> QED  BY <1>2, <2>1, <2>5, Zenon DEF DrawsRight
<1>7. CASE LastRound
  <2>1. round' = 14 /\ nblock' = nblock
            /\ state' = AddRoundKey(ShiftRows(SubBytes(state)), 14)
    BY <1>7 DEF LastRound
  <2>2. state \in Block
    BY DEF PrfInv, KeyTypes
  <2>3. state' = StandardRound(state, round')
    BY <2>1, <2>2, LastRoundIsStandard
  <2> QED  BY <1>2, <2>1, <2>3, Zenon DEF DrawsRight
<1> QED  BY <1>3, <1>4, <1>5, <1>6, <1>7 DEF NextPrf

(* Every word of the expanded key and every round of                       *)
(* aes_key_expansion_256 and aes_encrypt_block_256 is that of AES-256, for *)
(* any digest as the key and from any block: the tables of places do what  *)
(* rows and columns do, and xtime of a sum what two products do.  Each of  *)
(* up to 2^40 blocks of FSPRF::refill begins from the 64-bit number of the *)
(* blocks drawn before it.                                                 *)
THEOREM TheBlocksAreAes == Spec => DrawsAes256OfTheCounter
<1>1. Init => PrfInv
  BY PrfInvInit DEF Init
<1>2. PrfInv /\ [Next]_vars => PrfInv' /\ [DrawsRight]_prf
  BY PrfInvNext, DrawsRightNext
<1> QED  BY <1>1, <1>2, PTL DEF Spec, DrawsAes256OfTheCounter, DrawsRight
=============================================================================
