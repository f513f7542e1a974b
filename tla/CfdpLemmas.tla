------------------------------ MODULE CfdpLemmas ------------------------------
(***************************************************************************)
(* What the proofs of more than one component rest on: induction, which    *)
(* here is about sets, remainders, what slices of a buffer, its fields and *)
(* the base decoders are, and what is read back of the PDUs.               *)
(***************************************************************************)
EXTENDS CfdpPdu, CfdpDirectives, CfdpNakCodec, SequenceTheorems, FiniteSetTheorems, TLAPS

-----------------------------------------------------------------------------
(* Induction                                                               *)

(* Every set of natural numbers has a least one.                           *)
LEMMA LeastElement ==
  ASSUME NEW S \in SUBSET Nat, S # {}
  PROVE  \E m \in S : \A k \in S : m <= k
<1>1. PICK n \in S : TRUE
  OBVIOUS
<1> DEFINE All == 0 .. n
           R == StrictSubsetOrdering(All)
           T == {0 .. k : k \in {j \in S : j <= n}}
<1>2. IsFiniteSet(All)
  BY FS_Interval
<1>3. IsWellFoundedOn(R, FiniteSubsetsOf(All)) /\ FiniteSubsetsOf(All) = SUBSET All
  BY <1>2, FS_StrictSubsetOrderingWellFounded, FS_FiniteSubsetsOfFinite
<1>4. T \subseteq SUBSET All
  OBVIOUS
<1>5. 0 .. n \in T
  OBVIOUS
<1>6. PICK x \in T : \A y \in T : ~ (<<y, x>> \in R)
  <2> HIDE DEF R, T, All
  <2> QED BY <1>3, <1>4, <1>5, WFMin
<1>7. PICK m \in S : m <= n /\ x = 0 .. m
  OBVIOUS
<1>8. ASSUME NEW k \in S, k < m PROVE FALSE
  <2>1. 0 .. k \in T
    BY <1>7, <1>8
  <2>2. 0 .. k \subseteq 0 .. m /\ 0 .. k # 0 .. m
    BY <1>8
  <2>3. <<0 .. k, 0 .. m>> \in R
    BY <2>1, <2>2, <1>4, <1>7 DEF StrictSubsetOrdering
  <2> QED BY <2>1, <2>3, <1>6, <1>7
<1> QED BY <1>8

(* Every set of numbers up to a bound has a greatest one.                  *)
LEMMA GreatestElement ==
  ASSUME NEW n \in Nat, NEW S \in SUBSET (0 .. n), S # {}
  PROVE  \E m \in S : \A k \in S : k <= m
<1> DEFINE Down == {n - k : k \in S}
<1>1. Down \in SUBSET Nat /\ Down # {}
  <2>1. \A k \in S : n - k \in Nat
    OBVIOUS
  <2>2. PICK k \in S : TRUE
    OBVIOUS
  <2> QED BY <2>1, <2>2
<1>2. PICK d \in Down : \A e \in Down : d <= e
  <2> HIDE DEF Down
  <2> QED BY <1>1, LeastElement
<1>3. PICK m \in S : d = n - m
  OBVIOUS
<1>4. \A k \in S : n - m <= n - k
  BY <1>2, <1>3
<1>5. \A k \in S : k <= m
  BY <1>3, <1>4
<1> QED BY <1>5

(* Induction, about a set instead of a predicate.                          *)
LEMMA SetInduction ==
  ASSUME NEW S, 0 \in S, \A n \in Nat : n \in S => n + 1 \in S
  PROVE  Nat \subseteq S
<1> SUFFICES ASSUME Nat \ S # {} PROVE FALSE
  OBVIOUS
<1>1. PICK m \in Nat \ S : \A k \in Nat \ S : m <= k
  BY LeastElement
<1>2. m # 0 /\ m - 1 \in Nat /\ m - 1 \in S /\ m = (m - 1) + 1
  BY <1>1
<1> QED BY <1>1, <1>2

(* Up to a bound.                                                          *)
LEMMA BoundedInduction ==
  ASSUME NEW n \in Nat, NEW S, 0 \in S,
         \A i \in 0 .. n : i \in S /\ i < n => i + 1 \in S
  PROVE  0 .. n \subseteq S
<1> DEFINE T == {i \in Nat : i <= n => i \in S}
<1>1. 0 \in T
  OBVIOUS
<1>2. \A i \in Nat : i \in T => i + 1 \in T
  OBVIOUS
<1> HIDE DEF T
<1>3. Nat \subseteq T
  BY <1>1, <1>2, SetInduction
<1> QED BY <1>3 DEF T

(* What recursion with a step function defines on 0 .. n.                  *)
Accumulates(n, base, step, f) ==
  /\ DOMAIN f = 0 .. n
  /\ f[0] = base
  /\ \A i \in 1 .. n : f[i] = step[<<f[i - 1], i>>]

LEMMA RecursionStep ==
  ASSUME NEW n \in Nat, NEW S, NEW base \in S, NEW step \in [S \X (1 .. n) -> S],
         NEW m \in Nat, m < n, NEW f \in [0 .. m -> S], Accumulates(m, base, step, f)
  PROVE  \E g \in [0 .. m + 1 -> S] : Accumulates(m + 1, base, step, g)
<1> DEFINE last == step[<<f[m], m + 1>>]
           g == [i \in 0 .. m + 1 |-> IF i = m + 1 THEN last ELSE f[i]]
<1>1. last \in S
  <2>1. f[m] \in S /\ m + 1 \in 1 .. n
    OBVIOUS
  <2>2. <<f[m], m + 1>> \in S \X (1 .. n)
    BY <2>1
  <2> QED BY <2>2
<1> HIDE DEF last
<1>2. \A i \in 0 .. m : f[i] \in S
  OBVIOUS
<1>3. g \in [0 .. m + 1 -> S]
  <2> SUFFICES ASSUME NEW i \in 0 .. m + 1 PROVE (IF i = m + 1 THEN last ELSE f[i]) \in S
    OBVIOUS
  <2>1. CASE i = m + 1
    BY <1>1, <2>1
  <2>2. CASE i # m + 1
    <3>1. i \in 0 .. m
      BY <2>2
    <3> QED BY <1>2, <2>2, <3>1
  <2> QED BY <2>1, <2>2
<1>4. g[m + 1] = last /\ \A i \in 0 .. m : g[i] = f[i]
  <2>1. m + 1 \in 0 .. m + 1 /\ \A i \in 0 .. m : i \in 0 .. m + 1 /\ i # m + 1
    OBVIOUS
  <2> QED BY <2>1
<1>5. DOMAIN g = 0 .. m + 1
  OBVIOUS
<1> HIDE DEF g
<1>6. g[0] = base
  BY <1>4 DEF Accumulates
<1>7. ASSUME NEW i \in 1 .. m + 1
      PROVE  g[i] = step[<<g[i - 1], i>>]
  <2>1. i - 1 \in 0 .. m /\ g[i - 1] = f[i - 1]
    BY <1>4
  <2>2. CASE i = m + 1
    <3>1. i - 1 = m
      BY <2>2
    <3> QED BY <1>4, <2>1, <2>2, <3>1 DEF last
  <2>3. CASE i # m + 1
    <3>1. i \in 1 .. m /\ i \in 0 .. m
      BY <2>3
    <3> QED BY <1>4, <2>1, <3>1 DEF Accumulates
  <2> QED BY <2>2, <2>3
<1> QED BY <1>3, <1>5, <1>6, <1>7 DEF Accumulates

(* A function that is defined by recursion on 0 .. n exists.               *)
LEMMA Recursion ==
  ASSUME NEW n \in Nat, NEW S, NEW base \in S, NEW step \in [S \X (1 .. n) -> S]
  PROVE  \E f \in [0 .. n -> S] : Accumulates(n, base, step, f)
<1> DEFINE Exists(m) == \E f \in [0 .. m -> S] : Accumulates(m, base, step, f)
           T == {m \in 0 .. n : Exists(m)}
<1>1. Exists(0)
  <2> DEFINE f == [i \in 0 .. 0 |-> base]
  <2>1. f \in [0 .. 0 -> S] /\ f[0] = base /\ DOMAIN f = 0 .. 0
    OBVIOUS
  <2>2. \A i \in 1 .. 0 : FALSE
    OBVIOUS
  <2> HIDE DEF f
  <2>3. Accumulates(0, base, step, f)
    BY <2>1, <2>2 DEF Accumulates
  <2> QED BY <2>1, <2>3
<1>2. ASSUME NEW m \in 0 .. n, Exists(m), m < n
      PROVE  Exists(m + 1)
  <2>1. m \in Nat
    OBVIOUS
  <2>2. PICK f \in [0 .. m -> S] : Accumulates(m, base, step, f)
    BY <1>2
  <2>3. \E g \in [0 .. m + 1 -> S] : Accumulates(m + 1, base, step, g)
    BY <1>2, <2>1, <2>2, RecursionStep
  <2> QED BY <2>3
<1> HIDE DEF Exists
<1>3. 0 \in T /\ \A m \in 0 .. n : m \in T /\ m < n => m + 1 \in T
  BY <1>1, <1>2
<1>4. 0 .. n \subseteq T
  <2> HIDE DEF T
  <2> QED BY <1>3, BoundedInduction
<1>5. n \in 0 .. n
  OBVIOUS
<1> QED BY <1>4, <1>5 DEF Exists

-----------------------------------------------------------------------------
(* Products and remainders                                                 *)

LEMMA ProductType ==
  ASSUME NEW a \in Nat, NEW b \in Nat
  PROVE  a * b \in Nat
OBVIOUS

LEMMA Remainder ==
  ASSUME NEW a \in Int, NEW m \in Nat, m > 0
  PROVE  /\ (a % m) \in 0 .. m - 1
         /\ (a \div m) \in Int
         /\ a = m * (a \div m) + (a % m)
OBVIOUS

LEMMA RemainderIs ==
  ASSUME NEW q \in Int, NEW r \in Int, NEW m \in Nat, 0 <= r, r < m
  PROVE  (m * q + r) % m = r
OBVIOUS

LEMMA RemainderOfSum ==
  ASSUME NEW a \in Int, NEW b \in Int, NEW m \in Nat, m > 0
  PROVE  ((a % m) + b) % m = (a + b) % m
<1> DEFINE q == a \div m
           r == a % m
           p == (r + b) \div m
           s == (r + b) % m
<1>1. r \in 0 .. m - 1 /\ q \in Int /\ a = m * q + r
  BY Remainder
<1> HIDE DEF q, r
<1>2. r + b \in Int
  BY <1>1
<1>3. s \in 0 .. m - 1 /\ p \in Int /\ r + b = m * p + s
  BY <1>2, Remainder
<1> HIDE DEF p, s
<1>4. a + b = m * (q + p) + s
  BY <1>1, <1>3
<1>5. (m * (q + p) + s) % m = s
  BY <1>1, <1>3, RemainderIs
<1> QED BY <1>4, <1>5 DEF r, s

(* Numbers less than m apart have the same remainder only if they are the  *)
(* same.                                                                   *)
LEMMA RemainderTells ==
  ASSUME NEW a \in Int, NEW b \in Int, NEW m \in Nat, m > 0,
         (a % m) = (b % m), a - b < m, b - a < m
  PROVE  a = b
<1> DEFINE q == a \div m
           p == b \div m
           r == a % m
<1>1. r \in 0 .. m - 1 /\ q \in Int /\ p \in Int /\ a = m * q + r /\ b = m * p + r
  BY Remainder
<1> HIDE DEF q, p, r
<1>2. a - b = m * (q - p)
  BY <1>1
<1>3. q = p
  BY <1>1, <1>2
<1> QED BY <1>1, <1>3

-----------------------------------------------------------------------------
(* Octets                                                                  *)

LEMMA OctetIsNat ==
  ASSUME NEW octet \in Octet
  PROVE  octet \in Nat
BY DEF Octet

(* The octets from a position of the data field on.                        *)
LEMMA RestProperties ==
  ASSUME NEW f \in Seq(Octet), NEW p \in Nat, p < Len(f)
  PROVE  LET rest == Slice(f, p, Len(f))
         IN /\ rest \in Seq(Octet)
            /\ Len(rest) = Len(f) - p
            /\ \A i \in 0 .. Len(f) - p - 1 : At(rest, i) = At(f, p + i)
            /\ \A i \in 0 .. Len(f) - p - 1 : At(rest, i) \in Octet
<1> DEFINE rest == Slice(f, p, Len(f))
<1>1. Len(f) \in Nat /\ \A i \in 1 .. Len(f) : f[i] \in Octet
  OBVIOUS
<1>2. /\ rest \in Seq(Octet)
      /\ Len(rest) = Len(f) - p
      /\ \A i \in 1 .. Len(f) - p : rest[i] = f[p + i]
  <2>1. \A i \in p + 1 .. Len(f) : f[i] \in Octet
    BY <1>1
  <2> DEFINE sub == SubSeq(f, p + 1, Len(f))
  <2>2. /\ sub \in Seq(Octet)
        /\ Len(sub) = IF p + 1 <= Len(f) THEN Len(f) - (p + 1) + 1 ELSE 0
        /\ \A i \in 1 .. Len(f) - (p + 1) + 1 : sub[i] = f[p + 1 + i - 1]
    <3>1. p + 1 \in Int /\ Len(f) \in Int
      BY <1>1
    <3> QED BY <2>1, <3>1, SubSeqProperties
  <2> HIDE DEF sub
  <2>3. \A i \in Int : p + 1 + i - 1 = p + i
    OBVIOUS
  <2>4. Len(f) - (p + 1) + 1 = Len(f) - p /\ p + 1 <= Len(f)
    BY <1>1
  <2>5. rest = sub
    BY DEF Slice, sub
  <2> QED BY <2>2, <2>3, <2>4, <2>5
<1> HIDE DEF rest
<1>3. \A i \in 0 .. Len(f) - p - 1 : At(rest, i) = At(f, p + i)
  BY <1>1, <1>2 DEF At
<1>4. \A i \in 0 .. Len(f) - p - 1 : At(rest, i) \in Octet
  BY <1>1, <1>2 DEF At
<1> QED BY <1>2, <1>3, <1>4 DEF rest

(* As many octets as an array has.                                         *)
LEMMA FunctionIsSeq ==
  ASSUME NEW n \in Nat, NEW f \in [1 .. n -> Octet]
  PROVE  f \in Seq(Octet) /\ Len(f) = n
OBVIOUS

(* An octet of a buffer.                                                   *)
LEMMA AtType ==
  ASSUME NEW f \in Seq(Octet), NEW i \in Nat, i < Len(f)
  PROVE  At(f, i) \in Octet
<1>1. i + 1 \in 1 .. Len(f)
  <2>1. Len(f) \in Nat
    BY LenProperties
  <2> QED BY <2>1
<1> QED BY <1>1, ElementOfSeq DEF At

(* Octets from one position of a buffer up to another.                     *)
LEMMA SliceType ==
  ASSUME NEW f \in Seq(Octet), NEW a \in Nat, NEW b \in Nat, a <= b, b <= Len(f)
  PROVE  /\ Slice(f, a, b) \in Seq(Octet)
         /\ Len(Slice(f, a, b)) = b - a
<1> DEFINE sub == SubSeq(f, a + 1, b)
<1>1. Len(f) \in Nat /\ \A i \in 1 .. Len(f) : f[i] \in Octet
  BY LenProperties, ElementOfSeq
<1>2. \A i \in a + 1 .. b : f[i] \in Octet
  BY <1>1
<1>3. a + 1 \in Int /\ b \in Int
  OBVIOUS
<1>4. sub \in Seq(Octet) /\ Len(sub) = IF a + 1 <= b THEN b - (a + 1) + 1 ELSE 0
  BY <1>2, <1>3, SubSeqProperties
<1> HIDE DEF sub
<1>5. Len(sub) = b - a
  BY <1>4
<1> QED BY <1>4, <1>5 DEF sub, Slice

(* A uint64_t can hold what is read from up to eight octets.               *)
LEMMA ReadUintType ==
  ASSUME NEW octets \in Seq(Octet), Len(octets) <= 8
  PROVE  ReadUint(octets) \in UInt64
<1>1. Len(octets) \in 0 .. 8
  <2>1. Len(octets) \in Nat
    BY LenProperties
  <2> DEFINE len == Len(octets)
  <2>2. len \in Nat /\ len <= 8
    BY <2>1
  <2> HIDE DEF len
  <2>3. len \in 0 .. 8
    BY <2>2
  <2> QED BY <2>3 DEF len
<1>2. Zeros(8 - Len(octets)) \in Seq(Octet) /\ Len(Zeros(8 - Len(octets))) = 8 - Len(octets)
  BY <1>1 DEF Zeros, Octet
<1> DEFINE zeros == Zeros(8 - Len(octets))
<1> HIDE DEF zeros
<1>3. zeros \o octets \in Seq(Octet) /\ Len(zeros \o octets) = 8
  BY <1>1, <1>2 DEF zeros
<1>4. zeros \o octets \in [1 .. 8 -> Octet]
  <2> DEFINE whole == zeros \o octets
  <2> HIDE DEF whole
  <2>1. whole \in [1 .. Len(whole) -> Octet] /\ Len(whole) = 8
    BY <1>3, LenProperties DEF whole
  <2> QED BY <2>1 DEF whole
<1> QED BY <1>4 DEF ReadUint, UInt64, zeros

(* A slice of the rest of a sequence is a slice of the sequence.           *)
LEMMA SliceOfRest ==
  ASSUME NEW f \in Seq(Octet), NEW p \in Nat, p < Len(f),
         NEW a \in Nat, NEW b \in Nat, a <= b, b <= Len(f) - p
  PROVE  /\ Slice(Slice(f, p, Len(f)), a, b) = Slice(f, p + a, p + b)
         /\ Slice(f, p + a, p + b) \in Seq(Octet)
         /\ Len(Slice(f, p + a, p + b)) = b - a
<1> DEFINE rest == SubSeq(f, p + 1, Len(f))
           inner == SubSeq(rest, a + 1, b)
           outer == SubSeq(f, p + a + 1, p + b)
<1>1. Len(f) \in Nat /\ \A i \in 1 .. Len(f) : f[i] \in Octet
  OBVIOUS
<1>2. /\ rest \in Seq(Octet)
      /\ Len(rest) = Len(f) - p
      /\ \A i \in 1 .. Len(f) - p : rest[i] = f[p + i]
  BY RestProperties, <1>1 DEF Slice, At
<1> HIDE DEF rest
<1>3. \A i \in a + 1 .. b : rest[i] \in Octet
  BY <1>1, <1>2
<1>4. /\ inner \in Seq(Octet)
      /\ Len(inner) = IF a + 1 <= b THEN b - (a + 1) + 1 ELSE 0
      /\ \A i \in 1 .. b - (a + 1) + 1 : inner[i] = rest[a + 1 + i - 1]
  BY <1>3, SubSeqProperties
<1>5. \A i \in p + a + 1 .. p + b : f[i] \in Octet
  BY <1>1
<1>6. p + a + 1 \in Int /\ p + b \in Int
  OBVIOUS
<1>7. /\ outer \in Seq(Octet)
      /\ Len(outer) = IF p + a + 1 <= p + b THEN p + b - (p + a + 1) + 1 ELSE 0
      /\ \A i \in 1 .. p + b - (p + a + 1) + 1 : outer[i] = f[p + a + 1 + i - 1]
  BY <1>5, <1>6, SubSeqProperties
<1> HIDE DEF inner, outer
<1>8. Len(inner) = b - a /\ Len(outer) = b - a
  BY <1>4, <1>7
<1>9. ASSUME NEW i \in 1 .. b - a
      PROVE  inner[i] = outer[i]
  <2>1. inner[i] = rest[a + i]
    <3>1. i \in 1 .. b - (a + 1) + 1
      OBVIOUS
    <3>2. a + 1 + i - 1 = a + i
      OBVIOUS
    <3> QED BY <1>4, <3>1, <3>2
  <2>2. rest[a + i] = f[p + (a + i)]
    BY <1>2
  <2>3. outer[i] = f[p + a + i]
    <3>1. i \in 1 .. p + b - (p + a + 1) + 1
      OBVIOUS
    <3>2. p + a + 1 + i - 1 = p + a + i
      OBVIOUS
    <3> QED BY <1>7, <3>1, <3>2
  <2>4. p + (a + i) = p + a + i
    OBVIOUS
  <2> QED BY <2>1, <2>2, <2>3, <2>4
<1>10. inner = outer
  BY <1>4, <1>7, <1>8, <1>9, SeqEqual
<1> QED BY <1>7, <1>8, <1>10 DEF inner, outer, rest, Slice

(* A slice has the octets it is cut from.                                  *)
LEMMA SliceAt ==
  ASSUME NEW f \in Seq(Octet), NEW a \in Nat, NEW b \in Nat, a <= b, b <= Len(f),
         NEW i \in Nat, i < b - a
  PROVE  At(Slice(f, a, b), i) = At(f, a + i)
<1> DEFINE sub == SubSeq(f, a + 1, b)
<1>1. Len(f) \in Nat /\ \A k \in 1 .. Len(f) : f[k] \in Octet
  BY LenProperties, ElementOfSeq
<1>2. \A k \in a + 1 .. b : f[k] \in Octet
  BY <1>1
<1>3. a + 1 \in Int /\ b \in Int /\ i + 1 \in 1 .. b - (a + 1) + 1
  OBVIOUS
<1>4. \A k \in 1 .. b - (a + 1) + 1 : sub[k] = f[a + 1 + k - 1]
  BY <1>2, <1>3, SubSeqProperties
<1> HIDE DEF sub
<1>5. sub[i + 1] = f[a + 1 + (i + 1) - 1]
  BY <1>3, <1>4
<1>6. a + 1 + (i + 1) - 1 = a + i + 1
  OBVIOUS
<1> QED BY <1>5, <1>6 DEF At, Slice, sub

(* What is copied into a buffer stands there, and the buffer keeps its     *)
(* length and the octets in front of it.                                   *)
LEMMA OverlayType ==
  ASSUME NEW buf \in Seq(Octet), NEW from \in Nat, NEW octets \in Seq(Octet),
         from + Len(octets) <= Len(buf)
  PROVE  /\ Overlay(buf, from, octets) \in Seq(Octet)
         /\ Len(Overlay(buf, from, octets)) = Len(buf)
         /\ \A i \in Nat :
              i < from => At(Overlay(buf, from, octets), i) = At(buf, i)
         /\ \A i \in Nat :
              i < Len(octets) => At(Overlay(buf, from, octets), from + i) = At(octets, i)
<1> DEFINE front == Slice(buf, 0, from)
           end == from + Len(octets)
           back == Slice(buf, end, Len(buf))
           both == front \o octets
           whole == both \o back
<1>1. Len(buf) \in Nat /\ Len(octets) \in Nat /\ end \in Nat /\ end <= Len(buf) /\ from <= Len(buf)
  BY LenProperties
<1>2. front \in Seq(Octet) /\ Len(front) = from
  BY <1>1, SliceType
<1>3. back \in Seq(Octet) /\ Len(back) = Len(buf) - end
  <2> DEFINE len == Len(buf)
  <2>1. len \in Nat /\ end <= len /\ len <= Len(buf)
    BY <1>1
  <2> HIDE DEF len, end
  <2>2. Slice(buf, end, len) \in Seq(Octet) /\ Len(Slice(buf, end, len)) = len - end
    BY <1>1, <2>1, SliceType
  <2> QED BY <2>2 DEF len
<1>4. \A i \in Nat : i < from => At(front, i) = At(buf, i)
  <2>1. ASSUME NEW i \in Nat, i < from PROVE At(front, i) = At(buf, 0 + i)
    BY <1>1, <2>1, SliceAt
  <2>2. \A i \in Nat : 0 + i = i
    OBVIOUS
  <2> QED BY <2>1, <2>2
<1> HIDE DEF front, back, end
<1>5. /\ both \in Seq(Octet) /\ Len(both) = from + Len(octets)
      /\ \A i \in 1 .. from + Len(octets) :
           both[i] = IF i <= from THEN front[i] ELSE octets[i - from]
  BY <1>2, ConcatProperties
<1> HIDE DEF both
<1>6. /\ whole \in Seq(Octet) /\ Len(whole) = Len(both) + Len(back)
      /\ \A i \in 1 .. Len(both) + Len(back) :
           whole[i] = IF i <= Len(both) THEN both[i] ELSE back[i - Len(both)]
  <2>1. both \in Seq(Octet) /\ back \in Seq(Octet)
    BY <1>3, <1>5
  <2> QED BY <2>1, ConcatProperties
<1>7. whole = Overlay(buf, from, octets)
  BY DEF Overlay, front, back, end, both
<1> HIDE DEF whole
<1>8. Len(whole) = Len(buf)
  BY <1>1, <1>3, <1>5, <1>6 DEF end
<1>9. \A i \in 1 .. from + Len(octets) :
        whole[i] = IF i <= from THEN front[i] ELSE octets[i - from]
  <2>1. Len(back) \in Nat
    BY <1>3, LenProperties
  <2> SUFFICES ASSUME NEW i \in 1 .. from + Len(octets)
               PROVE  whole[i] = IF i <= from THEN front[i] ELSE octets[i - from]
    OBVIOUS
  <2>2. i \in 1 .. Len(both) + Len(back) /\ i <= Len(both)
    BY <1>1, <1>5, <2>1
  <2>3. whole[i] = both[i]
    BY <1>6, <2>2
  <2> QED BY <1>5, <2>3
<1>10. ASSUME NEW i \in Nat, i < from
       PROVE  At(whole, i) = At(buf, i)
  <2>1. whole[i + 1] = front[i + 1]
    BY <1>1, <1>9, <1>10
  <2> QED BY <1>4, <1>10, <2>1 DEF At
<1>11. ASSUME NEW i \in Nat, i < Len(octets)
       PROVE  At(whole, from + i) = At(octets, i)
  <2>1. from + i + 1 \in 1 .. from + Len(octets) /\ ~(from + i + 1 <= from)
    BY <1>1, <1>11
  <2>2. whole[from + i + 1] = octets[from + i + 1 - from]
    BY <1>9, <2>1
  <2>3. from + i + 1 - from = i + 1
    OBVIOUS
  <2> QED BY <2>2, <2>3 DEF At
<1> QED BY <1>6, <1>7, <1>8, <1>10, <1>11

(* Sets of bits are octets.                                                *)
LEMMA OctetWithType ==
  ASSUME NEW bits
  PROVE  OctetWith(bits) \in Octet
<1> DEFINE Bit(k) == IF k \in bits THEN BitValue[k + 1] ELSE 0
           b0 == Bit(0)
           b1 == Bit(1)
           b2 == Bit(2)
           b3 == Bit(3)
           b4 == Bit(4)
           b5 == Bit(5)
           b6 == Bit(6)
           b7 == Bit(7)
<1>1. /\ b0 \in Nat /\ b0 <= 1 /\ b1 \in Nat /\ b1 <= 2 /\ b2 \in Nat /\ b2 <= 4
      /\ b3 \in Nat /\ b3 <= 8 /\ b4 \in Nat /\ b4 <= 16 /\ b5 \in Nat /\ b5 <= 32
      /\ b6 \in Nat /\ b6 <= 64 /\ b7 \in Nat /\ b7 <= 128
  BY DEF BitValue
<1>2. OctetWith(bits) = b0 + b1 + b2 + b3 + b4 + b5 + b6 + b7
  BY DEF OctetWith
<1> HIDE DEF b0, b1, b2, b3, b4, b5, b6, b7
<1> DEFINE low == b0 + b1 + b2 + b3
           high == b4 + b5 + b6 + b7
<1>3. low \in Nat /\ low <= 15
  BY ONLY <1>1
<1>4. high \in Nat /\ high <= 240
  BY ONLY <1>1
<1>5. OctetWith(bits) = low + high
  BY ONLY <1>1, <1>2
<1> HIDE DEF low, high
<1>6. low + high \in Octet
  BY ONLY <1>3, <1>4 DEF Octet
<1> QED BY <1>5, <1>6

LEMMA PairWithType ==
  ASSUME NEW bits
  PROVE  PairWith(bits) \in Seq(Octet) /\ Len(PairWith(bits)) = 2
<1> DEFINE high == OctetWith({k - 8 : k \in {j \in bits : j >= 8}})
           low == OctetWith({k \in bits : k < 8})
<1>1. high \in Octet /\ low \in Octet
  BY OctetWithType
<1>2. PairWith(bits) = <<high, low>>
  BY DEF PairWith
<1> HIDE DEF high, low
<1> QED BY <1>1, <1>2

(* The fields of an encoder have the octets it says.                       *)
LEMMA WriteUintType ==
  ASSUME NEW value \in UInt64, NEW n \in 1 .. 8
  PROVE  WriteUint(value, n) \in Seq(Octet) /\ Len(WriteUint(value, n)) = n
<1>1. \A i \in 9 - n .. 8 : value[i] \in Octet
  BY DEF UInt64
<1>2. 9 - n \in Int /\ 8 \in Int
  OBVIOUS
<1> DEFINE sub == SubSeq(value, 9 - n, 8)
<1>3. sub \in Seq(Octet) /\ Len(sub) = IF 9 - n <= 8 THEN 8 - (9 - n) + 1 ELSE 0
  BY <1>1, <1>2, SubSeqProperties
<1> HIDE DEF sub
<1>4. Len(sub) = n
  BY <1>3
<1> QED BY <1>3, <1>4 DEF WriteUint, sub

(* What a pointer is asked for it has.                                     *)
LEMMA CopiedType ==
  ASSUME NEW pointer \in Pointer, NEW len \in Nat, PointsTo(pointer, len),
         pointer # Null \/ len = 0
  PROVE  Copied(pointer, len) \in Seq(Octet) /\ Len(Copied(pointer, len)) = len
<1>1. CASE len = 0
  BY <1>1 DEF Copied
<1>2. CASE len # 0
  <2>1. pointer # << >> /\ pointer \in Seq(Seq(Octet))
    BY <1>2 DEF Pointer, Null
  <2>2. Len(pointer) \in Nat \ {0}
    BY <2>1, EmptySeq
  <2>3. pointer[1] \in Seq(Octet)
    BY <2>1, <2>2, ElementOfSeq
  <2>4. len <= Len(pointer[1])
    BY <2>1 DEF PointsTo, Null
  <2> DEFINE data == pointer[1]
  <2>5. data \in Seq(Octet) /\ len <= Len(data) /\ 0 <= len /\ 0 \in Nat /\ len - 0 = len
    BY <2>3, <2>4
  <2>6. Copied(pointer, len) = Slice(data, 0, len)
    BY <1>2 DEF Copied
  <2> HIDE DEF data
  <2>7. Slice(data, 0, len) \in Seq(Octet) /\ Len(Slice(data, 0, len)) = len
    BY <2>5, SliceType
  <2> QED BY <2>6, <2>7
<1> QED BY <1>1, <1>2

-----------------------------------------------------------------------------
(* LVs and TLVs                                                            *)

(* A TLV is at least its header, and lies within the octets it was found   *)
(* in.                                                                     *)
LEMMA TlvSizeBound ==
  ASSUME NEW buf \in Seq(Octet)
  PROVE  /\ TlvSize(buf) \in Nat
         /\ TlvSize(buf) # 0 =>
              /\ TlvSize(buf) >= CFDP_TLV_HEADER_LEN
              /\ TlvSize(buf) <= Len(buf)
              /\ TlvSize(buf) = At(buf, 1) + CFDP_TLV_HEADER_LEN
<1>1. CASE Len(buf) < CFDP_TLV_HEADER_LEN
  BY <1>1 DEF TlvSize
<1>2. CASE Len(buf) >= CFDP_TLV_HEADER_LEN
  <2>1. At(buf, 1) \in Nat
    <3>1. 1 + 1 \in 1 .. Len(buf)
      BY <1>2 DEF CFDP_TLV_HEADER_LEN
    <3>2. buf[1 + 1] \in Octet
      BY <3>1, ElementOfSeq
    <3>3. At(buf, 1) \in Octet
      BY <3>2 DEF At
    <3> HIDE DEF At
    <3> QED BY <3>3, OctetIsNat
  <2> QED BY <1>2, <2>1 DEF TlvSize, CFDP_TLV_HEADER_LEN
<1> QED BY <1>1, <1>2 DEF CFDP_TLV_HEADER_LEN

(* An LV is its length octet and as many more, within the octets it was    *)
(* found in; what it points at is octets.                                  *)
LEMMA LvDeserializeType ==
  ASSUME NEW buf \in Seq(Octet)
  PROVE  LET lv == LvDeserialize(buf)
         IN /\ lv.ret \in Nat
            /\ lv.ret <= Len(buf)
            /\ lv.value \in Pointer
            /\ lv.len \in Octet
<1> DEFINE len == At(buf, 0)
<1>1. Len(buf) \in Nat
  BY LenProperties
<1>2. Null \in Pointer /\ 0 \in Octet
  BY DEF Null, Pointer, Octet
<1>3. CASE Len(buf) < CFDP_LV_HEADER_LEN \/ Len(buf) < len + CFDP_LV_HEADER_LEN
  <2>1. LvDeserialize(buf) = [ret |-> 0, value |-> Null, len |-> 0]
    BY <1>3 DEF LvDeserialize
  <2> QED BY <1>1, <1>2, <2>1
<1>4. CASE ~ (Len(buf) < CFDP_LV_HEADER_LEN \/ Len(buf) < len + CFDP_LV_HEADER_LEN)
  <2>1. len \in Octet
    BY <1>1, <1>4, AtType DEF CFDP_LV_HEADER_LEN
  <2>2. len \in Nat
    BY <2>1, OctetIsNat
  <2>3. LvDeserialize(buf) =
          [ret |-> len + CFDP_LV_HEADER_LEN,
           value |-> IF len > 0
                     THEN PointerTo(Slice(buf, CFDP_LV_HEADER_LEN, len + CFDP_LV_HEADER_LEN))
                     ELSE Null,
           len |-> len]
    BY <1>4 DEF LvDeserialize
  <2> HIDE DEF len
  <2>4. len + CFDP_LV_HEADER_LEN \in Nat /\ len + CFDP_LV_HEADER_LEN <= Len(buf)
    BY <1>1, <1>4, <2>2 DEF CFDP_LV_HEADER_LEN
  <2>5. Slice(buf, CFDP_LV_HEADER_LEN, len + CFDP_LV_HEADER_LEN) \in Seq(Octet)
    BY <1>1, <2>2, <2>4, SliceType DEF CFDP_LV_HEADER_LEN
  <2>6. PointerTo(Slice(buf, CFDP_LV_HEADER_LEN, len + CFDP_LV_HEADER_LEN)) \in Pointer
    BY <2>5 DEF PointerTo, Pointer
  <2> QED BY <1>2, <2>1, <2>3, <2>4, <2>6
<1> QED BY <1>3, <1>4

-----------------------------------------------------------------------------
(* Headers                                                                 *)

(* The four fixed octets give natural lengths, whatever they are.          *)
LEMMA FlagsType ==
  ASSUME NEW buf \in Seq(Octet), Len(buf) >= CFDP_PDU_HEADER_FIXED_LEN
  PROVE  LET flags == UnpackFlags(buf, LocalHeader)
         IN /\ flags.data_field_length \in Nat
            /\ flags.entity_id_length \in Nat
            /\ flags.transaction_seq_length \in Nat
            /\ flags.crc_flag \in {0, 1}
<1> DEFINE flags == UnpackFlags(buf, LocalHeader)
           pair == Slice(buf, 1, 3)
           o0 == At(buf, 0)
           o3 == At(buf, 3)
<1>1. Len(buf) \in Nat /\ Len(buf) >= 4
  BY LenProperties DEF CFDP_PDU_HEADER_FIXED_LEN
<1>2. o0 \in Octet /\ o3 \in Octet
  BY <1>1, AtType
<1>3. pair \in Seq(Octet) /\ Len(pair) = 2
  <2>1. 1 \in Nat /\ 3 \in Nat /\ 1 <= 3 /\ 3 <= Len(buf) /\ 3 - 1 = 2
    BY <1>1
  <2> QED
    BY <2>1, SliceType
<1>4. pair[1] \in Octet /\ pair[2] \in Octet
  BY <1>3, ElementOfSeq
<1> HIDE DEF pair, o0, o3
<1>5. pair[1] * 256 + pair[2] \in Nat
  <2>1. \A high, low \in 0 .. 255 : high * 256 + low \in Nat
    OBVIOUS
  <2> QED
    BY <1>4, <2>1, ZenonT(60) DEF Octet
<1>6. ((o3 \div 16) % 8) + 1 \in Nat /\ (o3 % 8) + 1 \in Nat /\ (o0 \div 2) % 2 \in {0, 1}
  <2>1. \A o \in 0 .. 255 :
          ((o \div 16) % 8) + 1 \in Nat /\ (o % 8) + 1 \in Nat /\ (o \div 2) % 2 \in {0, 1}
    OBVIOUS
  <2> QED
    BY <1>2, <2>1 DEF Octet
<1>7. /\ flags.data_field_length = ReadUint16(pair)
      /\ flags.entity_id_length = ((o3 \div 16) % 8) + 1
      /\ flags.transaction_seq_length = (o3 % 8) + 1
      /\ flags.crc_flag = (o0 \div 2) % 2
  BY DEF UnpackFlags, LocalHeader, pair, o0, o3
<1>8. flags.data_field_length \in Nat
  BY <1>5, <1>7 DEF ReadUint16
<1> QED
  BY <1>6, <1>7, <1>8

(* A header that is decoded ends in the buffer, and its lengths are those  *)
(* of the fixed octets.                                                    *)
LEMMA HeaderDecoded ==
  ASSUME NEW buf \in Seq(Octet), HeaderDeserialize(buf, LocalHeader).ret # 0
  PROVE  LET head == HeaderDeserialize(buf, LocalHeader)
         IN /\ head.ret \in Nat \ {0}
            /\ head.pdu.data_field_length \in Nat
            /\ head.pdu.crc_flag \in {0, 1}
<1> DEFINE head == HeaderDeserialize(buf, LocalHeader)
           flags == UnpackFlags(buf, LocalHeader)
<1>1. Len(buf) \in Nat
  BY LenProperties
<1>2. Len(buf) >= CFDP_PDU_HEADER_FIXED_LEN
  BY <1>1 DEF HeaderDeserialize, CFDP_PDU_HEADER_FIXED_LEN
<1>3. /\ flags.data_field_length \in Nat
      /\ flags.entity_id_length \in Nat
      /\ flags.transaction_seq_length \in Nat
      /\ flags.crc_flag \in {0, 1}
  BY <1>2, FlagsType
<1>4. HeaderSize(flags) \in Nat
  BY <1>3 DEF HeaderSize, CFDP_PDU_HEADER_FIXED_LEN
<1>5. head.ret = HeaderSize(flags)
  BY <1>1, <1>2 DEF HeaderDeserialize, CFDP_PDU_HEADER_FIXED_LEN
<1>6. /\ head.pdu.data_field_length = flags.data_field_length
      /\ head.pdu.crc_flag = flags.crc_flag
  BY <1>1, <1>2 DEF HeaderDeserialize, CFDP_PDU_HEADER_FIXED_LEN, UnpackFlags, LocalHeader
<1> QED
  BY <1>3, <1>4, <1>5, <1>6

-----------------------------------------------------------------------------
(* Parts of a buffer                                                       *)

(* What is between two other parts of a buffer.                            *)
LEMMA SliceOfConcat ==
  ASSUME NEW front \in Seq(Octet), NEW middle \in Seq(Octet), NEW back \in Seq(Octet)
  PROVE  Slice((front \o middle) \o back, Len(front), Len(front) + Len(middle)) = middle
<1> DEFINE a == Len(front)
           b == Len(middle)
           two == front \o middle
           whole == two \o back
           slice == Slice(whole, a, a + b)
<1>1. a \in Nat /\ b \in Nat /\ Len(back) \in Nat
  BY LenProperties
<1>2. /\ two \in Seq(Octet) /\ Len(two) = a + b
      /\ \A i \in 1 .. a + b : two[i] = IF i <= a THEN front[i] ELSE middle[i - a]
  BY ConcatProperties
<1> HIDE DEF two
<1>3. /\ whole \in Seq(Octet) /\ Len(whole) = Len(two) + Len(back)
      /\ \A i \in 1 .. Len(two) + Len(back) :
           whole[i] = IF i <= Len(two) THEN two[i] ELSE back[i - Len(two)]
  <2>1. two \in Seq(Octet)
    BY <1>2
  <2> QED BY ONLY <2>1, back \in Seq(Octet), ConcatProperties
<1> HIDE DEF whole, a, b
<1>4. a + 1 \in Int /\ a + b \in Int /\ a + b <= Len(whole) /\ a <= a + b /\ (a + b) - a = b
  BY <1>1, <1>2, <1>3
<1>5. slice \in Seq(Octet) /\ Len(slice) = b
  <2>1. whole \in Seq(Octet) /\ a \in Nat /\ a + b \in Nat /\ a <= a + b /\ a + b <= Len(whole)
    BY <1>1, <1>3, <1>4
  <2>2. slice \in Seq(Octet) /\ Len(slice) = (a + b) - a
    BY ONLY <2>1, SliceType
  <2> QED BY <1>4, <2>2
<1>6. ASSUME NEW i \in 1 .. b
      PROVE  slice[i] = middle[i]
  <2>1. i - 1 \in Nat /\ i - 1 < (a + b) - a /\ a + (i - 1) \in Nat
    BY <1>1, <1>6
  <2>2. At(slice, i - 1) = At(whole, a + (i - 1))
    <3>1. whole \in Seq(Octet) /\ a \in Nat /\ a + b \in Nat /\ a <= a + b /\ a + b <= Len(whole)
      BY <1>1, <1>3, <1>4
    <3> QED BY ONLY <2>1, <3>1, SliceAt
  <2>3. slice[i] = whole[a + i]
    <3>1. (i - 1) + 1 = i /\ (a + (i - 1)) + 1 = a + i
      BY <1>1, <1>6
    <3> HIDE DEF slice
    <3> QED BY <2>2, <3>1 DEF At
  <2>4. a + i \in 1 .. Len(two) + Len(back) /\ a + i <= Len(two) /\ a + i \in 1 .. a + b
        /\ ~ (a + i <= a) /\ (a + i) - a = i
    BY <1>1, <1>2, <1>6
  <2>5. whole[a + i] = two[a + i]
    BY <1>3, <2>4
  <2>6. two[a + i] = middle[i]
    BY <1>2, <2>4
  <2> HIDE DEF slice
  <2> QED BY <2>3, <2>5, <2>6
<1>7. slice = middle
  <2> HIDE DEF slice
  <2>1. \A i \in 1 .. Len(slice) : slice[i] = middle[i]
    BY <1>5, <1>6
  <2>2. Len(slice) = Len(middle)
    BY <1>5 DEF b
  <2> QED BY <1>5, <2>1, <2>2, SeqEqual
<1> QED BY <1>7 DEF slice, whole, two, a, b

LEMMA ConcatRegroups ==
  ASSUME NEW a \in Seq(Octet), NEW b \in Seq(Octet), NEW c \in Seq(Octet)
  PROVE  (a \o b) \o c = a \o (b \o c)
BY ConcatAssociative

(* A buffer put together from five parts can be taken apart.               *)
LEMMA PartsApart ==
  ASSUME NEW a \in Seq(Octet), NEW b \in Seq(Octet), NEW c \in Seq(Octet),
         NEW d \in Seq(Octet), NEW e \in Seq(Octet)
  PROVE  LET whole == a \o b \o c \o d \o e
             toB == Len(a) + Len(b)
             toC == toB + Len(c)
             toD == toC + Len(d)
         IN /\ whole \in Seq(Octet) /\ Len(whole) = toD + Len(e)
            /\ Slice(whole, 0, Len(a)) = a
            /\ Slice(whole, Len(a), toB) = b
            /\ Slice(whole, toB, toC) = c
            /\ Slice(whole, toC, toD) = d
<1> DEFINE ab == a \o b
           abc == ab \o c
           abcd == abc \o d
           whole == abcd \o e
           de == d \o e
           cde == c \o de
           bcde == b \o cde
<1>1. Len(a) \in Nat /\ Len(b) \in Nat /\ Len(c) \in Nat /\ Len(d) \in Nat /\ Len(e) \in Nat
  BY LenProperties
<1>2. ab \in Seq(Octet) /\ Len(ab) = Len(a) + Len(b)
  BY ConcatProperties
<1>3. de \in Seq(Octet)
  BY ConcatProperties
<1>4. abc \in Seq(Octet) /\ Len(abc) = Len(ab) + Len(c)
  <2> HIDE DEF ab
  <2> QED BY <1>2, ConcatProperties
<1>5. abcd \in Seq(Octet) /\ Len(abcd) = Len(abc) + Len(d)
  <2> HIDE DEF abc
  <2> QED BY <1>4, ConcatProperties
<1>6. whole \in Seq(Octet) /\ Len(whole) = Len(abcd) + Len(e)
  <2> HIDE DEF abcd
  <2> QED BY <1>5, ConcatProperties
<1>7. cde \in Seq(Octet)
  <2> HIDE DEF de
  <2> QED BY <1>3, ConcatProperties
<1>8. bcde \in Seq(Octet)
  <2> HIDE DEF cde
  <2> QED BY <1>7, ConcatProperties
<1>9. whole = abc \o de
  <2>1. abc \in Seq(Octet)
    BY <1>4
  <2> HIDE DEF abc
  <2>2. (abc \o d) \o e = abc \o (d \o e)
    BY <2>1, ConcatRegroups, ZenonT(60)
  <2> QED BY <2>2
<1>10. abc \o de = ab \o cde
  <2>1. \A x, y \in Seq(Octet) : (x \o c) \o y = x \o (c \o y)
    BY ConcatRegroups
  <2> HIDE DEF ab, de
  <2>2. ab \in Seq(Octet)
    BY <1>2
  <2>3. de \in Seq(Octet)
    BY <1>3
  <2> QED BY ONLY <2>1, <2>2, <2>3
<1>11. ab \o cde = a \o bcde
  <2> HIDE DEF cde
  <2>1. (a \o b) \o cde = a \o (b \o cde)
    BY ONLY <1>7, a \in Seq(Octet), b \in Seq(Octet), ConcatRegroups, SMTT(40)
  <2> QED BY <2>1
<1>12. Slice(whole, Len(abc), Len(abc) + Len(d)) = d
  <2> HIDE DEF abc
  <2> QED BY <1>4, SliceOfConcat
<1>13. Slice(abc \o de, Len(ab), Len(ab) + Len(c)) = c
  <2> HIDE DEF ab, de
  <2> QED BY <1>2, <1>3, SliceOfConcat
<1>14. Slice(ab \o cde, Len(a), Len(a) + Len(b)) = b
  <2> HIDE DEF cde
  <2> QED BY <1>7, SliceOfConcat
<1>15. Slice(a \o bcde, 0, Len(a)) = a
  <2> HIDE DEF bcde
  <2>1. (<< >> \o a) \o bcde = a \o bcde /\ << >> \in Seq(Octet) /\ Len(<< >>) = 0
    BY <1>8, ConcatEmptySeq, EmptySeq
  <2>2. Slice((<< >> \o a) \o bcde, Len(<< >>), Len(<< >>) + Len(a)) = a
    BY <1>8, <2>1, SliceOfConcat
  <2>3. 0 + Len(a) = Len(a)
    BY <1>1
  <2> QED BY <2>1, <2>2, <2>3
<1>16. whole = a \o b \o c \o d \o e
  OBVIOUS
<1> HIDE DEF ab, abc, abcd, whole, de, cde, bcde
<1>17. Slice(whole, Len(ab), Len(ab) + Len(c)) = c
  BY <1>9, <1>13
<1>18. Slice(whole, Len(a), Len(a) + Len(b)) = b
  BY <1>9, <1>10, <1>14
<1>19. Slice(whole, 0, Len(a)) = a
  BY <1>9, <1>10, <1>11, <1>15
<1>20. /\ Len(whole) = ((Len(a) + Len(b)) + Len(c)) + Len(d) + Len(e)
       /\ Len(ab) = Len(a) + Len(b) /\ Len(abc) = (Len(a) + Len(b)) + Len(c)
  BY <1>1, <1>2, <1>4, <1>5, <1>6
<1> QED BY <1>6, <1>12, <1>16, <1>17, <1>18, <1>19, <1>20

(* Two sequences put together are a third if its elements are theirs.      *)
LEMMA ConcatIs ==
  ASSUME NEW x \in Seq(Octet), NEW y \in Seq(Octet), NEW z \in Seq(Octet),
         Len(x) + Len(y) = Len(z),
         \A i \in 1 .. Len(z) : z[i] = IF i <= Len(x) THEN x[i] ELSE y[i - Len(x)]
  PROVE  x \o y = z
<1> DEFINE w == x \o y
<1>1. w \in Seq(Octet) /\ Len(w) = Len(z)
      /\ \A i \in 1 .. Len(z) : w[i] = IF i <= Len(x) THEN x[i] ELSE y[i - Len(x)]
  BY ConcatProperties
<1> HIDE DEF w
<1>2. \A i \in 1 .. Len(w) : w[i] = z[i]
  BY <1>1
<1>3. w = z
  BY <1>1, <1>2, SeqEqual
<1> QED BY <1>3 DEF w

(* The fixed octets of a header, as they are written one after another.   *)
LEMMA FixedOctets ==
  ASSUME NEW a \in Octet, NEW b \in Octet, NEW c \in Octet, NEW d \in Octet
  PROVE  <<a>> \o <<b, c>> \o <<d>> = <<a,b,c,d>>
<1> DEFINE three == <<a, b, c>>
           four == <<a, b, c, d>>
           s == <<a>>
           t == <<b, c>>
           u == <<d>>
<1>1. /\ <<a>> \in Seq(Octet) /\ <<b, c>> \in Seq(Octet) /\ <<d>> \in Seq(Octet)
      /\ three \in Seq(Octet) /\ four \in Seq(Octet)
      /\ Len(<<a>>) = 1 /\ Len(<<b, c>>) = 2 /\ Len(<<d>>) = 1 /\ Len(three) = 3 /\ Len(four) = 4
  OBVIOUS
<1>2. \A i \in 1 .. 3 : three[i] = IF i <= 1 THEN <<a>>[i] ELSE <<b, c>>[i - 1]
  OBVIOUS
<1>3. \A i \in 1 .. 4 : four[i] = IF i <= 3 THEN three[i] ELSE <<d>>[i - 3]
  OBVIOUS
<1>4. s \o t = three
  <2>1. s \in Seq(Octet) /\ t \in Seq(Octet) /\ three \in Seq(Octet) /\ Len(s) = 1 /\ Len(t) = 2 /\ Len(three) = 3
      /\ \A i \in 1 .. 3 : three[i] = IF i <= 1 THEN s[i] ELSE t[i - 1]
    BY <1>1, <1>2
  <2> HIDE DEF s, t, three
  <2>2. Len(s) + Len(t) = Len(three)
    BY <2>1
  <2>3. \A i \in 1 .. Len(three) : three[i] = IF i <= Len(s) THEN s[i] ELSE t[i - Len(s)]
    BY <2>1
  <2>4. s \in Seq(Octet) /\ t \in Seq(Octet) /\ three \in Seq(Octet)
    BY <2>1
  <2> QED BY ONLY <2>2, <2>3, <2>4, ConcatIs
<1>5. three \o u = four
  <2>1. three \in Seq(Octet) /\ u \in Seq(Octet) /\ four \in Seq(Octet) /\ Len(three) = 3 /\ Len(u) = 1 /\ Len(four) = 4
      /\ \A i \in 1 .. 4 : four[i] = IF i <= 3 THEN three[i] ELSE u[i - 3]
    BY <1>1, <1>3
  <2> HIDE DEF u, three, four
  <2>2. Len(three) + Len(u) = Len(four)
    BY <2>1
  <2>3. \A i \in 1 .. Len(four) : four[i] = IF i <= Len(three) THEN three[i] ELSE u[i - Len(three)]
    BY <2>1
  <2>4. u \in Seq(Octet) /\ three \in Seq(Octet) /\ four \in Seq(Octet)
    BY <2>1
  <2> QED BY ONLY <2>2, <2>3, <2>4, ConcatIs
<1>6. (s \o t) \o u = four
  <2> HIDE DEF s, t, u, three, four
  <2> QED BY <1>4, <1>5
<1> QED BY <1>6, Zenon

-----------------------------------------------------------------------------
(* The fixed header                                                        *)

-----------------------------------------------------------------------------
(* Encoding and decoding a header                                          *)

(* A 16-bit length is written and read back.                               *)
LEMMA LengthOctets ==
  ASSUME NEW len \in UInt16
  PROVE  /\ (len \div 256) \in Octet /\ (len % 256) \in Octet
         /\ (len \div 256) * 256 + (len % 256) = len
<1>1. len \in Nat /\ len <= UINT16_MAX /\ UINT16_MAX = 65535 /\ 256 \in Nat
  <2>1. UINT16_MAX \in Nat
    BY DEF UINT16_MAX
  <2>2. len \in Nat /\ len <= UINT16_MAX
    BY <2>1 DEF UInt16
  <2> QED BY <2>2 DEF UINT16_MAX
<1>2. (len % 256) \in 0 .. 255 /\ (len \div 256) \in Int /\ len = 256 * (len \div 256) + (len % 256)
  BY <1>1, Remainder
<1> QED BY <1>1, <1>2 DEF Octet

(* The fixed octets of a header whose fields have values of their widths.  *)
LEMMA PackedOctets ==
  ASSUME NEW hdr \in Header, hdr.version = CFDP_PROTOCOL_VERSION,
         IdLenValid(hdr.entity_id_length), IdLenValid(hdr.transaction_seq_length)
  PROVE  LET o0 == PackOctet0(hdr)
             o3 == PackOctet3(hdr)
         IN /\ o0 \in Octet /\ o0 \div 32 = hdr.version
            /\ (o0 \div 16) % 2 = hdr.pdu_type
            /\ (o0 \div 8) % 2 = hdr.direction
            /\ (o0 \div 4) % 2 = hdr.transmission_mode
            /\ (o0 \div 2) % 2 = hdr.crc_flag
            /\ o0 % 2 = hdr.large_file_flag
            /\ o3 \in Octet
            /\ (o3 \div 128) % 2 = SegmentFlag(hdr, hdr.segmentation_control)
            /\ ((o3 \div 16) % 8) + 1 = hdr.entity_id_length
            /\ (o3 \div 8) % 2 = SegmentFlag(hdr, hdr.segment_metadata_flag)
            /\ (o3 % 8) + 1 = hdr.transaction_seq_length
<1>1. /\ hdr.pdu_type \in {0, 1} /\ hdr.direction \in {0, 1}
      /\ hdr.transmission_mode \in {0, 1} /\ hdr.crc_flag \in {0, 1}
      /\ hdr.large_file_flag \in {0, 1}
      /\ hdr.segmentation_control \in {0, 1} /\ hdr.segment_metadata_flag \in {0, 1}
  BY DEF Header, DIRECTIVE, FILE_DATA, ABSENT, PRESENT
<1>2. hdr.entity_id_length \in 1 .. 8 /\ hdr.transaction_seq_length \in 1 .. 8
  BY DEF IdLenValid, IdLengths, CFDP_ID_LEN_MIN, CFDP_ID_LEN_MAX
<1>3. \A a, b, c, d, e \in {0, 1} :
        LET o == 32 * 1 + 16 * a + 8 * b + 4 * c + 2 * d + e
        IN /\ o \in 0 .. 255 /\ o \div 32 = 1 /\ (o \div 16) % 2 = a /\ (o \div 8) % 2 = b
           /\ (o \div 4) % 2 = c /\ (o \div 2) % 2 = d /\ o % 2 = e
  OBVIOUS
<1>4. \A a, b \in {0, 1} : \A m, n \in 1 .. 8 :
        LET o == 128 * a + 16 * (m - 1) + 8 * b + (n - 1)
        IN /\ o \in 0 .. 255 /\ (o \div 128) % 2 = a /\ ((o \div 16) % 8) + 1 = m
           /\ (o \div 8) % 2 = b /\ (o % 8) + 1 = n
  OBVIOUS
<1>5. /\ SegmentFlag(hdr, hdr.segmentation_control) \in {0, 1}
      /\ SegmentFlag(hdr, hdr.segment_metadata_flag) \in {0, 1}
  BY <1>1 DEF SegmentFlag
<1>6. LET o0 == PackOctet0(hdr)
      IN /\ o0 \in 0 .. 255 /\ o0 \div 32 = hdr.version
         /\ (o0 \div 16) % 2 = hdr.pdu_type
         /\ (o0 \div 8) % 2 = hdr.direction
         /\ (o0 \div 4) % 2 = hdr.transmission_mode
         /\ (o0 \div 2) % 2 = hdr.crc_flag
         /\ o0 % 2 = hdr.large_file_flag
  BY <1>1, <1>3 DEF PackOctet0, CFDP_PROTOCOL_VERSION
<1>7. LET o3 == PackOctet3(hdr)
      IN /\ o3 \in 0 .. 255
         /\ (o3 \div 128) % 2 = SegmentFlag(hdr, hdr.segmentation_control)
         /\ ((o3 \div 16) % 8) + 1 = hdr.entity_id_length
         /\ (o3 \div 8) % 2 = SegmentFlag(hdr, hdr.segment_metadata_flag)
         /\ (o3 % 8) + 1 = hdr.transaction_seq_length
  BY <1>2, <1>4, <1>5, SMTT(40) DEF PackOctet3
<1> QED BY <1>6, <1>7 DEF Octet

(* What cfdp_pdu_header_serialize writes, when it does: four fixed octets  *)
(* and three identifiers.                                                  *)
LEMMA HeaderParts ==
  ASSUME NEW hdr \in Header, NEW bufLen \in Nat, HeaderSerialize(hdr, bufLen) # << >>
  PROVE  LET fixed == <<PackOctet0(hdr), hdr.data_field_length \div 256,
                        hdr.data_field_length % 256, PackOctet3(hdr)>>
             m == hdr.entity_id_length
             n == hdr.transaction_seq_length
             source == WriteUint(hdr.source_entity_id, m)
             number == WriteUint(hdr.transaction_seq_number, n)
             destination == WriteUint(hdr.destination_entity_id, m)
         IN /\ hdr.version = CFDP_PROTOCOL_VERSION /\ IdLenValid(m) /\ IdLenValid(n)
            /\ m \in 1 .. 8 /\ n \in 1 .. 8
            /\ HeaderSize(hdr) = 4 + m + n + m /\ HeaderSize(hdr) <= bufLen
            /\ fixed \in Seq(Octet) /\ Len(fixed) = 4
            /\ source \in Seq(Octet) /\ Len(source) = m
            /\ number \in Seq(Octet) /\ Len(number) = n
            /\ destination \in Seq(Octet) /\ Len(destination) = m
            /\ HeaderSerialize(hdr, bufLen) = fixed \o source \o number \o destination
<1> DEFINE m == hdr.entity_id_length
           n == hdr.transaction_seq_length
           high == hdr.data_field_length \div 256
           low == hdr.data_field_length % 256
           o0 == PackOctet0(hdr)
           o3 == PackOctet3(hdr)
           fixed == <<o0, high, low, o3>>
           source == WriteUint(hdr.source_entity_id, m)
           number == WriteUint(hdr.transaction_seq_number, n)
           destination == WriteUint(hdr.destination_entity_id, m)
           octets == HeaderSerialize(hdr, bufLen)
<1>1. /\ hdr.version = CFDP_PROTOCOL_VERSION
      /\ HeaderSize(hdr) # 0 /\ ~(bufLen < HeaderSize(hdr))
      /\ octets = <<o0>> \o <<high, low>> \o <<o3>> \o source \o number \o destination
  BY DEF HeaderSerialize, WriteUint16
<1>2. IdLenValid(m) /\ IdLenValid(n) /\ HeaderSize(hdr) = 4 + 2 * m + n
  BY <1>1 DEF HeaderSize, CFDP_PDU_HEADER_FIXED_LEN
<1>3. m \in 1 .. 8 /\ n \in 1 .. 8
  BY <1>2 DEF IdLenValid, IdLengths, CFDP_ID_LEN_MIN, CFDP_ID_LEN_MAX
<1>4. HeaderSize(hdr) = 4 + m + n + m /\ HeaderSize(hdr) <= bufLen
  <2> HIDE DEF m, n
  <2> QED BY <1>1, <1>2, <1>3
<1>5. o0 \in Octet /\ o3 \in Octet
  BY <1>1, <1>2, PackedOctets
<1>6. high \in Octet /\ low \in Octet
  <2>1. hdr.data_field_length \in UInt16
    BY DEF Header
  <2> QED BY <2>1, LengthOctets
<1>7. /\ source \in Seq(Octet) /\ Len(source) = m
      /\ number \in Seq(Octet) /\ Len(number) = n
      /\ destination \in Seq(Octet) /\ Len(destination) = m
  <2>1. /\ hdr.source_entity_id \in UInt64 /\ hdr.transaction_seq_number \in UInt64
        /\ hdr.destination_entity_id \in UInt64
    BY DEF Header
  <2> HIDE DEF m, n
  <2> QED BY <1>3, <2>1, WriteUintType
<1> HIDE DEF high, low, o0, o3, source, number, destination, octets
<1>8. <<o0>> \o <<high, low>> \o <<o3>> = fixed
  BY <1>5, <1>6, FixedOctets
<1>9. octets = fixed \o source \o number \o destination
  <2> DEFINE start == <<o0>> \o <<high, low>> \o <<o3>>
  <2>1. octets = start \o source \o number \o destination
    BY <1>1
  <2>2. start = fixed
    BY <1>8
  <2> HIDE DEF start, fixed
  <2> QED BY <2>1, <2>2
<1>10. fixed \in Seq(Octet) /\ Len(fixed) = 4
  BY <1>5, <1>6
<1> HIDE DEF fixed, m, n
<1> QED BY <1>1, <1>2, <1>3, <1>4, <1>7, <1>9, <1>10
        DEF fixed, m, n, high, low, o0, o3, source, number, destination, octets

(* What the peer is told is a header too.                                  *)
LEMMA HeaderOnWireType ==
  ASSUME NEW hdr \in Header, IdLenValid(hdr.entity_id_length),
         IdLenValid(hdr.transaction_seq_length)
  PROVE  HeaderOnWire(hdr) \in Header
<1>1. hdr.entity_id_length \in 1 .. 8 /\ hdr.transaction_seq_length \in 1 .. 8
  BY DEF IdLenValid, IdLengths, CFDP_ID_LEN_MIN, CFDP_ID_LEN_MAX
<1>2. ASSUME NEW value \in UInt64, NEW n \in 1 .. 8
      PROVE  Truncated(value, n) \in UInt64
  <2>1. WriteUint(value, n) \in Seq(Octet) /\ Len(WriteUint(value, n)) = n
    BY <1>2, WriteUintType
  <2> DEFINE octets == WriteUint(value, n)
  <2> HIDE DEF octets
  <2>2. Len(octets) <= 8
    BY <1>2, <2>1 DEF octets
  <2> QED BY <2>1, <2>2, ReadUintType DEF Truncated, octets
<1>3. /\ Truncated(hdr.source_entity_id, hdr.entity_id_length) \in UInt64
      /\ Truncated(hdr.transaction_seq_number, hdr.transaction_seq_length) \in UInt64
      /\ Truncated(hdr.destination_entity_id, hdr.entity_id_length) \in UInt64
  BY <1>1, <1>2 DEF Header
<1>4. /\ SegmentFlag(hdr, hdr.segmentation_control) \in {0, 1}
      /\ SegmentFlag(hdr, hdr.segment_metadata_flag) \in {ABSENT, PRESENT}
  BY DEF SegmentFlag, Header, ABSENT, PRESENT
<1> QED BY <1>3, <1>4 DEF HeaderOnWire, Header

(* Two headers with the same fields are the same.                          *)
LEMMA HeaderEqual ==
  ASSUME NEW one \in Header, NEW other \in Header,
         one.version = other.version, one.pdu_type = other.pdu_type,
         one.direction = other.direction, one.transmission_mode = other.transmission_mode,
         one.crc_flag = other.crc_flag, one.large_file_flag = other.large_file_flag,
         one.data_field_length = other.data_field_length,
         one.segmentation_control = other.segmentation_control,
         one.entity_id_length = other.entity_id_length,
         one.segment_metadata_flag = other.segment_metadata_flag,
         one.transaction_seq_length = other.transaction_seq_length,
         one.source_entity_id = other.source_entity_id,
         one.transaction_seq_number = other.transaction_seq_number,
         one.destination_entity_id = other.destination_entity_id
  PROVE  one = other
BY DEF Header

(* Two octets make a 16-bit length.                                        *)
LEMMA PairValue ==
  ASSUME NEW high \in Octet, NEW low \in Octet
  PROVE  high * 256 + low \in UInt16
<1>1. high \in Nat /\ low \in Nat /\ high <= 255 /\ low <= 255
  BY DEF Octet
<1> DEFINE value == high * 256 + low
<1>2. value \in Nat /\ value <= UINT16_MAX /\ UINT16_MAX \in Nat
  BY <1>1 DEF UINT16_MAX
<1> HIDE DEF value
<1>3. value \in UInt16
  BY <1>2 DEF UInt16
<1> QED BY <1>3 DEF value

(* The fixed octets give a header, whatever they are.                      *)
LEMMA UnpackedType ==
  ASSUME NEW buf \in Seq(Octet), Len(buf) >= CFDP_PDU_HEADER_FIXED_LEN, NEW hdr \in Header
  PROVE  UnpackFlags(buf, hdr) \in Header
<1> DEFINE pair == Slice(buf, 1, 3)
           o0 == At(buf, 0)
           o3 == At(buf, 3)
           Segment(bit) == IF (o0 \div 16) % 2 = FILE_DATA THEN bit % 2 ELSE 0
<1>1. Len(buf) \in Nat /\ Len(buf) >= 4
  BY LenProperties DEF CFDP_PDU_HEADER_FIXED_LEN
<1>2. o0 \in 0 .. 255 /\ o3 \in 0 .. 255
  <2>1. At(buf, 0) \in Octet /\ At(buf, 3) \in Octet
    <3>1. 0 \in Nat /\ 0 < Len(buf) /\ 3 \in Nat /\ 3 < Len(buf)
      BY <1>1
    <3> QED BY ONLY <3>1, buf \in Seq(Octet), AtType
  <2> HIDE DEF At
  <2> QED BY <2>1 DEF Octet
<1>3. ReadUint16(pair) \in UInt16
  <2>1. 1 \in Nat /\ 3 \in Nat /\ 1 <= 3 /\ 3 <= Len(buf) /\ 3 - 1 = 2
    BY <1>1
  <2>2. pair \in Seq(Octet) /\ Len(pair) = 2
    BY <2>1, SliceType
  <2>3. pair[1] \in Octet /\ pair[2] \in Octet
    BY <2>2, ElementOfSeq
  <2> HIDE DEF pair
  <2> QED BY ONLY <2>3, PairValue DEF ReadUint16
<1> HIDE DEF pair, o0, o3
<1>4. \A o \in 0 .. 255 :
        /\ (o \div 32) \in 0 .. 7 /\ ((o \div 16) % 2) \in {0, 1} /\ ((o \div 8) % 2) \in {0, 1}
        /\ ((o \div 4) % 2) \in {0, 1} /\ ((o \div 2) % 2) \in {0, 1} /\ (o % 2) \in {0, 1}
        /\ ((o \div 128) % 2) \in {0, 1}
        /\ ((o \div 16) % 8) + 1 \in 0 .. 255 /\ (o % 8) + 1 \in 0 .. 255
  OBVIOUS
<1>5. Segment(o3 \div 128) \in {0, 1} /\ Segment(o3 \div 8) \in {0, 1}
  BY <1>2, <1>4
<1> HIDE DEF Segment
<1>6. UnpackFlags(buf, hdr) =
        [hdr EXCEPT
        !.version = o0 \div 32,
        !.pdu_type = (o0 \div 16) % 2,
        !.direction = (o0 \div 8) % 2,
        !.transmission_mode = (o0 \div 4) % 2,
        !.crc_flag = (o0 \div 2) % 2,
        !.large_file_flag = o0 % 2,
        !.data_field_length = ReadUint16(pair),
        !.segmentation_control = Segment(o3 \div 128),
        !.entity_id_length = ((o3 \div 16) % 8) + 1,
        !.segment_metadata_flag = Segment(o3 \div 8),
        !.transaction_seq_length = (o3 % 8) + 1]
  BY DEF UnpackFlags, Segment, o0, o3, pair
<1>7. /\ (o0 \div 32) \in 0 .. 7 /\ ((o0 \div 16) % 2) \in {0, 1} /\ ((o0 \div 8) % 2) \in {0, 1}
      /\ ((o0 \div 4) % 2) \in {0, 1} /\ ((o0 \div 2) % 2) \in {0, 1} /\ (o0 % 2) \in {0, 1}
      /\ ((o3 \div 16) % 8) + 1 \in 0 .. 255 /\ (o3 % 8) + 1 \in 0 .. 255
  BY <1>2, <1>4
<1>8. ((o3 \div 16) % 8) + 1 \in Octet /\ (o3 % 8) + 1 \in Octet
  BY <1>7 DEF Octet
<1> DEFINE version == o0 \div 32
           type == (o0 \div 16) % 2
           direction == (o0 \div 8) % 2
           mode == (o0 \div 4) % 2
           crc == (o0 \div 2) % 2
           large == o0 % 2
           len == ReadUint16(pair)
           control == Segment(o3 \div 128)
           idLen == ((o3 \div 16) % 8) + 1
           metadata == Segment(o3 \div 8)
           seqLen == (o3 % 8) + 1
<1>9. /\ version \in 0 .. 7 /\ type \in {DIRECTIVE, FILE_DATA} /\ direction \in {0, 1}
      /\ mode \in {0, 1} /\ crc \in {ABSENT, PRESENT} /\ large \in {0, 1} /\ len \in UInt16
      /\ control \in {0, 1} /\ idLen \in Octet /\ metadata \in {ABSENT, PRESENT}
      /\ seqLen \in Octet
  BY <1>3, <1>5, <1>7, <1>8 DEF DIRECTIVE, FILE_DATA, ABSENT, PRESENT
<1>10. UnpackFlags(buf, hdr) =
        [hdr EXCEPT
        !.version = version,
        !.pdu_type = type,
        !.direction = direction,
        !.transmission_mode = mode,
        !.crc_flag = crc,
        !.large_file_flag = large,
        !.data_field_length = len,
        !.segmentation_control = control,
        !.entity_id_length = idLen,
        !.segment_metadata_flag = metadata,
        !.transaction_seq_length = seqLen]
  BY <1>6
<1> HIDE DEF version, type, direction, mode, crc, large, len, control, idLen, metadata, seqLen
<1> DEFINE one == [hdr EXCEPT
                     !.version = version, !.pdu_type = type, !.direction = direction,
                     !.transmission_mode = mode, !.crc_flag = crc]
           other == [one EXCEPT
                       !.large_file_flag = large, !.data_field_length = len,
                       !.segmentation_control = control, !.entity_id_length = idLen,
                       !.segment_metadata_flag = metadata, !.transaction_seq_length = seqLen]
<1>11. one \in Header
  BY ONLY hdr \in Header, <1>9 DEF Header
<1>12. UnpackFlags(buf, hdr) = other
  BY <1>10
<1> HIDE DEF one
<1>13. other \in Header
  BY ONLY <1>9, <1>11 DEF Header
<1> QED BY <1>12, <1>13

(* A header in octets that begin with what was written is that header, as  *)
(* it travels, whatever was in the structure it is decoded into.           *)
LEMMA HeaderRoundTrip ==
  ASSUME NEW hdr \in Header, NEW bufLen \in Nat, HeaderSerialize(hdr, bufLen) # << >>,
         NEW rest \in Seq(Octet), NEW old \in Header
  PROVE  LET whole == HeaderSerialize(hdr, bufLen) \o rest
             head == HeaderDeserialize(whole, old)
         IN head.ret = HeaderSize(hdr) /\ head.pdu = HeaderOnWire(hdr)
<1> DEFINE m == hdr.entity_id_length
           n == hdr.transaction_seq_length
           high == hdr.data_field_length \div 256
           low == hdr.data_field_length % 256
           o0 == PackOctet0(hdr)
           o3 == PackOctet3(hdr)
           fixed == <<o0, high, low, o3>>
           source == WriteUint(hdr.source_entity_id, m)
           number == WriteUint(hdr.transaction_seq_number, n)
           destination == WriteUint(hdr.destination_entity_id, m)
           octets == HeaderSerialize(hdr, bufLen)
           whole == octets \o rest
           flags == UnpackFlags(whole, old)
           head == HeaderDeserialize(whole, old)
<1>1. /\ hdr.version = CFDP_PROTOCOL_VERSION /\ IdLenValid(m) /\ IdLenValid(n)
      /\ m \in 1 .. 8 /\ n \in 1 .. 8
      /\ HeaderSize(hdr) = 4 + m + n + m
      /\ fixed \in Seq(Octet) /\ Len(fixed) = 4
      /\ source \in Seq(Octet) /\ Len(source) = m
      /\ number \in Seq(Octet) /\ Len(number) = n
      /\ destination \in Seq(Octet) /\ Len(destination) = m
      /\ octets = fixed \o source \o number \o destination
  BY HeaderParts
<1>2. whole = fixed \o source \o number \o destination \o rest
  BY <1>1
<1> HIDE DEF source, number, destination, octets, whole
<1>3. /\ whole \in Seq(Octet)
      /\ Len(whole) = ((Len(fixed) + Len(source)) + Len(number)) + Len(destination) + Len(rest)
      /\ Slice(whole, 0, Len(fixed)) = fixed
      /\ Slice(whole, Len(fixed), Len(fixed) + Len(source)) = source
      /\ Slice(whole, Len(fixed) + Len(source), (Len(fixed) + Len(source)) + Len(number)) = number
      /\ Slice(whole, (Len(fixed) + Len(source)) + Len(number),
               ((Len(fixed) + Len(source)) + Len(number)) + Len(destination)) = destination
  <2>1. /\ fixed \in Seq(Octet) /\ source \in Seq(Octet) /\ number \in Seq(Octet)
        /\ destination \in Seq(Octet) /\ rest \in Seq(Octet)
    BY <1>1
  <2> HIDE DEF fixed
  <2> DEFINE joined == fixed \o source \o number \o destination \o rest
  <2>2. /\ joined \in Seq(Octet)
        /\ Len(joined) = ((Len(fixed) + Len(source)) + Len(number)) + Len(destination) + Len(rest)
        /\ Slice(joined, 0, Len(fixed)) = fixed
        /\ Slice(joined, Len(fixed), Len(fixed) + Len(source)) = source
        /\ Slice(joined, Len(fixed) + Len(source), (Len(fixed) + Len(source)) + Len(number)) = number
        /\ Slice(joined, (Len(fixed) + Len(source)) + Len(number),
                 ((Len(fixed) + Len(source)) + Len(number)) + Len(destination)) = destination
    BY ONLY <2>1, PartsApart
  <2>3. whole = joined
    BY <1>2
  <2> HIDE DEF joined
  <2> QED BY <2>2, <2>3
<1>4. Len(rest) \in Nat
  BY LenProperties
<1>5. /\ Len(whole) \in Nat /\ Len(whole) >= 4 /\ Len(whole) >= HeaderSize(hdr)
      /\ Slice(whole, 0, 4) = fixed
      /\ Slice(whole, 4, 4 + m) = source
      /\ Slice(whole, 4 + m, 4 + m + n) = number
      /\ Slice(whole, 4 + m + n, HeaderSize(hdr)) = destination
  <2> HIDE DEF fixed, m, n
  <2> QED BY <1>1, <1>3, <1>4
<1>6. At(whole, 0) = o0 /\ At(whole, 1) = high /\ At(whole, 2) = low /\ At(whole, 3) = o3
  <2>1. \A i \in 0 .. 3 : At(fixed, i) = At(whole, i)
    <3>1. ASSUME NEW i \in 0 .. 3 PROVE At(Slice(whole, 0, 4), i) = At(whole, 0 + i)
      <4>1. 0 \in Nat /\ 4 \in Nat /\ 0 <= 4 /\ 4 <= Len(whole) /\ i \in Nat /\ i < 4 - 0
        BY <1>5
      <4> QED BY <1>3, <4>1, SliceAt
    <3>2. \A i \in 0 .. 3 : 0 + i = i
      OBVIOUS
    <3> HIDE DEF fixed
    <3> QED BY <1>5, <3>1, <3>2
  <2> HIDE DEF o0, o3, high, low
  <2>2. At(fixed, 0) = o0 /\ At(fixed, 1) = high /\ At(fixed, 2) = low /\ At(fixed, 3) = o3
    BY DEF At
  <2> QED BY <2>1, <2>2
<1>7. ReadUint16(Slice(whole, 1, 3)) = hdr.data_field_length
  <2>1. 1 \in Nat /\ 3 \in Nat /\ 1 <= 3 /\ 3 <= Len(whole) /\ 0 < 3 - 1 /\ 1 < 3 - 1 /\ 1 + 0 = 1 /\ 1 + 1 = 2
    BY <1>5
  <2>2. At(Slice(whole, 1, 3), 0) = At(whole, 1 + 0)
    BY <1>3, <2>1, SliceAt, SMTT(40)
  <2>3. At(Slice(whole, 1, 3), 1) = At(whole, 1 + 1)
    BY <1>3, <2>1, SliceAt
  <2>4. ReadUint16(Slice(whole, 1, 3)) = At(whole, 1) * 256 + At(whole, 2)
    BY <2>1, <2>2, <2>3 DEF ReadUint16, At
  <2>5. hdr.data_field_length \in UInt16
    BY DEF Header
  <2> QED BY <1>6, <2>4, <2>5, LengthOctets
<1>8. flags \in Header
  BY <1>3, <1>5, UnpackedType DEF CFDP_PDU_HEADER_FIXED_LEN
<1>9. /\ flags.version = hdr.version /\ flags.pdu_type = hdr.pdu_type
      /\ flags.direction = hdr.direction /\ flags.transmission_mode = hdr.transmission_mode
      /\ flags.crc_flag = hdr.crc_flag /\ flags.large_file_flag = hdr.large_file_flag
      /\ flags.data_field_length = hdr.data_field_length
      /\ flags.segmentation_control = SegmentFlag(hdr, hdr.segmentation_control)
      /\ flags.entity_id_length = m
      /\ flags.segment_metadata_flag = SegmentFlag(hdr, hdr.segment_metadata_flag)
      /\ flags.transaction_seq_length = n
  <2>1. /\ o0 \div 32 = hdr.version
        /\ (o0 \div 16) % 2 = hdr.pdu_type
        /\ (o0 \div 8) % 2 = hdr.direction
        /\ (o0 \div 4) % 2 = hdr.transmission_mode
        /\ (o0 \div 2) % 2 = hdr.crc_flag
        /\ o0 % 2 = hdr.large_file_flag
        /\ (o3 \div 128) % 2 = SegmentFlag(hdr, hdr.segmentation_control)
        /\ ((o3 \div 16) % 8) + 1 = hdr.entity_id_length
        /\ (o3 \div 8) % 2 = SegmentFlag(hdr, hdr.segment_metadata_flag)
        /\ (o3 % 8) + 1 = hdr.transaction_seq_length
    BY <1>1, PackedOctets
  <2> HIDE DEF o0, o3
  <2>2. /\ flags.version = o0 \div 32
        /\ flags.pdu_type = (o0 \div 16) % 2
        /\ flags.direction = (o0 \div 8) % 2
        /\ flags.transmission_mode = (o0 \div 4) % 2
        /\ flags.crc_flag = (o0 \div 2) % 2
        /\ flags.large_file_flag = o0 % 2
        /\ flags.data_field_length = hdr.data_field_length
        /\ flags.segmentation_control = IF (o0 \div 16) % 2 = FILE_DATA THEN (o3 \div 128) % 2 ELSE 0
        /\ flags.entity_id_length = ((o3 \div 16) % 8) + 1
        /\ flags.segment_metadata_flag = IF (o0 \div 16) % 2 = FILE_DATA THEN (o3 \div 8) % 2 ELSE 0
        /\ flags.transaction_seq_length = (o3 % 8) + 1
    BY <1>6, <1>7 DEF UnpackFlags, Header
  <2> HIDE DEF flags
  <2>3. /\ flags.segmentation_control = SegmentFlag(hdr, hdr.segmentation_control)
        /\ flags.segment_metadata_flag = SegmentFlag(hdr, hdr.segment_metadata_flag)
    BY <2>1, <2>2 DEF SegmentFlag
  <2> QED BY <2>1, <2>2, <2>3
<1>10. HeaderSize(flags) = HeaderSize(hdr)
  BY <1>9 DEF HeaderSize
<1> DEFINE wire == HeaderOnWire(hdr)
<1>11. wire \in Header
  BY <1>1, HeaderOnWireType
<1>12. /\ head.ret = HeaderSize(hdr)
       /\ head.pdu = [flags EXCEPT
            !.source_entity_id = ReadUint(source),
            !.transaction_seq_number = ReadUint(number),
            !.destination_entity_id = ReadUint(destination)]
  <2>1. /\ ~(Len(whole) < CFDP_PDU_HEADER_FIXED_LEN) /\ ~(Len(whole) < HeaderSize(flags))
        /\ flags.version = CFDP_PROTOCOL_VERSION /\ HeaderSize(flags) # 0
    <3> HIDE DEF m, n, fixed, o0, o3, high, low, flags
    <3>1. HeaderSize(hdr) \in Nat /\ HeaderSize(hdr) >= 4 /\ HeaderSize(hdr) # 0
      BY <1>1
    <3>2. ~(Len(whole) < 4) /\ ~(Len(whole) < HeaderSize(hdr))
      BY <1>5, <3>1
    <3> QED BY <1>1, <1>9, <1>10, <3>1, <3>2 DEF CFDP_PDU_HEADER_FIXED_LEN
  <2>2. /\ CFDP_PDU_HEADER_FIXED_LEN = 4 /\ flags.entity_id_length = m /\ flags.transaction_seq_length = n
    BY <1>9 DEF CFDP_PDU_HEADER_FIXED_LEN
  <2> HIDE DEF m, n, fixed, o0, o3, high, low
  <2> QED BY <1>5, <1>10, <2>1, <2>2 DEF HeaderDeserialize
<1> DEFINE got == [flags EXCEPT
            !.source_entity_id = ReadUint(source),
            !.transaction_seq_number = ReadUint(number),
            !.destination_entity_id = ReadUint(destination)]
<1>13. /\ wire.source_entity_id = ReadUint(source)
       /\ wire.transaction_seq_number = ReadUint(number)
       /\ wire.destination_entity_id = ReadUint(destination)
       /\ wire.version = hdr.version /\ wire.pdu_type = hdr.pdu_type
       /\ wire.direction = hdr.direction /\ wire.transmission_mode = hdr.transmission_mode
       /\ wire.crc_flag = hdr.crc_flag /\ wire.large_file_flag = hdr.large_file_flag
       /\ wire.data_field_length = hdr.data_field_length
       /\ wire.segmentation_control = SegmentFlag(hdr, hdr.segmentation_control)
       /\ wire.entity_id_length = m
       /\ wire.segment_metadata_flag = SegmentFlag(hdr, hdr.segment_metadata_flag)
       /\ wire.transaction_seq_length = n
  BY DEF HeaderOnWire, Header, Truncated, source, number, destination
<1> HIDE DEF flags
<1>14. /\ got.source_entity_id = ReadUint(source)
       /\ got.transaction_seq_number = ReadUint(number)
       /\ got.destination_entity_id = ReadUint(destination)
       /\ got.version = flags.version /\ got.pdu_type = flags.pdu_type
       /\ got.direction = flags.direction /\ got.transmission_mode = flags.transmission_mode
       /\ got.crc_flag = flags.crc_flag /\ got.large_file_flag = flags.large_file_flag
       /\ got.data_field_length = flags.data_field_length
       /\ got.segmentation_control = flags.segmentation_control
       /\ got.entity_id_length = flags.entity_id_length
       /\ got.segment_metadata_flag = flags.segment_metadata_flag
       /\ got.transaction_seq_length = flags.transaction_seq_length
  BY <1>8 DEF Header
<1>15. got \in Header
  <2>1. /\ ReadUint(source) \in UInt64 /\ ReadUint(number) \in UInt64
        /\ ReadUint(destination) \in UInt64
    <3> HIDE DEF wire
    <3> QED BY <1>11, <1>13 DEF Header
  <2> QED BY <1>8, <2>1 DEF Header
<1> HIDE DEF got, wire
<1>16. got = wire
  BY <1>9, <1>11, <1>13, <1>14, <1>15, HeaderEqual
<1> QED BY <1>12, <1>16 DEF got, wire, head, whole, octets

-----------------------------------------------------------------------------
(* File Data                                                               *)

-----------------------------------------------------------------------------
(* Encoding and decoding a File Data data field                            *)

(* A pointer to octets, and NULL, are pointers.                            *)
LEMMA PointerToType ==
  ASSUME NEW octets \in Seq(Octet)
  PROVE  PointerTo(octets) \in Pointer /\ Null \in Pointer
BY DEF PointerTo, Pointer, Null

(* A file size or offset fits a uint64_t.                                  *)
LEMMA FileSizeWidth ==
  ASSUME NEW large \in {0, 1}
  PROVE  FileSizeOctets(large) \in 1 .. 8
BY DEF FileSizeOctets

(* The structure a caller has cleared.                                     *)
LEMMA NoFileDataType == NoFileData \in FileData
<1>1. Zeros(8) \in UInt64
  BY DEF Zeros, UInt64, Octet
<1>2. Null \in Pointer /\ 0 \in Octet
  BY DEF Null, Pointer, Octet
<1> QED BY <1>1, <1>2 DEF NoFileData, FileData

(* Two File Data structures with the same fields are the same.             *)
LEMMA FileDataEqual ==
  ASSUME NEW one \in FileData, NEW other \in FileData,
         one.record_continuation = other.record_continuation,
         one.segment_metadata = other.segment_metadata,
         one.segment_metadata_len = other.segment_metadata_len,
         one.offset = other.offset, one.file_data = other.file_data,
         one.file_data_len = other.file_data_len
  PROVE  one = other
BY DEF FileData

(* The parts of a File Data data field.                                    *)
LeadOf(fd, flag) ==
  IF flag = PRESENT THEN <<64 * fd.record_continuation + fd.segment_metadata_len>> ELSE << >>
MetadataOf(fd, flag) ==
  IF flag = PRESENT THEN Copied(fd.segment_metadata, fd.segment_metadata_len) ELSE << >>
OffsetOf(fd, large) == WriteUint(fd.offset, FileSizeOctets(large))
DataOf(fd) == Copied(fd.file_data, fd.file_data_len)

(* What cfdp_file_data_serialize writes, when it does.                     *)
LEMMA FileDataParts ==
  ASSUME NEW fd \in FileData, NEW large \in {0, 1}, NEW flag \in {ABSENT, PRESENT},
         NEW bufLen \in Nat,
         PointsTo(fd.segment_metadata, fd.segment_metadata_len),
         PointsTo(fd.file_data, fd.file_data_len),
         FileDataSerialize(fd, large, flag, bufLen) # << >>
  PROVE  /\ SegmentMetadataConsistent(fd, flag)
         /\ fd.segment_metadata_len \in 0 .. 63 /\ fd.record_continuation \in 0 .. 3
         /\ flag # PRESENT => fd.segment_metadata_len = 0
         /\ flag = PRESENT => fd.segment_metadata # Null \/ fd.segment_metadata_len = 0
         /\ fd.file_data # Null \/ fd.file_data_len = 0
         /\ LeadOf(fd, flag) \in Seq(Octet)
         /\ Len(LeadOf(fd, flag)) = IF flag = PRESENT THEN 1 ELSE 0
         /\ MetadataOf(fd, flag) \in Seq(Octet)
         /\ Len(MetadataOf(fd, flag)) = fd.segment_metadata_len
         /\ OffsetOf(fd, large) \in Seq(Octet)
         /\ Len(OffsetOf(fd, large)) = FileSizeOctets(large)
         /\ DataOf(fd) \in Seq(Octet) /\ Len(DataOf(fd)) = fd.file_data_len
         /\ FileDataSerialize(fd, large, flag, bufLen)
              = LeadOf(fd, flag) \o MetadataOf(fd, flag) \o OffsetOf(fd, large) \o DataOf(fd)
<1> DEFINE len == fd.segment_metadata_len
           rc == fd.record_continuation
           before == IF flag = PRESENT THEN SegmentMetadataWrite(fd) ELSE << >>
<1>1. /\ ~(fd.file_data = Null /\ fd.file_data_len > 0)
      /\ SegmentMetadataConsistent(fd, flag)
      /\ FileDataSerialize(fd, large, flag, bufLen) = before \o OffsetOf(fd, large) \o DataOf(fd)
  BY DEF FileDataSerialize, OffsetOf, DataOf
<1>2. /\ fd.file_data \in Pointer /\ fd.file_data_len \in Nat /\ fd.offset \in UInt64
      /\ fd.segment_metadata \in Pointer /\ len \in Octet /\ rc \in 0 .. 3
  BY DEF FileData
<1>3. fd.file_data # Null \/ fd.file_data_len = 0
  BY <1>1, <1>2
<1>4. DataOf(fd) \in Seq(Octet) /\ Len(DataOf(fd)) = fd.file_data_len
  BY <1>2, <1>3, CopiedType DEF DataOf
<1>5. OffsetOf(fd, large) \in Seq(Octet) /\ Len(OffsetOf(fd, large)) = FileSizeOctets(large)
  BY <1>2, FileSizeWidth, WriteUintType DEF OffsetOf
<1>6. /\ flag # PRESENT => len = 0
      /\ flag = PRESENT => len <= 63 /\ (fd.segment_metadata # Null \/ len = 0)
  BY <1>1 DEF SegmentMetadataConsistent, CFDP_SEGMENT_METADATA_MAX_LEN
<1> HIDE DEF len, rc
<1>7. len \in 0 .. 63 /\ len \in Nat
  <2>1. len \in Nat
    BY <1>2, OctetIsNat
  <2> QED BY <1>6, <2>1
<1>8. 64 * rc + len \in Octet
  <2>1. \A r \in 0 .. 3, l \in 0 .. 63 : 64 * r + l \in 0 .. 255
    OBVIOUS
  <2>2. 64 * rc + len \in 0 .. 255
    BY ONLY <1>2, <1>7, <2>1
  <2> QED BY ONLY <2>2 DEF Octet
<1>9. LeadOf(fd, flag) \in Seq(Octet) /\ Len(LeadOf(fd, flag)) = IF flag = PRESENT THEN 1 ELSE 0
  <2> DEFINE octet == 64 * rc + len
  <2>1. octet \in Octet
    BY <1>8
  <2>2. LeadOf(fd, flag) = IF flag = PRESENT THEN <<octet>> ELSE << >>
    BY DEF LeadOf, rc, len
  <2> HIDE DEF octet
  <2>3. <<octet>> \in Seq(Octet) /\ Len(<<octet>>) = 1 /\ << >> \in Seq(Octet) /\ Len(<< >>) = 0
    BY <2>1
  <2> QED BY <2>2, <2>3
<1>10. MetadataOf(fd, flag) \in Seq(Octet) /\ Len(MetadataOf(fd, flag)) = len
  <2>1. CASE flag = PRESENT
    <3>1. PointsTo(fd.segment_metadata, len) /\ (fd.segment_metadata # Null \/ len = 0)
      BY <1>6, <2>1 DEF len
    <3> DEFINE pointer == fd.segment_metadata
    <3>2. pointer \in Pointer /\ PointsTo(pointer, len) /\ (pointer # Null \/ len = 0)
      BY <1>2, <3>1
    <3>3. MetadataOf(fd, flag) = Copied(pointer, len)
      BY <2>1 DEF MetadataOf, len
    <3> HIDE DEF pointer
    <3>4. Copied(pointer, len) \in Seq(Octet) /\ Len(Copied(pointer, len)) = len
      BY ONLY <1>7, <3>2, CopiedType
    <3> QED BY <3>3, <3>4
  <2>2. CASE flag # PRESENT
    <3>1. MetadataOf(fd, flag) = << >> /\ len = 0
      BY <1>6, <2>2 DEF MetadataOf
    <3> QED BY <3>1
  <2> QED BY <2>1, <2>2
<1>11. before = LeadOf(fd, flag) \o MetadataOf(fd, flag)
  <2>1. CASE flag = PRESENT
    BY <2>1 DEF SegmentMetadataWrite, LeadOf, MetadataOf
  <2>2. CASE flag # PRESENT
    <3>1. LeadOf(fd, flag) = << >> /\ MetadataOf(fd, flag) = << >> /\ before = << >>
      BY <2>2 DEF LeadOf, MetadataOf
    <3>2. << >> \o << >> = << >>
      OBVIOUS
    <3> HIDE DEF before
    <3> QED BY <3>1, <3>2
  <2> QED BY <2>1, <2>2
<1> HIDE DEF before
<1>12. FileDataSerialize(fd, large, flag, bufLen)
         = LeadOf(fd, flag) \o MetadataOf(fd, flag) \o OffsetOf(fd, large) \o DataOf(fd)
  BY <1>1, <1>11
<1> QED BY <1>1, <1>2, <1>3, <1>4, <1>5, <1>6, <1>7, <1>9, <1>10, <1>12 DEF len, rc

(* What is written is octets, whether there is something or not.           *)
LEMMA FileDataSerializeType ==
  ASSUME NEW fd \in FileData, NEW large \in {0, 1}, NEW flag \in {ABSENT, PRESENT},
         NEW bufLen \in Nat,
         PointsTo(fd.segment_metadata, fd.segment_metadata_len),
         PointsTo(fd.file_data, fd.file_data_len)
  PROVE  FileDataSerialize(fd, large, flag, bufLen) \in Seq(Octet)
<1> DEFINE octets == FileDataSerialize(fd, large, flag, bufLen)
           lead == LeadOf(fd, flag)
           metadata == MetadataOf(fd, flag)
           offset == OffsetOf(fd, large)
           data == DataOf(fd)
<1>1. CASE octets = << >>
  BY <1>1
<1>2. CASE octets # << >>
  <2>1. /\ lead \in Seq(Octet) /\ metadata \in Seq(Octet) /\ offset \in Seq(Octet)
        /\ data \in Seq(Octet) /\ octets = lead \o metadata \o offset \o data
    BY <1>2, FileDataParts, ZenonT(60)
  <2> HIDE DEF lead, metadata, offset, data, octets
  <2> DEFINE one == lead \o metadata
             two == one \o offset
             all == two \o data
  <2>2. one \in Seq(Octet)
    BY ONLY <2>1, ConcatProperties
  <2> HIDE DEF one
  <2>3. two \in Seq(Octet)
    BY ONLY <2>1, <2>2, ConcatProperties
  <2> HIDE DEF two
  <2>4. all \in Seq(Octet)
    BY ONLY <2>1, <2>3, ConcatProperties
  <2>5. octets = all
    BY <2>1 DEF one, two
  <2> QED BY <2>4, <2>5 DEF octets
<1> QED BY <1>1, <1>2

(* A data field that was written is decoded as what was asked for, as it   *)
(* travels, whatever was in the structure it is decoded into.              *)
LEMMA FileDataRoundTrip ==
  ASSUME NEW fd \in FileData, NEW large \in {0, 1}, NEW flag \in {ABSENT, PRESENT},
         NEW bufLen \in Nat, NEW old \in FileData,
         PointsTo(fd.segment_metadata, fd.segment_metadata_len),
         PointsTo(fd.file_data, fd.file_data_len),
         FileDataSerialize(fd, large, flag, bufLen) # << >>
  PROVE  LET octets == FileDataSerialize(fd, large, flag, bufLen)
             file == FileDataDeserialize(octets, large, flag, old)
         IN /\ file.ret # 0
            /\ file.pdu = FileDataOnWire(fd, large, flag)
<1>0. /\ SegmentMetadataConsistent(fd, flag)
      /\ fd.segment_metadata_len \in 0 .. 63 /\ fd.record_continuation \in 0 .. 3
      /\ flag # PRESENT => fd.segment_metadata_len = 0
      /\ flag = PRESENT => fd.segment_metadata # Null \/ fd.segment_metadata_len = 0
      /\ fd.file_data # Null \/ fd.file_data_len = 0
      /\ LeadOf(fd, flag) \in Seq(Octet)
      /\ Len(LeadOf(fd, flag)) = IF flag = PRESENT THEN 1 ELSE 0
      /\ MetadataOf(fd, flag) \in Seq(Octet)
      /\ Len(MetadataOf(fd, flag)) = fd.segment_metadata_len
      /\ OffsetOf(fd, large) \in Seq(Octet)
      /\ Len(OffsetOf(fd, large)) = FileSizeOctets(large)
      /\ DataOf(fd) \in Seq(Octet) /\ Len(DataOf(fd)) = fd.file_data_len
      /\ FileDataSerialize(fd, large, flag, bufLen)
           = LeadOf(fd, flag) \o MetadataOf(fd, flag) \o OffsetOf(fd, large) \o DataOf(fd)
  BY FileDataParts
<1> DEFINE len == fd.segment_metadata_len
           rc == fd.record_continuation
           size == fd.file_data_len
           lead == LeadOf(fd, flag)
           metadata == MetadataOf(fd, flag)
           offset == OffsetOf(fd, large)
           data == DataOf(fd)
           octets == FileDataSerialize(fd, large, flag, bufLen)
           width == FileSizeOctets(large)
           start == IF flag = PRESENT THEN 1 ELSE 0
           reset == [old EXCEPT !.record_continuation = 0, !.segment_metadata = Null,
                                !.segment_metadata_len = 0]
           read == IF flag = PRESENT
                   THEN SegmentMetadataRead(octets, reset)
                   ELSE [ret |-> 0, pdu |-> reset]
           file == FileDataDeserialize(octets, large, flag, old)
           told == IF len > 0 THEN PointerTo(metadata) ELSE Null
           toldData == IF size > 0 THEN PointerTo(data) ELSE Null
           wire == FileDataOnWire(fd, large, flag)
<1>1. /\ SegmentMetadataConsistent(fd, flag)
      /\ len \in 0 .. 63 /\ rc \in 0 .. 3
      /\ flag # PRESENT => len = 0
      /\ flag = PRESENT => fd.segment_metadata # Null \/ len = 0
      /\ fd.file_data # Null \/ size = 0
      /\ lead \in Seq(Octet) /\ Len(lead) = start
      /\ metadata \in Seq(Octet) /\ Len(metadata) = len
      /\ offset \in Seq(Octet) /\ Len(offset) = width
      /\ data \in Seq(Octet) /\ Len(data) = size
      /\ octets = lead \o metadata \o offset \o data
  BY <1>0
<1>2. size \in Nat /\ width \in 1 .. 8 /\ start \in 0 .. 1
  BY FileSizeWidth DEF FileData
<1>3. /\ octets \in Seq(Octet)
      /\ Len(octets) = start + len + width + size
      /\ Slice(octets, 0, start) = lead
      /\ Slice(octets, start, start + len) = metadata
      /\ Slice(octets, start + len, start + len + width) = offset
      /\ Slice(octets, start + len + width, Len(octets)) = data
  <2> DEFINE none == << >>
             joined == lead \o metadata \o offset \o data \o none
             whole == lead \o metadata \o offset \o data
  <2>1. /\ lead \in Seq(Octet) /\ metadata \in Seq(Octet) /\ offset \in Seq(Octet)
        /\ data \in Seq(Octet) /\ none \in Seq(Octet)
    BY <1>1
  <2>0. Len(none) = 0
    OBVIOUS
  <2>2. octets \in Seq(Octet) /\ octets = whole
    BY <1>1, FileDataSerializeType
  <2>3. joined = octets
    <3>1. joined = whole \o << >>
      OBVIOUS
    <3>2. octets \o << >> = octets
      BY <2>2, ConcatEmptySeq
    <3> HIDE DEF joined, octets, whole
    <3> QED BY <2>2, <3>1, <3>2
  <2> HIDE DEF none, lead, metadata, offset, data
  <2>4. /\ Len(joined) = ((Len(lead) + Len(metadata)) + Len(offset)) + Len(data) + Len(none)
        /\ Slice(joined, 0, Len(lead)) = lead
        /\ Slice(joined, Len(lead), Len(lead) + Len(metadata)) = metadata
        /\ Slice(joined, Len(lead) + Len(metadata),
                 (Len(lead) + Len(metadata)) + Len(offset)) = offset
        /\ Slice(joined, (Len(lead) + Len(metadata)) + Len(offset),
                 ((Len(lead) + Len(metadata)) + Len(offset)) + Len(data)) = data
    BY ONLY <2>1, PartsApart
  <2> HIDE DEF joined, octets, whole, len, size, width, start
  <2>5. Len(lead) = start /\ Len(metadata) = len /\ Len(offset) = width /\ Len(data) = size
    BY <1>1
  <2>6. /\ Len(octets) = ((start + len) + width) + size + 0
        /\ Slice(octets, 0, start) = lead
        /\ Slice(octets, start, start + len) = metadata
        /\ Slice(octets, start + len, start + len + width) = offset
        /\ Slice(octets, start + len + width, ((start + len) + width) + size) = data
    BY <2>0, <2>3, <2>4, <2>5
  <2>7. ((start + len) + width) + size + 0 = ((start + len) + width) + size
        /\ ((start + len) + width) + size = start + len + width + size
    BY <1>1, <1>2
  <2> QED BY <2>2, <2>6, <2>7
<1> HIDE DEF octets, metadata, offset, data
<1>4. reset \in FileData
  <2>1. Null \in Pointer /\ 0 \in Octet /\ 0 \in 0 .. 3
    BY DEF Null, Pointer, Octet
  <2> QED BY <2>1 DEF FileData
<1>5. told \in Pointer /\ toldData \in Pointer
  BY <1>1, PointerToType
<1> DEFINE got == [reset EXCEPT !.record_continuation = IF flag = PRESENT THEN rc ELSE 0,
                                !.segment_metadata = told,
                                !.segment_metadata_len = len]
<1>6. read.ret = start + len /\ read.pdu = got /\ (flag = PRESENT => read.ret # 0)
  <2>1. CASE flag # PRESENT
    <3>1. read.ret = 0 /\ read.pdu = reset /\ len = 0 /\ start = 0 /\ told = Null
      BY <1>1, <2>1
    <3>2. got = reset
      <4>1. /\ reset.record_continuation = 0 /\ reset.segment_metadata = Null
            /\ reset.segment_metadata_len = 0
        BY DEF FileData
      <4> HIDE DEF reset, told, len
      <4>2. got = [reset EXCEPT !.record_continuation = 0, !.segment_metadata = Null,
                                !.segment_metadata_len = 0]
        BY <2>1, <3>1
      <4> QED BY <1>4, <4>1, <4>2 DEF FileData
    <3> QED BY <2>1, <3>1, <3>2
  <2>2. CASE flag = PRESENT
    <3>1. start = 1 /\ Len(octets) \in Nat /\ Len(octets) >= len + 1 /\ Len(octets) >= 1
      <4>1. start = 1
        BY <2>2
      <4> HIDE DEF len, size, width, start
      <4> QED BY <1>1, <1>2, <1>3, <4>1
    <3>2. At(octets, 0) = 64 * rc + len
      <4>1. 0 \in Nat /\ 1 \in Nat /\ 0 <= 1 /\ 1 <= Len(octets) /\ 0 < 1 - 0 /\ 0 + 0 = 0
        BY <3>1
      <4>2. At(Slice(octets, 0, 1), 0) = At(octets, 0 + 0)
        BY <1>3, <4>1, SliceAt
      <4>3. At(lead, 0) = 64 * rc + len
        BY <2>2 DEF LeadOf, At
      <4>4. Slice(octets, 0, 1) = lead
        BY <1>3, <3>1
      <4> HIDE DEF lead, len, rc
      <4> QED BY <4>1, <4>2, <4>3, <4>4
    <3>3. At(octets, 0) % 64 = len /\ At(octets, 0) \div 64 = rc
      <4>1. \A r \in 0 .. 3, l \in 0 .. 63 : (64 * r + l) % 64 = l /\ (64 * r + l) \div 64 = r
        OBVIOUS
      <4> HIDE DEF len, rc
      <4>2. (64 * rc + len) % 64 = len /\ (64 * rc + len) \div 64 = rc
        BY <1>1, <4>1, ZenonT(60)
      <4> QED BY <3>2, <4>2
    <3>4. Slice(octets, 1, len + 1) = metadata
      <4>1. len + 1 = 1 + len
        BY <1>1
      <4> HIDE DEF len
      <4> QED BY <1>3, <3>1, <4>1
    <3> DEFINE announced == [reset EXCEPT !.record_continuation = rc, !.segment_metadata_len = len]
    <3>5. read = [ret |-> len + 1, pdu |-> [announced EXCEPT !.segment_metadata = told]]
      <4>1. read = SegmentMetadataRead(octets, reset)
        BY <2>2
      <4> HIDE DEF read, reset, len, rc, start
      <4>2. ~(Len(octets) < 1) /\ ~(Len(octets) < len + 1)
        BY <1>1, <3>1
      <4> QED BY <3>3, <3>4, <4>1, <4>2 DEF SegmentMetadataRead
    <3>6. [announced EXCEPT !.segment_metadata = told] = got
      <4> HIDE DEF reset, told
      <4> QED BY <1>4, <2>2 DEF FileData
    <3> HIDE DEF read, got, announced, len
    <3>7. len + 1 = 1 + len /\ len + 1 # 0
      BY <1>1
    <3> QED BY <3>1, <3>5, <3>6, <3>7
  <2> QED BY <2>1, <2>2
<1> DEFINE final == [got EXCEPT !.offset = ReadUint(offset), !.file_data = toldData,
                                !.file_data_len = size]
<1>7. file = [ret |-> Len(octets), pdu |-> final]
  <2> DEFINE at == read.ret + width
  <2>1. at = start + len + width
    BY <1>6
  <2>2. ~(Len(octets) < at) /\ Len(octets) - at = size /\ (Len(octets) > at <=> size > 0)
    <3> HIDE DEF len, size, width, start, at
    <3> QED BY <1>1, <1>2, <1>3, <2>1
  <2>3. Slice(octets, read.ret, at) = offset /\ Slice(octets, at, Len(octets)) = data
    <3> HIDE DEF len, size, width, start, at
    <3> QED BY <1>3, <1>6, <2>1
  <2>4. file = IF (flag = PRESENT /\ read.ret = 0) \/ Len(octets) < at
               THEN [ret |-> 0, pdu |-> read.pdu]
               ELSE [ret |-> Len(octets),
                     pdu |-> [read.pdu EXCEPT
                               !.offset = ReadUint(Slice(octets, read.ret, at)),
                               !.file_data = IF Len(octets) > at
                                             THEN PointerTo(Slice(octets, at, Len(octets)))
                                             ELSE Null,
                               !.file_data_len = Len(octets) - at]]
    BY DEF FileDataDeserialize
  <2> HIDE DEF at, read, got, file, size, len, start
  <2> QED BY <1>6, <2>2, <2>3, <2>4
<1>8. ReadUint(offset) \in UInt64
  <2>1. Len(offset) <= 8
    BY <1>1, <1>2, SMTT(40)
  <2> QED BY <1>1, <2>1, ReadUintType
<1>9. /\ final.record_continuation = IF flag = PRESENT THEN rc ELSE 0
      /\ final.segment_metadata = told /\ final.segment_metadata_len = len
      /\ final.offset = ReadUint(offset) /\ final.file_data = toldData
      /\ final.file_data_len = size
  <2> HIDE DEF told, toldData
  <2> QED BY DEF FileData
<1>10. len \in Octet
  BY DEF FileData
<1>11. final \in FileData
  <2> DEFINE state == IF flag = PRESENT THEN rc ELSE 0
             number == ReadUint(offset)
  <2>1. state \in 0 .. 3 /\ size \in Nat /\ number \in UInt64
    BY <1>1, <1>2, <1>8
  <2>2. /\ got = [reset EXCEPT !.record_continuation = state, !.segment_metadata = told,
                                !.segment_metadata_len = len]
        /\ final = [got EXCEPT !.offset = number, !.file_data = toldData,
                               !.file_data_len = size]
    OBVIOUS
  <2> HIDE DEF told, toldData, len, rc, size, reset, state, got, final, number
  <2>3. got \in FileData
    BY <1>4, <1>5, <1>10, <2>1, <2>2 DEF FileData
  <2> QED BY <1>5, <2>1, <2>2, <2>3 DEF FileData
<1>12. /\ wire.record_continuation = IF flag = PRESENT THEN rc ELSE 0
       /\ wire.segment_metadata = told /\ wire.segment_metadata_len = len
       /\ wire.offset = ReadUint(offset) /\ wire.file_data = toldData
       /\ wire.file_data_len = size
  <2>1. told = IF fd.segment_metadata = Null \/ len = 0 THEN Null
               ELSE PointerTo(Copied(fd.segment_metadata, len))
    <3>1. CASE flag = PRESENT
      BY <1>1, <3>1 DEF metadata, MetadataOf
    <3>2. CASE flag # PRESENT
      BY <1>1, <3>2
    <3> QED BY <3>1, <3>2
  <2>2. toldData = IF fd.file_data = Null \/ size = 0 THEN Null
                   ELSE PointerTo(Copied(fd.file_data, size))
    BY <1>1, <1>2 DEF data, DataOf
  <2>3. ReadUint(offset) = Truncated(fd.offset, width)
    BY DEF offset, OffsetOf, Truncated
  <2>4. told = Told(fd.segment_metadata, len) /\ toldData = Told(fd.file_data, size)
    BY <2>1, <2>2 DEF Told
  <2> HIDE DEF told, toldData
  <2> QED BY <2>3, <2>4 DEF FileDataOnWire, FileData
<1>13. wire \in FileData
  <2>1. wire = [fd EXCEPT !.record_continuation = wire.record_continuation,
                          !.segment_metadata = wire.segment_metadata,
                          !.offset = wire.offset, !.file_data = wire.file_data]
    BY DEF FileDataOnWire, FileData
  <2>2. wire.record_continuation \in 0 .. 3
    BY <1>1, <1>12
  <2>3. wire.segment_metadata \in Pointer /\ wire.offset \in UInt64 /\ wire.file_data \in Pointer
    BY <1>5, <1>8, <1>12
  <2> HIDE DEF wire
  <2> QED BY <2>1, <2>2, <2>3 DEF FileData
<1> HIDE DEF final, wire
<1>14. final = wire
  BY <1>9, <1>11, <1>12, <1>13, FileDataEqual
<1>15. Len(octets) # 0
  <2> HIDE DEF len, size, width, start
  <2> QED BY <1>1, <1>2, <1>3
<1> QED BY <1>7, <1>14, <1>15 DEF octets, wire

-----------------------------------------------------------------------------
(* The CRC                                                                 *)

-----------------------------------------------------------------------------
(* Bits and octets                                                         *)

(* An octet tells the bits that it was made of.                            *)
LEMMA BitsOfOctetWith ==
  ASSUME NEW bits
  PROVE  BitsOf(OctetWith(bits)) = bits \cap (0 .. 7)
<1> DEFINE Bit(k) == IF k \in bits THEN 1 ELSE 0
           sum == Bit(0) + 2 * Bit(1) + 4 * Bit(2) + 8 * Bit(3) + 16 * Bit(4)
                    + 32 * Bit(5) + 64 * Bit(6) + 128 * Bit(7)
<1>1. OctetWith(bits) = sum
  BY DEF OctetWith, BitValue
<1>2. \A k \in 0 .. 7 : Bit(k) \in {0, 1} /\ (Bit(k) = 1 <=> k \in bits)
  OBVIOUS
<1>3. \A a, b, c, d, e, f, g, h \in {0, 1} :
        LET o == a + 2 * b + 4 * c + 8 * d + 16 * e + 32 * f + 64 * g + 128 * h
        IN /\ (o \div 1) % 2 = a /\ (o \div 2) % 2 = b /\ (o \div 4) % 2 = c
           /\ (o \div 8) % 2 = d /\ (o \div 16) % 2 = e /\ (o \div 32) % 2 = f
           /\ (o \div 64) % 2 = g /\ (o \div 128) % 2 = h
  OBVIOUS
<1> HIDE DEF Bit
<1>4. /\ (sum \div 1) % 2 = Bit(0) /\ (sum \div 2) % 2 = Bit(1) /\ (sum \div 4) % 2 = Bit(2)
      /\ (sum \div 8) % 2 = Bit(3) /\ (sum \div 16) % 2 = Bit(4)
      /\ (sum \div 32) % 2 = Bit(5) /\ (sum \div 64) % 2 = Bit(6)
      /\ (sum \div 128) % 2 = Bit(7)
  BY <1>2, <1>3
<1> HIDE DEF sum
<1>5. \A k \in 0 .. 7 : (sum \div BitValue[k + 1]) % 2 = Bit(k)
  <2>1. /\ BitValue[0 + 1] = 1 /\ BitValue[1 + 1] = 2 /\ BitValue[2 + 1] = 4
        /\ BitValue[3 + 1] = 8 /\ BitValue[4 + 1] = 16 /\ BitValue[5 + 1] = 32
        /\ BitValue[6 + 1] = 64 /\ BitValue[7 + 1] = 128
    BY DEF BitValue
  <2>2. \A k \in 0 .. 7 : k = 0 \/ k = 1 \/ k = 2 \/ k = 3 \/ k = 4 \/ k = 5 \/ k = 6 \/ k = 7
    OBVIOUS
  <2> QED BY <1>4, <2>1, <2>2
<1>6. \A k \in 0 .. 7 : (sum \div BitValue[k + 1]) % 2 = 1 <=> k \in bits
  BY <1>2, <1>5
<1> QED BY <1>1, <1>6 DEF BitsOf

(* The two octets of the CRC tell the register.                            *)
LEMMA PairTells ==
  ASSUME NEW crc \in SUBSET (0 .. 15)
  PROVE  BitsOfPair(PairWith(crc)) = crc
<1> DEFINE high == {k - 8 : k \in {j \in crc : j >= 8}}
           low == {k \in crc : k < 8}
           pair == PairWith(crc)
<1>1. pair[1] = OctetWith(high) /\ pair[2] = OctetWith(low)
  BY DEF PairWith
<1>2. BitsOf(pair[1]) = high \cap (0 .. 7) /\ BitsOf(pair[2]) = low \cap (0 .. 7)
  BY <1>1, BitsOfOctetWith
<1> HIDE DEF pair
<1>3. high \cap (0 .. 7) = high /\ low \cap (0 .. 7) = low
  <2>1. \A k \in high : k \in 0 .. 7
    OBVIOUS
  <2>2. \A k \in low : k \in 0 .. 7
    OBVIOUS
  <2> HIDE DEF high, low
  <2> QED BY <2>1, <2>2
<1>4. BitsOfPair(pair) = low \cup {k + 8 : k \in high}
  BY <1>2, <1>3 DEF BitsOfPair
<1>5. {k + 8 : k \in high} = {j \in crc : j >= 8}
  <2>1. ASSUME NEW j \in crc, j >= 8 PROVE \E k \in high : k + 8 = j
    <3>1. j - 8 \in high /\ (j - 8) + 8 = j
      BY <2>1
    <3> QED BY <3>1
  <2>2. \A k \in high : k + 8 \in crc /\ k + 8 >= 8
    OBVIOUS
  <2> QED BY <2>1, <2>2
<1>6. \A j \in crc : j < 8 \/ j >= 8
  OBVIOUS
<1> HIDE DEF high
<1>7. BitsOfPair(pair) = crc
  BY <1>4, <1>5, <1>6
<1> QED BY <1>7 DEF pair

(* The bits of an octet are of its width.                                  *)
LEMMA BitsOfType ==
  ASSUME NEW octet
  PROVE  BitsOf(octet) \in SUBSET (0 .. 7)
BY DEF BitsOf

-----------------------------------------------------------------------------
(* The CRC                                                                 *)

(* Shifting and adding keep the register's width.                          *)
LEMMA ShiftBitType ==
  ASSUME NEW crc \in SUBSET (0 .. 15)
  PROVE  Crc16!ShiftBit(crc) \in SUBSET (0 .. 15)
<1>1. {k + 1 : k \in crc \ {16 - 1}} \in SUBSET (0 .. 15)
  OBVIOUS
<1>2. (IF 16 - 1 \in crc THEN {12, 5, 0} ELSE {}) \in SUBSET (0 .. 15)
  OBVIOUS
<1>3. \A a, b \in SUBSET (0 .. 15) : Crc16!Xor(a, b) \in SUBSET (0 .. 15)
  BY DEF Crc16!Xor
<1> QED BY <1>1, <1>2, <1>3 DEF Crc16!ShiftBit

(* So does adding an octet to its high end.                                *)
LEMMA XorOctetType ==
  ASSUME NEW crc \in SUBSET (0 .. 15), NEW octet \in SUBSET (0 .. 7)
  PROVE  Crc16!XorOctet(crc, octet) \in SUBSET (0 .. 15)
<1>1. Crc16!AtTop(octet) \in SUBSET (0 .. 15)
  BY DEF Crc16!AtTop
<1>2. \A a, b \in SUBSET (0 .. 15) : Crc16!Xor(a, b) \in SUBSET (0 .. 15)
  BY DEF Crc16!Xor
<1> QED BY <1>1, <1>2 DEF Crc16!XorOctet

(* And so do eight shifts.                                                 *)
LEMMA ShiftBitsType ==
  ASSUME NEW crc \in SUBSET (0 .. 15)
  PROVE  Crc16!ShiftBits[crc] \in SUBSET (0 .. 15)
<1> DEFINE Registers == SUBSET (0 .. 15)
           Step(s) == Crc16!ShiftBit(s)
           step == [x \in Registers \X (1 .. 8) |-> Step(x[1])]
           Turn(g) == [n \in 0 .. 8 |-> IF n = 0 THEN crc ELSE Step(g[n - 1])]
           after == CHOOSE g : g = Turn(g)
<1>1. Crc16!ShiftBits[crc] = after[8]
  BY DEF Crc16!ShiftBits, Crc16!Register, Crc16!RegPositions
<1>2. \A s \in Registers : Step(s) \in Registers
  BY ShiftBitType
<1> HIDE DEF Step, Registers
<1>3. step \in [Registers \X (1 .. 8) -> Registers]
  BY <1>2
<1>4. crc \in Registers /\ 8 \in Nat
  BY DEF Registers
<1>5. PICK f \in [0 .. 8 -> Registers] : Accumulates(8, crc, step, f)
  <2> HIDE DEF step
  <2> QED BY ONLY <1>3, <1>4, Recursion
<1>6. f = Turn(f)
  <2>1. ASSUME NEW n \in 0 .. 8 PROVE f[n] = IF n = 0 THEN crc ELSE Step(f[n - 1])
    <3>1. CASE n = 0
      BY <1>5, <3>1 DEF Accumulates
    <3>2. CASE n # 0
      <4>1. n \in 1 .. 8 /\ n - 1 \in 0 .. 8
        BY <3>2
      <4>2. f[n] = step[<<f[n - 1], n>>] /\ <<f[n - 1], n>> \in Registers \X (1 .. 8)
        BY <1>5, <4>1 DEF Accumulates
      <4> QED BY <3>2, <4>2
    <3> QED BY <3>1, <3>2
  <2>2. f = [n \in 0 .. 8 |-> f[n]]
    BY <1>5
  <2> QED BY <2>1, <2>2
<1>7. after = Turn(after)
  <2> HIDE DEF Turn
  <2> QED BY <1>6
<1> HIDE DEF after
<1>8. \A n \in 0 .. 8 : after[n] = IF n = 0 THEN crc ELSE Step(after[n - 1])
  BY <1>7
<1> DEFINE T == {n \in 0 .. 8 : after[n] \in Registers}
<1>9. 0 \in T
  BY <1>4, <1>8
<1>10. ASSUME NEW n \in 0 .. 8, n \in T, n < 8
       PROVE  n + 1 \in T
  <2>1. n + 1 \in 0 .. 8 /\ n + 1 # 0 /\ (n + 1) - 1 = n
    BY <1>10
  <2>2. after[n + 1] = Step(after[n])
    BY <1>8, <2>1
  <2> QED BY <1>2, <1>10, <2>1, <2>2
<1>11. 0 .. 8 \subseteq T
  <2> HIDE DEF T
  <2> QED BY <1>4, <1>9, <1>10, BoundedInduction
<1>12. 8 \in 0 .. 8
  OBVIOUS
<1> QED BY <1>1, <1>11, <1>12 DEF Registers

(* The CRC of any octets is a register.                                    *)
LEMMA CrcComputeType ==
  ASSUME NEW data \in Seq(SUBSET (0 .. 7))
  PROVE  Crc16!CrcCompute(data) \in SUBSET (0 .. 15)
<1> DEFINE Registers == SUBSET (0 .. 15)
           len == Len(data)
           preset == 0 .. 16 - 1
           Step(s, n) == Crc16!ShiftBits[Crc16!XorOctet(s, data[n])]
           step == [x \in Registers \X (1 .. len) |-> Step(x[1], x[2])]
           Turn(g) == [n \in 0 .. len |-> IF n = 0 THEN preset ELSE Step(g[n - 1], n)]
           after == CHOOSE g : g = Turn(g)
<1>1. Crc16!CrcCompute(data) = after[len]
  BY DEF Crc16!CrcCompute, Crc16!CrcUpdate, Crc16!Preset, Crc16!RegPositions
<1>2. len \in Nat /\ preset \in Registers
  BY LenProperties
<1>3. ASSUME NEW s \in Registers, NEW n \in 1 .. len PROVE Step(s, n) \in Registers
  <2>1. data[n] \in SUBSET (0 .. 7)
    BY ElementOfSeq
  <2>2. Crc16!XorOctet(s, data[n]) \in SUBSET (0 .. 15)
    BY <2>1, XorOctetType
  <2> QED BY <2>2, ShiftBitsType
<1> HIDE DEF Step, Registers, preset, len
<1>4. step \in [Registers \X (1 .. len) -> Registers]
  BY <1>3
<1>5. PICK f \in [0 .. len -> Registers] : Accumulates(len, preset, step, f)
  <2> HIDE DEF step
  <2> QED BY ONLY <1>2, <1>4, Recursion
<1>6. f = Turn(f)
  <2>1. ASSUME NEW n \in 0 .. len PROVE f[n] = IF n = 0 THEN preset ELSE Step(f[n - 1], n)
    <3>1. CASE n = 0
      BY <1>5, <3>1 DEF Accumulates
    <3>2. CASE n # 0
      <4>1. n \in 1 .. len /\ n - 1 \in 0 .. len
        BY <1>2, <3>2
      <4>2. f[n] = step[<<f[n - 1], n>>] /\ <<f[n - 1], n>> \in Registers \X (1 .. len)
        BY <1>5, <4>1 DEF Accumulates
      <4> QED BY <3>2, <4>2
    <3> QED BY <3>1, <3>2
  <2>2. f = [n \in 0 .. len |-> f[n]]
    BY <1>5
  <2> QED BY <2>1, <2>2
<1>7. after = Turn(after)
  <2> HIDE DEF Turn
  <2> QED BY <1>6
<1> HIDE DEF after
<1>8. \A n \in 0 .. len : after[n] = IF n = 0 THEN preset ELSE Step(after[n - 1], n)
  BY <1>7
<1> DEFINE T == {n \in 0 .. len : after[n] \in Registers}
<1>9. 0 \in T
  BY <1>2, <1>8
<1>10. ASSUME NEW n \in 0 .. len, n \in T, n < len
       PROVE  n + 1 \in T
  <2>1. n + 1 \in 0 .. len /\ n + 1 \in 1 .. len /\ n + 1 # 0 /\ (n + 1) - 1 = n
    BY <1>2, <1>10
  <2>2. after[n + 1] = Step(after[n], n + 1)
    BY <1>8, <2>1
  <2> QED BY <1>3, <1>10, <2>1, <2>2
<1>11. 0 .. len \subseteq T
  <2> HIDE DEF T
  <2> QED BY <1>2, <1>9, <1>10, BoundedInduction
<1>12. len \in 0 .. len
  BY <1>2
<1> QED BY <1>1, <1>11, <1>12 DEF Registers

(* The CRC of octets is a register of 16 bits.                             *)
LEMMA CrcOfType ==
  ASSUME NEW octets \in Seq(Octet)
  PROVE  CrcOf(octets) \in SUBSET (0 .. 15)
<1> DEFINE data == [i \in DOMAIN octets |-> BitsOf(octets[i])]
<1>1. data \in Seq(SUBSET (0 .. 7))
  <2>1. DOMAIN octets = 1 .. Len(octets) /\ Len(octets) \in Nat
    BY LenProperties
  <2>2. \A i \in 1 .. Len(octets) : BitsOf(octets[i]) \in SUBSET (0 .. 7)
    BY BitsOfType
  <2>3. data \in [1 .. Len(octets) -> SUBSET (0 .. 7)]
    BY <2>1, <2>2
  <2> HIDE DEF data
  <2> QED BY <2>1, <2>3
<1> HIDE DEF data
<1>2. Crc16!CrcCompute(data) \in SUBSET (0 .. 15)
  BY <1>1, CrcComputeType
<1> QED BY <1>2 DEF CrcOf, data

-----------------------------------------------------------------------------
(* A PDU: header, payload and CRC                                          *)

(* The front of a buffer put together from two parts.                      *)
LEMMA SliceOfFront ==
  ASSUME NEW front \in Seq(Octet), NEW back \in Seq(Octet)
  PROVE  Slice(front \o back, 0, Len(front)) = front
<1> DEFINE none == << >>
           two == none \o front
<1>1. none \in Seq(Octet) /\ Len(none) = 0 /\ two = front /\ Len(front) \in Nat
  BY ConcatEmptySeq, LenProperties
<1> HIDE DEF none
<1>2. Slice((none \o front) \o back, Len(none), Len(none) + Len(front)) = front
  BY ONLY <1>1, front \in Seq(Octet), back \in Seq(Octet), SliceOfConcat
<1>3. 0 + Len(front) = Len(front)
  BY <1>1
<1> HIDE DEF two
<1>4. Slice(two \o back, 0, 0 + Len(front)) = front
  BY <1>1, <1>2 DEF two
<1> QED BY <1>1, <1>3, <1>4

(* What is in front of what was copied, and that itself.                   *)
LEMMA OverlayFront ==
  ASSUME NEW buf \in Seq(Octet), NEW from \in Nat, NEW octets \in Seq(Octet),
         from + Len(octets) <= Len(buf)
  PROVE  Slice(Overlay(buf, from, octets), 0, from + Len(octets))
           = Slice(buf, 0, from) \o octets
<1> DEFINE front == Slice(buf, 0, from)
           end == from + Len(octets)
           back == Slice(buf, end, Len(buf))
           two == front \o octets
<1>1. Len(buf) \in Nat /\ Len(octets) \in Nat /\ end \in Nat /\ end <= Len(buf) /\ from <= Len(buf)
  BY LenProperties
<1>2. front \in Seq(Octet) /\ Len(front) = from
  BY <1>1, SliceType
<1>3. back \in Seq(Octet)
  <2> DEFINE len == Len(buf)
  <2>1. len \in Nat /\ end \in Nat /\ end <= len /\ len <= Len(buf)
    BY <1>1
  <2> HIDE DEF len, end
  <2>2. Slice(buf, end, len) \in Seq(Octet)
    BY ONLY buf \in Seq(Octet), <2>1, SliceType
  <2> QED BY <2>2 DEF len
<1> HIDE DEF front, back
<1>4. two \in Seq(Octet) /\ Len(two) = end
  BY <1>2, ConcatProperties
<1>5. Overlay(buf, from, octets) = two \o back
  BY DEF Overlay, front, back
<1> HIDE DEF two, end
<1>6. Slice(two \o back, 0, Len(two)) = two
  BY ONLY <1>3, <1>4, SliceOfFront
<1>7. Slice(Overlay(buf, from, octets), 0, end) = two
  BY <1>4, <1>5, <1>6
<1> QED BY <1>7 DEF two, end, front

(* What cfdp_pdu_header_serialize writes is as long as it says.            *)
LEMMA HeaderSerializeType ==
  ASSUME NEW hdr \in Header, NEW bufLen \in Nat
  PROVE  /\ HeaderSerialize(hdr, bufLen) \in Seq(Octet)
         /\ HeaderSerialize(hdr, bufLen) # << >> =>
              /\ Len(HeaderSerialize(hdr, bufLen)) = HeaderSize(hdr)
              /\ HeaderSize(hdr) \in Nat \ {0} /\ HeaderSize(hdr) <= bufLen
              /\ IdLenValid(hdr.entity_id_length) /\ IdLenValid(hdr.transaction_seq_length)
<1>1. CASE HeaderSerialize(hdr, bufLen) = << >>
  BY <1>1
<1>2. CASE HeaderSerialize(hdr, bufLen) # << >>
  <2> DEFINE fixed == <<PackOctet0(hdr), hdr.data_field_length \div 256,
                        hdr.data_field_length % 256, PackOctet3(hdr)>>
             m == hdr.entity_id_length
             n == hdr.transaction_seq_length
             source == WriteUint(hdr.source_entity_id, m)
             number == WriteUint(hdr.transaction_seq_number, n)
             destination == WriteUint(hdr.destination_entity_id, m)
             none == << >>
             joined == fixed \o source \o number \o destination \o none
             whole == fixed \o source \o number \o destination
  <2>1. /\ IdLenValid(m) /\ IdLenValid(n)
        /\ m \in 1 .. 8 /\ n \in 1 .. 8
        /\ HeaderSize(hdr) = 4 + m + n + m /\ HeaderSize(hdr) <= bufLen
        /\ fixed \in Seq(Octet) /\ Len(fixed) = 4
        /\ source \in Seq(Octet) /\ Len(source) = m
        /\ number \in Seq(Octet) /\ Len(number) = n
        /\ destination \in Seq(Octet) /\ Len(destination) = m
        /\ HeaderSerialize(hdr, bufLen) = whole
    BY <1>2, HeaderParts, SMTT(40)
  <2>2. none \in Seq(Octet)
    OBVIOUS
  <2>3. Len(none) = 0
    OBVIOUS
  <2>4. /\ fixed \in Seq(Octet) /\ source \in Seq(Octet) /\ number \in Seq(Octet)
        /\ destination \in Seq(Octet)
    BY <2>1
  <2>5. whole \in Seq(Octet) /\ joined = whole
    <3> HIDE DEF fixed, source, number, destination, m, n
    <3> DEFINE one == fixed \o source
               two == one \o number
               all == two \o destination
    <3>1. one \in Seq(Octet)
      BY ONLY <2>4, ConcatProperties
    <3> HIDE DEF one
    <3>2. two \in Seq(Octet)
      BY ONLY <2>4, <3>1, ConcatProperties
    <3> HIDE DEF two
    <3>3. all \in Seq(Octet)
      BY ONLY <2>4, <3>2, ConcatProperties
    <3> HIDE DEF all
    <3>4. all \o << >> = all
      BY <3>3, ConcatEmptySeq
    <3>5. whole = all
      BY DEF one, two, all
    <3>6. joined = whole \o << >>
      OBVIOUS
    <3> HIDE DEF joined, whole
    <3> QED BY <3>3, <3>4, <3>5, <3>6
  <2> HIDE DEF fixed, source, number, destination, none
  <2>6. Len(joined) = ((Len(fixed) + Len(source)) + Len(number)) + Len(destination) + Len(none)
    BY ONLY <2>2, <2>4, PartsApart
  <2> HIDE DEF joined, whole, m, n
  <2>7. Len(whole) = HeaderSize(hdr) /\ HeaderSize(hdr) \in Nat \ {0}
    BY <2>1, <2>3, <2>5, <2>6
  <2> QED BY <1>2, <2>1, <2>5, <2>7 DEF m, n
<1> QED BY <1>1, <1>2

(* The header on the receiver's stack.                                     *)
LEMMA LocalHeaderType == LocalHeader \in Header
<1>1. Zeros(8) \in UInt64
  BY DEF Zeros, UInt64, Octet
<1>2. 0 \in Octet /\ 0 \in UInt16 /\ 0 \in 0 .. 7
  <2>1. UINT16_MAX \in Nat
    BY DEF UINT16_MAX
  <2> QED BY <2>1 DEF Octet, UInt16
<1> QED BY <1>1, <1>2 DEF LocalHeader, Header, ABSENT, PRESENT, DIRECTIVE, FILE_DATA

(* The CRC octets of a PDU, if its header says that there are any.         *)
CrcOctets(hdr, octets) == IF hdr.crc_flag = PRESENT THEN PairWith(CrcOf(octets)) ELSE << >>

(* There are two of them or none.                                          *)
LEMMA CrcOctetsType ==
  ASSUME NEW hdr, NEW octets
  PROVE  /\ CrcOctets(hdr, octets) \in Seq(Octet)
         /\ Len(CrcOctets(hdr, octets)) = IF hdr.crc_flag = PRESENT THEN 2 ELSE 0
<1>1. PairWith(CrcOf(octets)) \in Seq(Octet) /\ Len(PairWith(CrcOf(octets))) = 2
  BY PairWithType
<1> DEFINE pair == PairWith(CrcOf(octets))
<1>2. CrcOctets(hdr, octets) = IF hdr.crc_flag = PRESENT THEN pair ELSE << >>
  BY DEF CrcOctets
<1>3. pair \in Seq(Octet) /\ Len(pair) = 2
  BY <1>1
<1> HIDE DEF pair
<1>4. << >> \in Seq(Octet) /\ Len(<< >>) = 0
  OBVIOUS
<1>5. CASE hdr.crc_flag = PRESENT
  BY <1>2, <1>3, <1>5
<1>6. CASE hdr.crc_flag # PRESENT
  BY <1>2, <1>4, <1>6
<1> QED BY <1>5, <1>6

(* What the receiver's steps make of a window that begins with a PDU.      *)
PduRead(hdr, head, payload, rest, window) ==
  LET got == HeaderDeserialize(window, LocalHeader)
  IN /\ window \in Seq(Octet)
     /\ got.ret = HeaderSize(hdr) /\ got.ret # 0
     /\ got.pdu = HeaderOnWire(hdr)
     /\ got.ret + got.pdu.data_field_length + Len(rest) = Len(window)
     /\ CrcVerify(window)
     /\ Slice(window, got.ret, got.ret + PayloadSize(got.pdu)) = payload

(* A PDU whose header counts what stands behind it is verified, and its    *)
(* payload found, whatever follows it in the window.                       *)
LEMMA PduRoundTrip ==
  ASSUME NEW hdr \in Header, NEW n \in Nat, NEW payload \in Seq(Octet),
         NEW rest \in Seq(Octet), NEW head, NEW crc, NEW window,
         head = HeaderSerialize(hdr, n), head # << >>,
         crc = CrcOctets(hdr, head \o payload),
         hdr.data_field_length = Len(payload) + Len(crc),
         window = (head \o payload \o crc) \o rest
  PROVE  PduRead(hdr, head, payload, rest, window)
<1> DEFINE start == HeaderSize(hdr)
           size == Len(payload)
           extra == Len(crc)
           none == << >>
           body == head \o payload
           got == HeaderDeserialize(window, LocalHeader)
<1>1. /\ head \in Seq(Octet) /\ Len(head) = start /\ start \in Nat \ {0}
      /\ IdLenValid(hdr.entity_id_length) /\ IdLenValid(hdr.transaction_seq_length)
  BY HeaderSerializeType
<1>2. /\ crc \in Seq(Octet) /\ extra = IF hdr.crc_flag = PRESENT THEN 2 ELSE 0
      /\ size \in Nat /\ Len(rest) \in Nat
  BY CrcOctetsType, LenProperties
<1>3. none \in Seq(Octet) /\ Len(none) = 0
  OBVIOUS
<1>4. body \in Seq(Octet) /\ Len(body) = start + size
  BY <1>1, ConcatProperties
<1>5. /\ crc \o rest \in Seq(Octet) /\ Len(crc \o rest) = extra + Len(rest)
  BY <1>2, ConcatProperties
<1>6. window = body \o (crc \o rest)
  <2>1. window = (body \o crc) \o rest
    OBVIOUS
  <2> HIDE DEF body
  <2>2. (body \o crc) \o rest = body \o (crc \o rest)
    BY ONLY <1>2, <1>4, rest \in Seq(Octet), ConcatRegroups
  <2> QED BY <2>1, <2>2
<1> DEFINE tail == crc \o rest
           after == payload \o tail
<1>7. window = head \o after /\ after \in Seq(Octet)
  <2>1. tail \in Seq(Octet)
    BY <1>5
  <2>2. window = (head \o payload) \o tail
    BY <1>6
  <2> HIDE DEF tail
  <2>3. (head \o payload) \o tail = head \o (payload \o tail)
    BY ONLY <1>1, <2>1, payload \in Seq(Octet), ConcatRegroups, SMTT(40)
  <2>4. payload \o tail \in Seq(Octet)
    BY <2>1, ConcatProperties
  <2> QED BY <2>2, <2>3, <2>4
<1>8. window \in Seq(Octet) /\ Len(window) = start + size + extra + Len(rest)
  <2>1. tail \in Seq(Octet) /\ Len(tail) = extra + Len(rest) /\ window = body \o tail
    BY <1>5, <1>6
  <2> HIDE DEF tail, body
  <2>2. body \o tail \in Seq(Octet) /\ Len(body \o tail) = Len(body) + Len(tail)
    BY ONLY <1>4, <2>1, ConcatProperties
  <2> HIDE DEF start, size, extra
  <2> DEFINE more == Len(rest)
             len == Len(window)
  <2>3. start \in Nat /\ extra \in Nat /\ size \in Nat /\ more \in Nat
    BY <1>1, <1>2
  <2>4. len = (start + size) + (extra + more)
    BY <1>4, <2>1, <2>2
  <2>5. window \in Seq(Octet)
    BY <2>1, <2>2
  <2> HIDE DEF more, len
  <2>6. len = start + size + extra + more
    BY ONLY <2>3, <2>4
  <2> QED BY <2>5, <2>6 DEF more, len
<1>9. got.ret = start /\ got.pdu = HeaderOnWire(hdr)
  <2> HIDE DEF after
  <2>1. HeaderSerialize(hdr, n) # << >> /\ after \in Seq(Octet) /\ LocalHeader \in Header
    BY <1>7, LocalHeaderType
  <2>2. LET head2 == HeaderDeserialize(HeaderSerialize(hdr, n) \o after, LocalHeader)
        IN head2.ret = HeaderSize(hdr) /\ head2.pdu = HeaderOnWire(hdr)
    BY ONLY hdr \in Header, n \in Nat, <2>1, HeaderRoundTrip
  <2> QED BY <1>7, <2>2
<1>10. /\ got.pdu.crc_flag = hdr.crc_flag
       /\ got.pdu.data_field_length = size + extra
  BY <1>9 DEF HeaderOnWire, Header
<1>11. Slice(window, 0, start + size) = body
  <2>1. tail \in Seq(Octet) /\ window = body \o tail
    BY <1>5, <1>6
  <2> HIDE DEF tail, body
  <2>2. Slice(body \o tail, 0, Len(body)) = body
    BY ONLY <1>4, <2>1, SliceOfFront
  <2> QED BY <1>4, <2>1, <2>2
<1>12. Slice(window, start, start + size) = payload
  <2>1. tail \in Seq(Octet) /\ window = (head \o payload) \o tail
    BY <1>5, <1>6
  <2> HIDE DEF tail
  <2>2. Slice((head \o payload) \o tail, Len(head), Len(head) + Len(payload)) = payload
    BY ONLY <1>1, payload \in Seq(Octet), <2>1, SliceOfConcat
  <2> QED BY <1>1, <2>1, <2>2
<1>13. Slice(window, start + size, start + size + extra) = crc
  <2>1. window = (body \o crc) \o rest
    OBVIOUS
  <2> HIDE DEF body
  <2>2. Slice((body \o crc) \o rest, Len(body), Len(body) + Len(crc)) = crc
    BY ONLY <1>2, <1>4, rest \in Seq(Octet), SliceOfConcat
  <2> QED BY <1>4, <2>1, <2>2
<1>14. PayloadSize(got.pdu) = size
  <2>1. hdr.crc_flag \in {ABSENT, PRESENT}
    BY DEF Header
  <2> HIDE DEF got, size, extra
  <2> QED BY <1>2, <1>10, <2>1 DEF PayloadSize, CFDP_PDU_CRC_LEN
<1>15. CrcVerify(window)
  <2> DEFINE total == got.ret + got.pdu.data_field_length
             protected == total - CFDP_PDU_CRC_LEN
  <2>1. total = start + size + extra /\ Len(window) >= total /\ got.ret # 0
    <3> HIDE DEF got, start, size, extra
    <3> QED BY <1>1, <1>2, <1>8, <1>9, <1>10, SMTT(40)
  <2>2. ASSUME got.pdu.crc_flag = PRESENT
        PROVE  /\ got.pdu.data_field_length >= CFDP_PDU_CRC_LEN
               /\ CrcOf(Slice(window, 0, protected)) = BitsOfPair(Slice(window, protected, total))
    <3>1. extra = 2 /\ hdr.crc_flag = PRESENT
      BY <1>2, <1>10, <2>2
    <3>2. protected = start + size
      <4> HIDE DEF total, start, size, extra
      <4> QED BY <1>1, <1>2, <2>1, <3>1 DEF CFDP_PDU_CRC_LEN
    <3>3. CrcOf(body) \in SUBSET (0 .. 15)
      <4> HIDE DEF body
      <4> QED BY <1>4, CrcOfType
    <3>4. crc = PairWith(CrcOf(body))
      BY <3>1 DEF CrcOctets
    <3>5. BitsOfPair(crc) = CrcOf(body)
      <4> HIDE DEF body
      <4> QED BY <3>3, <3>4, PairTells
    <3>6. Slice(window, 0, protected) = body /\ Slice(window, protected, total) = crc
      <4> HIDE DEF protected, total, body, start, size, extra
      <4> QED BY <1>11, <1>13, <2>1, <3>2
    <3>7. got.pdu.data_field_length >= CFDP_PDU_CRC_LEN
      <4> HIDE DEF got, size, extra
      <4> QED BY <1>2, <1>10, <3>1 DEF CFDP_PDU_CRC_LEN
    <3> HIDE DEF protected, total, body, got
    <3> QED BY <3>5, <3>6, <3>7
  <2> QED BY <2>1, <2>2 DEF CrcVerify
<1>16. got.ret + got.pdu.data_field_length + Len(rest) = Len(window)
  <2> DEFINE more == Len(rest)
             len == Len(window)
             ret == got.ret
             length == got.pdu.data_field_length
  <2>1. start \in Nat /\ extra \in Nat /\ size \in Nat /\ more \in Nat
    BY <1>1, <1>2
  <2>2. len = start + size + extra + more /\ ret = start /\ length = size + extra
    BY <1>8, <1>9, <1>10
  <2> HIDE DEF more, len, ret, length, start, size, extra
  <2>3. ret + length + more = len
    BY ONLY <2>1, <2>2
  <2> QED BY <2>3 DEF more, len, ret, length
<1> HIDE DEF got
<1> QED BY <1>1, <1>8, <1>9, <1>12, <1>14, <1>15, <1>16 DEF got, PduRead

(* The parts of two octet sequences one after the other.                   *)
Joined(whole, front, back) ==
  /\ whole \in Seq(Octet) /\ Len(whole) = Len(front) + Len(back)
  /\ Slice(whole, 0, Len(front)) = front
  /\ Slice(whole, Len(front), Len(whole)) = back
  /\ \A i \in Nat : i < Len(front) => At(whole, i) = At(front, i)

(* A whole can be taken apart where its parts were joined.                 *)
LEMMA Join ==
  ASSUME NEW front \in Seq(Octet), NEW back \in Seq(Octet)
  PROVE  Joined(front \o back, front, back)
<1> DEFINE whole == front \o back
           n == Len(front)
           none == << >>
<1>1. whole \in Seq(Octet) /\ Len(whole) = Len(front) + Len(back)
  BY ConcatProperties
<1>2. Slice(whole, 0, n) = front
  BY SliceOfFront
<1>3. n \in Nat /\ Len(whole) \in Nat /\ none \in Seq(Octet) /\ Len(back) \in Nat /\ n <= Len(whole)
  BY <1>1, LenProperties
<1>4. Slice(whole, n, Len(whole)) = back
  <2> HIDE DEF none
  <2>1. Slice((front \o back) \o none, n, n + Len(back)) = back
    BY <1>3, SliceOfConcat
  <2>2. whole \o none = whole
    BY <1>1, ConcatEmptySeq DEF none
  <2> QED BY <1>1, <2>1, <2>2
<1>5. ASSUME NEW i \in Nat, i < n PROVE At(whole, i) = At(front, i)
  <2> HIDE DEF whole, n
  <2>1. 0 \in Nat /\ 0 <= n /\ i < n - 0 /\ 0 + i = i
    BY <1>3, <1>5
  <2>2. At(Slice(whole, 0, n), i) = At(whole, 0 + i)
    BY <1>1, <1>3, <2>1, SliceAt
  <2> QED BY <1>2, <2>1, <2>2
<1> HIDE DEF whole
<1>6. Joined(whole, front, back)
  BY <1>1, <1>2, <1>4, <1>5 DEF Joined
<1> QED BY <1>6 DEF whole

(* An identifier and its TLV.                                              *)
LEMMA EntityIdReadBack ==
  ASSUME NEW id \in UInt64, NEW len, NEW n, NEW tlv, tlv = EntityIdTlvSerialize(id, len, n),
         tlv # << >>
  PROVE  /\ tlv \in Seq(Octet) /\ len \in 1 .. 8 /\ len \in IdLengths /\ Len(tlv) = len + 2
         /\ EntityIdTlvSize(tlv) = len + 2 /\ At(tlv, 1) = len
         /\ EntityIdOf(tlv) = Truncated(id, len)
<1> DEFINE head == <<CFDP_TLV_ENTITY_ID, len>>
           octets == WriteUint(id, len)
<1>1. len \in IdLengths /\ tlv = head \o octets
  BY DEF EntityIdTlvSerialize
<1>2. len \in 1 .. 8
  BY <1>1 DEF IdLengths, CFDP_ID_LEN_MIN, CFDP_ID_LEN_MAX
<1>3. /\ head \in Seq(Octet) /\ Len(head) = 2 /\ At(head, 0) = CFDP_TLV_ENTITY_ID
      /\ At(head, 1) = len
  BY <1>2 DEF Octet, CFDP_TLV_ENTITY_ID, At
<1>4. octets \in Seq(Octet) /\ Len(octets) = len
  BY <1>2, WriteUintType
<1>5. ReadUint(octets) = Truncated(id, len)
  BY DEF Truncated
<1> HIDE DEF head, octets
<1>6. Joined(tlv, head, octets)
  BY <1>1, <1>3, <1>4, Join
<1>7. /\ tlv \in Seq(Octet) /\ Len(tlv) = 2 + len
      /\ At(tlv, 0) = CFDP_TLV_ENTITY_ID /\ At(tlv, 1) = len
      /\ Slice(tlv, 2, Len(tlv)) = octets
  <2>1. 0 \in Nat /\ 1 \in Nat /\ 0 < Len(head) /\ 1 < Len(head)
    BY <1>3
  <2> QED BY <1>3, <1>4, <1>6, <2>1 DEF Joined
<1>8. Len(tlv) = len + 2 /\ ~ (Len(tlv) < 2) /\ ~ (Len(tlv) < len + 2) /\ len + 2 # 0
  BY <1>2, <1>7
<1>9. TlvSize(tlv) = len + 2
  BY <1>7, <1>8 DEF TlvSize, CFDP_TLV_HEADER_LEN
<1>10. EntityIdTlvSize(tlv) = len + 2
  BY <1>1, <1>7, <1>8, <1>9 DEF EntityIdTlvSize
<1>11. EntityIdOf(tlv) = ReadUint(octets)
  BY <1>7, <1>8, <1>10 DEF EntityIdOf, CFDP_TLV_HEADER_LEN
<1> QED BY <1>1, <1>2, <1>5, <1>7, <1>8, <1>10, <1>11

-----------------------------------------------------------------------------
(* Slices of slices                                                        *)

(* A slice of a slice is a slice.                                          *)
LEMMA SliceOfSlice ==
  ASSUME NEW f \in Seq(Octet), NEW a \in Nat, NEW b \in Nat, a <= b, b <= Len(f),
         NEW c \in Nat, NEW d \in Nat, c <= d, d <= b - a
  PROVE  Slice(Slice(f, a, b), c, d) = Slice(f, a + c, a + d)
<1> DEFINE part == Slice(f, a, b)
           x == Slice(part, c, d)
           y == Slice(f, a + c, a + d)
           n == d - c
<1>1. part \in Seq(Octet) /\ Len(part) = b - a
  BY SliceType
<1>2. a + c \in Nat /\ a + d \in Nat /\ a + c <= a + d /\ a + d <= Len(f) /\ n \in Nat
      /\ Len(f) \in Nat
  <2>1. Len(f) \in Nat
    BY LenProperties
  <2> QED BY <2>1
<1>3. y \in Seq(Octet) /\ Len(y) = n
  <2> DEFINE from == a + c
             to == a + d
  <2>1. from \in Nat /\ to \in Nat /\ from <= to /\ to <= Len(f) /\ to - from = n
    BY <1>2
  <2> HIDE DEF from, to, n
  <2>2. Slice(f, from, to) \in Seq(Octet) /\ Len(Slice(f, from, to)) = to - from
    BY <2>1, SliceType
  <2> QED BY <2>1, <2>2 DEF from, to
<1> HIDE DEF part
<1>4. x \in Seq(Octet) /\ Len(x) = n
  BY <1>1, SliceType
<1>5. ASSUME NEW i \in Nat, i < n PROVE At(x, i) = At(y, i)
  <2>1. At(x, i) = At(part, c + i)
    <3>1. d <= Len(part) /\ i < d - c
      BY <1>1, <1>5
    <3>2. part \in Seq(Octet) /\ c \in Nat /\ d \in Nat /\ c <= d /\ i \in Nat
      BY <1>1
    <3>3. At(Slice(part, c, d), i) = At(part, c + i)
      BY ONLY <3>1, <3>2, SliceAt
    <3> QED BY <3>3
  <2> DEFINE k == c + i
  <2>2. k \in Nat /\ k < b - a /\ a + k = (a + c) + i
    BY <1>5
  <2>3. At(part, k) = At(f, a + k)
    <3> HIDE DEF k
    <3> QED BY <2>2, SliceAt DEF part
  <2>4. At(y, i) = At(f, (a + c) + i)
    <3> DEFINE from == a + c
               to == a + d
    <3>1. from \in Nat /\ to \in Nat /\ from <= to /\ to <= Len(f) /\ i < to - from
      BY <1>2, <1>5
    <3> HIDE DEF from, to
    <3>2. At(Slice(f, from, to), i) = At(f, from + i)
      BY <3>1, SliceAt
    <3> QED BY <3>2 DEF from, to
  <2> QED BY <2>1, <2>2, <2>3, <2>4
<1> HIDE DEF x, y, n
<1>6. ASSUME NEW i \in 1 .. n PROVE x[i] = y[i]
  <2>1. i - 1 \in Nat /\ i - 1 < n /\ (i - 1) + 1 = i
    BY <1>2
  <2> QED BY <1>5, <2>1 DEF At
<1> QED BY <1>3, <1>4, <1>6, SeqEqual DEF x, y, part

(* Slices that meet make one.                                              *)
LEMMA SlicesJoin ==
  ASSUME NEW f \in Seq(Octet), NEW a \in Nat, NEW b \in Nat, NEW c \in Nat,
         a <= b, b <= c, c <= Len(f)
  PROVE  Slice(f, a, b) \o Slice(f, b, c) = Slice(f, a, c)
<1>1. Len(f) \in Nat
  BY LenProperties
<1>2. a + 1 \in 1 .. Len(f) + 1 /\ b \in (a + 1) - 1 .. Len(f) /\ c \in b .. Len(f)
  BY <1>1
<1>3. SubSeq(f, a + 1, b) \o SubSeq(f, b + 1, c) = SubSeq(f, a + 1, c)
  BY <1>2, ConcatAdjacentSubSeq
<1> QED BY <1>3 DEF Slice

(* One octet.                                                              *)
LEMMA SliceOne ==
  ASSUME NEW f \in Seq(Octet), NEW a \in Nat, a < Len(f)
  PROVE  Slice(f, a, a + 1) = <<At(f, a)>>
<1> DEFINE x == Slice(f, a, a + 1)
<1>1. Len(f) \in Nat /\ a + 1 \in Nat /\ a <= a + 1 /\ a + 1 <= Len(f) /\ (a + 1) - a = 1
  <2>1. Len(f) \in Nat
    BY LenProperties
  <2> QED BY <2>1
<1>2. x \in Seq(Octet) /\ Len(x) = 1
  <2> DEFINE b == a + 1
  <2> HIDE DEF b
  <2>1. Slice(f, a, b) \in Seq(Octet) /\ Len(Slice(f, a, b)) = b - a
    BY <1>1, SliceType DEF b
  <2> QED BY <1>1, <2>1 DEF b
<1>3. At(x, 0) = At(f, a + 0)
  BY <1>1, SliceAt
<1>4. x[1] = At(f, a)
  BY <1>3 DEF At
<1> HIDE DEF x
<1>5. x = <<x[1]>>
  BY <1>2
<1> QED BY <1>4, <1>5 DEF x

-----------------------------------------------------------------------------
(* The EOF and ACK PDUs                                                   *)

(* Both halves of an octet, and its upper bits.                            *)
LEMMA HalvesOfOctet ==
  ASSUME NEW o \in Octet
  PROVE  /\ o \div 16 \in 0 .. 15 /\ o % 16 \in 0 .. 15 /\ o % 4 \in 0 .. 3
         /\ o \div 128 \in {0, 1}
BY DEF Octet

(* The fixed part of an EOF does not depend on what was there.             *)
LEMMA EofFixedType ==
  ASSUME NEW buf \in Seq(Octet), NEW flag \in {0, 1}, EofSize(flag) <= Len(buf), NEW s \in Eof
  PROVE  EofFixed(buf, flag, s) \in Eof /\ EofFixed(buf, flag, s) = EofFixed(buf, flag, ClearEof)
<1> DEFINE condition == At(buf, 1) \div 16
           checksum == Slice(buf, 2, 6)
           file_size == ReadUint(Slice(buf, 6, EofSize(flag)))
           none == Zeros(8)
           Fixed(t) == [t EXCEPT !.condition_code = condition, !.file_checksum = checksum,
                                 !.file_size = file_size, !.fault_location_entity_id = none,
                                 !.fault_location_len = 0]
<1>1. EofSize(flag) \in 10 .. 14 /\ Len(buf) \in Nat
  BY LenProperties DEF EofSize, FileSizeOctets
<1>2. condition \in 0 .. 15
  <2>1. At(buf, 1) \in Octet
    BY <1>1, AtType
  <2> QED BY <2>1, HalvesOfOctet
<1>3. checksum \in [1 .. 4 -> Octet]
  <2>1. checksum \in Seq(Octet) /\ Len(checksum) = 4
    <3>1. 2 \in Nat /\ 6 \in Nat /\ 2 <= 6 /\ 6 <= Len(buf) /\ 6 - 2 = 4
      BY <1>1
    <3> QED BY <3>1, SliceType
  <2> HIDE DEF checksum
  <2> QED BY <2>1, LenProperties
<1>4. file_size \in UInt64
  <2> DEFINE octets == Slice(buf, 6, EofSize(flag))
  <2>1. octets \in Seq(Octet) /\ Len(octets) = EofSize(flag) - 6
    <3>1. 6 \in Nat /\ EofSize(flag) \in Nat /\ 6 <= EofSize(flag)
      BY <1>1
    <3> QED BY <3>1, SliceType
  <2> HIDE DEF octets
  <2>2. Len(octets) <= 8
    BY <1>1, <2>1
  <2>3. ReadUint(octets) \in UInt64
    BY <2>1, <2>2, ReadUintType
  <2> QED BY <2>3 DEF octets
<1>5. none \in UInt64
  BY DEF Zeros, UInt64, Octet
<1>6. \A t : EofFixed(buf, flag, t) = Fixed(t)
  BY DEF EofFixed
<1>7. ClearEof \in Eof
  <2>1. Zeros(4) \in [1 .. 4 -> Octet]
    BY DEF Zeros, Octet
  <2> QED BY <1>5, <2>1 DEF ClearEof, Eof
<1> HIDE DEF condition, checksum, file_size, none
<1>8. ASSUME NEW t \in Eof, NEW u \in Eof PROVE Fixed(t) \in Eof /\ Fixed(t) = Fixed(u)
  BY <1>2, <1>3, <1>4, <1>5 DEF Eof
<1> QED BY <1>6, <1>7, <1>8, ZenonT(60)

(* An Entity ID TLV that is taken is an identifier of 1 to 8 octets.       *)
LEMMA EntityIdType ==
  ASSUME NEW rest \in Seq(Octet), EntityIdTlvSize(rest) # 0
  PROVE  /\ EntityIdTlvSize(rest) \in 3 .. Len(rest)
         /\ EntityIdTlvSize(rest) = At(rest, 1) + 2
         /\ At(rest, 1) \in IdLengths
         /\ EntityIdOf(rest) \in UInt64
<1> DEFINE len == At(rest, 1)
           size == EntityIdTlvSize(rest)
           octets == Slice(rest, 2, size)
<1>1. len \in IdLengths /\ size = TlvSize(rest) /\ TlvSize(rest) # 0
  BY DEF EntityIdTlvSize
<1>2. size = len + 2 /\ size <= Len(rest) /\ Len(rest) \in Nat
  BY <1>1, TlvSizeBound, LenProperties DEF CFDP_TLV_HEADER_LEN
<1>3. len \in 1 .. 8
  BY <1>1 DEF IdLengths, CFDP_ID_LEN_MIN, CFDP_ID_LEN_MAX
<1> HIDE DEF len, size
<1>4. octets \in Seq(Octet) /\ Len(octets) <= 8
  <2>1. 2 \in Nat /\ size \in Nat /\ 2 <= size /\ size <= Len(rest) /\ size - 2 <= 8
    BY <1>2, <1>3
  <2> QED BY <2>1, SliceType
<1>5. EntityIdOf(rest) = ReadUint(octets)
  BY DEF EntityIdOf, CFDP_TLV_HEADER_LEN, octets, size
<1> HIDE DEF octets
<1>6. ReadUint(octets) \in UInt64
  BY <1>4, ReadUintType
<1> QED BY <1>1, <1>2, <1>3, <1>5, <1>6 DEF len, size

(* A result is the whole of the octets and the structure that was meant.   *)
ReadBack(result, octets, pdu) ==
  result.ret = Len(octets) /\ result.ret > 0 /\ result.pdu = pdu

(* cfdp_ack_serialize, then cfdp_ack_deserialize.                          *)
LEMMA AckReadBack ==
  ASSUME NEW src \in [ack_directive_code : 0 .. 15, condition_code : 0 .. 15,
                      transaction_status : 0 .. 3],
         NEW n, NEW octets, octets = AckSerialize(src, n), octets # << >>
  PROVE  ReadBack(AckDeserialize(octets, ClearAck), octets, src)
<1> DEFINE code == src.ack_directive_code
           condition == src.condition_code
           status == src.transaction_status
           subtype == AckDirectiveSubtype(code)
           o1 == 16 * code + subtype
           o2 == 16 * condition + status
<1>1. AckDirectiveValid(code) /\ octets = <<CFDP_DIRECTIVE_ACK, o1, o2>>
  BY DEF AckSerialize
<1>2. code \in 0 .. 15 /\ condition \in 0 .. 15 /\ status \in 0 .. 3 /\ subtype \in {0, 1}
  BY DEF AckDirectiveSubtype
<1>3. code \in {CFDP_DIRECTIVE_EOF, CFDP_DIRECTIVE_FINISHED}
  BY <1>1 DEF AckDirectiveValid
<1>4. At(octets, 0) = CFDP_DIRECTIVE_ACK /\ At(octets, 1) = o1 /\ At(octets, 2) = o2
      /\ Len(octets) = 3
  BY <1>1 DEF At
<1> HIDE DEF code, condition, status, subtype
<1>5. o1 \div 16 = code /\ o1 % 16 = subtype /\ o2 \div 16 = condition /\ o2 % 4 = status
  BY <1>2
<1> HIDE DEF o1, o2
<1>6. /\ Len(octets) = AckLen /\ ~ (Len(octets) < AckLen)
      /\ At(octets, 1) \div 16 = code /\ At(octets, 1) % 16 = AckDirectiveSubtype(code)
      /\ At(octets, 2) \div 16 = condition /\ At(octets, 2) % 4 = status
  BY <1>4, <1>5 DEF AckLen, subtype
<1>7. AckDeserialize(octets, ClearAck)
        = [ret |-> AckLen, pdu |-> [ClearAck EXCEPT !.ack_directive_code = code,
                                                    !.condition_code = condition,
                                                    !.transaction_status = status]]
  BY <1>1, <1>4, <1>6 DEF AckDeserialize
<1>8. [ClearAck EXCEPT !.ack_directive_code = code, !.condition_code = condition,
                       !.transaction_status = status] = src
  BY DEF ClearAck, code, condition, status
<1> QED BY <1>4, <1>7, <1>8 DEF ReadBack, AckLen

(* What an EOF is told to be, field by field.                              *)
EofTold(src, flag) ==
  LET fault == src.condition_code # CFDP_COND_NO_ERROR
  IN [src EXCEPT
        !.file_size = Truncated(@, FileSizeOctets(flag)),
        !.fault_location_entity_id =
           IF fault THEN Truncated(@, src.fault_location_len) ELSE Zeros(8),
        !.fault_location_len = IF fault THEN @ ELSE 0]

(* What may be put into an EOF that is to be encoded.                      *)
EofSources ==
  [condition_code : 0 .. 15, file_checksum : [1 .. 4 -> Octet], file_size : UInt64,
   fault_location_entity_id : UInt64, fault_location_len : Octet]

(* Two EOF structures with the same fields are the same.                   *)
LEMMA EofEqual ==
  ASSUME NEW one \in Eof, NEW other \in Eof,
         one.condition_code = other.condition_code,
         one.file_checksum = other.file_checksum, one.file_size = other.file_size,
         one.fault_location_entity_id = other.fault_location_entity_id,
         one.fault_location_len = other.fault_location_len
  PROVE  one = other
BY DEF Eof

(* cfdp_eof_serialize, then cfdp_eof_deserialize: with a fault location only*)
(* with a fault.                                                           *)
LEMMA EofReadBack ==
  ASSUME NEW src \in EofSources, NEW flag \in {0, 1}, NEW n, NEW octets,
         octets = EofSerialize(src, flag, n), octets # << >>
  PROVE  ReadBack(EofDeserialize(octets, flag, ClearEof), octets, EofTold(src, flag))
<1> DEFINE condition == src.condition_code
           checksum == src.file_checksum
           width == FileSizeOctets(flag)
           number == WriteUint(src.file_size, width)
           id == src.fault_location_entity_id
           len == src.fault_location_len
           fault == condition # CFDP_COND_NO_ERROR
           tlv == EntityIdTlvSerialize(id, len, n - EofSize(flag))
           none == << >>
           tail == IF fault THEN tlv ELSE none
           head == <<CFDP_DIRECTIVE_EOF, 16 * condition>>
           size == EofSize(flag)
<1>1. /\ octets = head \o checksum \o number \o tail
      /\ fault => tlv # << >>
  BY DEF EofSerialize
<1>2. condition \in 0 .. 15 /\ checksum \in [1 .. 4 -> Octet] /\ src.file_size \in UInt64
      /\ id \in UInt64
  BY DEF EofSources
<1>3. checksum \in Seq(Octet) /\ Len(checksum) = 4
  <2> HIDE DEF checksum
  <2>1. 4 \in Nat
    OBVIOUS
  <2> QED BY ONLY <1>2, <2>1, FunctionIsSeq
<1>4. /\ width \in 1 .. 8 /\ number \in Seq(Octet) /\ Len(number) = width
      /\ ReadUint(number) = Truncated(src.file_size, width)
  BY <1>2, FileSizeWidth, WriteUintType DEF Truncated
<1>5. size = width + 6 /\ size \in Nat /\ size > 0
  BY <1>4 DEF EofSize
<1>6. head \in Seq(Octet) /\ Len(head) = 2 /\ At(head, 0) = CFDP_DIRECTIVE_EOF
      /\ At(head, 1) = 16 * condition /\ (16 * condition) \div 16 = condition
  <2> HIDE DEF condition
  <2> QED BY <1>2 DEF Octet, CFDP_DIRECTIVE_EOF, At
<1>7. none \in Seq(Octet) /\ Len(none) = 0
  OBVIOUS
<1>8. fault => /\ tlv \in Seq(Octet) /\ len \in 1 .. 8 /\ len \in IdLengths
               /\ Len(tlv) = len + 2 /\ EntityIdTlvSize(tlv) = len + 2
               /\ At(tlv, 1) = len /\ EntityIdOf(tlv) = Truncated(id, len)
  <2> HIDE DEF id, len, size
  <2> QED BY <1>1, <1>2, EntityIdReadBack
<1> HIDE DEF condition, checksum, width, number, id, len, fault, tlv, head, size
<1>9. tail \in Seq(Octet) /\ Len(tail) \in Nat
  BY <1>7, <1>8, LenProperties
<1> HIDE DEF none, tail
<1>10. /\ octets \in Seq(Octet) /\ Len(octets) = size + Len(tail)
       /\ Slice(octets, 0, 2) = head
       /\ Slice(octets, 2, 6) = checksum
       /\ Slice(octets, 6, size) = number
       /\ Slice(octets, size, Len(octets)) = tail
  <2> DEFINE joined == head \o checksum \o number \o tail \o none
  <2>0. /\ head \in Seq(Octet) /\ checksum \in Seq(Octet) /\ number \in Seq(Octet)
        /\ tail \in Seq(Octet) /\ none \in Seq(Octet)
    BY <1>3, <1>4, <1>6, <1>7, <1>9
  <2>1. /\ joined \in Seq(Octet)
        /\ Len(joined) = ((Len(head) + Len(checksum)) + Len(number)) + Len(tail) + Len(none)
        /\ Slice(joined, 0, Len(head)) = head
        /\ Slice(joined, Len(head), Len(head) + Len(checksum)) = checksum
        /\ Slice(joined, Len(head) + Len(checksum), (Len(head) + Len(checksum)) + Len(number))
             = number
        /\ Slice(joined, (Len(head) + Len(checksum)) + Len(number),
                 ((Len(head) + Len(checksum)) + Len(number)) + Len(tail)) = tail
    BY ONLY <2>0, PartsApart
  <2>2. octets = joined
    <3> DEFINE front == head \o checksum
               body == front \o number
               whole == body \o tail
    <3>1. front \in Seq(Octet)
      BY <2>0, ConcatProperties
    <3> HIDE DEF front
    <3>2. body \in Seq(Octet)
      BY <2>0, <3>1, ConcatProperties
    <3> HIDE DEF body
    <3>3. whole \in Seq(Octet)
      BY <2>0, <3>2, ConcatProperties
    <3> HIDE DEF whole
    <3>4. whole \o none = whole
      BY <3>3, ConcatEmptySeq DEF none
    <3> QED BY <1>1, <3>4 DEF whole, body, front
  <2> HIDE DEF joined
  <2>3. /\ Len(head) + Len(checksum) = 6 /\ Len(number) = width
    BY <1>3, <1>4, <1>6
  <2>4. /\ 6 + Len(number) = size /\ size + Len(tail) + Len(none) = size + Len(tail)
    BY <1>4, <1>5, <1>7, <1>9
  <2> QED BY <1>6, <1>3, <2>1, <2>2, <2>3, <2>4
<1>11. At(octets, 0) = CFDP_DIRECTIVE_EOF /\ At(octets, 1) \div 16 = condition
  <2>1. 0 \in Nat /\ 2 \in Nat /\ 1 \in Nat /\ 0 <= 2 /\ 2 <= Len(octets) /\ 0 < 2 - 0
        /\ 1 < 2 - 0 /\ 0 + 0 = 0 /\ 0 + 1 = 1
    BY <1>5, <1>9, <1>10, <1>4
  <2>2. At(Slice(octets, 0, 2), 0) = At(octets, 0 + 0)
    BY ONLY <1>10, <2>1, SliceAt
  <2>3. At(Slice(octets, 0, 2), 1) = At(octets, 0 + 1)
    BY ONLY <1>10, <2>1, SliceAt
  <2> QED BY <1>6, <1>10, <2>1, <2>2, <2>3
<1> DEFINE fixed == EofFixed(octets, flag, ClearEof)
<1> DEFINE told == EofTold(src, flag)
<1>12. /\ fixed \in Eof
       /\ fixed.condition_code = condition /\ fixed.file_checksum = checksum
       /\ fixed.file_size = ReadUint(number)
       /\ fixed.fault_location_entity_id = Zeros(8) /\ fixed.fault_location_len = 0
  <2>1. ClearEof \in Eof
    BY DEF ClearEof, Eof, Zeros, UInt64, Octet
  <2>2. fixed \in Eof
    <3>1. EofSize(flag) <= Len(octets)
      BY <1>5, <1>9, <1>10 DEF size
    <3> QED BY <1>10, <2>1, <3>1, EofFixedType
  <2>3. fixed = [ClearEof EXCEPT !.condition_code = condition, !.file_checksum = checksum,
                                 !.file_size = ReadUint(number),
                                 !.fault_location_entity_id = Zeros(8),
                                 !.fault_location_len = 0]
    BY <1>10, <1>11 DEF EofFixed, size
  <2> HIDE DEF fixed
  <2> QED BY <2>1, <2>2, <2>3 DEF Eof
<1>13. /\ told \in Eof
       /\ told.condition_code = condition /\ told.file_checksum = checksum
       /\ told.file_size = ReadUint(number)
       /\ told.fault_location_entity_id = (IF fault THEN Truncated(id, len) ELSE Zeros(8))
       /\ told.fault_location_len = (IF fault THEN len ELSE 0)
  <2> DEFINE where == IF fault THEN Truncated(id, len) ELSE Zeros(8)
             wide == IF fault THEN len ELSE 0
  <2>1. told = [src EXCEPT !.file_size = ReadUint(number), !.fault_location_entity_id = where,
                           !.fault_location_len = wide]
    BY <1>4 DEF EofTold, EofSources, fault, id, len, width, condition
  <2>2. ReadUint(number) \in UInt64
    <3>1. Len(number) <= 8
      BY <1>4
    <3> QED BY <1>4, <3>1, ReadUintType
  <2>3. where \in UInt64
    <3>1. CASE fault
      <4>1. tlv \in Seq(Octet) /\ EntityIdTlvSize(tlv) # 0
        BY <1>8, <3>1
      <4> QED BY <1>8, <3>1, <4>1, EntityIdType
    <3>2. CASE ~ fault
      BY <3>2 DEF Zeros, UInt64, Octet
    <3> QED BY <3>1, <3>2
  <2>4. wide \in {0} \cup IdLengths
    BY <1>8
  <2> HIDE DEF where, wide, told
  <2>5. told \in Eof
    BY <2>1, <2>2, <2>3, <2>4 DEF Eof, EofSources
  <2>6. /\ told.condition_code = condition /\ told.file_checksum = checksum
        /\ told.file_size = ReadUint(number) /\ told.fault_location_entity_id = where
        /\ told.fault_location_len = wide
    BY <2>1 DEF EofSources, condition, checksum
  <2> QED BY <2>5, <2>6 DEF where, wide
<1>14. EofDeserialize(octets, flag, ClearEof)
         = IF Len(octets) = size THEN [ret |-> size, pdu |-> fixed]
           ELSE IF EntityIdTlvSize(tail) = 0 THEN [ret |-> 0, pdu |-> fixed]
           ELSE [ret |-> size + EntityIdTlvSize(tail),
                 pdu |-> [fixed EXCEPT !.fault_location_entity_id = EntityIdOf(tail),
                                       !.fault_location_len = At(tail, 1)]]
  <2>1. ~ (Len(octets) < size)
    BY <1>5, <1>9, <1>10
  <2> HIDE DEF fixed
  <2> QED BY <1>10, <1>11, <2>1 DEF EofDeserialize, fixed, size
<1> HIDE DEF fixed, told
<1>15. CASE ~ fault
  <2>1. tail = none
    BY <1>15 DEF tail
  <2>2. Len(octets) = size
    BY <1>5, <1>7, <1>10, <2>1
  <2>3. fixed = told
    BY <1>12, <1>13, <1>15, EofEqual
  <2> QED BY <1>5, <1>14, <2>2, <2>3 DEF ReadBack, told
<1>16. CASE fault
  <2> DEFINE located == [fixed EXCEPT !.fault_location_entity_id = Truncated(id, len),
                                      !.fault_location_len = len]
  <2>1. tail = tlv
    BY <1>16 DEF tail
  <2>2. Len(octets) # size /\ EntityIdTlvSize(tail) # 0 /\ size + EntityIdTlvSize(tail) = Len(octets)
        /\ Len(octets) > 0
    BY <1>5, <1>8, <1>10, <1>16, <2>1
  <2>3. EofDeserialize(octets, flag, ClearEof) = [ret |-> Len(octets), pdu |-> located]
    BY <1>8, <1>14, <1>16, <2>1, <2>2
  <2>4. located = told
    <3>1. Truncated(id, len) \in UInt64 /\ len \in {0} \cup IdLengths
      <4>1. told.fault_location_entity_id \in UInt64
        BY <1>13 DEF Eof
      <4> QED BY <1>8, <1>13, <1>16, <4>1
    <3>2. /\ located \in Eof
          /\ located.condition_code = condition /\ located.file_checksum = checksum
          /\ located.file_size = ReadUint(number)
          /\ located.fault_location_entity_id = Truncated(id, len)
          /\ located.fault_location_len = len
      BY <1>12, <3>1 DEF Eof
    <3> HIDE DEF located
    <3> QED BY <1>13, <1>16, <3>2, EofEqual
  <2> QED BY <2>2, <2>3, <2>4 DEF ReadBack, told
<1> QED BY <1>15, <1>16

-----------------------------------------------------------------------------
(* The NAK PDU                                                             *)

(* The widths of the two file sizes.                                       *)
LEMMA Widths ==
  ASSUME NEW flag \in {0, 1}
  PROVE  /\ FileSizeOctets(flag) \in {4, 8}
         /\ Pair(flag) = 2 * FileSizeOctets(flag)
         /\ Pair(flag) \in {8, 16}
         /\ ScopeLen(flag) = 1 + Pair(flag)
BY DEF FileSizeOctets, Pair, ScopeLen

(* Two offsets read from within a buffer.                                  *)
LEMMA ReadRangeType ==
  ASSUME NEW f \in Seq(Octet), NEW flag \in {0, 1}, NEW from \in Nat,
         from + Pair(flag) <= Len(f)
  PROVE  ReadRange(f, flag, from) \in Range64
<1> DEFINE size == FileSizeOctets(flag)
           middle == from + size
           end == from + Pair(flag)
<1>1. size \in {4, 8} /\ Pair(flag) = 2 * size
  BY Widths
<1>2. Len(f) \in Nat
  BY LenProperties
<1>3. /\ middle \in Nat /\ end \in Nat
      /\ from <= middle /\ middle <= end /\ end <= Len(f)
      /\ middle - from = size /\ end - middle = size
  BY <1>1, <1>2, SMTT(40)
<1> HIDE DEF size, middle, end
<1>4. ReadUint(Slice(f, from, middle)) \in UInt64
  <2>1. middle <= Len(f)
    BY <1>2, <1>3
  <2>2. Slice(f, from, middle) \in Seq(Octet) /\ Len(Slice(f, from, middle)) = size
    BY <1>3, <2>1, SliceType
  <2>3. Len(Slice(f, from, middle)) <= 8
    BY <1>1, <2>2
  <2> QED BY <2>2, <2>3, ReadUintType
<1>5. ReadUint(Slice(f, middle, end)) \in UInt64
  <2>2. Slice(f, middle, end) \in Seq(Octet) /\ Len(Slice(f, middle, end)) = size
    BY <1>3, SliceType
  <2>3. Len(Slice(f, middle, end)) <= 8
    BY <1>1, <2>2
  <2> QED BY <2>2, <2>3, ReadUintType
<1> QED BY <1>4, <1>5 DEF ReadRange, Range64, size, middle, end

(* A data field that is decoded is a scope and Count whole requests.       *)
LEMMA DecodableLength ==
  ASSUME NEW f \in Seq(Octet), NEW flag \in {0, 1}, Decodable(f, flag)
  PROVE  /\ Count(f, flag) \in 0 .. MaxRequests
         /\ Len(f) = ScopeLen(flag) + Count(f, flag) * Pair(flag)
<1> DEFINE rest == Len(f) - ScopeLen(flag)
           count == rest \div Pair(flag)
<1>1. Len(f) \in Nat
  BY LenProperties
<1>2. Pair(flag) \in {8, 16} /\ ScopeLen(flag) = 1 + Pair(flag)
  BY Widths
<1>3. /\ rest \in Nat
      /\ rest % Pair(flag) = 0
      /\ ~ (count > MaxRequests)
  BY <1>1, <1>2, SMTT(40) DEF Decodable, NotNak, Unfit, RequestOctets, Count
<1>4. count \in Nat /\ rest = count * Pair(flag)
  <2>1. CASE Pair(flag) = 8
    BY <1>3, <2>1
  <2>2. CASE Pair(flag) = 16
    BY <1>3, <2>2
  <2> QED BY <1>2, <2>1, <2>2
<1>5. Count(f, flag) = count
  BY DEF Count, RequestOctets
<1> HIDE DEF count
<1>6. count \in 0 .. MaxRequests
  BY <1>3, <1>4, MaxRequestsAssumption
<1>7. Len(f) = ScopeLen(flag) + count * Pair(flag)
  BY <1>1, <1>2, <1>4
<1> QED BY <1>5, <1>6, <1>7

(* A NAK data field is one that is decoded.                                *)
LEMMA DecodableIsNak ==
  ASSUME NEW f \in Seq(Octet), NEW flag \in {0, 1}
  PROVE  Decodable(f, flag) <=> IsNak(f, flag)
<1>1. /\ Len(f) \in Nat /\ Pair(flag) \in {8, 16} /\ ScopeLen(flag) = 1 + Pair(flag)
      /\ MaxRequests \in Nat
  BY LenProperties, Widths, MaxRequestsAssumption
<1>2. ASSUME Decodable(f, flag) PROVE IsNak(f, flag)
  <2>1. At(f, 0) = CFDP_DIRECTIVE_NAK
    BY <1>2 DEF Decodable, NotNak
  <2> QED BY <1>2, <2>1, DecodableLength DEF IsNak
<1>3. ASSUME IsNak(f, flag) PROVE Decodable(f, flag)
  <2>1. PICK count \in 0 .. MaxRequests : Len(f) = ScopeLen(flag) + count * Pair(flag)
    BY <1>3 DEF IsNak
  <2>2. /\ ~ (Len(f) < ScopeLen(flag))
        /\ ((Len(f) - ScopeLen(flag)) % Pair(flag)) = 0
        /\ (Len(f) - ScopeLen(flag)) \div Pair(flag) = count
    <3>1. CASE Pair(flag) = 8
      BY <1>1, <2>1, <3>1
    <3>2. CASE Pair(flag) = 16
      BY <1>1, <2>1, <3>2
    <3> QED BY <1>1, <3>1, <3>2
  <2>3. ~ (count > MaxRequests)
    BY <1>1, <2>1
  <2> QED BY <1>3, <2>2, <2>3 DEF IsNak, Decodable, NotNak, Unfit, Count, RequestOctets
<1> QED BY <1>2, <1>3

(* A range as the peer is told it.                                         *)
RangeOnWire(range, flag) ==
  [start_offset |-> Truncated(range.start_offset, FileSizeOctets(flag)),
   end_offset |-> Truncated(range.end_offset, FileSizeOctets(flag))]

LEMMA WriteRangeType ==
  ASSUME NEW range, range.start_offset \in UInt64, range.end_offset \in UInt64,
         NEW flag \in {0, 1}
  PROVE  WriteRange(range, flag) \in Seq(Octet) /\ Len(WriteRange(range, flag)) = Pair(flag)
<1> DEFINE size == FileSizeOctets(flag)
           start == WriteUint(range.start_offset, size)
           end == WriteUint(range.end_offset, size)
<1>1. size \in 1 .. 8 /\ Pair(flag) = 2 * size
  BY Widths
<1>2. start \in Seq(Octet) /\ Len(start) = size /\ end \in Seq(Octet) /\ Len(end) = size
  BY <1>1, WriteUintType
<1>3. WriteRange(range, flag) = start \o end
  BY DEF WriteRange
<1> HIDE DEF size, start, end
<1>4. start \o end \in Seq(Octet) /\ Len(start \o end) = Len(start) + Len(end)
  BY <1>2, ConcatProperties
<1>5. size + size = 2 * size
  BY <1>1
<1> QED BY <1>1, <1>2, <1>3, <1>4, <1>5

(* A range stands behind as many octets.                                   *)
HoldsRange(octets, range, flag, from) ==
  \E front \in Seq(Octet), back \in Seq(Octet) :
    Len(front) = from /\ octets = (front \o WriteRange(range, flag)) \o back

(* A range is read back from where it was written.                         *)
LEMMA RangeRoundTrip ==
  ASSUME NEW range, range.start_offset \in UInt64, range.end_offset \in UInt64,
         NEW flag \in {0, 1}, NEW f, NEW from, HoldsRange(f, range, flag, from)
  PROVE  ReadRange(f, flag, from) = RangeOnWire(range, flag)
<1>0. PICK front \in Seq(Octet), back \in Seq(Octet) :
        Len(front) = from /\ f = (front \o WriteRange(range, flag)) \o back
  BY DEF HoldsRange
<1> DEFINE size == FileSizeOctets(flag)
           start == WriteUint(range.start_offset, size)
           end == WriteUint(range.end_offset, size)
           middle == from + size
           limit == from + Pair(flag)
           none == << >>
<1>1. size \in 1 .. 8 /\ Pair(flag) = 2 * size /\ from \in Nat
  BY <1>0, Widths, LenProperties
<1>2. start \in Seq(Octet) /\ Len(start) = size /\ end \in Seq(Octet) /\ Len(end) = size
  BY <1>1, WriteUintType
<1>3. WriteRange(range, flag) = start \o end
  BY DEF WriteRange
<1>4. none \in Seq(Octet)
  OBVIOUS
<1>5. RangeOnWire(range, flag) = [start_offset |-> ReadUint(start), end_offset |-> ReadUint(end)]
  BY DEF RangeOnWire, Truncated
<1>6. ReadRange(f, flag, from)
        = [start_offset |-> ReadUint(Slice(f, from, middle)),
           end_offset |-> ReadUint(Slice(f, middle, limit))]
  BY DEF ReadRange
<1> HIDE DEF size, start, end, none, middle
<1>7. middle = Len(front) + Len(start) /\ limit = middle + Len(end)
  BY <1>0, <1>1, <1>2 DEF middle
<1> HIDE DEF limit
<1>8. f = (((front \o start) \o end) \o back) \o none
  <2>1. (front \o start) \o end = front \o (start \o end)
    BY ONLY <1>2, front \in Seq(Octet), ConcatRegroups
  <2>2. (front \o start) \o end \in Seq(Octet)
    BY <1>2, ConcatProperties
  <2> DEFINE whole == ((front \o start) \o end) \o back
  <2>3. whole \in Seq(Octet)
    BY <2>2, ConcatProperties
  <2>4. f = whole
    BY <1>0, <1>3, <2>1
  <2> HIDE DEF whole
  <2>5. whole \o none = whole
    BY <2>3, ConcatEmptySeq DEF none
  <2> QED BY <2>4, <2>5 DEF whole
<1>9. /\ Slice(f, Len(front), Len(front) + Len(start)) = start
      /\ Slice(f, Len(front) + Len(start), Len(front) + Len(start) + Len(end)) = end
  <2>0. /\ front \in Seq(Octet) /\ start \in Seq(Octet) /\ end \in Seq(Octet)
        /\ back \in Seq(Octet) /\ none \in Seq(Octet)
    BY <1>2, <1>4
  <2> DEFINE joined == front \o start \o end \o back \o none
  <2>1. /\ joined \in Seq(Octet)
        /\ Len(joined) = ((Len(front) + Len(start)) + Len(end)) + Len(back) + Len(none)
        /\ Slice(joined, 0, Len(front)) = front
        /\ Slice(joined, Len(front), Len(front) + Len(start)) = start
        /\ Slice(joined, Len(front) + Len(start), (Len(front) + Len(start)) + Len(end)) = end
        /\ Slice(joined, (Len(front) + Len(start)) + Len(end),
                 ((Len(front) + Len(start)) + Len(end)) + Len(back)) = back
    BY ONLY <2>0, PartsApart
  <2>2. f = joined
    BY <1>8
  <2> HIDE DEF joined
  <2> QED BY <2>1, <2>2
<1>10. Slice(f, from, middle) = start /\ Slice(f, middle, limit) = end
  BY <1>0, <1>7, <1>9
<1> QED BY <1>5, <1>6, <1>10

LEMMA RangeOffsets ==
  ASSUME NEW ranges \in Seq(Range64), NEW k \in 1 .. Len(ranges)
  PROVE  ranges[k].start_offset \in UInt64 /\ ranges[k].end_offset \in UInt64
<1>1. ranges[k] \in Range64
  BY ElementOfSeq
<1> QED BY <1>1 DEF Range64

(* Each range stands where as many before it end.                          *)
HoldsRanges(octets, ranges, n, flag) ==
  /\ octets \in Seq(Octet) /\ Len(octets) = n * Pair(flag)
  /\ \A k \in 1 .. n : HoldsRange(octets, ranges[k], flag, (k - 1) * Pair(flag))

LEMMA HoldsOneMore ==
  ASSUME NEW ranges \in Seq(Range64), NEW flag \in {0, 1}, NEW n \in Nat, n + 1 <= Len(ranges),
         NEW octets, HoldsRanges(octets, ranges, n, flag)
  PROVE  HoldsRanges(octets \o WriteRange(ranges[n + 1], flag), ranges, n + 1, flag)
<1> DEFINE width == Pair(flag)
           next == WriteRange(ranges[n + 1], flag)
           more == octets \o next
<1>1. width \in Nat /\ Len(ranges) \in Nat
  BY Widths, LenProperties
<1>2. \A k \in 1 .. Len(ranges) : ranges[k].start_offset \in UInt64 /\ ranges[k].end_offset \in UInt64
  BY RangeOffsets
<1>3. n + 1 \in 1 .. Len(ranges)
  BY <1>1
<1>4. next \in Seq(Octet) /\ Len(next) = width
  BY <1>2, <1>3, WriteRangeType
<1>5. octets \in Seq(Octet) /\ Len(octets) = n * width
  BY DEF HoldsRanges
<1> HIDE DEF next
<1>6. more \in Seq(Octet) /\ Len(more) = Len(octets) + Len(next)
  BY <1>4, <1>5, ConcatProperties
<1>7. n * width + width = (n + 1) * width
  BY ONLY <1>1, n \in Nat
<1>8. ASSUME NEW k \in 1 .. n + 1
      PROVE  HoldsRange(more, ranges[k], flag, (k - 1) * width)
  <2>1. CASE k = n + 1
    <3> DEFINE none == << >>
    <3>1. none \in Seq(Octet) /\ (k - 1) * width = Len(octets)
      BY <1>5, <2>1
    <3>2. more = (octets \o next) \o none
      <4>1. (octets \o next) \o << >> = octets \o next
        BY <1>6, ConcatEmptySeq
      <4> QED BY <4>1
    <3> HIDE DEF none, more
    <3>3. next = WriteRange(ranges[k], flag)
      BY <2>1 DEF next
    <3> QED BY <1>5, <3>1, <3>2, <3>3 DEF HoldsRange
  <2>2. CASE k # n + 1
    <3>1. k \in 1 .. n /\ k \in 1 .. Len(ranges)
      BY <1>1, <2>2
    <3>2. PICK front \in Seq(Octet), back \in Seq(Octet) :
            /\ Len(front) = (k - 1) * width
            /\ octets = (front \o WriteRange(ranges[k], flag)) \o back
      BY <3>1 DEF HoldsRanges, HoldsRange
    <3> DEFINE range == WriteRange(ranges[k], flag)
               start == front \o range
    <3>3. range \in Seq(Octet)
      BY <1>2, <3>1, WriteRangeType
    <3> HIDE DEF range
    <3>4. start \in Seq(Octet) /\ back \o next \in Seq(Octet)
      BY <1>4, <3>3, ConcatProperties
    <3>5. octets = start \o back
      BY <3>2 DEF range
    <3> HIDE DEF start
    <3>6. (start \o back) \o next = start \o (back \o next)
      BY ONLY <1>4, <3>4, back \in Seq(Octet), ConcatRegroups, SMTT(40)
    <3>7. more = start \o (back \o next)
      BY <3>5, <3>6
    <3> HIDE DEF more
    <3> QED BY <3>2, <3>4, <3>7 DEF HoldsRange, start, range
  <2> QED BY <2>1, <2>2
<1> HIDE DEF more, width
<1>9. Len(more) = (n + 1) * width
  BY <1>4, <1>5, <1>6, <1>7
<1> QED BY <1>6, <1>8, <1>9 DEF HoldsRanges, more, next, width

LEMMA WriteRangesHolds ==
  ASSUME NEW ranges \in Seq(Range64), NEW flag \in {0, 1}
  PROVE  HoldsRanges(WriteRanges(ranges, flag), ranges, Len(ranges), flag)
<1> DEFINE len == Len(ranges)
           none == << >>
           Step(s, k) == s \o WriteRange(ranges[k], flag)
           step == [x \in Seq(Octet) \X (1 .. len) |-> Step(x[1], x[2])]
           Turn(g) == [k \in 0 .. len |-> IF k = 0 THEN none ELSE Step(g[k - 1], k)]
           written == CHOOSE g : g = Turn(g)
<1>1. WriteRanges(ranges, flag) = written[len]
  BY DEF WriteRanges
<1>2. len \in Nat /\ none \in Seq(Octet) /\ Len(none) = 0
  BY LenProperties
<1>3. ASSUME NEW s \in Seq(Octet), NEW k \in 1 .. len PROVE Step(s, k) \in Seq(Octet)
  <2>1. ranges[k].start_offset \in UInt64 /\ ranges[k].end_offset \in UInt64
    BY RangeOffsets
  <2>2. WriteRange(ranges[k], flag) \in Seq(Octet)
    BY <2>1, WriteRangeType
  <2> QED BY <2>2, ConcatProperties
<1>4. \A s : \A k \in 1 .. len : Step(s, k) = s \o WriteRange(ranges[k], flag)
  OBVIOUS
<1> HIDE DEF Step, none, len
<1>5. step \in [Seq(Octet) \X (1 .. len) -> Seq(Octet)]
  BY <1>3
<1>6. PICK f \in [0 .. len -> Seq(Octet)] : Accumulates(len, none, step, f)
  <2> HIDE DEF step
  <2> QED BY ONLY <1>2, <1>5, Recursion
<1>7. f = Turn(f)
  <2>1. ASSUME NEW k \in 0 .. len PROVE f[k] = IF k = 0 THEN none ELSE Step(f[k - 1], k)
    <3>1. CASE k = 0
      BY <1>6, <3>1 DEF Accumulates
    <3>2. CASE k # 0
      <4>1. k \in 1 .. len /\ k - 1 \in 0 .. len
        BY <1>2, <3>2
      <4>2. f[k] = step[<<f[k - 1], k>>] /\ <<f[k - 1], k>> \in Seq(Octet) \X (1 .. len)
        BY <1>6, <4>1 DEF Accumulates
      <4> QED BY <3>2, <4>2
    <3> QED BY <3>1, <3>2
  <2>2. f = [k \in 0 .. len |-> f[k]]
    BY <1>6
  <2> QED BY <2>1, <2>2
<1>8. written = Turn(written)
  <2> HIDE DEF Turn
  <2> QED BY <1>7
<1> HIDE DEF written
<1>9. \A k \in 0 .. len : written[k] = IF k = 0 THEN none ELSE Step(written[k - 1], k)
  BY <1>8
<1> DEFINE T == {k \in 0 .. len : HoldsRanges(written[k], ranges, k, flag)}
<1>10. 0 \in T
  <2>1. written[0] = none /\ 0 \in 0 .. len
    BY <1>2, <1>9
  <2>2. Len(none) = 0 * Pair(flag)
    BY <1>2, Widths
  <2>3. HoldsRanges(none, ranges, 0, flag)
    <3>1. \A k \in 1 .. 0 : HoldsRange(none, ranges[k], flag, (k - 1) * Pair(flag))
      <4>1. 1 .. 0 = {}
        OBVIOUS
      <4> QED BY <4>1
    <3> QED BY <1>2, <2>2, <3>1 DEF HoldsRanges
  <2> QED BY <2>1, <2>3
<1>11. ASSUME NEW k \in 0 .. len, k \in T, k < len
       PROVE  k + 1 \in T
  <2>1. /\ k + 1 \in 0 .. len /\ k + 1 \in 1 .. len /\ k + 1 # 0 /\ (k + 1) - 1 = k
        /\ k \in Nat /\ k + 1 <= Len(ranges)
    BY <1>2, <1>11 DEF len
  <2>2. written[k + 1] = written[k] \o WriteRange(ranges[k + 1], flag)
    BY <1>4, <1>9, <2>1
  <2>3. HoldsRanges(written[k], ranges, k, flag)
    BY <1>11
  <2>4. HoldsRanges(written[k] \o WriteRange(ranges[k + 1], flag), ranges, k + 1, flag)
    BY ONLY <2>1, <2>3, ranges \in Seq(Range64), flag \in {0, 1}, HoldsOneMore
  <2> QED BY <2>1, <2>2, <2>4
<1>12. 0 .. len \subseteq T
  <2> HIDE DEF T
  <2> QED BY <1>2, <1>10, <1>11, BoundedInduction
<1>13. len \in 0 .. len
  BY <1>2
<1>14. HoldsRanges(written[len], ranges, len, flag)
  BY <1>12, <1>13
<1> QED BY <1>1, <1>14 DEF len

(* What is behind octets that are put in front of a range.                 *)
LEMMA RangeBehind ==
  ASSUME NEW lead \in Seq(Octet), NEW octets, NEW range, NEW flag \in {0, 1},
         range.start_offset \in UInt64, range.end_offset \in UInt64,
         NEW from \in Nat, HoldsRange(octets, range, flag, from)
  PROVE  ReadRange(lead \o octets, flag, Len(lead) + from) = RangeOnWire(range, flag)
<1>1. PICK front \in Seq(Octet), back \in Seq(Octet) :
        Len(front) = from /\ octets = (front \o WriteRange(range, flag)) \o back
  BY DEF HoldsRange
<1> DEFINE wire == WriteRange(range, flag)
           start == front \o wire
           before == lead \o front
<1>2. wire \in Seq(Octet)
  BY WriteRangeType
<1> HIDE DEF wire
<1>3. before \in Seq(Octet) /\ Len(before) = Len(lead) + Len(front) /\ start \in Seq(Octet)
  BY <1>2, ConcatProperties
<1>4. lead \o (start \o back) = (lead \o start) \o back
  <2> HIDE DEF start
  <2> QED BY ONLY <1>3, lead \in Seq(Octet), back \in Seq(Octet), ConcatRegroups, SMTT(40)
<1>5. lead \o (front \o wire) = (lead \o front) \o wire
  BY ONLY <1>2, lead \in Seq(Octet), front \in Seq(Octet), ConcatRegroups, ZenonT(60)
<1>6. lead \o octets = (before \o WriteRange(range, flag)) \o back
  BY <1>1, <1>4, <1>5 DEF wire
<1>7. Len(lead) + from = Len(before)
  BY <1>1, <1>3
<1> HIDE DEF before
<1>8. HoldsRange(lead \o octets, range, flag, Len(lead) + from)
  BY <1>3, <1>6, <1>7 DEF HoldsRange
<1> QED BY <1>8, RangeRoundTrip

(* The data field a peer encodes, part by part.                            *)
LEMMA NakParts ==
  ASSUME NEW src \in NakToSend, NEW flag \in {0, 1}, NEW room \in Nat,
         NEW f, f = NakSerialize(src, flag, room), f # << >>
  PROVE  LET requests == src.segment_requests
         IN /\ Len(requests) \in 0 .. MaxRequests
            /\ f \in Seq(Octet)
            /\ Len(f) = ScopeLen(flag) + Len(requests) * Pair(flag)
            /\ At(f, 0) = CFDP_DIRECTIVE_NAK
            /\ ReadRange(f, flag, 1)
                 = RangeOnWire([start_offset |-> src.start_of_scope,
                                end_offset |-> src.end_of_scope], flag)
            /\ \A k \in 1 .. Len(requests) :
                 ReadRange(f, flag, ScopeLen(flag) + (k - 1) * Pair(flag))
                   = RangeOnWire(requests[k], flag)
<1> DEFINE requests == src.segment_requests
           count == Len(requests)
           width == Pair(flag)
           scope == [start_offset |-> src.start_of_scope,
                     end_offset |-> src.end_of_scope]
           code == <<CFDP_DIRECTIVE_NAK>>
           wire == WriteRange(scope, flag)
           lead == code \o wire
           ranges == WriteRanges(requests, flag)
<1>1. /\ flag \in {0, 1} /\ requests \in Seq(Range64)
      /\ scope.start_offset \in UInt64 /\ scope.end_offset \in UInt64
  BY DEF NakToSend
<1>2. ~ (count > MaxRequests) /\ f = (code \o wire) \o ranges
  BY DEF NakSerialize
<1>3. count \in 0 .. MaxRequests
  BY <1>1, <1>2, LenProperties, MaxRequestsAssumption
<1>4. code \in Seq(Octet) /\ Len(code) = 1 /\ code[1] = CFDP_DIRECTIVE_NAK
  BY DEF CFDP_DIRECTIVE_NAK, Octet
<1>5. width \in {8, 16} /\ ScopeLen(flag) = 1 + width
  BY <1>1, Widths
<1>6. wire \in Seq(Octet) /\ Len(wire) = width
  <2> HIDE DEF scope
  <2> QED BY <1>1, WriteRangeType
<1>7. HoldsRanges(ranges, requests, count, flag)
  <2> HIDE DEF requests
  <2> QED BY <1>1, WriteRangesHolds
<1>8. ranges \in Seq(Octet) /\ Len(ranges) = count * width
  <2> HIDE DEF ranges
  <2> QED BY <1>7 DEF HoldsRanges
<1>9. /\ lead \in Seq(Octet) /\ Len(lead) = Len(code) + Len(wire)
  <2> HIDE DEF code, wire
  <2> QED BY <1>4, <1>6, ConcatProperties
<1>10. Len(lead) = ScopeLen(flag)
  <2> HIDE DEF lead, width, wire, code
  <2> QED BY <1>4, <1>5, <1>6, <1>9
<1>11. f \in Seq(Octet) /\ Len(f) = Len(lead) + Len(ranges)
  <2>1. f = lead \o ranges
    BY <1>2
  <2> HIDE DEF lead, ranges
  <2> QED BY <1>8, <1>9, <2>1, ConcatProperties
<1>12. At(f, 0) = CFDP_DIRECTIVE_NAK
  <2> DEFINE rest == wire \o ranges
  <2> HIDE DEF code, wire, ranges
  <2>1. (code \o wire) \o ranges = code \o (wire \o ranges)
    BY ONLY <1>4, <1>6, <1>8, ConcatRegroups
  <2>2. rest \in Seq(Octet)
    BY <1>6, <1>8, ConcatProperties
  <2>3. f = code \o rest
    BY <1>2, <2>1
  <2> HIDE DEF rest
  <2>4. f[1] = code[1]
    <3>1. 1 \in 1 .. Len(code) + Len(rest) /\ 1 <= Len(code)
      BY <1>4, <2>2, LenProperties
    <3> HIDE DEF code
    <3>2. (code \o rest)[1] = IF 1 <= Len(code) THEN code[1] ELSE rest[1 - Len(code)]
      BY ONLY <1>4, <2>2, <3>1, ConcatProperties
    <3> QED BY <2>3, <3>1, <3>2
  <2> QED BY <1>4, <2>4 DEF At
<1>13. ReadRange(f, flag, 1) = RangeOnWire(scope, flag)
  <2> HIDE DEF code, wire, ranges, scope
  <2>1. f = (code \o WriteRange(scope, flag)) \o ranges
    BY <1>2 DEF wire
  <2>2. HoldsRange(f, scope, flag, 1)
    BY <1>4, <1>8, <2>1 DEF HoldsRange
  <2> QED BY <1>1, <2>2, RangeRoundTrip
<1>14. ASSUME NEW k \in 1 .. count
       PROVE  ReadRange(f, flag, ScopeLen(flag) + (k - 1) * width) = RangeOnWire(requests[k], flag)
  <2> DEFINE from == (k - 1) * width
  <2>1. k - 1 \in Nat /\ width \in Nat /\ k \in 1 .. Len(requests)
    BY <1>3, <1>5, <1>14, MaxRequestsAssumption
  <2>2. from \in Nat
    <3> HIDE DEF width
    <3> QED BY <2>1
  <2>3. requests[k].start_offset \in UInt64 /\ requests[k].end_offset \in UInt64
    <3> HIDE DEF requests
    <3> QED BY <1>1, <2>1, RangeOffsets
  <2>4. HoldsRange(ranges, requests[k], flag, from)
    <3> HIDE DEF ranges, requests
    <3> QED BY <1>7, <1>14 DEF HoldsRanges
  <2>5. f = lead \o ranges
    BY <1>2
  <2> HIDE DEF from, lead, ranges, requests
  <2> DEFINE asked == requests[k]
  <2>6. /\ lead \in Seq(Octet) /\ flag \in {0, 1}
        /\ asked.start_offset \in UInt64 /\ asked.end_offset \in UInt64
        /\ HoldsRange(ranges, asked, flag, from)
    BY <1>1, <1>9, <2>3, <2>4
  <2> HIDE DEF asked
  <2>7. ReadRange(lead \o ranges, flag, Len(lead) + from) = RangeOnWire(asked, flag)
    BY ONLY <2>2, <2>6, RangeBehind
  <2> QED BY <1>10, <2>5, <2>7 DEF from, asked
<1>15. Len(f) = ScopeLen(flag) + count * width
  <2> HIDE DEF lead, ranges, count, width
  <2> QED BY <1>8, <1>10, <1>11
<1> QED BY <1>3, <1>11, <1>12, <1>13, <1>14, <1>15

-----------------------------------------------------------------------------
(* LVs and the Metadata PDU                                                *)

(* A name and its length octet, whatever follows them.                     *)
LvReadAs(lv, buf, value, len) ==
  /\ lv \in Seq(Octet) /\ Len(lv) = len + 1
  /\ LvDeserialize(buf) = [ret |-> len + 1, value |-> Told(value, len), len |-> len]

(* cfdp_lv_serialize, then cfdp_lv_deserialize of the octets and whatever  *)
(* follows them.                                                           *)
LEMMA LvReadBack ==
  ASSUME NEW value \in Pointer, NEW len \in Octet, PointsTo(value, len), NEW n,
         LvSerialize(value, len, n) # << >>, NEW back \in Seq(Octet)
  PROVE  LvReadAs(LvSerialize(value, len, n), LvSerialize(value, len, n) \o back, value, len)
<1> DEFINE lv == LvSerialize(value, len, n)
           head == <<len>>
           octets == Copied(value, len)
           buf == lv \o back
<1>1. lv = head \o octets /\ ~ (value = Null /\ len > 0)
  BY DEF LvSerialize
<1>2. len \in Nat
  BY OctetIsNat
<1>3. octets \in Seq(Octet) /\ Len(octets) = len
  <2>1. value # Null \/ len = 0
    BY <1>1, <1>2
  <2> QED BY <1>2, <2>1, CopiedType
<1>4. head \in Seq(Octet) /\ Len(head) = 1 /\ At(head, 0) = len
  BY DEF At
<1> HIDE DEF head, octets, lv
<1>5. Joined(lv, head, octets)
  BY <1>1, <1>3, <1>4, Join
<1>6. lv \in Seq(Octet) /\ Len(lv) = 1 + len
  BY <1>3, <1>4, <1>5 DEF Joined
<1>7. Joined(buf, lv, back)
  BY <1>6, Join
<1>8. buf \in Seq(Octet) /\ Len(buf) \in Nat /\ Len(buf) >= 1 + len
  <2>1. Len(back) \in Nat /\ Len(buf) = Len(lv) + Len(back) /\ buf \in Seq(Octet)
    BY <1>7, LenProperties DEF Joined
  <2> QED BY <1>2, <1>6, <2>1
<1>9. At(buf, 0) = len
  <2>1. 0 \in Nat /\ 0 < Len(head) /\ 0 < Len(lv)
    BY <1>2, <1>4, <1>6
  <2>2. At(lv, 0) = At(head, 0)
    BY <1>5, <2>1 DEF Joined
  <2>3. At(buf, 0) = At(lv, 0)
    BY <1>7, <2>1 DEF Joined
  <2> QED BY <1>4, <2>2, <2>3
<1>10. Slice(buf, 1, len + 1) = octets
  <2>1. buf = (head \o octets) \o back
    BY <1>1
  <2>2. Slice((head \o octets) \o back, Len(head), Len(head) + Len(octets)) = octets
    BY <1>3, <1>4, SliceOfConcat
  <2>3. 1 + len = len + 1
    BY <1>2
  <2> QED BY <1>3, <1>4, <2>1, <2>2, <2>3
<1> HIDE DEF buf
<1>11. IF len > 0 THEN PointerTo(octets) = Told(value, len) ELSE Null = Told(value, len)
  BY <1>1, <1>2 DEF Told, octets
<1>12. LvDeserialize(buf) = [ret |-> len + 1, value |-> Told(value, len), len |-> len]
  <2>1. ~ (Len(buf) < 1) /\ ~ (Len(buf) < len + 1)
    BY <1>2, <1>8
  <2> QED BY <1>9, <1>10, <1>11, <2>1 DEF LvDeserialize, CFDP_LV_HEADER_LEN
<1>13. LvReadAs(lv, buf, value, len)
  <2>1. Len(lv) = len + 1
    BY <1>2, <1>6
  <2> QED BY <1>6, <1>12, <2>1 DEF LvReadAs
<1> QED BY <1>13 DEF lv, buf

(* What arrives of the octets behind a pointer is a pointer.               *)
LEMMA ToldType ==
  ASSUME NEW value \in Pointer, NEW len \in Nat, PointsTo(value, len)
  PROVE  Told(value, len) \in Pointer
<1>1. CASE value = Null \/ len = 0
  BY <1>1 DEF Told, Pointer, Null
<1>2. CASE value # Null /\ len # 0
  <2>1. Copied(value, len) \in Seq(Octet)
    BY <1>2, CopiedType
  <2> QED BY <1>2, <2>1, PointerToType DEF Told
<1> QED BY <1>1, <1>2

(* Named, so that a proof can cite it without the fields.                  *)
ClearMetadataIsMetadata == ClearMetadata \in Metadata

(* The Metadata structure a caller has cleared.                            *)
LEMMA ClearMetadataType == ClearMetadataIsMetadata
<1>1. Zeros(8) \in UInt64
  BY DEF Zeros, UInt64, Octet
<1>2. Null \in Pointer /\ 0 \in Octet
  BY DEF Null, Pointer, Octet
<1> HIDE DEF Null
<1> QED BY <1>1, <1>2 DEF ClearMetadata, Metadata, ClearMetadataIsMetadata

(* Two Metadata structures with the same fields are the same.              *)
LEMMA MetadataEqual ==
  ASSUME NEW one \in Metadata, NEW other \in Metadata,
         one.closure_requested = other.closure_requested,
         one.checksum_type = other.checksum_type, one.file_size = other.file_size,
         one.source_filename = other.source_filename,
         one.source_filename_len = other.source_filename_len,
         one.destination_filename = other.destination_filename,
         one.destination_filename_len = other.destination_filename_len,
         one.options = other.options, one.options_len = other.options_len
  PROVE  one = other
BY DEF Metadata

(* What a Metadata PDU is told to be.                                      *)
MetadataTold(src, flag) ==
  [src EXCEPT
     !.file_size = Truncated(@, FileSizeOctets(flag)),
     !.source_filename = Told(@, src.source_filename_len),
     !.destination_filename = Told(@, src.destination_filename_len),
     !.options = Told(@, src.options_len)]

(* cfdp_metadata_serialize, then cfdp_metadata_deserialize: the names are  *)
(* found behind each other, and the options behind them.                   *)
LEMMA MetadataReadBack ==
  ASSUME NEW src \in Metadata, NEW flag \in {0, 1}, NEW octets,
         PointsTo(src.source_filename, src.source_filename_len),
         PointsTo(src.destination_filename, src.destination_filename_len),
         PointsTo(src.options, src.options_len),
         octets = MetadataSerialize(src, flag, SpanModulus), octets # << >>
  PROVE  ReadBack(MetadataDeserialize(octets, flag, ClearMetadata), octets,
                  MetadataTold(src, flag))
<1> DEFINE n == SpanModulus
           width == FileSizeOctets(flag)
           o1 == (IF src.closure_requested THEN 64 ELSE 0) + src.checksum_type
           head == <<CFDP_DIRECTIVE_METADATA, o1>>
           number == WriteUint(src.file_size, width)
           slen == src.source_filename_len
           dlen == src.destination_filename_len
           olen == src.options_len
           source == LvSerialize(src.source_filename, slen, n)
           destination == LvSerialize(src.destination_filename, dlen, n)
           options == Copied(src.options, olen)
           names == width + 2
<1>1. /\ octets = head \o number \o source \o destination \o options
      /\ source # << >> /\ destination # << >>
      /\ ~ (src.options = Null /\ olen > 0)
      /\ ~ (n < width + slen + dlen + olen + 4)
  BY DEF MetadataSerialize
<1>2. /\ src.file_size \in UInt64 /\ slen \in Octet /\ dlen \in Octet /\ olen \in Nat
      /\ src.source_filename \in Pointer /\ src.destination_filename \in Pointer
      /\ src.options \in Pointer /\ src.checksum_type \in 0 .. 15
      /\ src.closure_requested \in BOOLEAN /\ slen \in Nat /\ dlen \in Nat
  BY OctetIsNat DEF Metadata
<1>3. /\ width \in 1 .. 8 /\ number \in Seq(Octet) /\ Len(number) = width
      /\ ReadUint(number) = Truncated(src.file_size, width) /\ ReadUint(number) \in UInt64
  <2>1. width \in 1 .. 8 /\ number \in Seq(Octet) /\ Len(number) = width
    BY <1>2, FileSizeWidth, WriteUintType
  <2>2. Len(number) <= 8
    BY <2>1
  <2> QED BY <2>1, <2>2, ReadUintType DEF Truncated
<1>4. /\ head \in Seq(Octet) /\ Len(head) = 2 /\ At(head, 0) = CFDP_DIRECTIVE_METADATA
      /\ At(head, 1) = o1 /\ o1 % 16 = src.checksum_type
      /\ ((o1 \div 64) % 2 # 0) = src.closure_requested
  <2> DEFINE checksum == src.checksum_type
             closure == src.closure_requested
  <2>2. checksum \in 0 .. 15 /\ closure \in BOOLEAN
    BY <1>2
  <2>1. o1 = IF closure THEN 64 + checksum ELSE checksum
    <3> HIDE DEF checksum, closure
    <3>1. (IF closure THEN 64 ELSE 0) + checksum = IF closure THEN 64 + checksum ELSE checksum
      BY <2>2
    <3> QED BY <3>1 DEF checksum, closure
  <2> HIDE DEF checksum, closure, o1
  <2>3. o1 \in Octet /\ o1 % 16 = checksum
    <3>1. CASE closure
      BY <2>1, <2>2, <3>1 DEF Octet
    <3>2. CASE ~ closure
      BY <2>1, <2>2, <3>2 DEF Octet
    <3> QED BY <3>1, <3>2
  <2>4. ((o1 \div 64) % 2 # 0) <=> closure
    <3>1. CASE closure
      <4>1. o1 \div 64 = 1
        BY <2>1, <2>2, <3>1
      <4> QED BY <3>1, <4>1
    <3>2. CASE ~ closure
      <4>1. o1 \div 64 = 0
        BY <2>1, <2>2, <3>2
      <4> QED BY <3>2, <4>1
    <3> QED BY <3>1, <3>2
  <2>6. ((o1 \div 64) % 2 # 0) = closure
    BY <2>2, <2>4
  <2>7. head \in Seq(Octet) /\ Len(head) = 2 /\ At(head, 0) = CFDP_DIRECTIVE_METADATA
        /\ At(head, 1) = o1
    BY <2>3 DEF Octet, CFDP_DIRECTIVE_METADATA, At
  <2> QED BY <2>3, <2>6, <2>7 DEF checksum, closure
<1>5. options \in Seq(Octet) /\ Len(options) = olen
  <2>1. src.options # Null \/ olen = 0
    BY <1>1, <1>2
  <2> QED BY <1>2, <2>1, CopiedType
<1> DEFINE rest == destination \o options
           tail == source \o rest
<1>6. LvReadAs(destination, rest, src.destination_filename, dlen)
  <2> HIDE DEF options
  <2> QED BY <1>1, <1>2, <1>5, LvReadBack
<1> HIDE DEF head, number, options, destination
<1>7. Joined(rest, destination, options)
  BY <1>5, <1>6, Join DEF LvReadAs
<1>8. rest \in Seq(Octet)
  BY <1>7 DEF Joined
<1> HIDE DEF rest
<1>9. LvReadAs(source, tail, src.source_filename, slen)
  BY <1>1, <1>2, <1>8, LvReadBack
<1> HIDE DEF source
<1>10. Joined(tail, source, rest)
  BY <1>8, <1>9, Join DEF LvReadAs
<1>11. tail \in Seq(Octet)
  BY <1>10 DEF Joined
<1> HIDE DEF tail
<1> DEFINE fixed == head \o number
<1>12. Joined(fixed, head, number)
  BY <1>3, <1>4, Join
<1>13. fixed \in Seq(Octet) /\ Len(fixed) = names
  <2>1. 2 + width = names
    BY <1>3
  <2> QED BY <1>3, <1>4, <1>12, <2>1 DEF Joined
<1> HIDE DEF fixed
<1> DEFINE front == fixed \o source
<1>14. front \in Seq(Octet) /\ Len(front) = names + (slen + 1)
  <2>1. source \in Seq(Octet) /\ Len(source) = slen + 1
    BY <1>9 DEF LvReadAs
  <2>2. fixed \in Seq(Octet) /\ Len(fixed) = names
    BY <1>13
  <2> HIDE DEF slen, names
  <2>3. front \in Seq(Octet) /\ Len(front) = Len(fixed) + Len(source)
    BY ONLY <2>1, <2>2, ConcatProperties DEF front
  <2> QED BY <2>1, <2>2, <2>3
<1> HIDE DEF front
<1> DEFINE named == front \o destination
<1>15. named \in Seq(Octet) /\ Len(named) = names + (slen + 1) + (dlen + 1)
  <2>1. destination \in Seq(Octet) /\ Len(destination) = dlen + 1
    BY <1>6 DEF LvReadAs
  <2> HIDE DEF slen, dlen, names
  <2> QED BY <1>14, <2>1, ConcatProperties
<1> HIDE DEF named
<1>16. /\ octets = named \o options /\ octets = front \o rest /\ octets = fixed \o tail
  <2>1. octets = named \o options
    BY <1>1 DEF named, front, fixed
  <2>2. named \o options = front \o rest
    BY <1>5, <1>6, <1>14, ConcatRegroups DEF named, rest, LvReadAs
  <2>3. front \o rest = fixed \o tail
    BY <1>8, <1>9, <1>13, ConcatRegroups DEF front, tail, LvReadAs
  <2> QED BY <2>1, <2>2, <2>3
<1>17. Joined(octets, named, options) /\ Joined(octets, front, rest) /\ Joined(octets, fixed, tail)
  BY <1>5, <1>8, <1>11, <1>13, <1>14, <1>15, <1>16, Join
<1> DEFINE size == Len(octets)
           pos == names + (slen + 1) + (dlen + 1)
<1>18. /\ octets \in Seq(Octet) /\ size = pos + olen /\ size \in Nat /\ size > 0
       /\ pos \in Nat /\ names \in Nat /\ 2 <= names /\ names <= size /\ pos >= 4
       /\ size <= n /\ n \in Nat
  <2>1. octets \in Seq(Octet) /\ size = pos + olen
    BY <1>5, <1>15, <1>17 DEF Joined
  <2>2. n \in Nat /\ names \in Nat /\ pos \in Nat /\ 2 <= names /\ names <= pos /\ pos >= 4
    <3>1. n \in Nat
      BY SpanAssumption
    <3> HIDE DEF width, slen, dlen, n
    <3> QED BY <1>2, <1>3, <3>1
  <2>3. pos + olen <= n
    <3> HIDE DEF width, slen, dlen, olen, n
    <3> QED BY <1>1, <1>2, <1>3, <2>2
  <2> HIDE DEF n, names, pos, size
  <2> QED BY <1>2, <2>1, <2>2, <2>3
<1>19. /\ Slice(octets, names, size) = tail /\ Slice(octets, names + (slen + 1), size) = rest
       /\ Slice(octets, pos, size) = options
  BY <1>13, <1>14, <1>15, <1>17 DEF Joined
<1>20. /\ At(octets, 0) = CFDP_DIRECTIVE_METADATA /\ At(octets, 1) = o1
       /\ Slice(octets, 2, 2 + width) = number
  <2>1. 0 \in Nat /\ 1 \in Nat /\ 0 < 2 /\ 1 < 2 /\ 0 < names /\ 1 < names /\ 2 + width = names
    BY <1>3
  <2>2. At(fixed, 0) = At(head, 0) /\ At(fixed, 1) = At(head, 1)
    BY <1>4, <1>12, <2>1 DEF Joined
  <2>3. At(octets, 0) = At(fixed, 0) /\ At(octets, 1) = At(fixed, 1)
    BY <1>13, <1>17, <2>1 DEF Joined
  <2>4. octets = (head \o number) \o tail
    BY <1>16 DEF fixed
  <2>5. Slice((head \o number) \o tail, Len(head), Len(head) + Len(number)) = number
    BY <1>3, <1>4, <1>11, SliceOfConcat
  <2> QED BY <1>3, <1>4, <2>2, <2>3, <2>4, <2>5
<1>21. /\ LvDeserialize(tail).ret = slen + 1 /\ slen + 1 # 0
       /\ LvDeserialize(tail).value = Told(src.source_filename, slen)
       /\ LvDeserialize(tail).len = slen
  BY <1>2, <1>9 DEF LvReadAs
<1>22. /\ LvDeserialize(rest).ret = dlen + 1 /\ dlen + 1 # 0
       /\ LvDeserialize(rest).value = Told(src.destination_filename, dlen)
       /\ LvDeserialize(rest).len = dlen
  BY <1>2, <1>6 DEF LvReadAs
<1> DEFINE closed == [ClearMetadata EXCEPT !.closure_requested = src.closure_requested,
                                           !.checksum_type = src.checksum_type,
                                           !.file_size = ReadUint(number)]
           where == Told(src.source_filename, slen)
           whither == Told(src.destination_filename, dlen)
           more == IF size > pos THEN PointerTo(options) ELSE Null
           sourced == [closed EXCEPT !.source_filename = where, !.source_filename_len = slen]
           read == [sourced EXCEPT !.destination_filename = whither,
                                   !.destination_filename_len = dlen,
                                   !.options = more, !.options_len = (size - pos) % SpanModulus]
<1>23. MetadataFixed(octets, flag, ClearMetadata) = closed
  BY <1>4, <1>20 DEF MetadataFixed
<1>24. MetadataDeserialize(octets, flag, ClearMetadata) = [ret |-> size, pdu |-> read]
  <2> DEFINE first == LvDeserialize(Slice(octets, names, size))
             second == LvDeserialize(Slice(octets, names + first.ret, size))
             at == names + first.ret + second.ret
             fixed_ == MetadataFixed(octets, flag, ClearMetadata)
             sourced_ == [fixed_ EXCEPT !.source_filename = first.value,
                                        !.source_filename_len = first.len]
  <2>1. ~ (size < names)
    BY <1>18
  <2>2. first.ret = slen + 1 /\ first.value = where /\ first.len = slen
    BY <1>19, <1>21
  <2>3. second.ret = dlen + 1 /\ second.value = whither /\ second.len = dlen
    BY <1>19, <1>22, <2>2
  <2>4. at = pos /\ first.ret # 0 /\ second.ret # 0
    BY <1>21, <1>22, <2>2, <2>3
  <2>5. sourced_ = sourced
    BY <1>23, <2>2
  <2>6. MetadataDeserialize(octets, flag, ClearMetadata)
          = IF size < names \/ At(octets, 0) # CFDP_DIRECTIVE_METADATA
            THEN [ret |-> 0, pdu |-> ClearMetadata]
            ELSE IF first.ret = 0 THEN [ret |-> 0, pdu |-> fixed_]
            ELSE IF second.ret = 0 THEN [ret |-> 0, pdu |-> sourced_]
            ELSE [ret |-> size,
                  pdu |-> [sourced_ EXCEPT
                    !.destination_filename = second.value,
                    !.destination_filename_len = second.len,
                    !.options = IF size > at THEN PointerTo(Slice(octets, at, size)) ELSE Null,
                    !.options_len = (size - at) % SpanModulus]]
    BY DEF MetadataDeserialize
  <2> HIDE DEF first, second, at, fixed_, sourced_, sourced, pos, names, size
  <2> QED BY <1>19, <1>20, <2>1, <2>3, <2>4, <2>5, <2>6 DEF read, more
<1>25. (size - pos) % SpanModulus = olen /\ more = Told(src.options, olen)
  <2>1. size - pos = olen /\ olen < n /\ n * 0 + olen = olen /\ 0 \in Int /\ olen \in Int
        /\ 0 <= olen
    <3> HIDE DEF size, pos, n, olen
    <3> QED BY <1>2, <1>18
  <2>2. (n * 0 + olen) % n = olen
    <3> HIDE DEF n, olen
    <3> QED BY <1>18, <2>1, RemainderIs
  <2>3. size > pos <=> olen > 0
    <3> HIDE DEF size, pos, olen
    <3> QED BY <1>2, <1>18
  <2>4. more = Told(src.options, olen)
    BY <1>1, <1>2, <2>3 DEF Told, options
  <2> QED BY <2>1, <2>2, <2>4
<1> DEFINE told == MetadataTold(src, flag)
           told_options == Told(src.options, olen)
<1>26. where \in Pointer /\ whither \in Pointer /\ told_options \in Pointer
  BY <1>2, ToldType
<1>27. told = [src EXCEPT !.file_size = ReadUint(number), !.source_filename = where,
                          !.destination_filename = whither, !.options = told_options]
  BY <1>3 DEF MetadataTold, Metadata
<1> HIDE DEF told, where, whither, told_options
<1>28. /\ told \in Metadata
       /\ told.closure_requested = src.closure_requested
       /\ told.checksum_type = src.checksum_type /\ told.file_size = ReadUint(number)
       /\ told.source_filename = where /\ told.source_filename_len = slen
       /\ told.destination_filename = whither /\ told.destination_filename_len = dlen
       /\ told.options = told_options /\ told.options_len = olen
  BY <1>3, <1>26, <1>27 DEF Metadata
<1>29. read = [sourced EXCEPT !.destination_filename = whither,
                              !.destination_filename_len = dlen,
                              !.options = told_options, !.options_len = olen]
  BY <1>25 DEF whither, told_options
<1>30. sourced = [closed EXCEPT !.source_filename = where, !.source_filename_len = slen]
  BY DEF where
<1> HIDE DEF read, sourced, more
<1>31. /\ closed \in Metadata
       /\ closed.closure_requested = src.closure_requested
       /\ closed.checksum_type = src.checksum_type /\ closed.file_size = ReadUint(number)
  BY <1>2, <1>3, ClearMetadataType DEF Metadata, ClearMetadataIsMetadata
<1> HIDE DEF closed
<1>32. /\ read \in Metadata
       /\ read.closure_requested = src.closure_requested
       /\ read.checksum_type = src.checksum_type /\ read.file_size = ReadUint(number)
       /\ read.source_filename = where /\ read.source_filename_len = slen
       /\ read.destination_filename = whither /\ read.destination_filename_len = dlen
       /\ read.options = told_options /\ read.options_len = olen
  BY <1>2, <1>26, <1>29, <1>30, <1>31 DEF Metadata
<1>33. read = told
  BY <1>28, <1>32, MetadataEqual
<1> QED BY <1>18, <1>24, <1>33 DEF ReadBack, told
=============================================================================
